-------------------------- MODULE ValidationRunsProofs --------------------------
(***************************************************************************)
(* What holds of any number of validations with history, for any skills,   *)
(* rules, requests and edits.  The inductive invariant VInv has three      *)
(* parts.  TypeOK.  Where: what a process at each step has at hand.  PInv: *)
(* what it has found, recorded and labelled of the skills it is Behind.    *)
(* Nothing in PInv(r) is changed by another process but the store, which   *)
(* only grows (Frame, StoreGrows, OthersLast), so each action needs to be  *)
(* looked at for the process that takes it.                                *)
(***************************************************************************)
EXTENDS ValidationRuns, TLAPS

(* Where a process is: it knows its request, and which skill is next. *)
Where(r) ==
    /\ pc[r] = "idle" => request[r] = None
    /\ pc[r] \notin {"idle", "done"} => request[r] \in Requests
    /\ pc[r] \in {"idle", "validate"} => at[r] = 1 /\ r \notin spoilt
    /\ pc[r] \in {"label", "read", "record"} => at[r] \in DOMAIN request[r].paths
    /\ pc[r] \in {"read", "record"} => label[r][Here(r)] # None
    /\ status[r] # None => pc[r] = "done" /\ request[r] \in Requests
    /\ pc[r] = "report" \/ Finished(r) => at[r] = Len(request[r].paths) + 1

TInv == TypeOK /\ \A r \in Runs : Where(r)

LEMMA RequestType ==
    ASSUME NEW q \in Requests
    PROVE  /\ q \in Request /\ q.paths \in Seq(Skills) /\ Len(q.paths) \in Nat /\ Len(q.paths) >= 1
           /\ DOMAIN q.paths = 1 .. Len(q.paths)
           /\ \A i \in DOMAIN q.paths : q.paths[i] \in Skills
           /\ \A i, j \in DOMAIN q.paths : q.paths[i] = q.paths[j] => i = j
           /\ q.strict \in BOOLEAN /\ q.analyze \in BOOLEAN /\ q.failing \in BOOLEAN
           /\ q.ignore \subseteq Rules
           /\ q.critique \in (SUBSET Severity) \cup {Garbled} /\ q.graph \in (SUBSET Severity) \cup {Garbled}
<1>1. q \in Request /\ q.paths # <<>>
  BY RunAssumption
<1>2. q.paths \in Seq(Skills)
  BY <1>1 DEF Request
<1>3. Len(q.paths) \in Nat /\ DOMAIN q.paths = 1 .. Len(q.paths) /\ Len(q.paths) >= 1
  BY <1>1, <1>2
<1>4. \A i \in DOMAIN q.paths : q.paths[i] \in Skills
  BY <1>2
<1>5. \A i, j \in DOMAIN q.paths : q.paths[i] = q.paths[j] => i = j
  BY RunAssumption
<1>6. /\ q.strict \in BOOLEAN /\ q.analyze \in BOOLEAN /\ q.failing \in BOOLEAN
      /\ q.ignore \subseteq Rules
      /\ q.critique \in (SUBSET Severity) \cup {Garbled} /\ q.graph \in (SUBSET Severity) \cup {Garbled}
  BY <1>1 DEF Request
<1> QED
  BY <1>1, <1>2, <1>3, <1>4, <1>5, <1>6

(* The skill at hand is a skill. *)
LEMMA HereType ==
    ASSUME TInv, NEW r \in Runs, pc[r] \in {"label", "read", "record"}
    PROVE  /\ request[r] \in Requests /\ at[r] \in 1 .. Len(request[r].paths) /\ at[r] \in Nat
           /\ Here(r) \in Skills /\ Here(r) = request[r].paths[at[r]] /\ Here(r) \in Asked(r)
<1>1. request[r] \in Requests /\ at[r] \in DOMAIN request[r].paths
  BY DEF TInv, Where
<1> QED
  BY <1>1, RequestType DEF Here, Asked

(* What the rules, the graph and the agents find is no matter of history.  *)
LEMMA FindingsType ==
    ASSUME TInv, NEW r \in Runs, request[r] \in Requests, NEW s \in Skills
    PROVE  LET F == Symbolic(r, s) \cup Answer(r, "critique", "semantic", request[r].critique)
                                   \cup Answer(r, "graph", "graph", request[r].graph)
           IN  F \subseteq Diagnostic /\ \A d \in F : d[1] \notin History
<1>1. files[s] \in [text : Texts, part : Parts] /\ files[s].text \in Texts /\ files[s].part \in Parts
  BY DEF TInv, TypeOK
<1>2. /\ request[r].strict \in BOOLEAN
      /\ request[r].critique \in (SUBSET Severity) \cup {Garbled}
      /\ request[r].graph \in (SUBSET Severity) \cup {Garbled}
  BY RequestType
<1>3. /\ Found[files[s].text, files[s].part, request[r].strict] \subseteq {"symbolic"} \X Severity
      /\ Graph[files[s].text] \subseteq {"graph"} \X Severity
  BY <1>1, <1>2, RunAssumption
<1>4. \A d \in Symbolic(r, s) : d \in {"symbolic", "graph", "parse.error"} \X Severity
  <2>1. <<"parse.error", "error">> \in {"symbolic", "graph", "parse.error"} \X Severity
    BY DEF Severity
  <2> QED
    BY <1>3, <2>1 DEF Symbolic
<1>5. ASSUME NEW kind, NEW rule \in {"semantic", "graph"}, NEW response \in (SUBSET Severity) \cup {Garbled}
      PROVE  Answer(r, kind, rule, response) \subseteq {"semantic", "graph", "semantic.ingest"} \X Severity
  <2>1. <<"semantic.ingest", "error">> \in {"semantic", "graph", "semantic.ingest"} \X Severity
    BY DEF Severity
  <2>2. CASE response = Garbled \/ files[request[r].paths[1]].text \in Broken
    BY <2>1, <2>2 DEF Answer
  <2>3. CASE ~(response = Garbled \/ files[request[r].paths[1]].text \in Broken)
    <3>1. response \subseteq Severity
      BY <2>3
    <3> QED
      BY <2>3, <3>1 DEF Answer
  <2> QED
    BY <2>2, <2>3
<1>6. {"symbolic", "graph", "parse.error", "semantic", "semantic.ingest"} \X Severity \subseteq Diagnostic
  BY DEF Diagnostic, Rules, Semantic
<1>7. \A d \in {"symbolic", "graph", "parse.error", "semantic", "semantic.ingest"} \X Severity :
          d[1] \notin History
  BY DEF History
<1>8. \A d \in Symbolic(r, s) \cup Answer(r, "critique", "semantic", request[r].critique)
                              \cup Answer(r, "graph", "graph", request[r].graph) :
          d \in {"symbolic", "graph", "parse.error", "semantic", "semantic.ingest"} \X Severity
  BY <1>2, <1>4, <1>5
<1> QED
  BY <1>6, <1>7, <1>8

LEMMA CodeType == \A D, strict : Code(D, strict) \in {0, 1, 3}
BY DEF Code
LEMMA ExitType == \A r, D : ExitCode(r, D) \in {0, 1, 3}
BY CodeType DEF ExitCode

(* The label of a skill that was parsed. *)
LEMMA IdentityType ==
    ASSUME TInv, NEW r \in Runs, request[r] \in Requests, NEW s \in Skills, text[r][s] # None
    PROVE  Identity(r, s) \in Label /\ Identity(r, s) # None
<1>1. text[r][s] \in Texts /\ files[s].part \in Parts
  BY DEF TInv, TypeOK
<1>2. Inner(s) \subseteq (Runs \cup {Foreign}) \X Skills
  <2>1. \A o \in objects : o.run \in Runs /\ o.skill \in Skills
    BY DEF TInv, TypeOK, Object
  <2>2. damaged \subseteq Skills
    BY DEF TInv, TypeOK
  <2>3. ASSUME NEW x \in Inner(s) PROVE x \in (Runs \cup {Foreign}) \X Skills
    <3>1. CASE \E o \in objects : x = <<o.run, o.skill>>
      BY <2>1, <3>1
    <3>2. CASE \E t \in damaged : x = <<Foreign, t>>
      BY <2>2, <3>2
    <3> QED
      BY <2>3, <3>1, <3>2 DEF Inner
  <2> QED
    BY <2>3
<1>3. Chosen(r) \in Options
  BY RequestType DEF Chosen, Options
<1>4. Identity(r, s) \in Label
  BY <1>1, <1>2, <1>3 DEF Identity, Label, Bundle
<1> QED
  BY <1>4, RunAssumption

LEMMA ItemType ==
    ASSUME TInv, NEW r \in Runs, pc[r] = "record"
    PROVE  Item(r) \in Object /\ Item(r).run = r /\ Item(r).skill = Here(r)
<1>1. Here(r) \in Skills /\ label[r][Here(r)] # None
  BY HereType DEF TInv, Where
<1>2. label[r][Here(r)] \in Label
  BY <1>1 DEF TInv, TypeOK
<1>3. Valid(results[r][Here(r)]) \in BOOLEAN
  BY DEF Valid
<1> QED
  BY <1>1, <1>2, <1>3, ExitType DEF Item, Object

(* The bookkeeping of a process that goes on to its next skill. *)
LEMMA AdvanceType ==
    ASSUME TInv, NEW r \in Runs, pc[r] \in {"label", "record"}, Advance(r)
    PROVE  /\ at' \in [Runs -> Nat] /\ at'[r] = at[r] + 1
           /\ pc' \in [Runs -> {"idle", "validate", "label", "read", "record", "report", "done"}]
           /\ pc'[r] \in {"label", "report"}
           /\ pc'[r] = "label" => at'[r] \in DOMAIN request[r].paths
           /\ pc'[r] = "report" => at'[r] = Len(request[r].paths) + 1
<1>1. /\ request[r] \in Requests /\ at[r] \in 1 .. Len(request[r].paths)
      /\ Len(request[r].paths) \in Nat /\ DOMAIN request[r].paths = 1 .. Len(request[r].paths)
  BY HereType, RequestType
<1>2. at \in [Runs -> Nat] /\ pc \in [Runs -> {"idle", "validate", "label", "read", "record", "report", "done"}]
  BY DEF TInv, TypeOK
<1> QED
  BY <1>1, <1>2 DEF Advance, Goto

(* Findings are put in the place of those of the skill at hand, and nowhere else. *)
LEMMA MergeType ==
    ASSUME TInv, NEW r \in Runs, Here(r) \in Skills, NEW D \in SUBSET Diagnostic, Merge(r, D)
    PROVE  /\ results' \in [Runs -> [Skills -> SUBSET Diagnostic]]
           /\ results'[r][Here(r)] = D
           /\ \A s \in Skills : s # Here(r) => results'[r][s] = results[r][s]
<1>1. results \in [Runs -> [Skills -> SUBSET Diagnostic]]
  BY DEF TInv, TypeOK
<1> QED
  BY <1>1 DEF Merge

(* A step of a process leaves the others alone, and stores nothing but records of its own. *)
Same(q) == /\ pc'[q] = pc[q] /\ request'[q] = request[q] /\ at'[q] = at[q] /\ text'[q] = text[q]
           /\ results'[q] = results[q] /\ label'[q] = label[q] /\ status'[q] = status[q]
           /\ before'[q] = before[q] /\ (q \in spoilt' <=> q \in spoilt)

LEMMA Frame ==
    ASSUME TypeOK, NEW r \in Runs, Start(r) \/ Proceed(r) \/ Kill(r),
           NEW q \in Runs, q # r
    PROVE  Same(q)
<1>1. CASE Start(r)
  BY <1>1 DEF TypeOK, Same, Start, Goto, store
<1>2. CASE Kill(r)
  BY <1>2 DEF TypeOK, Same, Kill, Goto
<1>3. CASE RefuseBatch(r)
  BY <1>3 DEF TypeOK, Same, RefuseBatch, Exit, Goto, notes
<1>4. CASE Validate(r)
  BY <1>4 DEF TypeOK, Same, Validate, Goto, notes
<1>5. CASE PassOver(r)
  BY <1>5 DEF TypeOK, Same, PassOver, Advance, Goto, notes
<1>6. CASE Identify(r)
  BY <1>6 DEF TypeOK, Same, Identify, Goto, notes
<1>7. CASE IdentifyFails(r)
  BY <1>7 DEF TypeOK, Same, IdentifyFails, Merge, Advance, Goto, notes
<1>8. CASE ReadHistory(r)
  BY <1>8 DEF TypeOK, Same, ReadHistory, Merge, Goto
<1>9. CASE Publish(r)
  BY <1>9 DEF Same, Publish, local, notes
<1>10. CASE Recorded(r)
  BY <1>10 DEF TypeOK, Same, Recorded, Advance, Goto, notes
<1>11. CASE WriteFails(r)
  BY <1>11 DEF TypeOK, Same, WriteFails, Merge, Advance, Goto, notes
<1>12. CASE Report(r)
  BY <1>12 DEF TypeOK, Same, Report, Exit, Goto, notes
<1> QED
  BY <1>1, <1>2, <1>3, <1>4, <1>5, <1>6, <1>7, <1>8, <1>9, <1>10, <1>11, <1>12 DEF Proceed

LEMMA StoreGrows ==
    ASSUME NEW r \in Runs, Start(r) \/ Proceed(r) \/ Kill(r)
    PROVE  /\ objects \subseteq objects'
           /\ \A o \in objects' : \/ o \in objects
                                  \/ pc[r] = "record" /\ o = Item(r) /\ UNCHANGED <<pc, local, notes>>
<1>1. CASE Publish(r)
  <2>1. objects' = objects \cup {Item(r)} /\ pc[r] = "record" /\ UNCHANGED <<pc, local, notes>>
    BY <1>1 DEF Publish, Store!Publish
  <2> QED
    BY <2>1
<1>2. CASE ~Publish(r)
  <2>1. Recorded(r) => UNCHANGED objects
    BY DEF Recorded, Store!Acknowledge
  <2>2. Start(r) \/ Kill(r) => UNCHANGED objects
    BY DEF Start, Kill, store
  <2>3. RefuseBatch(r) \/ Validate(r) \/ PassOver(r) \/ Identify(r) => UNCHANGED objects
    BY DEF RefuseBatch, Validate, PassOver, Identify, store
  <2>4. IdentifyFails(r) \/ ReadHistory(r) \/ WriteFails(r) \/ Report(r) => UNCHANGED objects
    BY DEF IdentifyFails, ReadHistory, WriteFails, Report, store
  <2>5. UNCHANGED objects
    BY <1>2, <2>1, <2>2, <2>3, <2>4 DEF Proceed
  <2> QED
    BY <2>5
<1> QED
  BY <1>1, <1>2

(* The acting process, action by action. *)
LEMMA StartType ==
    ASSUME TInv, NEW r \in Runs, Start(r) PROVE TypeOK' /\ Where(r)'
<1>1. PICK q \in Requests : request' = [request EXCEPT ![r] = q]
  BY DEF Start
<1>2. TypeOK'
  BY <1>1 DEF TInv, TypeOK, Start, Goto, store
<1>3. /\ pc'[r] = "validate" /\ request'[r] \in Requests /\ at'[r] = 1 /\ r \notin spoilt'
      /\ status'[r] = None
  BY <1>1 DEF TInv, TypeOK, Where, Start, Goto
<1> QED
  BY <1>2, <1>3, RunAssumption DEF Where, Finished

LEMMA RefuseType ==
    ASSUME TInv, NEW r \in Runs, RefuseBatch(r) PROVE TypeOK' /\ Where(r)'
<1>1. TypeOK'
  BY DEF TInv, TypeOK, RefuseBatch, Exit, Goto, store, notes
<1>2. pc'[r] = "done" /\ status'[r] = 2 /\ request'[r] = request[r] /\ request[r] \in Requests
  BY DEF TInv, TypeOK, Where, RefuseBatch, Exit, Goto
<1> QED
  BY <1>1, <1>2 DEF Where, Finished

LEMMA ValidateType ==
    ASSUME TInv, NEW r \in Runs, Validate(r) PROVE TypeOK' /\ Where(r)'
<1>1. /\ request[r] \in Requests /\ at[r] = 1 /\ r \notin spoilt /\ pc[r] = "validate" /\ status[r] = None
  BY DEF TInv, Where, Validate
<1>2. ASSUME NEW s \in Skills
      PROVE  /\ (IF s \in Asked(r) /\ files[s].text \notin Broken THEN files[s].text ELSE None) \in Texts \cup {None}
             /\ (IF s \notin Asked(r) THEN {}
                 ELSE Kept(r, Symbolic(r, s) \cup Answer(r, "critique", "semantic", request[r].critique)
                                             \cup Answer(r, "graph", "graph", request[r].graph)))
                \in SUBSET Diagnostic
  <2>1. files[s].text \in Texts
    BY DEF TInv, TypeOK
  <2> QED
    BY <1>1, <2>1, FindingsType DEF Kept
<1>3. text' \in [Runs -> [Skills -> Texts \cup {None}]]
  BY <1>2 DEF TInv, TypeOK, Validate
<1>4. results' \in [Runs -> [Skills -> SUBSET Diagnostic]]
  BY <1>2 DEF TInv, TypeOK, Validate
<1>7. validated' \in [Runs -> [Skills -> [text : Texts, part : Parts] \cup {None}]]
  <2>1. \A s \in Skills : files[s] \in [text : Texts, part : Parts]
    BY DEF TInv, TypeOK
  <2> QED
    BY <2>1 DEF TInv, TypeOK, Validate
<1>5. TypeOK'
  BY <1>3, <1>4, <1>7 DEF TInv, TypeOK, Validate, Goto, store
<1>6. /\ pc'[r] = "label" /\ at'[r] = 1 /\ request'[r] = request[r] /\ status'[r] = None
  BY <1>1 DEF TInv, TypeOK, Validate, Goto
<1> QED
  BY <1>1, <1>5, <1>6, RequestType, RunAssumption DEF Where, Finished

LEMMA PassOverType ==
    ASSUME TInv, NEW r \in Runs, PassOver(r) PROVE TypeOK' /\ Where(r)'
<1>1. pc[r] = "label" /\ Advance(r) /\ request'[r] = request[r] /\ request[r] \in Requests
      /\ status'[r] = None
  BY DEF TInv, Where, PassOver
<1>2. TypeOK'
  BY <1>1, AdvanceType DEF TInv, TypeOK, PassOver, store, notes
<1> QED
  BY <1>1, <1>2, AdvanceType, RunAssumption DEF Where, Finished

LEMMA IdentifyType ==
    ASSUME TInv, NEW r \in Runs, Identify(r)
    PROVE  /\ TypeOK' /\ Where(r)'
           /\ \A s \in Skills : s # Here(r) => label'[r][s] = label[r][s]
<1>1. /\ pc[r] = "label" /\ text[r][Here(r)] # None /\ request[r] \in Requests /\ Here(r) \in Skills
      /\ at[r] \in DOMAIN request[r].paths /\ status[r] = None
  BY HereType DEF TInv, Where, Identify
<1>2. Identity(r, Here(r)) \in Label /\ Identity(r, Here(r)) # None
  BY <1>1, IdentityType
<1>3. /\ label' \in [Runs -> [Skills -> Label \cup {None}]] /\ label'[r][Here(r)] # None
      /\ \A s \in Skills : s # Here(r) => label'[r][s] = label[r][s]
  BY <1>1, <1>2 DEF TInv, TypeOK, Identify
<1>4. TypeOK'
  BY <1>3 DEF TInv, TypeOK, Identify, Goto, store, notes
<1>5. pc'[r] = "read" /\ UNCHANGED <<request, at, status>> /\ Here(r)' = Here(r)
  BY DEF TInv, TypeOK, Identify, Goto, Here
<1> QED
  BY <1>1, <1>3, <1>4, <1>5, RunAssumption DEF Where, Finished

LEMMA IdentifyFailsType ==
    ASSUME TInv, NEW r \in Runs, IdentifyFails(r) PROVE TypeOK' /\ Where(r)'
<1>1. /\ pc[r] = "label" /\ Advance(r) /\ request'[r] = request[r] /\ request[r] \in Requests
      /\ status'[r] = None /\ Here(r) \in Skills
  BY HereType DEF TInv, Where, IdentifyFails
<1>2. Kept(r, results[r][Here(r)] \cup {<<"history.read.failed", "error">>}) \in SUBSET Diagnostic
  BY <1>1 DEF TInv, TypeOK, Kept, Diagnostic, Rules, History, Severity
<1>3. results' \in [Runs -> [Skills -> SUBSET Diagnostic]]
  BY <1>1, <1>2, MergeType DEF IdentifyFails
<1>4. TypeOK'
  BY <1>1, <1>3, AdvanceType DEF TInv, TypeOK, IdentifyFails, store, notes
<1> QED
  BY <1>1, <1>4, AdvanceType, RunAssumption DEF Where, Finished

(* What a process adds to its findings when it reads a history. *)
Read(r) == IF Unreadable(Here(r)) THEN {<<"history.read.failed", "error">>} ELSE Regression(r)

LEMMA ReadType ==
    ASSUME TInv, NEW r \in Runs, ReadHistory(r)
    PROVE  /\ TypeOK' /\ Where(r)'
           /\ Merge(r, Kept(r, results[r][Here(r)] \cup Read(r)))
           /\ Kept(r, results[r][Here(r)] \cup Read(r)) \in SUBSET Diagnostic
<1>1. /\ pc[r] = "read" /\ request[r] \in Requests /\ Here(r) \in Skills /\ label[r][Here(r)] # None
      /\ at[r] \in DOMAIN request[r].paths /\ status[r] = None
  BY HereType DEF TInv, Where, ReadHistory
<1>2. Merge(r, Kept(r, results[r][Here(r)] \cup Read(r)))
  BY DEF ReadHistory, Read
<1>3. Read(r) \subseteq Diagnostic
  BY DEF Read, Regression, Diagnostic, Rules, History, Severity
<1>4. Kept(r, results[r][Here(r)] \cup Read(r)) \in SUBSET Diagnostic
  BY <1>1, <1>3 DEF TInv, TypeOK, Kept
<1>5. results' \in [Runs -> [Skills -> SUBSET Diagnostic]]
  BY <1>1, <1>2, <1>4, MergeType
<1>6. TypeOK'
  BY <1>5 DEF TInv, TypeOK, ReadHistory, Goto, store
<1>7. pc'[r] = "record" /\ UNCHANGED <<request, at, status, label>> /\ Here(r)' = Here(r)
  BY DEF TInv, TypeOK, ReadHistory, Goto, Here
<1> QED
  BY <1>1, <1>2, <1>4, <1>6, <1>7, RunAssumption DEF Where, Finished

LEMMA PublishType ==
    ASSUME TInv, NEW r \in Runs, Publish(r) PROVE TypeOK' /\ Where(r)'
<1>1. objects' = objects \cup {Item(r)} /\ UNCHANGED <<acked, files, damaged, pc, local, notes>>
  BY DEF Publish, Store!Publish
<1>2. Item(r) \in Object
  BY ItemType DEF Publish
<1>3. TypeOK'
  BY <1>1, <1>2 DEF TInv, TypeOK, local, notes
<1> QED
  BY <1>1, <1>3 DEF TInv, Where, Finished, Here, local, notes

LEMMA RecordedType ==
    ASSUME TInv, NEW r \in Runs, Recorded(r) PROVE TypeOK' /\ Where(r)'
<1>1. /\ pc[r] = "record" /\ Advance(r) /\ request'[r] = request[r] /\ request[r] \in Requests
      /\ status'[r] = None
  BY DEF TInv, Where, Recorded
<1>2. Item(r) \in objects /\ acked' = acked \cup {Item(r)} /\ UNCHANGED objects
  BY DEF Recorded, Store!Acknowledge
<1>3. TypeOK'
  BY <1>1, <1>2, AdvanceType DEF TInv, TypeOK, Recorded, notes
<1> QED
  BY <1>1, <1>3, AdvanceType, RunAssumption DEF Where, Finished

LEMMA WriteFailsType ==
    ASSUME TInv, NEW r \in Runs, WriteFails(r)
    PROVE  /\ TypeOK' /\ Where(r)'
           /\ results[r][Here(r)] \cup {<<"history.write.failed", "warning">>} \in SUBSET Diagnostic
<1>1. /\ pc[r] = "record" /\ Advance(r) /\ request'[r] = request[r] /\ request[r] \in Requests
      /\ status'[r] = None /\ Here(r) \in Skills
  BY HereType DEF TInv, Where, WriteFails
<1>2. results[r][Here(r)] \cup {<<"history.write.failed", "warning">>} \in SUBSET Diagnostic
  BY <1>1 DEF TInv, TypeOK, Diagnostic, Rules, History, Severity
<1>3. results' \in [Runs -> [Skills -> SUBSET Diagnostic]]
  BY <1>1, <1>2, MergeType DEF WriteFails
<1>4. TypeOK'
  BY <1>1, <1>3, AdvanceType DEF TInv, TypeOK, WriteFails, store, notes
<1> QED
  BY <1>1, <1>2, <1>4, AdvanceType, RunAssumption DEF Where, Finished

LEMMA ReportType ==
    ASSUME TInv, NEW r \in Runs, Report(r) PROVE TypeOK' /\ Where(r)'
<1>1. /\ pc[r] = "report" /\ request[r] \in Requests /\ at[r] = Len(request[r].paths) + 1
  BY DEF TInv, Where, Report
<1>2. \A s \in Skills : Kept(r, results[r][s]) \in SUBSET Diagnostic
  BY DEF TInv, TypeOK, Kept
<1>3. results' \in [Runs -> [Skills -> SUBSET Diagnostic]]
  BY <1>2 DEF TInv, TypeOK, Report
<1>4. ExitCode(r, UNION {results'[r][s] : s \in Skills}) \in {0, 1, 3}
  BY ExitType
<1>5. status' \in [Runs -> {0, 1, 2, 3, None}] /\ pc'[r] = "done"
      /\ pc' \in [Runs -> {"idle", "validate", "label", "read", "record", "report", "done"}]
  BY <1>4 DEF TInv, TypeOK, Report, Exit, Goto
<1>6. TypeOK'
  BY <1>3, <1>5 DEF TInv, TypeOK, Report, store, notes
<1>7. UNCHANGED <<request, at>>
  BY DEF Report
<1> QED
  BY <1>1, <1>5, <1>6, <1>7 DEF Where, Finished

LEMMA KillType ==
    ASSUME TInv, NEW r \in Runs, Kill(r) PROVE TypeOK' /\ Where(r)'
<1>1. TypeOK'
  BY DEF TInv, TypeOK, Kill, Goto, store
<1>2. pc'[r] = "done" /\ status'[r] = None
  BY DEF TInv, TypeOK, Where, Running, Kill, Goto
<1> QED
  BY <1>1, <1>2, RunAssumption DEF Where, Finished

(* Where a process is that takes no step. *)
LEMMA WhereSame ==
    ASSUME NEW q \in Runs, Where(q), Same(q) PROVE Where(q)'
BY DEF Where, Same, Finished, Here

LEMMA WorldSame ==
    ASSUME NEW q \in Runs, UNCHANGED <<pc, local, before, spoilt>> PROVE Same(q)
BY DEF Same, local

LEMMA Steps ==
    ASSUME [Next]_vars
    PROVE  \/ \E r \in Runs : Start(r) \/ Proceed(r) \/ Kill(r)
           \/ UNCHANGED <<pc, local, before, spoilt, objects, acked>>
BY DEF Next, Edit, Damage, vars, store, notes

LEMMA TypeStep == TInv /\ [Next]_vars => TInv'
<1> SUFFICES ASSUME TInv, [Next]_vars PROVE TInv'
  OBVIOUS
<1>1. ASSUME NEW r \in Runs, Start(r) \/ Proceed(r) \/ Kill(r) PROVE TInv'
  <2>1. TypeOK' /\ Where(r)'
    BY <1>1, StartType, KillType, RefuseType, ValidateType, PassOverType, IdentifyType, IdentifyFailsType,
       ReadType, PublishType, RecordedType, WriteFailsType, ReportType DEF Proceed
  <2>2. \A q \in Runs : q # r => Same(q)
    BY <1>1, Frame DEF TInv
  <2> QED
    BY <2>1, <2>2, WhereSame DEF TInv
<1>2. ASSUME NEW s \in Skills, Edit(s) \/ Damage(s) PROVE TInv'
  <2>1. TypeOK'
    <3>1. CASE Edit(s)
      <4>1. PICK f \in Contents[s] : files' = [files EXCEPT ![s] = f]
        BY <3>1 DEF Edit
      <4>3. edited' \subseteq Runs \X Skills
        BY <3>1 DEF TInv, TypeOK, Edit
      <4>2. f \in [text : Texts, part : Parts]
        BY RunAssumption
      <4> QED
        BY <3>1, <4>1, <4>2, <4>3 DEF TInv, TypeOK, Edit, store, local
    <3>2. CASE Damage(s)
      BY <3>2 DEF TInv, TypeOK, Damage, store, local, notes
    <3> QED
      BY <1>2, <3>1, <3>2
  <2>2. \A q \in Runs : Same(q)
    BY <1>2, WorldSame DEF Edit, Damage, notes
  <2> QED
    BY <2>1, <2>2, WhereSame DEF TInv
<1>3. CASE UNCHANGED vars
  BY <1>3 DEF TInv, TypeOK, Where, Finished, Here, vars, store, local, notes
<1> QED
  BY <1>1, <1>2, <1>3, RunAssumption DEF Next

LEMMA TypeInit == Init => TInv
<1> SUFFICES ASSUME Init PROVE TInv
  OBVIOUS
<1>1. TypeOK
  BY DEF Init, TypeOK
<1>2. \A r \in Runs : pc[r] = "idle" /\ request[r] = None /\ at[r] = 1 /\ r \notin spoilt /\ status[r] = None
  BY DEF Init
<1> QED
  BY <1>1, <1>2, RunAssumption DEF TInv, Where, Finished

(* Every state of the processes and the store is one of those TypeOK names, *)
(* with the batches of run_validation (commands.py:449) taken skill by      *)
(* skill.                                                                   *)
THEOREM TypeCorrect == Spec => []TypeOK
<1>1. TInv => TypeOK
  BY DEF TInv
<1> QED
  BY TypeInit, TypeStep, <1>1, PTL DEF Spec
-----------------------------------------------------------------------------
(* What a process has found, recorded and labelled so far. *)
Live(r)      == pc[r] \notin {"idle", "done"} \/ Finished(r)
Behind(r, s) == \E i \in DOMAIN request[r].paths :
                    request[r].paths[i] = s /\ (i < at[r] \/ (i = at[r] /\ pc[r] = "record"))
All(r)       == UNION {results[r][s] : s \in Skills}

Blank(r)    == pc[r] \in {"idle", "validate"} =>
                   \A s \in Skills : results[r][s] = {} /\ label[r][s] = None
Filtered(r) == \A s \in Skills : \A d \in results[r][s] :
                   /\ d[1] \in request[r].ignore => d[1] = "history.write.failed"
                   /\ d[1] \in {"history.write.failed", "history.skill.regressed"} => d[2] = "warning"
Spoils(r)   == r \in spoilt /\ "history.read.failed" \notin request[r].ignore =>
                   <<"history.read.failed", "error">> \in All(r)
Exited(r)   == Finished(r) => status[r] = ExitCode(r, All(r))
Reached(r)  == /\ \A s \in Skills : results[r][s] # {} => s \in Asked(r)
               /\ \A s \in Skills : \A d \in results[r][s] : d[1] \in History => Behind(r, s)
               /\ pc[r] # "done" => \A o \in objects : o.run = r => pc[r] # "idle" /\ Behind(r, o.skill)
Rightly(r)  == \A s \in Skills : Failed(r, s, "history.skill.regressed") =>
                   /\ ~Valid(results[r][s])
                   /\ \E o \in objects : o.run # r /\ o.skill = s /\ o.valid /\ o.label = label[r][s]
Done(r, s)  == \/ text[r][s] = None
               \/ Failed(r, s, "history.read.failed") \/ Failed(r, s, "history.write.failed")
               \/ \E o \in objects : o.run = r /\ o.skill = s
Settled(r)  == Live(r) /\ request[r].ignore \cap History = {} =>
                   \A i \in DOMAIN request[r].paths : i < at[r] => Done(r, request[r].paths[i])
Labelled(r) == /\ \A s \in Skills : label[r][s] # None =>
                      text[r][s] # None /\ label[r][s].options = Chosen(r)
               /\ request[r] # None => \A o \in objects : o.run = r => o.label.options = Chosen(r)
Told(r)     == Live(r) /\ "history.write.failed" \notin request[r].ignore =>
                   \A o \in objects : o.run = r /\ ~Failed(r, o.skill, "history.write.failed") =>
                       o.exit = ExitCode(r, results[r][o.skill])
Earlier(r, s, o) == o.skill = s /\ o.valid /\ label[r][s] # None /\ o.label = label[r][s]
Seen(r)     == /\ before[r] \subseteq objects
               /\ request[r].ignore = {} => \A s \in Skills :
                      Behind(r, s) /\ (\E d \in results[r][s] : d[2] = "error" /\ d[1] \notin History) =>
                          \A o \in before[r] : Earlier(r, s, o) =>
                              Failed(r, s, "history.skill.regressed") \/ Failed(r, s, "history.read.failed")

PInv(r) == /\ Blank(r) /\ Filtered(r) /\ Spoils(r) /\ Exited(r) /\ Reached(r) /\ Rightly(r)
           /\ Settled(r) /\ Labelled(r) /\ Told(r) /\ Seen(r)
VInv    == TInv /\ \A r \in Runs : PInv(r)

(* Where a process has been. *)
LEMMA NotBehind ==
    ASSUME TInv, NEW r \in Runs, pc[r] \in {"label", "read"}
    PROVE  ~Behind(r, Here(r))
<1>1. request[r] \in Requests /\ at[r] \in 1 .. Len(request[r].paths) /\ Here(r) = request[r].paths[at[r]]
  BY HereType
<1> QED
  BY <1>1, RequestType DEF Behind

LEMMA BehindRecord ==
    ASSUME TInv, NEW r \in Runs, pc[r] = "record" PROVE Behind(r, Here(r))
<1>1. request[r] \in Requests /\ at[r] \in 1 .. Len(request[r].paths) /\ Here(r) = request[r].paths[at[r]]
  BY HereType
<1> QED
  BY <1>1, RequestType DEF Behind

LEMMA BehindAdvance ==
    ASSUME TInv, NEW r \in Runs, pc[r] \in {"label", "record"}, Advance(r), request'[r] = request[r], NEW s
    PROVE  Behind(r, s)' <=> (Behind(r, s) \/ s = Here(r))
<1>1. request[r] \in Requests /\ at[r] \in 1 .. Len(request[r].paths) /\ Here(r) = request[r].paths[at[r]]
  BY HereType
<1>2. at'[r] = at[r] + 1 /\ pc'[r] \in {"label", "report"}
  BY AdvanceType
<1>3. \A i \in DOMAIN request[r].paths : i \in Nat /\ (i < at[r] + 1 <=> (i < at[r] \/ i = at[r]))
  BY <1>1, RequestType
<1>4. at[r] \in DOMAIN request[r].paths
  BY <1>1, RequestType
<1>5. Behind(r, s)' <=> \E i \in DOMAIN request[r].paths : request[r].paths[i] = s /\ (i < at[r] \/ i = at[r])
  BY <1>2, <1>3 DEF Behind
<1>6. CASE pc[r] = "record"
  BY <1>1, <1>4, <1>5, <1>6 DEF Behind
<1>7. CASE pc[r] = "label"
  BY <1>1, <1>4, <1>5, <1>7 DEF Behind
<1> QED
  BY <1>6, <1>7

(* A process that found and labelled nothing keeps most of what it knew. *)
Still(q) == /\ request'[q] = request[q] /\ text'[q] = text[q] /\ results'[q] = results[q]
            /\ label'[q] = label[q] /\ status'[q] = status[q] /\ before'[q] = before[q]
            /\ (q \in spoilt' <=> q \in spoilt)
Grows(q) == objects \subseteq objects' /\ \A o \in objects' : o \in objects \/ o.run # q

LEMMA Lasting ==
    ASSUME NEW q \in Runs, PInv(q), Still(q), Grows(q),
           \A s \in Skills : Behind(q, s) => Behind(q, s)',
           objects' \subseteq Object,
           Live(q)' => Live(q),
           pc'[q] \in {"idle", "validate"} => pc[q] = pc'[q],
           pc'[q] # "done" => pc[q] # "done" /\ (pc'[q] = "idle" <=> pc[q] = "idle")
    PROVE  /\ Blank(q)' /\ Filtered(q)' /\ Spoils(q)' /\ Exited(q)' /\ Reached(q)'
           /\ Rightly(q)' /\ Labelled(q)' /\ Told(q)' /\ before'[q] \subseteq objects'
<1>1. Blank(q)' /\ Filtered(q)'
  BY DEF PInv, Blank, Filtered, Still
<1>2. \A D : ExitCode(q, D)' = ExitCode(q, D)
  BY DEF Still, ExitCode, Code, Regressed, Valid
<1>3. Spoils(q)' /\ Exited(q)'
  <2>1. All(q)' = All(q)
    BY DEF All, Still
  <2>2. Exited(q)'
    BY <2>1, <1>2 DEF PInv, Exited, Finished, Still, ExitCode
  <2> QED
    BY <2>1, <2>2 DEF PInv, Spoils, Still
<1>4. Reached(q)'
  <2>1. Asked(q)' = Asked(q)
    BY DEF Asked, Still
  <2>2. pc'[q] # "done" => \A o \in objects' : o.run = q => pc'[q] # "idle" /\ Behind(q, o.skill)'
    BY DEF PInv, Reached, Grows, Object
  <2> QED
    BY <2>1, <2>2 DEF PInv, Reached, Still
<1>5. Rightly(q)'
  BY DEF PInv, Rightly, Failed, Still, Grows
<1>6. Labelled(q)'
  <2>1. Chosen(q)' = Chosen(q)
    BY DEF Chosen, Still
  <2> QED
    BY <2>1 DEF PInv, Labelled, Still, Grows
<1>7. Told(q)'
  <2>1. \A t : Failed(q, t, "history.write.failed")' <=> Failed(q, t, "history.write.failed")
    BY DEF Failed, Still
  <2>2. \A o \in objects' : o.run = q => o \in objects
    BY DEF Grows
  <2>3. \A t : ExitCode(q, results[q][t])' = ExitCode(q, results[q][t])
    BY DEF Still, ExitCode, Code, Regressed, Valid
  <2> QED
    BY <2>1, <2>2, <2>3 DEF PInv, Told, Still
<1>8. before'[q] \subseteq objects'
  BY DEF PInv, Seen, Still, Grows
<1> QED
  BY <1>1, <1>3, <1>4, <1>5, <1>6, <1>7, <1>8

LEMMA SettledLasts ==
    ASSUME NEW q \in Runs, Settled(q), Still(q), Grows(q), Live(q)' => Live(q),
           \A i \in DOMAIN request[q].paths : i < at'[q] =>
               i < at[q] \/ \A s : s = request[q].paths[i] => Done(q, s)'
    PROVE  Settled(q)'
<1>1. \A s : Done(q, s) => Done(q, s)'
  BY DEF Done, Failed, Still, Grows
<1> QED
  BY <1>1 DEF Settled, Still

LEMMA SeenLasts ==
    ASSUME NEW q \in Runs, Seen(q), Still(q), Grows(q),
           \A s \in Skills : Behind(q, s)' => Behind(q, s) \/ label[q][s] = None
    PROVE  Seen(q)'
<1>1. \A s, o : Earlier(q, s, o)' <=> Earlier(q, s, o)
  BY DEF Earlier, Still
<1>2. \A s, rule : Failed(q, s, rule)' <=> Failed(q, s, rule)
  BY DEF Failed, Still
<1>3. \A s, o : Earlier(q, s, o) => label[q][s] # None
  BY DEF Earlier
<1> QED
  BY <1>1, <1>2, <1>3 DEF Seen, Still, Grows

(* Nothing changes for a process that takes no step, whoever else does. *)
LEMMA OthersLast ==
    ASSUME NEW q \in Runs, PInv(q), Same(q), Grows(q), objects' \subseteq Object
    PROVE  PInv(q)'
<1>1. Still(q) /\ pc'[q] = pc[q] /\ at'[q] = at[q]
  BY DEF Still, Same
<1>2. \A s : Behind(q, s)' <=> Behind(q, s)
  BY DEF Same, Behind
<1>3. Live(q)' <=> Live(q)
  BY DEF Same, Live, Finished
<1>4. /\ Blank(q)' /\ Filtered(q)' /\ Spoils(q)' /\ Exited(q)' /\ Reached(q)'
      /\ Rightly(q)' /\ Labelled(q)' /\ Told(q)'
  BY <1>1, <1>2, <1>3, Lasting
<1>5. Settled(q)'
  BY <1>1, <1>3, SettledLasts DEF PInv
<1>6. Seen(q)'
  BY <1>1, <1>2, SeenLasts DEF PInv
<1> QED
  BY <1>4, <1>5, <1>6 DEF PInv

(* The acting process, action by action. *)
LEMMA StartKeeps ==
    ASSUME VInv, NEW r \in Runs, Start(r) PROVE PInv(r)'
<1>1. /\ pc[r] = "idle" /\ pc'[r] = "validate" /\ UNCHANGED <<objects, results, label, text, status, spoilt>>
      /\ before' = [before EXCEPT ![r] = acked] /\ status[r] = None /\ at'[r] = 1 /\ r \notin spoilt
  BY DEF VInv, TInv, TypeOK, Where, Start, Goto, store
<1>2. /\ \A s \in Skills : results'[r][s] = {} /\ label'[r][s] = None
      /\ \A o \in objects' : o.run # r
  BY <1>1 DEF VInv, PInv, Blank, Reached
<1>3. before'[r] \subseteq objects'
  BY <1>1 DEF VInv, TInv, TypeOK
<1>4. ~Finished(r)'
  BY <1>1, RunAssumption DEF Finished
<1>5. Blank(r)' /\ Filtered(r)' /\ Spoils(r)' /\ Exited(r)' /\ Reached(r)' /\ Rightly(r)'
  BY <1>1, <1>2, <1>4 DEF Blank, Filtered, Spoils, Exited, Reached, Rightly, Failed
<1>6. Settled(r)'
  <2>1. request'[r] \in Requests
    BY <1>1, StartType DEF VInv, Where
  <2> QED
    BY <1>1, <2>1, RequestType DEF Settled
<1>7. Labelled(r)' /\ Told(r)' /\ Seen(r)'
  BY <1>2, <1>3 DEF Labelled, Told, Seen
<1> QED
  BY <1>5, <1>6, <1>7 DEF PInv

LEMMA RefuseKeeps ==
    ASSUME VInv, NEW r \in Runs, RefuseBatch(r) PROVE PInv(r)'
<1>1. /\ pc[r] = "validate" /\ pc'[r] = "done" /\ status'[r] = 2 /\ r \notin spoilt
      /\ UNCHANGED <<objects, acked, request, at, text, results, label, before, spoilt>>
  BY DEF VInv, TInv, TypeOK, Where, RefuseBatch, Exit, Goto, store, notes
<1>2. \A s \in Skills : results'[r][s] = {} /\ label'[r][s] = None
  BY <1>1 DEF VInv, PInv, Blank
<1>3. ~Finished(r)' /\ ~Live(r)'
  BY <1>1 DEF Finished, Live
<1>4. Labelled(r)'
  BY <1>1 DEF VInv, PInv, Labelled, Chosen
<1>5. before'[r] \subseteq objects'
  BY <1>1 DEF VInv, PInv, Seen
<1>6. Seen(r)'
  BY <1>2, <1>5 DEF Seen
<1> QED
  BY <1>1, <1>2, <1>3, <1>4, <1>6
     DEF PInv, Blank, Filtered, Spoils, Exited, Reached, Rightly, Settled, Told, Failed

LEMMA ValidateKeeps ==
    ASSUME VInv, NEW r \in Runs, Validate(r) PROVE PInv(r)'
<1>1. /\ request[r] \in Requests /\ at[r] = 1 /\ r \notin spoilt /\ pc[r] = "validate" /\ status[r] = None
      /\ UNCHANGED <<objects, request, at, label, status, before, spoilt>> /\ pc'[r] = "label"
  BY DEF VInv, TInv, TypeOK, Where, Validate, Goto, store, notes
<1>2. ASSUME NEW s \in Skills
      PROVE  /\ s \notin Asked(r) => results'[r][s] = {}
             /\ \A d \in results'[r][s] : d[1] \notin History /\ d[1] \notin request[r].ignore
  <2>1. results'[r][s] = IF s \notin Asked(r) THEN {}
           ELSE Kept(r, Symbolic(r, s) \cup Answer(r, "critique", "semantic", request[r].critique)
                                       \cup Answer(r, "graph", "graph", request[r].graph))
    BY DEF VInv, TInv, TypeOK, Validate
  <2> QED
    BY <1>1, <2>1, FindingsType DEF VInv, Kept
<1>3. \A s \in Skills : label'[r][s] = None
  BY <1>1 DEF VInv, PInv, Blank
<1>4. \A i \in DOMAIN request[r].paths : ~(i < at[r])
  BY <1>1, RequestType
<1>5. \A s : ~Behind(r, s) /\ ~Behind(r, s)'
  BY <1>1, <1>4 DEF Behind
<1>6. \A o \in objects' : o.run # r
  BY <1>1, <1>5 DEF VInv, TInv, TypeOK, Object, PInv, Reached
<1>7. ~Finished(r)'
  BY <1>1, RunAssumption DEF Finished
<1>8. Blank(r)' /\ Filtered(r)' /\ Spoils(r)' /\ Exited(r)'
  BY <1>1, <1>2, <1>3, <1>7 DEF Blank, Filtered, Spoils, Exited, History
<1>9. Reached(r)'
  <2>1. Asked(r)' = Asked(r)
    BY <1>1 DEF Asked
  <2> QED
    BY <1>2, <1>6, <2>1 DEF Reached
<1>10. Rightly(r)'
  BY <1>2 DEF Rightly, Failed, History
<1>11. Settled(r)' /\ Labelled(r)' /\ Told(r)'
  BY <1>1, <1>3, <1>4, <1>6 DEF Settled, Labelled, Told
<1>12. Seen(r)'
  BY <1>1, <1>5 DEF VInv, PInv, Seen
<1> QED
  BY <1>8, <1>9, <1>10, <1>11, <1>12 DEF PInv

LEMMA PassOverKeeps ==
    ASSUME VInv, NEW r \in Runs, PassOver(r) PROVE PInv(r)'
<1>1. /\ pc[r] = "label" /\ Advance(r) /\ text[r][Here(r)] = None /\ Here(r) \in Skills
      /\ request[r] \in Requests /\ at[r] \in 1 .. Len(request[r].paths) /\ Here(r) = request[r].paths[at[r]]
  BY HereType DEF VInv, PassOver
<1>2. Still(r) /\ UNCHANGED objects
  BY DEF PassOver, Still, store, notes
<1>3. Grows(r)
  BY <1>2 DEF Grows
<1>4. \A s : Behind(r, s)' <=> (Behind(r, s) \/ s = Here(r))
  BY <1>1, <1>2, BehindAdvance DEF VInv, Still
<1>5. pc'[r] \in {"label", "report"} /\ at'[r] = at[r] + 1
  BY <1>1, AdvanceType DEF VInv
<1>6. Live(r)
  BY <1>1 DEF Live
<1>7. objects' \subseteq Object
  BY <1>2 DEF VInv, TInv, TypeOK
<1>8. /\ Blank(r)' /\ Filtered(r)' /\ Spoils(r)' /\ Exited(r)' /\ Reached(r)'
      /\ Rightly(r)' /\ Labelled(r)' /\ Told(r)'
  BY <1>1, <1>2, <1>3, <1>4, <1>5, <1>6, <1>7, Lasting DEF VInv
<1>9. Settled(r)'
  <2>1. \A s : s = Here(r) => Done(r, s)'
    BY <1>1, <1>2 DEF Done, Still
  <2>2. \A i \in DOMAIN request[r].paths : i < at'[r] => i < at[r] \/ i = at[r]
    BY <1>1, <1>5, RequestType
  <2>3. \A i \in DOMAIN request[r].paths : i < at'[r] => i < at[r] \/ \A s : s = request[r].paths[i] => Done(r, s)'
    BY <1>1, <2>1, <2>2
  <2> QED
    BY <1>2, <1>3, <1>6, <2>3, SettledLasts DEF VInv, PInv
<1>10. Seen(r)'
  <2>1. label[r][Here(r)] = None
    BY <1>1 DEF VInv, PInv, Labelled
  <2> QED
    BY <1>2, <1>3, <1>4, <2>1, SeenLasts DEF VInv, PInv
<1> QED
  BY <1>8, <1>9, <1>10 DEF PInv

LEMMA RecordedKeeps ==
    ASSUME VInv, NEW r \in Runs, Recorded(r) PROVE PInv(r)'
<1>1. /\ pc[r] = "record" /\ Advance(r) /\ Item(r) \in objects /\ Here(r) \in Skills
      /\ request[r] \in Requests /\ at[r] \in 1 .. Len(request[r].paths) /\ Here(r) = request[r].paths[at[r]]
  BY HereType DEF VInv, Recorded, Store!Acknowledge
<1>2. Still(r) /\ UNCHANGED objects
  BY DEF Recorded, Still, Store!Acknowledge, notes
<1>3. Grows(r)
  BY <1>2 DEF Grows
<1>4. \A s : Behind(r, s)' <=> Behind(r, s)
  BY <1>1, <1>2, BehindAdvance, BehindRecord DEF VInv, Still
<1>5. pc'[r] \in {"label", "report"} /\ at'[r] = at[r] + 1
  BY <1>1, AdvanceType DEF VInv
<1>6. Live(r)
  BY <1>1 DEF Live
<1>7. objects' \subseteq Object
  BY <1>2 DEF VInv, TInv, TypeOK
<1>8. /\ Blank(r)' /\ Filtered(r)' /\ Spoils(r)' /\ Exited(r)' /\ Reached(r)'
      /\ Rightly(r)' /\ Labelled(r)' /\ Told(r)'
  BY <1>1, <1>2, <1>3, <1>4, <1>5, <1>6, <1>7, Lasting DEF VInv
<1>9. Settled(r)'
  <2>1. \A s : s = Here(r) => Done(r, s)'
    BY <1>1, <1>2, ItemType DEF Done, VInv
  <2>2. \A i \in DOMAIN request[r].paths : i < at'[r] => i < at[r] \/ i = at[r]
    BY <1>1, <1>5, RequestType
  <2>3. \A i \in DOMAIN request[r].paths : i < at'[r] => i < at[r] \/ \A s : s = request[r].paths[i] => Done(r, s)'
    BY <1>1, <2>1, <2>2
  <2> QED
    BY <1>2, <1>3, <1>6, <2>3, SettledLasts DEF VInv, PInv
<1>10. Seen(r)'
  BY <1>2, <1>3, <1>4, SeenLasts DEF VInv, PInv
<1> QED
  BY <1>8, <1>9, <1>10 DEF PInv

LEMMA KillKeeps ==
    ASSUME VInv, NEW r \in Runs, Kill(r) PROVE PInv(r)'
<1>1. /\ pc'[r] = "done" /\ status'[r] = None /\ request'[r] = None /\ r \notin spoilt'
      /\ before'[r] = {}
      /\ \A s \in Skills : results'[r][s] = {} /\ label'[r][s] = None
  BY DEF VInv, TInv, TypeOK, Where, Running, Kill, Goto
<1>2. ~Finished(r)' /\ ~Live(r)'
  BY <1>1, RunAssumption DEF Finished, Live
<1> QED
  BY <1>1, <1>2
     DEF PInv, Blank, Filtered, Spoils, Exited, Reached, Rightly, Settled, Labelled, Told, Seen, Failed

LEMMA IdentifyKeeps ==
    ASSUME VInv, NEW r \in Runs, Identify(r) PROVE PInv(r)'
<1>1. /\ pc[r] = "label" /\ pc'[r] = "read" /\ text[r][Here(r)] # None /\ Here(r) \in Skills
      /\ UNCHANGED <<objects, request, at, text, results, status, before, spoilt>>
      /\ status[r] = None
  BY HereType DEF VInv, TInv, TypeOK, Where, Identify, Goto, store, notes
<1>2. /\ label'[r][Here(r)] = Identity(r, Here(r))
      /\ \A s \in Skills : s # Here(r) => label'[r][s] = label[r][s]
  BY <1>1, IdentifyType DEF VInv, TInv, TypeOK, Identify
<1>3. \A s : Behind(r, s)' <=> Behind(r, s)
  BY <1>1 DEF Behind
<1>4. ~Behind(r, Here(r))
  BY <1>1, NotBehind DEF VInv
<1>5. ~Finished(r) /\ ~Finished(r)'
  BY <1>1, RunAssumption DEF Finished
<1>6. Blank(r)' /\ Filtered(r)' /\ Spoils(r)' /\ Exited(r)'
  BY <1>1, <1>5 DEF VInv, PInv, Blank, Filtered, Spoils, Exited, All
<1>7. Reached(r)'
  <2>1. Asked(r)' = Asked(r)
    BY <1>1 DEF Asked
  <2> QED
    BY <1>1, <1>3, <2>1 DEF VInv, TInv, TypeOK, Object, PInv, Reached
<1>8. \A s \in Skills : Failed(r, s, "history.skill.regressed") => s # Here(r)
  BY <1>4 DEF VInv, PInv, Reached, Failed, History
<1>9. Rightly(r)'
  BY <1>1, <1>2, <1>8 DEF VInv, PInv, Rightly, Failed
<1>10. Settled(r)'
  <2>1. Live(r) /\ \A s : Done(r, s) => Done(r, s)'
    BY <1>1 DEF Live, Done, Failed
  <2> QED
    BY <1>1, <2>1 DEF VInv, PInv, Settled
<1>11. Labelled(r)'
  <2>1. Chosen(r)' = Chosen(r) /\ Identity(r, Here(r)).options = Chosen(r)
    BY <1>1 DEF Chosen, Identity
  <2> QED
    BY <1>1, <1>2, <2>1 DEF VInv, PInv, Labelled
<1>12. Told(r)'
  <2>1. Live(r) /\ \A s : /\ Failed(r, s, "history.write.failed")' <=> Failed(r, s, "history.write.failed")
                          /\ ExitCode(r, results[r][s])' = ExitCode(r, results[r][s])
    BY <1>1 DEF Live, Failed, ExitCode, Code, Regressed, Valid
  <2> QED
    BY <1>1, <2>1 DEF VInv, PInv, Told
<1>13. Seen(r)'
  <2>1. \A s \in Skills : Behind(r, s)' => Behind(r, s) /\ s # Here(r)
    BY <1>3, <1>4
  <2>2. \A s \in Skills : \A o : Behind(r, s)' => (Earlier(r, s, o)' <=> Earlier(r, s, o))
    BY <1>2, <2>1 DEF Earlier
  <2>3. \A s, rule : Failed(r, s, rule)' <=> Failed(r, s, rule)
    BY <1>1 DEF Failed
  <2> QED
    BY <1>1, <2>1, <2>2, <2>3 DEF VInv, PInv, Seen
<1> QED
  BY <1>6, <1>7, <1>9, <1>10, <1>11, <1>12, <1>13 DEF PInv

(* A reading that fails, or a regression, becomes a finding of the skill at hand. *)
LEMMA FoundKeeps ==
    ASSUME VInv, NEW r \in Runs, pc[r] \in {"label", "read"},
           NEW N \in SUBSET Diagnostic,
           N = {<<"history.read.failed", "error">>} \/ N = Regression(r),
           Merge(r, Kept(r, results[r][Here(r)] \cup N)),
           UNCHANGED <<objects, request, text, label, status, before>>,
           pc'[r] \notin {"idle", "validate", "done"},
           \A s : Behind(r, s)' <=> (Behind(r, s) \/ s = Here(r)),
           at'[r] = at[r] \/ (at'[r] = at[r] + 1 /\ N = {<<"history.read.failed", "error">>}),
           r \in spoilt' => r \in spoilt \/ N = {<<"history.read.failed", "error">>}
    PROVE  PInv(r)'
<1> DEFINE failed == <<"history.read.failed", "error">>
<1> DEFINE new == Kept(r, results[r][Here(r)] \cup N)
<1>1. /\ Here(r) \in Skills /\ Here(r) \in Asked(r) /\ request[r] \in Requests
      /\ at[r] \in 1 .. Len(request[r].paths) /\ Here(r) = request[r].paths[at[r]]
  BY HereType DEF VInv
<1>2. new \in SUBSET Diagnostic
  BY <1>1 DEF VInv, TInv, TypeOK, Kept
<1>3. /\ results'[r][Here(r)] = new
      /\ \A s \in Skills : s # Here(r) => results'[r][s] = results[r][s]
  BY <1>1, <1>2, MergeType DEF VInv
<1>4. status[r] = None /\ ~Finished(r) /\ ~Finished(r)' /\ Live(r)
  BY RunAssumption DEF VInv, TInv, Where, Finished, Live
<1>5. ~Behind(r, Here(r))
  BY NotBehind DEF VInv
<1>6. \A d \in N : d = failed \/ d = <<"history.skill.regressed", "warning">>
  BY DEF Regression
<1>7. \A d \in new : d \in results[r][Here(r)] \/ (d \in N /\ d[1] \notin request[r].ignore)
  BY DEF Kept
<1>8. Blank(r)' /\ Exited(r)'
  BY <1>4 DEF Blank, Exited
<1>9. Filtered(r)'
  <2>1. SUFFICES ASSUME NEW s \in Skills, NEW d \in results'[r][s]
                 PROVE  /\ d[1] \in request[r].ignore => d[1] = "history.write.failed"
                        /\ d[1] \in {"history.write.failed", "history.skill.regressed"} => d[2] = "warning"
    BY DEF Filtered
  <2>2. CASE d \in results[r][s]
    BY <2>1, <2>2 DEF VInv, PInv, Filtered
  <2>3. CASE d \notin results[r][s]
    <3>1. d \in N /\ d[1] \notin request[r].ignore
      BY <1>3, <1>7, <2>1, <2>3
    <3> QED
      BY <1>6, <3>1
  <2> QED
    BY <2>2, <2>3
<1>10. Spoils(r)'
  <2>1. SUFFICES ASSUME r \in spoilt', "history.read.failed" \notin request[r].ignore PROVE failed \in All(r)'
    BY DEF Spoils
  <2>2. CASE N = {failed}
    <3>1. failed \in new
      BY <2>1, <2>2 DEF Kept
    <3> QED
      BY <1>1, <1>3, <3>1 DEF All
  <2>3. CASE r \in spoilt
    <3>1. PICK s \in Skills : failed \in results[r][s]
      BY <2>1, <2>3 DEF VInv, PInv, Spoils, All
    <3>2. failed \in results'[r][s]
      <4>1. CASE s = Here(r)
        BY <1>3, <2>1, <3>1, <4>1 DEF Kept
      <4>2. CASE s # Here(r)
        BY <1>3, <3>1, <4>2
      <4> QED
        BY <4>1, <4>2
    <3> QED
      BY <3>2 DEF All
  <2> QED
    BY <2>1, <2>2, <2>3
<1>11. Reached(r)'
  <2>1. Asked(r)' = Asked(r)
    BY DEF Asked
  <2>2. \A s \in Skills : results'[r][s] # {} => s \in Asked(r)
    BY <1>1, <1>3 DEF VInv, PInv, Reached
  <2>3. \A s \in Skills : \A d \in results'[r][s] : d[1] \in History => Behind(r, s)'
    BY <1>3 DEF VInv, PInv, Reached
  <2>4. \A o \in objects' : o.run = r => Behind(r, o.skill)'
    BY DEF VInv, PInv, Reached
  <2> QED
    BY <2>1, <2>2, <2>3, <2>4 DEF Reached
<1>12. Rightly(r)'
  <2>1. SUFFICES ASSUME NEW s \in Skills, Failed(r, s, "history.skill.regressed")'
                 PROVE  /\ ~Valid(results'[r][s])
                        /\ \E o \in objects : o.run # r /\ o.skill = s /\ o.valid /\ o.label = label[r][s]
    BY DEF Rightly, Valid
  <2>2. CASE s # Here(r)
    BY <1>3, <2>1, <2>2 DEF VInv, PInv, Rightly, Failed
  <2>3. CASE s = Here(r)
    <3>1. \E d \in new : d[1] = "history.skill.regressed"
      BY <1>3, <2>1, <2>3 DEF Failed
    <3>2. ~\E d \in results[r][s] : d[1] = "history.skill.regressed"
      BY <1>5, <2>3 DEF VInv, PInv, Reached, History
    <3>3. N = Regression(r) /\ N # {}
      BY <1>7, <2>3, <3>1, <3>2
    <3>4. ~Valid(results[r][s]) /\ \E o \in objects : Comparable(r, o) /\ o.valid
      BY <2>3, <3>3 DEF Regression
    <3>5. ~Valid(results'[r][s])
      <4>1. PICK d \in results[r][s] : d[2] = "error"
        BY <3>4 DEF Valid
      <4>2. d[1] \notin request[r].ignore
        BY <4>1, <2>1 DEF VInv, PInv, Filtered
      <4> QED
        BY <1>3, <2>3, <4>1, <4>2 DEF Valid, Kept
    <3>6. \A o \in objects : o.skill = s => o.run # r
      BY <1>5, <2>3 DEF VInv, PInv, Reached
    <3> QED
      BY <2>3, <3>4, <3>5, <3>6 DEF Comparable
  <2> QED
    BY <2>2, <2>3
<1>13. Settled(r)'
  <2>1. SUFFICES ASSUME request[r].ignore \cap History = {},
                        NEW i \in DOMAIN request[r].paths, i < at'[r], NEW s, s = request[r].paths[i]
                 PROVE  Done(r, s)'
    BY DEF Settled
  <2>2. s \in Skills /\ i \in 1 .. Len(request[r].paths)
    BY <1>1, <2>1, RequestType
  <2>3. CASE i < at[r]
    <3>1. s # Here(r)
      BY <1>5, <2>1, <2>3 DEF Behind
    <3>2. Done(r, s)
      BY <1>4, <2>1, <2>3 DEF VInv, PInv, Settled
    <3> QED
      BY <1>3, <2>2, <3>1, <3>2 DEF Done, Failed
  <2>4. CASE i = at[r] /\ N = {failed}
    <3>1. failed \in new
      BY <2>1, <2>4 DEF Kept, History
    <3> QED
      BY <1>1, <1>3, <2>1, <2>4, <3>1 DEF Done, Failed
  <2> QED
    BY <1>1, <2>1, <2>2, <2>3, <2>4
<1>14. Labelled(r)'
  BY DEF VInv, PInv, Labelled, Chosen
<1>15. Told(r)'
  <2>1. \A o \in objects : o.run = r => o.skill # Here(r) /\ o.skill \in Skills
    <3>1. \A o \in objects : o.skill \in Skills
      BY DEF VInv, TInv, TypeOK, Object
    <3>2. \A o \in objects : o.run = r => Behind(r, o.skill)
      BY DEF VInv, PInv, Reached
    <3> QED
      BY <1>5, <3>1, <3>2
  <2>2. \A D : ExitCode(r, D)' = ExitCode(r, D)
    BY DEF ExitCode, Code, Regressed, Valid
  <2>3. \A o \in objects : o.run = r => /\ results'[r][o.skill] = results[r][o.skill]
                                        /\ Failed(r, o.skill, "history.write.failed")' <=> Failed(r, o.skill, "history.write.failed")
    BY <1>3, <2>1 DEF Failed
  <2>4. \A o \in objects : o.run = r => ExitCode(r, results[r][o.skill])' = ExitCode(r, results[r][o.skill])
    BY <2>3 DEF ExitCode, Code, Regressed, Valid
  <2> QED
    BY <1>4, <2>3, <2>4 DEF VInv, PInv, Told
<1>16. Seen(r)'
  <2>1. before'[r] \subseteq objects'
    BY DEF VInv, PInv, Seen
  <2>2. SUFFICES ASSUME request[r].ignore = {}, NEW s \in Skills, Behind(r, s)',
                        \E d \in results'[r][s] : d[2] = "error" /\ d[1] \notin History,
                        NEW o \in before[r], Earlier(r, s, o)'
                 PROVE  Failed(r, s, "history.skill.regressed")' \/ Failed(r, s, "history.read.failed")'
    BY <2>1 DEF Seen
  <2>3. Earlier(r, s, o)
    BY <2>2 DEF Earlier
  <2>4. CASE s # Here(r)
    <3>1. Behind(r, s) /\ results'[r][s] = results[r][s]
      BY <1>3, <2>2, <2>4
    <3> QED
      BY <2>2, <2>3, <3>1 DEF VInv, PInv, Seen, Failed
  <2>5. CASE s = Here(r)
    <3>1. N \subseteq new
      BY <2>2 DEF Kept
    <3>2. CASE N = {failed}
      BY <1>3, <2>5, <3>1, <3>2 DEF Failed
    <3>3. CASE N = Regression(r)
      <4>1. PICK d \in results[r][s] : d[2] = "error"
        <5>1. PICK d \in new : d[2] = "error" /\ d[1] \notin History
          BY <1>3, <2>2, <2>5
        <5>2. d \notin N
          BY <1>6, <5>1 DEF History
        <5> QED
          BY <1>7, <2>5, <5>1, <5>2
      <4>2. o \in objects /\ Comparable(r, o) /\ o.valid
        BY <2>2, <2>3, <2>5 DEF VInv, PInv, Seen, Earlier, Comparable
      <4>3. <<"history.skill.regressed", "warning">> \in N
        BY <2>5, <3>3, <4>1, <4>2 DEF Regression, Valid
      <4>4. <<"history.skill.regressed", "warning">> \in results'[r][s]
        BY <1>3, <2>5, <3>1, <4>3
      <4> QED
        BY <4>4 DEF Failed
    <3> QED
      BY <3>2, <3>3
  <2> QED
    BY <2>4, <2>5
<1> QED
  BY <1>8, <1>9, <1>10, <1>11, <1>12, <1>13, <1>14, <1>15, <1>16 DEF PInv

LEMMA IdentifyFailsKeeps ==
    ASSUME VInv, NEW r \in Runs, IdentifyFails(r) PROVE PInv(r)'
<1> DEFINE N == {<<"history.read.failed", "error">>}
<1>1. /\ pc[r] = "label" /\ Advance(r) /\ Merge(r, Kept(r, results[r][Here(r)] \cup N))
      /\ UNCHANGED <<objects, request, text, label, status, before, spoilt>>
  BY DEF IdentifyFails, store, notes
<1>2. N \in SUBSET Diagnostic
  BY DEF Diagnostic, Rules, History, Severity
<1>3. pc'[r] \in {"label", "report"} /\ at'[r] = at[r] + 1
  BY <1>1, AdvanceType DEF VInv
<1>4. \A s : Behind(r, s)' <=> (Behind(r, s) \/ s = Here(r))
  BY <1>1, BehindAdvance DEF VInv
<1> HIDE DEF N
<1>5. N = {<<"history.read.failed", "error">>}
  BY DEF N
<1> QED
  BY <1>1, <1>2, <1>3, <1>4, <1>5, FoundKeeps

LEMMA ReadKeeps ==
    ASSUME VInv, NEW r \in Runs, ReadHistory(r) PROVE PInv(r)'
<1>1. /\ pc[r] = "read" /\ pc'[r] = "record" /\ Merge(r, Kept(r, results[r][Here(r)] \cup Read(r)))
      /\ UNCHANGED <<objects, request, at, text, label, status, before>>
  BY ReadType DEF VInv, TInv, TypeOK, ReadHistory, Goto, store
<1>2. Read(r) \in SUBSET Diagnostic
  BY DEF Read, Regression, Diagnostic, Rules, History, Severity
<1>3. Read(r) = {<<"history.read.failed", "error">>} \/ Read(r) = Regression(r)
  BY DEF Read
<1>4. r \in spoilt' => r \in spoilt \/ Read(r) = {<<"history.read.failed", "error">>}
  BY DEF ReadHistory, Read
<1>5. /\ request[r] \in Requests /\ at[r] \in 1 .. Len(request[r].paths) /\ Here(r) = request[r].paths[at[r]]
      /\ DOMAIN request[r].paths = 1 .. Len(request[r].paths)
  BY <1>1, HereType, RequestType DEF VInv
<1>6. \A s : Behind(r, s)' <=> (Behind(r, s) \/ s = Here(r))
  BY <1>1, <1>5 DEF Behind
<1> QED
  BY <1>1, <1>2, <1>3, <1>4, <1>6, FoundKeeps

LEMMA PublishKeeps ==
    ASSUME VInv, NEW r \in Runs, Publish(r) PROVE PInv(r)'
<1>1. /\ pc[r] = "record" /\ objects' = objects \cup {Item(r)}
      /\ UNCHANGED <<pc, request, at, text, results, label, status, before, spoilt>>
  BY DEF Publish, Store!Publish, local, notes
<1>2. /\ Here(r) \in Skills /\ label[r][Here(r)] # None
      /\ Item(r).run = r /\ Item(r).skill = Here(r) /\ Item(r).label = label[r][Here(r)]
      /\ Item(r).exit = ExitCode(r, results[r][Here(r)])
  BY <1>1, HereType DEF VInv, TInv, Where, Item
<1>3. \A s : (Behind(r, s)' <=> Behind(r, s)) /\ Behind(r, Here(r))
  BY <1>1, BehindRecord DEF VInv, Behind
<1>4. Blank(r)' /\ Filtered(r)' /\ Spoils(r)'
  BY <1>1 DEF VInv, PInv, Blank, Filtered, Spoils, All
<1>5. Exited(r)'
  BY <1>1, RunAssumption DEF VInv, TInv, Where, Exited, Finished
<1>6. Reached(r)'
  <2>1. Asked(r)' = Asked(r)
    BY <1>1 DEF Asked
  <2>2. \A o \in objects' : o.run = r => Behind(r, o.skill)
    BY <1>1, <1>2, <1>3 DEF VInv, PInv, Reached
  <2>3. \A o \in objects' : o.skill \in Skills
    BY <1>1, <1>2 DEF VInv, TInv, TypeOK, Object
  <2> QED
    BY <1>1, <1>3, <2>1, <2>2, <2>3 DEF VInv, PInv, Reached
<1>7. Rightly(r)'
  BY <1>1 DEF VInv, PInv, Rightly, Failed
<1>8. Settled(r)'
  <2>1. Live(r) /\ \A s : Done(r, s) => Done(r, s)'
    BY <1>1 DEF Live, Done, Failed
  <2> QED
    BY <1>1, <2>1 DEF VInv, PInv, Settled
<1>9. Labelled(r)'
  <2>1. Chosen(r)' = Chosen(r)
    BY <1>1 DEF Chosen
  <2> QED
    BY <1>1, <1>2, <2>1 DEF VInv, PInv, Labelled
<1>10. Told(r)'
  <2>1. Live(r) /\ \A s : /\ Failed(r, s, "history.write.failed")' <=> Failed(r, s, "history.write.failed")
                          /\ ExitCode(r, results[r][s])' = ExitCode(r, results[r][s])
    BY <1>1 DEF Live, Failed, ExitCode, Code, Regressed, Valid
  <2> QED
    BY <1>1, <1>2, <2>1 DEF VInv, PInv, Told
<1>11. Seen(r)'
  <2>1. \A s, o : Earlier(r, s, o)' <=> Earlier(r, s, o)
    BY <1>1 DEF Earlier
  <2>2. \A s, rule : Failed(r, s, rule)' <=> Failed(r, s, rule)
    BY <1>1 DEF Failed
  <2> QED
    BY <1>1, <1>3, <2>1, <2>2 DEF VInv, PInv, Seen
<1> QED
  BY <1>4, <1>5, <1>6, <1>7, <1>8, <1>9, <1>10, <1>11 DEF PInv

LEMMA WriteFailsKeeps ==
    ASSUME VInv, NEW r \in Runs, WriteFails(r) PROVE PInv(r)'
<1> DEFINE failed == <<"history.write.failed", "warning">>
<1>1. /\ pc[r] = "record" /\ Advance(r) /\ Here(r) \in Skills /\ Here(r) \in Asked(r)
      /\ request[r] \in Requests /\ at[r] \in 1 .. Len(request[r].paths) /\ Here(r) = request[r].paths[at[r]]
      /\ UNCHANGED <<objects, request, text, label, status, before, spoilt>>
  BY HereType DEF VInv, WriteFails, store, notes
<1>2. /\ results'[r][Here(r)] = results[r][Here(r)] \cup {failed}
      /\ \A s \in Skills : s # Here(r) => results'[r][s] = results[r][s]
  BY <1>1, WriteFailsType, MergeType DEF VInv, WriteFails
<1>3. \A s \in Skills : /\ results[r][s] \subseteq results'[r][s]
                        /\ \A d \in results'[r][s] : d \in results[r][s] \/ (s = Here(r) /\ d = failed)
  BY <1>2
<1>4. status[r] = None /\ ~Finished(r) /\ ~Finished(r)' /\ Live(r)
  BY <1>1, RunAssumption DEF VInv, TInv, Where, Finished, Live
<1>5. \A s : (Behind(r, s)' <=> Behind(r, s)) /\ Behind(r, Here(r))
  BY <1>1, BehindAdvance, BehindRecord DEF VInv
<1>6. pc'[r] \in {"label", "report"} /\ at'[r] = at[r] + 1
  BY <1>1, AdvanceType DEF VInv
<1>7. Blank(r)' /\ Exited(r)'
  BY <1>4, <1>6 DEF Blank, Exited
<1>8. Filtered(r)'
  BY <1>1, <1>3 DEF VInv, PInv, Filtered
<1>9. Spoils(r)'
  BY <1>1, <1>3 DEF VInv, PInv, Spoils, All
<1>10. Reached(r)'
  <2>1. Asked(r)' = Asked(r)
    BY <1>1 DEF Asked
  <2>2. \A s \in Skills : results'[r][s] # {} => s \in Asked(r)
    BY <1>1, <1>2 DEF VInv, PInv, Reached
  <2>3. \A s \in Skills : \A d \in results'[r][s] : d[1] \in History => Behind(r, s)'
    BY <1>3, <1>5 DEF VInv, PInv, Reached
  <2>4. \A o \in objects' : o.skill \in Skills
    BY <1>1 DEF VInv, TInv, TypeOK, Object
  <2>5. \A o \in objects' : o.run = r => Behind(r, o.skill)'
    BY <1>1, <1>5, <2>4 DEF VInv, PInv, Reached
  <2> QED
    BY <1>6, <2>1, <2>2, <2>3, <2>5 DEF Reached
<1>11. Rightly(r)'
  <2>1. SUFFICES ASSUME NEW s \in Skills, Failed(r, s, "history.skill.regressed")'
                 PROVE  /\ ~Valid(results'[r][s])
                        /\ \E o \in objects : o.run # r /\ o.skill = s /\ o.valid /\ o.label = label[r][s]
    BY <1>1 DEF Rightly, Valid
  <2>2. Failed(r, s, "history.skill.regressed")
    BY <1>3, <2>1 DEF Failed
  <2> QED
    BY <1>3, <2>2 DEF VInv, PInv, Rightly, Valid
<1>12. Settled(r)'
  <2>1. SUFFICES ASSUME request[r].ignore \cap History = {},
                        NEW i \in DOMAIN request[r].paths, i < at'[r], NEW s, s = request[r].paths[i]
                 PROVE  Done(r, s)'
    BY <1>1 DEF Settled
  <2>2. s \in Skills /\ i \in 1 .. Len(request[r].paths)
    BY <1>1, <2>1, RequestType
  <2>3. CASE i < at[r]
    <3>1. Done(r, s)
      BY <1>4, <2>1, <2>3 DEF VInv, PInv, Settled
    <3>2. \A rule : Failed(r, s, rule) => Failed(r, s, rule)'
      BY <1>3, <2>2 DEF Failed
    <3> QED
      BY <1>1, <3>1, <3>2 DEF Done
  <2>4. CASE i = at[r]
    <3>1. failed \in results'[r][s]
      BY <1>1, <1>2, <2>1, <2>4
    <3> QED
      BY <3>1 DEF Done, Failed
  <2> QED
    BY <1>1, <1>6, <2>1, <2>2, <2>3, <2>4
<1>13. Labelled(r)'
  <2>1. Chosen(r)' = Chosen(r)
    BY <1>1 DEF Chosen
  <2> QED
    BY <1>1, <2>1 DEF VInv, PInv, Labelled
<1>14. Told(r)'
  <2>1. SUFFICES ASSUME "history.write.failed" \notin request[r].ignore, NEW o \in objects, o.run = r,
                        ~Failed(r, o.skill, "history.write.failed")'
                 PROVE  o.exit = ExitCode(r, results[r][o.skill])'
    BY <1>1 DEF Told
  <2>2. o.skill \in Skills
    BY DEF VInv, TInv, TypeOK, Object
  <2>3. ASSUME o.skill = Here(r) PROVE FALSE
    <3>1. failed \in results'[r][o.skill] /\ failed[1] = "history.write.failed"
      BY <1>2, <2>3
    <3> QED
      BY <2>1, <3>1 DEF Failed
  <2>4. results'[r][o.skill] = results[r][o.skill]
    BY <1>2, <2>2, <2>3
  <2>5. ExitCode(r, results[r][o.skill])' = ExitCode(r, results[r][o.skill])
    BY <1>1, <2>4 DEF ExitCode, Code, Regressed, Valid
  <2>6. ~Failed(r, o.skill, "history.write.failed")
    BY <2>1, <2>4 DEF Failed
  <2> QED
    BY <1>4, <2>1, <2>5, <2>6 DEF VInv, PInv, Told
<1>15. Seen(r)'
  <2>1. \A s, o : Earlier(r, s, o)' <=> Earlier(r, s, o)
    BY <1>1 DEF Earlier
  <2>2. \A s \in Skills : \A rule : Failed(r, s, rule) => Failed(r, s, rule)'
    BY <1>3 DEF Failed
  <2>3. \A s \in Skills : \A d \in results'[r][s] : d[1] \notin History => d \in results[r][s]
    BY <1>3 DEF History
  <2>4. before'[r] \subseteq objects'
    BY <1>1 DEF VInv, PInv, Seen
  <2>5. SUFFICES ASSUME request[r].ignore = {}, NEW s \in Skills, Behind(r, s)',
                        \E d \in results'[r][s] : d[2] = "error" /\ d[1] \notin History,
                        NEW o \in before[r], Earlier(r, s, o)'
                 PROVE  Failed(r, s, "history.skill.regressed")' \/ Failed(r, s, "history.read.failed")'
    BY <1>1, <2>4 DEF Seen
  <2>6. Failed(r, s, "history.skill.regressed") \/ Failed(r, s, "history.read.failed")
    BY <1>5, <2>1, <2>3, <2>5 DEF VInv, PInv, Seen
  <2> QED
    BY <2>2, <2>6
<1> QED
  BY <1>7, <1>8, <1>9, <1>10, <1>11, <1>12, <1>13, <1>14, <1>15 DEF PInv

LEMMA ReportKeeps ==
    ASSUME VInv, NEW r \in Runs, Report(r) PROVE PInv(r)'
<1>1. /\ pc[r] = "report" /\ pc'[r] = "done" /\ request[r] \in Requests
      /\ status'[r] = ExitCode(r, UNION {results'[r][s] : s \in Skills})
      /\ UNCHANGED <<objects, request, at, text, label, before, spoilt>>
  BY DEF VInv, TInv, TypeOK, Where, Report, Exit, Goto, store, notes
<1>2. \A s \in Skills : results'[r][s] = Kept(r, results[r][s])
  BY DEF VInv, TInv, TypeOK, Report
<1>3. Live(r)
  BY <1>1 DEF Live
<1>4. \A s \in Skills : \A d \in results[r][s] :
          d[1] # "history.write.failed" \/ d[1] \notin request[r].ignore => d \in results'[r][s]
  BY <1>2 DEF VInv, PInv, Filtered, Kept
<1>5. \A s \in Skills : results'[r][s] \subseteq results[r][s]
  BY <1>2 DEF Kept
<1>6. \A D : ExitCode(r, D)' = ExitCode(r, D)
  BY <1>1 DEF ExitCode, Code, Regressed, Valid
<1>7. Blank(r)' /\ Filtered(r)'
  BY <1>1, <1>5 DEF VInv, PInv, Blank, Filtered
<1>8. Spoils(r)'
  BY <1>1, <1>4 DEF VInv, PInv, Spoils, All
<1>9. Exited(r)'
  <2>1. UNION {results'[r][s] : s \in Skills} = All(r)'
    BY DEF All
  <2> QED
    BY <1>1, <2>1 DEF Exited, ExitCode, Code, Regressed, Valid
<1>10. Reached(r)'
  <2>1. Asked(r)' = Asked(r)
    BY <1>1 DEF Asked
  <2>2. \A s \in Skills : Behind(r, s) => Behind(r, s)'
    BY <1>1 DEF Behind
  <2> QED
    BY <1>1, <1>5, <2>1, <2>2 DEF VInv, PInv, Reached
<1>11. Rightly(r)'
  <2>1. SUFFICES ASSUME NEW s \in Skills, Failed(r, s, "history.skill.regressed")'
                 PROVE  /\ ~Valid(results'[r][s])
                        /\ \E o \in objects : o.run # r /\ o.skill = s /\ o.valid /\ o.label = label[r][s]
    BY <1>1 DEF Rightly, Valid
  <2>2. Failed(r, s, "history.skill.regressed")
    BY <1>5, <2>1 DEF Failed
  <2>3. PICK d \in results[r][s] : d[2] = "error"
    BY <2>2 DEF VInv, PInv, Rightly, Valid
  <2>4. d[1] # "history.write.failed"
    BY <2>3 DEF VInv, PInv, Filtered
  <2>5. d \in results'[r][s]
    BY <1>4, <2>3, <2>4
  <2> QED
    BY <2>2, <2>3, <2>5 DEF VInv, PInv, Rightly, Valid
<1>12. Settled(r)'
  <2>1. SUFFICES ASSUME request[r].ignore \cap History = {},
                        NEW i \in DOMAIN request[r].paths, i < at[r], NEW s, s = request[r].paths[i]
                 PROVE  Done(r, s)'
    BY <1>1 DEF Settled
  <2>2. s \in Skills
    BY <1>1, <2>1, RequestType
  <2>3. Done(r, s)
    BY <1>3, <2>1 DEF VInv, PInv, Settled
  <2>4. \A rule \in History : Failed(r, s, rule) => Failed(r, s, rule)'
    BY <1>4, <2>1, <2>2 DEF Failed
  <2> QED
    BY <1>1, <2>3, <2>4 DEF Done, History
<1>13. Labelled(r)'
  <2>1. Chosen(r)' = Chosen(r)
    BY <1>1 DEF Chosen
  <2> QED
    BY <1>1, <2>1 DEF VInv, PInv, Labelled
<1>14. Told(r)'
  <2>1. SUFFICES ASSUME "history.write.failed" \notin request[r].ignore, NEW o \in objects, o.run = r,
                        ~Failed(r, o.skill, "history.write.failed")'
                 PROVE  o.exit = ExitCode(r, results[r][o.skill])'
    BY <1>1 DEF Told
  <2>2. o.skill \in Skills
    BY DEF VInv, TInv, TypeOK, Object
  <2>3. results'[r][o.skill] = results[r][o.skill]
    BY <1>4, <1>5, <2>1, <2>2
  <2>4. ExitCode(r, results[r][o.skill])' = ExitCode(r, results[r][o.skill])
    BY <1>1, <2>3 DEF ExitCode, Code, Regressed, Valid
  <2>5. ~Failed(r, o.skill, "history.write.failed")
    BY <2>1, <2>3 DEF Failed
  <2> QED
    BY <1>3, <2>1, <2>4, <2>5 DEF VInv, PInv, Told
<1>15. Seen(r)'
  <2>1. before'[r] \subseteq objects'
    BY <1>1 DEF VInv, PInv, Seen
  <2>2. SUFFICES ASSUME request[r].ignore = {}, NEW s \in Skills, Behind(r, s)',
                        \E d \in results'[r][s] : d[2] = "error" /\ d[1] \notin History,
                        NEW o \in before[r], Earlier(r, s, o)'
                 PROVE  Failed(r, s, "history.skill.regressed")' \/ Failed(r, s, "history.read.failed")'
    BY <1>1, <2>1 DEF Seen
  <2>3. results'[r][s] = results[r][s]
    BY <1>4, <1>5, <2>2
  <2>4. Earlier(r, s, o)
    BY <1>1, <2>2 DEF Earlier
  <2>5. Behind(r, s)
    BY <1>1, <2>2 DEF Behind
  <2> QED
    BY <2>2, <2>3, <2>4, <2>5 DEF VInv, PInv, Seen, Failed
<1> QED
  BY <1>7, <1>8, <1>9, <1>10, <1>11, <1>12, <1>13, <1>14, <1>15 DEF PInv

LEMMA KeepsStep == VInv /\ [Next]_vars => VInv'
<1> SUFFICES ASSUME VInv, [Next]_vars PROVE VInv'
  OBVIOUS
<1>1. TInv'
  BY TypeStep DEF VInv
<1>2. objects' \subseteq Object
  BY <1>1 DEF TInv, TypeOK
<1>3. ASSUME NEW r \in Runs, Start(r) \/ Proceed(r) \/ Kill(r) PROVE VInv'
  <2>1. PInv(r)'
    BY <1>3, StartKeeps, KillKeeps, RefuseKeeps, ValidateKeeps, PassOverKeeps, IdentifyKeeps, IdentifyFailsKeeps,
       ReadKeeps, PublishKeeps, RecordedKeeps, WriteFailsKeeps, ReportKeeps DEF Proceed
  <2>2. ASSUME NEW q \in Runs, q # r PROVE PInv(q)'
    <3>1. Same(q)
      BY <1>3, <2>2, Frame DEF VInv, TInv
    <3>2. Grows(q)
      BY <1>3, <2>2, StoreGrows, ItemType DEF VInv, Grows
    <3> QED
      BY <1>2, <3>1, <3>2, OthersLast DEF VInv
  <2> QED
    BY <1>1, <2>1, <2>2 DEF VInv
<1>4. CASE UNCHANGED <<pc, local, before, spoilt, objects, acked>>
  <2>1. ASSUME NEW q \in Runs PROVE PInv(q)'
    BY <1>2, <1>4, WorldSame, OthersLast DEF VInv, Grows
  <2> QED
    BY <1>1, <2>1 DEF VInv
<1> QED
  BY <1>3, <1>4, Steps

LEMMA KeepsInit == Init => VInv
<1> SUFFICES ASSUME Init PROVE VInv
  OBVIOUS
<1>1. TInv
  BY TypeInit
<1>2. ASSUME NEW r \in Runs PROVE PInv(r)
  <2>1. /\ pc[r] = "idle" /\ at[r] = 1 /\ status[r] = None /\ objects = {} /\ r \notin spoilt
        /\ before[r] = {} /\ \A s \in Skills : results[r][s] = {} /\ label[r][s] = None
    BY <1>2 DEF Init
  <2>2. ~Finished(r) /\ ~Live(r)
    BY <2>1, RunAssumption DEF Finished, Live
  <2> QED
    BY <2>1, <2>2 DEF PInv, Blank, Filtered, Spoils, Exited, Reached, Rightly, Settled, Labelled, Told,
                      Seen, Failed
<1> QED
  BY <1>1, <1>2 DEF VInv

LEMMA VInvHolds == Spec => []VInv
BY KeepsInit, KeepsStep, PTL DEF Spec

(* A run that has ended is behind every skill it was asked about. *)
LEMMA AllBehind ==
    ASSUME VInv, NEW r \in Runs, Finished(r), NEW s \in Asked(r)
    PROVE  /\ request[r] \in Requests /\ s \in Skills /\ Behind(r, s) /\ Live(r)
           /\ request[r].ignore \cap History = {} => Done(r, s)
<1>1. /\ request[r] \in Requests /\ at[r] = Len(request[r].paths) + 1
  BY RunAssumption DEF VInv, TInv, Where, Finished
<1>2. PICK i \in DOMAIN request[r].paths : s = request[r].paths[i]
  BY DEF Asked
<1>3. i < at[r] /\ s \in Skills
  BY <1>1, <1>2, RequestType
<1>4. Live(r)
  BY DEF Live
<1> QED
  BY <1>1, <1>2, <1>3, <1>4 DEF VInv, PInv, Settled, Behind
-----------------------------------------------------------------------------
(* No run loses the record of another one, however many run at a time: a    *)
(* run that reported no failure has a record of its own for every skill it  *)
(* could parse (append_history, history_store.py:26).                       *)
THEOREM RecordsKept == Spec => []KeepsRecords
<1>1. VInv => KeepsRecords
  BY AllBehind DEF KeepsRecords, Done
<1> QED
  BY <1>1, VInvHolds, PTL

(* What a process names is what it validated: the SKILL.md always, and the   *)
(* other files unless somebody edited the skill in between.  Its record      *)
(* keeps the name, whatever becomes of the process.                          *)
Names(r, s, l) == /\ validated[r][s] # None /\ l.bundle.text = validated[r][s].text
                  /\ <<r, s>> \in edited \/ l.bundle.part = validated[r][s].part
Truthful(r)    == /\ \A s \in Skills :
                         /\ text[r][s] # None => validated[r][s] # None /\ text[r][s] = validated[r][s].text
                         /\ Unnamed(r, s) => <<r, s>> \in edited \/ files[s] = validated[r][s]
                         /\ label[r][s] # None => Names(r, s, label[r][s])
                  /\ \A o \in objects : o.run = r => Names(r, o.skill, o.label)

(* And it names each skill once, in the order of the request. *)
Placed(r) == \A s \in Skills : label[r][s] # None => Behind(r, s) \/ (pc[r] = "read" /\ s = Here(r))
NInv      == VInv /\ \A r \in Runs : Truthful(r) /\ Placed(r)

LEMMA Watched ==
    ASSUME TypeOK, NEW r \in Runs, Start(r) \/ Proceed(r) \/ Kill(r)
    PROVE  /\ UNCHANGED <<files, edited>>
           /\ ~Validate(r) => validated' = validated
           /\ \A q \in Runs : q # r => validated'[q] = validated[q]
<1>1. CASE Validate(r)
  BY <1>1 DEF TypeOK, Validate
<1>2. CASE ~Validate(r)
  <2>1. Start(r) \/ Kill(r) => UNCHANGED <<files, validated, edited>>
    BY DEF Start, Kill
  <2>2. RefuseBatch(r) \/ PassOver(r) \/ Identify(r) \/ IdentifyFails(r) => UNCHANGED <<files, validated, edited>>
    BY DEF RefuseBatch, PassOver, Identify, IdentifyFails, notes
  <2>3. ReadHistory(r) \/ Publish(r) \/ Recorded(r) => UNCHANGED <<files, validated, edited>>
    BY DEF ReadHistory, Publish, Recorded, notes
  <2>4. WriteFails(r) \/ Report(r) => UNCHANGED <<files, validated, edited>>
    BY DEF WriteFails, Report, notes
  <2> QED
    BY <1>2, <2>1, <2>2, <2>3, <2>4 DEF Proceed
<1> QED
  BY <1>1, <1>2

(* A process that validates and names nothing. *)
LEMMA TruthfulLasts ==
    ASSUME NEW r \in Runs, Truthful(r), validated'[r] = validated[r], edited \subseteq edited',
           \A s \in Skills : text'[r][s] \in {text[r][s], None} /\ label'[r][s] \in {label[r][s], None},
           \A s \in Skills : Unnamed(r, s)' => Unnamed(r, s) /\ (files'[s] = files[s] \/ <<r, s>> \in edited'),
           \A o \in objects' : o.run = r => \/ o \in objects
                                            \/ /\ o.skill \in Skills /\ o.label = label[r][o.skill]
                                               /\ o.label # None
    PROVE  Truthful(r)'
<1>1. ASSUME NEW s \in Skills, label'[r][s] # None PROVE Names(r, s, label[r][s])' /\ label'[r][s] = label[r][s]
  <2>1. label'[r][s] = label[r][s] /\ Names(r, s, label[r][s])
    BY <1>1 DEF Truthful
  <2> QED
    BY <2>1 DEF Names
<1>2. ASSUME NEW o \in objects', o.run = r PROVE Names(r, o.skill, o.label)'
  <2>1. Names(r, o.skill, o.label)
    BY <1>2 DEF Truthful
  <2> QED
    BY <2>1 DEF Names
<1>3. ASSUME NEW s \in Skills
      PROVE  /\ text'[r][s] # None => validated'[r][s] # None /\ text'[r][s] = validated'[r][s].text
             /\ Unnamed(r, s)' => <<r, s>> \in edited' \/ files'[s] = validated'[r][s]
  BY <1>3 DEF Truthful
<1> QED
  BY <1>1, <1>2, <1>3 DEF Truthful, Names

LEMMA ValidateTruthful ==
    ASSUME VInv, NEW r \in Runs, Validate(r) PROVE Truthful(r)' /\ Placed(r)'
<1>1. /\ request[r] \in Requests /\ at[r] = 1 /\ pc[r] = "validate" /\ UNCHANGED <<objects, label, files>>
  BY DEF VInv, TInv, Where, Validate, store
<1>2. \A s \in Skills : label'[r][s] = None
  BY <1>1 DEF VInv, PInv, Blank
<1>3. \A o \in objects' : o.run # r
  <2>1. \A i \in DOMAIN request[r].paths : ~(i < at[r])
    BY <1>1, RequestType
  <2> QED
    BY <1>1, <2>1 DEF VInv, TInv, TypeOK, Object, PInv, Reached, Behind
<1>4. ASSUME NEW s \in Skills, text'[r][s] # None
      PROVE  validated'[r][s] # None /\ text'[r][s] = validated'[r][s].text /\ files'[s] = validated'[r][s]
  <2>1. s \in Asked(r) /\ text'[r][s] = files[s].text
    BY <1>4 DEF VInv, TInv, TypeOK, Validate
  <2>2. validated'[r][s] = files[s]
    BY <2>1 DEF VInv, TInv, TypeOK, Validate
  <2>3. files[s] # None
    BY RunAssumption DEF VInv, TInv, TypeOK
  <2> QED
    BY <1>1, <2>1, <2>2, <2>3
<1> QED
  BY <1>2, <1>3, <1>4 DEF Truthful, Unnamed, Placed

LEMMA IdentifyTruthful ==
    ASSUME NInv, NEW r \in Runs, Identify(r) PROVE Truthful(r)' /\ Placed(r)'
<1>1. /\ pc[r] = "label" /\ text[r][Here(r)] # None /\ Here(r) \in Skills /\ pc'[r] = "read"
      /\ UNCHANGED <<objects, files, text, validated, edited, request, at>>
  BY HereType DEF NInv, VInv, TInv, TypeOK, Identify, Goto, store, notes
<1>2. /\ label'[r][Here(r)] = Identity(r, Here(r))
      /\ \A s \in Skills : s # Here(r) => label'[r][s] = label[r][s]
  BY <1>1, IdentifyType DEF NInv, VInv, TInv, TypeOK, Identify
<1>3. label[r][Here(r)] = None
  BY <1>1, NotBehind DEF NInv, VInv, Placed
<1>4. Unnamed(r, Here(r))
  BY <1>1, <1>3 DEF Unnamed
<1>5. Names(r, Here(r), Identity(r, Here(r)))
  <2>1. /\ validated[r][Here(r)] # None /\ text[r][Here(r)] = validated[r][Here(r)].text
        /\ <<r, Here(r)>> \in edited \/ files[Here(r)] = validated[r][Here(r)]
    BY <1>1, <1>4 DEF NInv, Truthful
  <2>2. /\ Identity(r, Here(r)).bundle.text = text[r][Here(r)]
        /\ Identity(r, Here(r)).bundle.part = files[Here(r)].part
    BY DEF Identity
  <2> QED
    BY <2>1, <2>2 DEF Names
<1>6. \A s \in Skills : label'[r][s] # None => Names(r, s, label'[r][s])
  BY <1>2, <1>5 DEF NInv, Truthful
<1>7. \A s \in Skills : Unnamed(r, s)' => Unnamed(r, s)
  <2>1. Identity(r, Here(r)) # None
    BY <1>1, IdentityType, HereType DEF NInv, VInv
  <2> QED
    BY <1>1, <1>2, <2>1 DEF Unnamed
<1>8. Truthful(r)'
  BY <1>1, <1>6, <1>7 DEF NInv, Truthful, Names
<1>9. Placed(r)'
  <2>1. Here(r)' = Here(r) /\ \A s : Behind(r, s)' <=> Behind(r, s)
    BY <1>1 DEF Here, Behind
  <2> QED
    BY <1>1, <1>2, <2>1 DEF NInv, Placed
<1> QED
  BY <1>8, <1>9

(* The other actions of a process. *)
LEMMA QuietTruthful ==
    ASSUME NInv, NEW r \in Runs, Start(r) \/ Proceed(r) \/ Kill(r), ~Validate(r), ~Identify(r)
    PROVE  Truthful(r)' /\ Placed(r)'
<1>1. UNCHANGED <<files, validated, edited>>
  BY Watched DEF NInv, VInv, TInv
<1>2. /\ \A s \in Skills : text'[r][s] \in {text[r][s], None} /\ label'[r][s] \in {label[r][s], None}
      /\ pc'[r] \in {"label", "read", "record"} =>
             pc[r] \in {"label", "read", "record"} /\ text'[r] = text[r] /\ label'[r] = label[r]
  <2>1. CASE Kill(r)
    BY <2>1 DEF NInv, VInv, TInv, TypeOK, Kill, Goto
  <2>2. CASE Start(r)
    BY <2>2 DEF NInv, VInv, TInv, TypeOK, Start, Goto
  <2>3. CASE ~Kill(r) /\ ~Start(r)
    <3>1. UNCHANGED <<text, label>>
      <4>1. RefuseBatch(r) \/ PassOver(r) \/ IdentifyFails(r) => UNCHANGED <<text, label>>
        BY DEF RefuseBatch, PassOver, IdentifyFails
      <4>2. ReadHistory(r) \/ Publish(r) \/ Recorded(r) => UNCHANGED <<text, label>>
        BY DEF ReadHistory, Publish, Recorded, local
      <4>3. WriteFails(r) \/ Report(r) => UNCHANGED <<text, label>>
        BY DEF WriteFails, Report
      <4> QED
        BY <2>3, <4>1, <4>2, <4>3 DEF Proceed
    <3>2. pc[r] \in {"label", "read", "record"} \/ pc'[r] = "done"
      <4>1. RefuseBatch(r) \/ Report(r) => pc'[r] = "done"
        BY DEF NInv, VInv, TInv, TypeOK, RefuseBatch, Report, Exit, Goto
      <4>2. PassOver(r) \/ IdentifyFails(r) \/ ReadHistory(r) => pc[r] \in {"label", "read", "record"}
        BY DEF PassOver, IdentifyFails, ReadHistory
      <4>3. Publish(r) \/ Recorded(r) \/ WriteFails(r) => pc[r] \in {"label", "read", "record"}
        BY DEF Publish, Recorded, WriteFails
      <4> QED
        BY <2>3, <4>1, <4>2, <4>3 DEF Proceed
    <3> QED
      BY <3>1, <3>2
  <2> QED
    BY <2>1, <2>2, <2>3
<1>3. \A s \in Skills : Unnamed(r, s)' => Unnamed(r, s)
  BY <1>2 DEF Unnamed
<1>4. ASSUME NEW o \in objects', o.run = r, o \notin objects
      PROVE  o.skill \in Skills /\ o.label = label[r][o.skill] /\ o.label # None
  <2>1. pc[r] = "record" /\ o = Item(r)
    BY <1>4, StoreGrows
  <2>2. Here(r) \in Skills /\ label[r][Here(r)] # None
    BY <2>1, HereType DEF NInv, VInv, TInv, Where
  <2> QED
    BY <2>1, <2>2 DEF Item
<1>5. Truthful(r)'
  <2>1. Truthful(r)
    BY DEF NInv
  <2> QED
    BY <1>1, <1>2, <1>3, <1>4, <2>1, TruthfulLasts
<1>6. Placed(r)'
  <2>1. CASE Start(r) \/ RefuseBatch(r)
    <3>1. pc[r] \in {"idle", "validate"} /\ UNCHANGED label
      BY <2>1 DEF Start, RefuseBatch
    <3> QED
      BY <3>1 DEF NInv, VInv, PInv, Blank, Placed
  <2>2. CASE Kill(r)
    BY <2>2 DEF NInv, VInv, TInv, TypeOK, Kill, Placed
  <2>3. CASE PassOver(r) \/ IdentifyFails(r) \/ Recorded(r) \/ WriteFails(r)
    <3>1. pc[r] \in {"label", "record"} /\ Advance(r) /\ UNCHANGED <<label, request>>
      BY <2>3 DEF PassOver, IdentifyFails, Recorded, WriteFails
    <3>2. \A s : Behind(r, s) => Behind(r, s)'
      BY <3>1, BehindAdvance DEF NInv, VInv
    <3> QED
      BY <3>1, <3>2 DEF NInv, Placed
  <2>4. CASE ReadHistory(r)
    <3>1. pc[r] = "read" /\ pc'[r] = "record" /\ UNCHANGED <<label, request, at>>
      BY <2>4 DEF NInv, VInv, TInv, TypeOK, ReadHistory, Goto
    <3>2. request[r] \in Requests /\ at[r] \in DOMAIN request[r].paths
      BY <3>1 DEF NInv, VInv, TInv, Where
    <3>3. \A s : (Behind(r, s) \/ s = Here(r)) => Behind(r, s)'
      BY <3>1, <3>2 DEF Behind, Here
    <3> QED
      BY <3>1, <3>3 DEF NInv, Placed
  <2>5. CASE Publish(r)
    BY <2>5 DEF NInv, Publish, local, Placed, Behind, Here
  <2>6. CASE Report(r)
    <3>1. pc[r] = "report" /\ UNCHANGED <<label, request, at>>
      BY <2>6 DEF Report
    <3>2. \A s : Behind(r, s) => Behind(r, s)'
      BY <3>1 DEF Behind
    <3> QED
      BY <3>1, <3>2 DEF NInv, Placed
  <2> QED
    BY <2>1, <2>2, <2>3, <2>4, <2>5, <2>6 DEF Proceed
<1> QED
  BY <1>5, <1>6

(* A process that takes no step, while another one does or a skill is edited. *)
LEMMA StillTruthful ==
    ASSUME NInv, NEW q \in Runs, Same(q), Grows(q), validated'[q] = validated[q], edited \subseteq edited',
           \A s \in Skills : Unnamed(q, s) => files'[s] = files[s] \/ <<q, s>> \in edited'
    PROVE  Truthful(q)' /\ Placed(q)'
<1>1. \A s : Unnamed(q, s)' <=> Unnamed(q, s)
  BY DEF Same, Unnamed
<1>2. Truthful(q)'
  <2>1. Truthful(q) /\ \A o \in objects' : o.run = q => o \in objects
    BY DEF NInv, Grows
  <2>2. \A s \in Skills : text'[q][s] \in {text[q][s], None} /\ label'[q][s] \in {label[q][s], None}
    BY DEF Same
  <2> QED
    BY <1>1, <2>1, <2>2, TruthfulLasts
<1>3. Placed(q)'
  BY DEF NInv, Placed, Same, Behind, Here
<1> QED
  BY <1>2, <1>3

LEMMA NamesStep == NInv /\ [Next]_vars => NInv'
<1> SUFFICES ASSUME NInv, [Next]_vars PROVE NInv'
  OBVIOUS
<1>1. VInv'
  BY KeepsStep DEF NInv
<1>2. ASSUME NEW r \in Runs, Start(r) \/ Proceed(r) \/ Kill(r) PROVE NInv'
  <2>1. Truthful(r)' /\ Placed(r)'
    BY <1>2, ValidateTruthful, IdentifyTruthful, QuietTruthful DEF NInv
  <2>2. ASSUME NEW q \in Runs, q # r PROVE Truthful(q)' /\ Placed(q)'
    <3>1. Same(q)
      BY <1>2, <2>2, Frame DEF NInv, VInv, TInv
    <3>2. Grows(q)
      BY <1>2, <2>2, StoreGrows, ItemType DEF NInv, VInv, Grows
    <3>3. UNCHANGED <<files, edited>> /\ validated'[q] = validated[q]
      BY <1>2, <2>2, Watched DEF NInv, VInv, TInv
    <3> QED
      BY <3>1, <3>2, <3>3, StillTruthful
  <2> QED
    BY <1>1, <2>1, <2>2 DEF NInv
<1>3. ASSUME NEW s \in Skills, Edit(s) PROVE NInv'
  <2>1. /\ UNCHANGED <<pc, local, before, spoilt, objects, validated>>
        /\ edited' = edited \cup {<<r, s>> : r \in {q \in Runs : Unnamed(q, s)}}
        /\ \A t \in Skills : t # s => files'[t] = files[t]
    BY <1>3 DEF NInv, VInv, TInv, TypeOK, Edit, store
  <2>2. ASSUME NEW q \in Runs PROVE Truthful(q)' /\ Placed(q)'
    <3>1. Same(q) /\ Grows(q) /\ edited \subseteq edited' /\ validated'[q] = validated[q]
      BY <2>1, WorldSame DEF Grows
    <3>2. \A t \in Skills : Unnamed(q, t) => files'[t] = files[t] \/ <<q, t>> \in edited'
      BY <2>1
    <3> QED
      BY <3>1, <3>2, StillTruthful
  <2> QED
    BY <1>1, <2>2 DEF NInv
<1>4. CASE UNCHANGED <<files, pc, local, notes, store>>
  <2>1. ASSUME NEW q \in Runs PROVE Truthful(q)' /\ Placed(q)'
    <3>1. Same(q) /\ Grows(q) /\ UNCHANGED <<files, edited>> /\ validated'[q] = validated[q]
      BY <1>4, WorldSame DEF Grows, notes, store
    <3> QED
      BY <3>1, StillTruthful
  <2> QED
    BY <1>1, <2>1 DEF NInv
<1>5. \/ \E r \in Runs : Start(r) \/ Proceed(r) \/ Kill(r)
      \/ \E s \in Skills : Edit(s)
      \/ UNCHANGED <<files, pc, local, notes, store>>
  BY RunAssumption DEF Next, Damage, vars
<1> QED
  BY <1>2, <1>3, <1>4, <1>5

LEMMA NInvHolds == Spec => []NInv
<1>1. Init => NInv
  <2> SUFFICES ASSUME Init PROVE NInv
    OBVIOUS
  <2>1. VInv
    BY KeepsInit
  <2>2. \A r \in Runs : Truthful(r) /\ Placed(r)
    BY DEF Init, Truthful, Placed, Unnamed
  <2> QED
    BY <2>1, <2>2 DEF NInv
<1> QED
  BY <1>1, NamesStep, PTL DEF Spec

(* A reported regression is one (check_regression, core/history.py): another *)
(* run with these settings passed with what this one did not pass with, the  *)
(* SKILL.md that both validated and, unless the skill was edited under one   *)
(* of them, the other files too.                                             *)
THEOREM RegressionIsReal == Spec => []RegressionTrue
<1>1. ASSUME VInv, NInv, NEW r \in Runs, NEW s \in Skills, Failed(r, s, "history.skill.regressed")
      PROVE  /\ ~Valid(results[r][s])
             /\ \E o \in objects :
                   /\ o.run # r /\ o.skill = s /\ o.valid /\ o.label.options = Chosen(r)
                   /\ validated[r][s].text = validated[o.run][s].text
                   /\ \/ validated[r][s] = validated[o.run][s]
                      \/ <<r, s>> \in edited \/ <<o.run, s>> \in edited
  <2>1. ~Valid(results[r][s])
    BY <1>1 DEF VInv, PInv, Rightly
  <2>2. PICK o \in objects : o.run # r /\ o.skill = s /\ o.valid /\ o.label = label[r][s]
    BY <1>1 DEF VInv, PInv, Rightly
  <2>3. o.run \in Runs /\ o.label \in Label
    BY <1>1, <2>2 DEF VInv, TInv, TypeOK, Object
  <2>4. label[r][s] # None /\ o.label.options = Chosen(r)
    BY <1>1, <2>2, <2>3, RunAssumption DEF VInv, PInv, Labelled
  <2>5. Names(r, s, label[r][s]) /\ Names(o.run, s, label[r][s])
    BY <1>1, <2>2, <2>3, <2>4 DEF NInv, Truthful
  <2>6. /\ validated[r][s] \in [text : Texts, part : Parts]
        /\ validated[o.run][s] \in [text : Texts, part : Parts]
    BY <1>1, <2>3, <2>5 DEF VInv, TInv, TypeOK, Names
  <2>7. validated[r][s].part = validated[o.run][s].part => validated[r][s] = validated[o.run][s]
    <3>1. \A a, b \in [text : Texts, part : Parts] : a.text = b.text /\ a.part = b.part => a = b
      OBVIOUS
    <3>2. validated[r][s].text = validated[o.run][s].text
      BY <2>5 DEF Names
    <3> QED
      BY <2>6, <3>1, <3>2
  <2> QED
    BY <2>1, <2>2, <2>4, <2>5, <2>7 DEF Names
<1>2. VInv /\ NInv => RegressionTrue
  BY <1>1 DEF RegressionTrue
<1> QED
  BY <1>2, NInvHolds, VInvHolds, PTL

(* A history that cannot be read is a failure of the run, unless the user    *)
(* ignores it (_record_history, commands.py:441).                            *)
THEOREM MalformedFails == Spec => []MalformedNeverPasses
<1>1. ASSUME VInv, NEW r \in spoilt, Finished(r), "history.read.failed" \notin request[r].ignore
      PROVE  status[r] = 1
  <2>1. r \in Runs
    BY <1>1 DEF VInv, TInv, TypeOK
  <2>2. <<"history.read.failed", "error">> \in All(r) /\ status[r] = ExitCode(r, All(r))
    BY <1>1, <2>1 DEF VInv, PInv, Spoils, Exited
  <2>3. Code(All(r), request[r].strict) = 1
    BY <2>2 DEF Code
  <2> QED
    BY <2>2, <2>3 DEF ExitCode
<1>2. VInv => MalformedNeverPasses
  BY <1>1 DEF MalformedNeverPasses
<1> QED
  BY <1>2, VInvHolds, PTL

(* History does not judge: without --strict the status is that of the same   *)
(* findings without history, but for a history that cannot be read and for   *)
(* --fail-on-regression, and it never turns a failure into a success         *)
(* (run_validation, commands.py:527).                                        *)
THEOREM HistoryHasNoSay == Spec => []HistoryDoesNotJudge
<1>1. ASSUME VInv, NEW r \in Runs, Finished(r), NEW D, D = {d \in All(r) : d[1] \notin History}
      PROVE  /\ Code(D, request[r].strict) # 0 => status[r] # 0
             /\ \/ request[r].strict \/ <<"history.read.failed", "error">> \in All(r)
                \/ status[r] = Code(D, request[r].strict)
                \/ request[r].failing /\ Regressed(All(r)) /\ status[r] = 1
  <2>1. status[r] = ExitCode(r, All(r))
    BY <1>1 DEF VInv, PInv, Exited
  <2>2. All(r) \subseteq Diagnostic
    BY <1>1 DEF VInv, TInv, TypeOK, All
  <2>3. D \subseteq All(r)
    BY <1>1
  <2>4. Code(D, request[r].strict) # 0 => Code(All(r), request[r].strict) # 0
    BY <2>3 DEF Code, Valid
  <2>5. ASSUME ~request[r].strict, <<"history.read.failed", "error">> \notin All(r)
        PROVE  Code(All(r), request[r].strict) = Code(D, request[r].strict)
    <3>1. ASSUME NEW d \in All(r), d[2] = "error" PROVE d \in D
      <4>1. d \in Diagnostic
        BY <2>2, <3>1
      <4>2. d # <<"history.read.failed", "error">>
        BY <2>5, <3>1
      <4>3. d[1] # "history.read.failed"
        BY <3>1, <4>1, <4>2 DEF Diagnostic
      <4>4. d[1] \notin {"history.write.failed", "history.skill.regressed"}
        BY <1>1, <3>1 DEF VInv, PInv, Filtered, All
      <4> QED
        BY <1>1, <3>1, <4>3, <4>4 DEF History
    <3> QED
      BY <2>3, <2>5, <3>1 DEF Code, Valid
  <2> QED
    BY <2>1, <2>4, <2>5 DEF ExitCode
<1>2. VInv => HistoryDoesNotJudge
  BY <1>1 DEF HistoryDoesNotJudge, All
<1> QED
  BY <1>2, VInvHolds, PTL

(* What is recorded for a skill is what its findings alone would have given  *)
(* as status, and a batch is as good as its worst skill (build_entry,        *)
(* core/history.py:144).                                                     *)
THEOREM RecordsTell == Spec => []RecordsTellExit
<1>1. ASSUME VInv, NEW r \in Runs, Finished(r), "history.write.failed" \notin request[r].ignore,
             \A s \in Asked(r) : ~Failed(r, s, "history.write.failed")
      PROVE  /\ status[r] = 0 => \A o \in objects : o.run = r => o.exit = 0
             /\ (status[r] # 0 /\ \A s \in Asked(r) : \E o \in objects : o.run = r /\ o.skill = s)
                    => \E o \in objects : o.run = r /\ o.exit = status[r]
  <2>1. status[r] = ExitCode(r, All(r)) /\ Live(r)
    BY <1>1 DEF VInv, PInv, Exited, Live
  <2>2. \A s \in Skills : results[r][s] # {} => s \in Asked(r)
    BY <1>1 DEF VInv, PInv, Reached
  <2>3. \A s \in Skills : results[r][s] \subseteq All(r) /\ ~Failed(r, s, "history.write.failed")
    BY <1>1, <2>2 DEF All, Failed
  <2>4. ASSUME NEW o \in objects, o.run = r PROVE o.skill \in Skills /\ o.exit = ExitCode(r, results[r][o.skill])
    <3>1. o.skill \in Skills
      BY <1>1 DEF VInv, TInv, TypeOK, Object
    <3> QED
      BY <1>1, <2>1, <2>3, <2>4, <3>1 DEF VInv, PInv, Told
  <2>5. ASSUME status[r] = 0, NEW o \in objects, o.run = r PROVE o.exit = 0
    <3>1. results[r][o.skill] \subseteq All(r)
      BY <2>3, <2>4, <2>5
    <3>2. ExitCode(r, All(r)) = 0
      BY <2>1, <2>5
    <3>3. ExitCode(r, results[r][o.skill]) = 0
      BY <3>1, <3>2 DEF ExitCode, Code, Regressed, Valid
    <3> QED
      BY <2>4, <2>5, <3>3
  <2>6. ASSUME status[r] # 0, \A s \in Asked(r) : \E o \in objects : o.run = r /\ o.skill = s
        PROVE  \E o \in objects : o.run = r /\ o.exit = status[r]
    <3>1. \E s \in Skills : results[r][s] # {} /\ ExitCode(r, results[r][s]) = ExitCode(r, All(r))
      <4>1. \A d \in All(r) : \E s \in Skills : d \in results[r][s]
        BY DEF All
      <4>2. CASE request[r].failing /\ Regressed(All(r))
        BY <4>1, <4>2 DEF ExitCode, Regressed
      <4>3. CASE ~(request[r].failing /\ Regressed(All(r)))
        <5>1. \A s \in Skills : ~(request[r].failing /\ Regressed(results[r][s]))
          BY <2>3, <4>3 DEF Regressed
        <5>2. /\ ExitCode(r, All(r)) = Code(All(r), request[r].strict)
              /\ \A s \in Skills : ExitCode(r, results[r][s]) = Code(results[r][s], request[r].strict)
          BY <4>3, <5>1 DEF ExitCode
        <5>3. Code(All(r), request[r].strict) # 0
          BY <2>1, <2>6, <5>2
        <5>4. CASE \E d \in All(r) : d[2] = "error" /\ d[1] # "semantic"
          BY <4>1, <5>2, <5>4 DEF Code
        <5>5. CASE ~(\E d \in All(r) : d[2] = "error" /\ d[1] # "semantic") /\ ~Valid(All(r))
          <6>1. PICK d \in All(r) : d[2] = "error"
            BY <5>5 DEF Valid
          <6>2. PICK s \in Skills : d \in results[r][s]
            BY <4>1
          <6>3. Code(results[r][s], request[r].strict) = 3 /\ Code(All(r), request[r].strict) = 3
            BY <2>3, <5>5, <6>1, <6>2 DEF Code, Valid
          <6> QED
            BY <5>2, <6>2, <6>3
        <5>6. CASE ~(\E d \in All(r) : d[2] = "error" /\ d[1] # "semantic") /\ Valid(All(r))
          <6>1. PICK d \in All(r) : request[r].strict /\ d[2] = "warning"
            BY <5>3, <5>6 DEF Code
          <6>2. PICK s \in Skills : d \in results[r][s]
            BY <4>1
          <6>3. Code(results[r][s], request[r].strict) = 1 /\ Code(All(r), request[r].strict) = 1
            BY <2>3, <5>6, <6>1, <6>2 DEF Code, Valid
          <6> QED
            BY <5>2, <6>2, <6>3
        <5> QED
          BY <5>4, <5>5, <5>6
      <4> QED
        BY <4>2, <4>3
    <3>2. PICK s \in Skills : results[r][s] # {} /\ ExitCode(r, results[r][s]) = ExitCode(r, All(r))
      BY <3>1
    <3>3. PICK o \in objects : o.run = r /\ o.skill = s
      BY <2>2, <2>6, <3>2
    <3> QED
      BY <2>1, <2>4, <3>2, <3>3
  <2> QED
    BY <2>5, <2>6
<1>2. VInv => RecordsTellExit
  <2> SUFFICES ASSUME VInv, NEW r \in Runs, Finished(r), "history.write.failed" \notin request[r].ignore,
                      \A s \in Asked(r) : ~Failed(r, s, "history.write.failed")
               PROVE  LET mine  == {o \in objects : o.run = r}
                          whole == \A s \in Asked(r) : /\ text[r][s] # None
                                                       /\ \E o \in objects : o.run = r /\ o.skill = s
                      IN  /\ status[r] = 0 => \A o \in mine : o.exit = 0
                          /\ status[r] # 0 /\ whole => \E o \in mine : o.exit = status[r]
    BY DEF RecordsTellExit
  <2> QED
    BY <1>1
<1> QED
  BY <1>2, VInvHolds, PTL

(* A skill that lies in no other one has a bundle that no history is part of. *)
Bare == Inside = {} =>
            /\ \A r \in Runs : \A s \in Skills : label[r][s] # None => label[r][s].bundle.inner = {}
            /\ \A o \in objects : o.label.bundle.inner = {}

LEMMA LabelStep ==
    ASSUME TInv, NEW r \in Runs, Start(r) \/ Proceed(r) \/ Kill(r), NEW s \in Skills
    PROVE  label'[r][s] \in {label[r][s], None, Identity(r, s)}
<1>1. CASE Identify(r)
  <2>1. pc[r] = "label" /\ Here(r) \in Skills
    BY <1>1, HereType DEF Identify
  <2>2. s = Here(r) => label'[r][s] = Identity(r, s)
    BY <1>1, <2>1 DEF TInv, TypeOK, Identify
  <2> QED
    BY <1>1, <2>2, IdentifyType
<1>2. CASE Kill(r)
  BY <1>2 DEF TInv, TypeOK, Kill
<1>3. CASE ~(Identify(r) \/ Kill(r))
  <2>1. Start(r) => UNCHANGED label
    BY DEF Start
  <2>2. RefuseBatch(r) \/ Validate(r) \/ PassOver(r) \/ IdentifyFails(r) => UNCHANGED label
    BY DEF RefuseBatch, Validate, PassOver, IdentifyFails
  <2>3. ReadHistory(r) \/ Publish(r) \/ Recorded(r) \/ WriteFails(r) \/ Report(r) => UNCHANGED label
    BY DEF ReadHistory, Publish, Recorded, WriteFails, Report, local
  <2>4. UNCHANGED label
    BY <1>3, <2>1, <2>2, <2>3 DEF Proceed
  <2> QED
    BY <2>4
<1> QED
  BY <1>1, <1>2, <1>3

LEMMA BareStep == TInv /\ Bare /\ [Next]_vars => Bare'
<1> SUFFICES ASSUME TInv, Bare, [Next]_vars, Inside = {} PROVE Bare'
  BY DEF Bare
<1>1. \A r \in Runs : \A s \in Skills : label[r][s] # None => label[r][s].bundle.inner = {}
  BY DEF Bare
<1>2. \A o \in objects : o.label.bundle.inner = {}
  BY DEF Bare
<1>3. ASSUME NEW r \in Runs, Start(r) \/ Proceed(r) \/ Kill(r) PROVE Bare'
  <2>1. \A s : Identity(r, s).bundle.inner = {}
    BY DEF Identity, Inner
  <2>2. \A q \in Runs : \A s \in Skills : label'[q][s] # None => label'[q][s].bundle.inner = {}
    <3>1. \A q \in Runs : q # r => label'[q] = label[q]
      BY <1>3, Frame DEF TInv, Same
    <3>2. \A s \in Skills : label'[r][s] # None => label'[r][s].bundle.inner = {}
      BY <1>1, <1>3, <2>1, LabelStep
    <3> QED
      BY <1>1, <3>1, <3>2
  <2>3. pc[r] = "record" => Item(r).label.bundle.inner = {}
    <3>1. pc[r] = "record" => Here(r) \in Skills /\ label[r][Here(r)] # None
      BY HereType DEF TInv, Where
    <3>2. Item(r).label = label[r][Here(r)]
      BY DEF Item
    <3> QED
      BY <1>1, <3>1, <3>2
  <2>4. \A o \in objects' : o.label.bundle.inner = {}
    BY <1>2, <1>3, <2>3, StoreGrows
  <2> QED
    BY <2>2, <2>4 DEF Bare
<1>4. CASE UNCHANGED <<pc, local, before, spoilt, objects, acked>>
  BY <1>1, <1>2, <1>4 DEF Bare, local
<1> QED
  BY <1>3, <1>4, Steps

(* A regression is not missed: a run that fails where an earlier one passed  *)
(* with the same files and settings says so, whatever an agent answered      *)
(* either of them and whoever else runs, for skills none of which lies in    *)
(* another (comparable_runs of history_store.py).                            *)
THEOREM RegressionIsSeen ==
    ASSUME Inside = {}
    PROVE  Spec => []RegressionSeen
<1>1. Init => Bare
  BY RunAssumption DEF Init, Bare
<1>2. Spec => []Bare
  <2>1. Init => TInv /\ Bare
    BY <1>1, TypeInit
  <2>2. (TInv /\ Bare) /\ [Next]_vars => (TInv /\ Bare)'
    BY TypeStep, BareStep
  <2> QED
    BY <2>1, <2>2, PTL DEF Spec
<1>3. ASSUME VInv, Bare, NEW r \in Runs, Finished(r), request[r].ignore = {}, NEW s \in Asked(r),
             NEW o \in before[r], o.skill = s, o.valid, SameSettings(r, o.run), label[r][s] # None,
             o.label.bundle.text = label[r][s].bundle.text, o.label.bundle.part = label[r][s].bundle.part,
             \E d \in results[r][s] : d[2] = "error" /\ d[1] \notin History
      PROVE  Failed(r, s, "history.skill.regressed") \/ Failed(r, s, "history.read.failed")
  <2>1. s \in Skills /\ Behind(r, s)
    BY <1>3, AllBehind
  <2>2. o \in objects /\ o \in Object /\ o.run \in Runs
    BY <1>3 DEF VInv, TInv, TypeOK, PInv, Seen, Object
  <2>3. o.label \in Label /\ label[r][s] \in Label
    BY <1>3, <2>1, <2>2 DEF VInv, TInv, TypeOK, Object
  <2>4. o.label.options = Chosen(o.run) /\ label[r][s].options = Chosen(r)
    BY <1>3, <2>1, <2>2 DEF VInv, PInv, Labelled, SameSettings
  <2>5. Chosen(o.run) = Chosen(r)
    BY <1>3 DEF SameSettings, Chosen
  <2>6. o.label.bundle.inner = {} /\ label[r][s].bundle.inner = {}
    BY <1>3, <2>1, <2>2 DEF Bare
  <2>7. o.label.bundle = label[r][s].bundle
    <3>1. o.label.bundle \in Bundle /\ label[r][s].bundle \in Bundle
      BY <2>3 DEF Label
    <3>2. \A a, b \in Bundle : a.text = b.text /\ a.part = b.part /\ a.inner = b.inner => a = b
      BY DEF Bundle
    <3> QED
      BY <1>3, <2>6, <3>1, <3>2
  <2>8. o.label = label[r][s]
    BY <2>3, <2>4, <2>5, <2>7 DEF Label
  <2> QED
    BY <1>3, <2>1, <2>8 DEF VInv, PInv, Seen, Earlier
<1>4. VInv /\ Bare => RegressionSeen
  BY <1>3 DEF RegressionSeen
<1> QED
  BY <1>2, <1>4, VInvHolds, PTL
-----------------------------------------------------------------------------
LEMMA StoreStep ==
    ASSUME TInv, [Next]_vars, ~UNCHANGED <<objects, acked>>
    PROVE  Store!Next
<1>1. ASSUME NEW r \in Runs, Publish(r) \/ Recorded(r) PROVE Store!Next
  <2>1. pc[r] = "record" /\ (Store!Publish(Item(r)) \/ Store!Acknowledge(Item(r)))
    BY <1>1 DEF Publish, Recorded
  <2>2. Item(r) \in Object
    BY <2>1, ItemType
  <2> QED
    BY <2>1, <2>2 DEF Store!Next
<1>2. ASSUME NEW r \in Runs, Start(r) \/ Proceed(r) \/ Kill(r) PROVE Publish(r) \/ Recorded(r)
  BY <1>2 DEF Start, Proceed, Kill, RefuseBatch, Validate, PassOver, Identify, IdentifyFails,
              ReadHistory, WriteFails, Report, store
<1> QED
  BY <1>1, <1>2, Steps

(* Whatever runs validate, record or are killed, and however the skills     *)
(* change meanwhile, the histories refine ImmutableStore: records appear    *)
(* whole, none is taken away, and a run is told that its record is stored   *)
(* only when it is (history_store.py:51).                                   *)
THEOREM HistoryUsesStore == Spec => Store!Spec
<1>1. Init => Store!Init
  BY DEF Init, Store!Init
<1>2. TInv /\ [Next]_vars => [Store!Next]_(Store!vars)
  BY StoreStep DEF Store!vars
<1> QED
  BY <1>1, <1>2, TypeInit, TypeStep, PTL DEF Spec, Store!Spec
=============================================================================
