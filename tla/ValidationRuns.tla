--------------------------- MODULE ValidationRuns ---------------------------
(***************************************************************************)
(* Concurrent "tracemantle SKILL... --history" processes: run_validation   *)
(* and _record_history of commands.py, the records of history_store.py and *)
(* check_regression.  Each process reads the skills, later reads their     *)
(* bundles again to name what it validated, reads the history of each      *)
(* skill, and puts a record.  There is no lock.  The store of records is   *)
(* ImmutableStore.                                                         *)
(*                                                                         *)
(* A bundle is the text of its SKILL.md, the part that stands for its      *)
(* other files, and any history directory that lies inside of it.  A       *)
(* diagnostic is a rule and a severity; an ignored prefix is a set of      *)
(* rules.                                                                  *)
(***************************************************************************)
EXTENDS Naturals, Sequences, FiniteSets

CONSTANTS Runs,       \* processes; each runs once
          Skills,
          Inside,     \* <<s, t>>: the directory of s lies in that of t
          Texts, Parts,
          Contents,   \* what the files of each skill may hold
          Fragile,    \* skills whose histories others touch
          Broken,     \* texts that cannot be parsed
          Found,      \* text, part, strict -> what the rules find
          Graph,      \* text -> what --analyze-graph finds
          Requests,   \* the command lines in use
          None,       \* no text, no label, no exit status
          Foreign,    \* names a file of a history that is no record
          MaxRecords  \* history_store.py:54

Semantic   == {"semantic", "semantic.ingest"}
History    == {"history.skill.regressed", "history.read.failed", "history.write.failed"}
Rules      == {"parse.error", "symbolic", "graph"} \cup Semantic \cup History
Severity   == {"error", "warning", "info"}
Diagnostic == Rules \X Severity

(* What an agent answered; ingest says which answers are given. *)
Garbled == {"cannot be parsed"}
Request == [paths : Seq(Skills), strict : BOOLEAN, failing : BOOLEAN,
            analyze : BOOLEAN, ignore : SUBSET Rules, ingest : SUBSET {"critique", "graph"},
            critique : (SUBSET Severity) \cup {Garbled}, graph : (SUBSET Severity) \cup {Garbled}]

(* What a record says was validated: bundle_sha256, configuration_sha256. *)
Options == [strict : BOOLEAN, analyze : BOOLEAN, ignore : SUBSET Rules]
Bundle  == [text : Texts, part : Parts, inner : SUBSET ((Runs \cup {Foreign}) \X Skills)]
Label   == [bundle : Bundle, options : Options]
Object  == [run : Runs, skill : Skills, label : Label, valid : BOOLEAN, exit : {0, 1, 3}]

ASSUME RunAssumption ==
    /\ Contents \in [Skills -> SUBSET [text : Texts, part : Parts]]
    /\ Inside \subseteq Skills \X Skills /\ Fragile \subseteq Skills
    /\ Broken \subseteq Texts /\ None \notin Texts
    /\ Found \in [Texts \X Parts \X BOOLEAN -> SUBSET ({"symbolic"} \X Severity)]
    /\ Graph \in [Texts -> SUBSET ({"graph"} \X Severity)]
    /\ None \notin Label /\ None \notin {0, 1, 2, 3} /\ None \notin [text : Texts, part : Parts]
    /\ Requests \subseteq Request
    /\ \A q \in Requests : /\ q.paths # <<>>      \* each path once, commands.py:132
                            /\ \A i, j \in DOMAIN q.paths : q.paths[i] = q.paths[j] => i = j
    /\ Foreign \notin Runs /\ MaxRecords \in Nat

VARIABLES files,      \* the skills as they are now
          damaged,    \* skills whose history holds a file that is no record
          objects, acked,  \* the records, see ImmutableStore
          pc, request, at, text, results, label, status,  \* per process
          before,     \* history: records acknowledged when the process began
          spoilt,     \* history: processes that met a history they cannot read
          validated,  \* history: process -> skill -> the files it validated
          edited      \* history: <<process, skill>> edited after it was validated and
                      \* before the process named what it validated

store  == <<objects, acked>>
local  == <<request, at, text, results, label, status>>
notes  == <<before, spoilt, validated, edited>>
vars   == <<files, damaged, store, pc, local, notes>>

Store == INSTANCE ImmutableStore WITH Raw <- Object

TypeOK == /\ files \in [Skills -> [text : Texts, part : Parts]]
          /\ damaged \subseteq Skills
          /\ objects \subseteq Object /\ acked \subseteq objects
          /\ pc \in [Runs -> {"idle", "validate", "label", "read", "record", "report", "done"}]
          /\ request \in [Runs -> Requests \cup {None}]
          /\ at \in [Runs -> Nat]
          /\ text \in [Runs -> [Skills -> Texts \cup {None}]]
          /\ results \in [Runs -> [Skills -> SUBSET Diagnostic]]
          /\ label \in [Runs -> [Skills -> Label \cup {None}]]
          /\ status \in [Runs -> {0, 1, 2, 3, None}]
          /\ before \in [Runs -> SUBSET Object] /\ spoilt \subseteq Runs
          /\ validated \in [Runs -> [Skills -> [text : Texts, part : Parts] \cup {None}]]
          /\ edited \subseteq Runs \X Skills

Init == /\ files \in [Skills -> [text : Texts, part : Parts]]
        /\ \A s \in Skills : files[s] \in Contents[s]
        /\ damaged = {} /\ objects = {} /\ acked = {}
        /\ pc = [r \in Runs |-> "idle"]
        /\ request = [r \in Runs |-> None]
        /\ at = [r \in Runs |-> 1]
        /\ text = [r \in Runs |-> [s \in Skills |-> None]]
        /\ results = [r \in Runs |-> [s \in Skills |-> {}]]
        /\ label = [r \in Runs |-> [s \in Skills |-> None]]
        /\ status = [r \in Runs |-> None]
        /\ before = [r \in Runs |-> {}] /\ spoilt = {}
        /\ validated = [r \in Runs |-> [s \in Skills |-> None]] /\ edited = {}
-----------------------------------------------------------------------------
Valid(D) == \A d \in D : d[2] # "error"

CodeOfOld(D, strict) ==    \* slip: warnings end with 2, the status of bad usage
    IF \E d \in D : d[2] = "error" /\ d[1] # "semantic" THEN 1
    ELSE IF ~Valid(D) THEN 3
    ELSE IF \E d \in D : d[2] = "warning" THEN IF strict THEN 1 ELSE 2
    ELSE 0

(* Results of several files are judged together. *)
Code(D, strict) ==
    IF \E d \in D : d[2] = "error" /\ d[1] # "semantic" THEN 1
    ELSE IF ~Valid(D) THEN 3
    ELSE IF strict /\ \E d \in D : d[2] = "warning" THEN 1
    ELSE 0

Regressed(D)   == \E d \in D : d[1] = "history.skill.regressed"
ExitCode(r, D) == IF request[r].failing /\ Regressed(D) THEN 1
                  ELSE Code(D, request[r].strict)

Asked(r)   == {request[r].paths[i] : i \in DOMAIN request[r].paths}
Here(r)    == request[r].paths[at[r]]
Kept(r, D) == {d \in D : d[1] \notin request[r].ignore}

(* An agent response describes one skill, the first one. *)
Answer(r, kind, rule, response) ==
    IF kind \notin request[r].ingest THEN {}
    ELSE IF response = Garbled \/ files[request[r].paths[1]].text \in Broken
    THEN {<<"semantic.ingest", "error">>}
    ELSE {rule} \X response

Symbolic(r, s) ==
    LET f == files[s] IN
    IF f.text \in Broken THEN {<<"parse.error", "error">>}
    ELSE Found[f.text, f.part, request[r].strict]
         \cup (IF request[r].analyze /\ "graph" \notin request[r].ingest THEN Graph[f.text] ELSE {})

(* The bundle as create_manifest hashes it, with the SKILL.md that was parsed.
   The records and other files of a history are files like any other. *)
Inner(s) == {<<o.run, o.skill>> : o \in {p \in objects : <<p.skill, s>> \in Inside}}
            \cup {<<Foreign, t>> : t \in {u \in damaged : <<u, s>> \in Inside}}

ChosenModes(r) ==       \* slip: what an agent answered counts as configuration
    [strict |-> request[r].strict, analyze |-> request[r].ingest # {},
     ignore |-> request[r].ignore]

Chosen(r) == [strict |-> request[r].strict, analyze |-> request[r].analyze,
              ignore |-> request[r].ignore]
Identity(r, s) ==
    [bundle |-> [text |-> text[r][s], part |-> files[s].part, inner |-> Inner(s)],
     options |-> Chosen(r)]

Records(s) == {o \in objects : o.skill = s}
Unreadable(s) == s \in damaged \/ Cardinality(Records(s)) > MaxRecords

ComparableText(r, o) ==     \* slip: the text of SKILL.md alone is compared
    o.skill = Here(r) /\ o.label.bundle.text = text[r][Here(r)]

Comparable(r, o) == o.skill = Here(r) /\ o.label = label[r][Here(r)]

(* check_regression: an earlier run passed, this one does not. *)
Regression(r) ==
    IF ~Valid(results[r][Here(r)]) /\ \E o \in objects : Comparable(r, o) /\ o.valid
    THEN {<<"history.skill.regressed", "warning">>} ELSE {}

ItemUnescalated(r) ==   \* slip: the code is taken before --fail-on-regression
    LET s == Here(r) IN
    [run |-> r, skill |-> s, label |-> label[r][s], valid |-> Valid(results[r][s]),
     exit |-> Code(results[r][s], request[r].strict)]

Item(r) ==
    LET s == Here(r) IN
    [run |-> r, skill |-> s, label |-> label[r][s], valid |-> Valid(results[r][s]),
     exit |-> ExitCode(r, results[r][s])]
-----------------------------------------------------------------------------
Goto(r, l)  == pc' = [pc EXCEPT ![r] = l]
Merge(r, D) == results' = [results EXCEPT ![r][Here(r)] = D]

(* The next skill of the batch, or the report. *)
Advance(r) == /\ at' = [at EXCEPT ![r] = @ + 1]
              /\ Goto(r, IF at[r] = Len(request[r].paths) THEN "report" ELSE "label")

Exit(r, code) == /\ Goto(r, "done")
                 /\ status' = [status EXCEPT ![r] = code]

Start(r) == /\ pc[r] = "idle" /\ Goto(r, "validate")
            /\ \E q \in Requests : request' = [request EXCEPT ![r] = q]
            /\ before' = [before EXCEPT ![r] = acked]
            /\ UNCHANGED <<files, damaged, store, at, text, results, label, status, spoilt,
                           validated, edited>>

(* One response cannot be ingested for several skills. *)
Fanned(r) == /\ Len(request[r].paths) > 1
             /\ request[r].ingest # {}

RefuseBatch(r) == /\ pc[r] = "validate" /\ Fanned(r)
                  /\ Exit(r, 2)
                  /\ UNCHANGED <<files, damaged, store, request, at, text, results, label, notes>>

(* Every skill is parsed and its rules look at the other files; responses and
   graph findings are merged in, and what is ignored is taken out. *)
Validate(r) ==
    /\ pc[r] = "validate" /\ ~Fanned(r)
    /\ text' = [text EXCEPT ![r] = [s \in Skills |->
                  IF s \in Asked(r) /\ files[s].text \notin Broken THEN files[s].text ELSE None]]
    /\ results' = [results EXCEPT ![r] = [s \in Skills |->
                  IF s \notin Asked(r) THEN {}
                  ELSE Kept(r, Symbolic(r, s) \cup Answer(r, "critique", "semantic", request[r].critique)
                                              \cup Answer(r, "graph", "graph", request[r].graph))]]
    /\ validated' = [validated EXCEPT ![r] = [s \in Skills |->
                  IF s \in Asked(r) THEN files[s] ELSE None]]
    /\ Goto(r, "label")
    /\ UNCHANGED <<files, damaged, store, request, at, label, status, before, spoilt, edited>>

(* A skill that could not be parsed has no history. *)
PassOver(r) == /\ pc[r] = "label" /\ text[r][Here(r)] = None
               /\ Advance(r)
               /\ UNCHANGED <<files, damaged, store, request, text, results, label, status, notes>>

(* history_identity hashes the bundle, some time after it was validated. *)
Identify(r) == /\ pc[r] = "label" /\ text[r][Here(r)] # None
               /\ label' = [label EXCEPT ![r][Here(r)] = Identity(r, Here(r))]
               /\ Goto(r, "read")
               /\ UNCHANGED <<files, damaged, store, request, at, text, results, status, notes>>

(* Without an identity nothing can be compared or recorded. *)
IdentifyFails(r) ==
    /\ pc[r] = "label" /\ text[r][Here(r)] # None
    /\ Merge(r, Kept(r, results[r][Here(r)] \cup {<<"history.read.failed", "error">>}))
    /\ Advance(r)
    /\ UNCHANGED <<files, damaged, store, request, text, label, status, notes>>

ReadQuietly(r) ==       \* slip: a history that cannot be read is a warning
    /\ pc[r] = "read"
    /\ Merge(r, Kept(r, results[r][Here(r)] \cup
             IF Unreadable(Here(r)) THEN {<<"history.read.failed", "warning">>} ELSE Regression(r)))
    /\ spoilt' = IF Unreadable(Here(r)) THEN spoilt \cup {r} ELSE spoilt
    /\ Goto(r, "record")
    /\ UNCHANGED <<files, damaged, store, request, at, text, label, status, before,
                   validated, edited>>

(* All records are read before one is compared; one that is malformed spoils
   the reading, and the run is recorded all the same. *)
ReadHistory(r) ==
    /\ pc[r] = "read"
    /\ Merge(r, Kept(r, results[r][Here(r)] \cup
             IF Unreadable(Here(r)) THEN {<<"history.read.failed", "error">>} ELSE Regression(r)))
    /\ spoilt' = IF Unreadable(Here(r)) THEN spoilt \cup {r} ELSE spoilt
    /\ Goto(r, "record")
    /\ UNCHANGED <<files, damaged, store, request, at, text, label, status, before,
                   validated, edited>>

Publish(r) == /\ pc[r] = "record" /\ Store!Publish(Item(r))
              /\ UNCHANGED <<files, damaged, pc, local, notes>>

Recorded(r) == /\ pc[r] = "record" /\ Store!Acknowledge(Item(r))
               /\ Advance(r)
               /\ UNCHANGED <<files, damaged, request, text, results, label, status, notes>>

WriteFailsHard(r) ==    \* slip: a write that fails is an error
    /\ pc[r] = "record"
    /\ Merge(r, results[r][Here(r)] \cup {<<"history.write.failed", "error">>})
    /\ Advance(r)
    /\ UNCHANGED <<files, damaged, store, request, text, label, status, notes>>

(* put_record may fail before or after the record has its name. *)
WriteFails(r) ==
    /\ pc[r] = "record"
    /\ Merge(r, results[r][Here(r)] \cup {<<"history.write.failed", "warning">>})
    /\ Advance(r)
    /\ UNCHANGED <<files, damaged, store, request, text, label, status, notes>>

Report(r) ==
    /\ pc[r] = "report"
    /\ results' = [results EXCEPT ![r] = [s \in Skills |-> Kept(r, results[r][s])]]
    /\ Exit(r, ExitCode(r, UNION {results'[r][s] : s \in Skills}))
    /\ UNCHANGED <<files, damaged, store, request, at, text, label, notes>>

Proceed(r) == \/ RefuseBatch(r) \/ Validate(r) \/ PassOver(r) \/ Identify(r) \/ IdentifyFails(r)
              \/ ReadHistory(r) \/ Publish(r) \/ Recorded(r) \/ WriteFails(r) \/ Report(r)
-----------------------------------------------------------------------------
Running(r) == pc[r] \notin {"idle", "done"}

(* Validated, and not named yet. *)
Unnamed(r, s) == /\ pc[r] \in {"label", "read", "record"}
                 /\ text[r][s] # None /\ label[r][s] = None

Edit(s) == /\ \E f \in Contents[s] \ {files[s]} : files' = [files EXCEPT ![s] = f]
           /\ edited' = edited \cup {<<r, s>> : r \in {q \in Runs : Unnamed(q, s)}}
           /\ UNCHANGED <<damaged, store, pc, local, before, spoilt, validated>>

(* A file that is no record comes into a history. *)
Damage(s) == /\ damaged' = damaged \cup {s}
             /\ UNCHANGED <<files, store, pc, local, notes>>

(* What a process that is killed knew is gone with it. *)
Kill(r) == /\ Running(r) /\ Goto(r, "done")
           /\ request' = [request EXCEPT ![r] = None]
           /\ at'      = [at EXCEPT ![r] = 1]
           /\ text'    = [text EXCEPT ![r] = [s \in Skills |-> None]]
           /\ results' = [results EXCEPT ![r] = [s \in Skills |-> {}]]
           /\ label'   = [label EXCEPT ![r] = [s \in Skills |-> None]]
           /\ before'  = [before EXCEPT ![r] = {}]
           /\ spoilt'  = spoilt \ {r}
           /\ UNCHANGED <<files, damaged, store, status, validated, edited>>

Next == \/ \E r \in Runs : Start(r) \/ Proceed(r) \/ Kill(r)
        \/ \E s \in Skills : Edit(s)
        \/ \E s \in Fragile : Damage(s)

Spec == Init /\ [][Next]_vars
-----------------------------------------------------------------------------
Failed(r, s, rule) == \E d \in results[r][s] : d[1] = rule
Finished(r) == status[r] \in {0, 1, 3}
SameSettings(r, q) == /\ request[q] # None
                      /\ \A f \in {"strict", "analyze", "ignore"} : request[r][f] = request[q][f]

(* Concurrent runs do not lose each other's records: a run that reported no *)
(* failure has a record of its own for every skill it could parse           *)
(* (docs/evidence-workflow.md:14), unless the power failed.                 *)
KeepsRecords ==
    \A r \in Runs : Finished(r) /\ request[r].ignore \cap History = {} =>
        \A s \in Asked(r) :
            \/ text[r][s] = None
            \/ Failed(r, s, "history.read.failed") \/ Failed(r, s, "history.write.failed")
            \/ \E o \in objects : o.run = r /\ o.skill = s

(* What a run recorded is the status it ended with; the status of a batch   *)
(* is no better than any of its records and no worse than all of them       *)
(* (core/history.py:144), unless a write failed after the code was taken.   *)
RecordsTellExit ==
    \A r \in Runs : Finished(r) /\ "history.write.failed" \notin request[r].ignore =>
        LET mine == {o \in objects : o.run = r}
            whole == \A s \in Asked(r) : /\ text[r][s] # None
                                         /\ \E o \in objects : o.run = r /\ o.skill = s
        IN  (\A s \in Asked(r) : ~Failed(r, s, "history.write.failed")) =>
                /\ status[r] = 0 => \A o \in mine : o.exit = 0
                /\ status[r] # 0 /\ whole => \E o \in mine : o.exit = status[r]

(* A run that fails says so if a run that was recorded before it began had  *)
(* passed with the same files and the same settings, whatever an agent      *)
(* answered either of them, whoever runs meanwhile.                         *)
RegressionSeen ==
    \A r \in Runs : Finished(r) /\ request[r].ignore = {} =>
        \A s \in Asked(r) : \A o \in before[r] :
            /\ o.skill = s /\ o.valid /\ SameSettings(r, o.run)
            /\ label[r][s] # None
            /\ o.label.bundle.text = label[r][s].bundle.text
            /\ o.label.bundle.part = label[r][s].bundle.part
            /\ \E d \in results[r][s] : d[2] = "error" /\ d[1] \notin History
            => Failed(r, s, "history.skill.regressed") \/ Failed(r, s, "history.read.failed")

(* And it says so only if another run passed, with the same settings, what  *)
(* this one validated and did not pass: the same SKILL.md, and the same     *)
(* other files as well, unless these were edited in one of the two runs     *)
(* between the validation and the hashing that names it (commands.py:481).  *)
(* Then a run is recorded under files that it never looked at, and the      *)
(* comparison is one of names only.                                         *)
RegressionTrue ==
    \A r \in Runs : \A s \in Skills : Failed(r, s, "history.skill.regressed") =>
        /\ ~Valid(results[r][s])
        /\ \E o \in objects :
              /\ o.run # r /\ o.skill = s /\ o.valid /\ o.label.options = Chosen(r)
              /\ validated[r][s].text = validated[o.run][s].text
              /\ \/ validated[r][s] = validated[o.run][s]
                 \/ <<r, s>> \in edited \/ <<o.run, s>> \in edited

(* "malformed history cannot establish a gate pass"                         *)
(* (docs/implementation-status.md:21), in a batch neither, unless the user  *)
(* ignores the failure.                                                     *)
MalformedNeverPasses ==
    \A r \in spoilt : Finished(r) /\ "history.read.failed" \notin request[r].ignore
                        => status[r] = 1

(* History has no say in the status: without --strict a run whose history   *)
(* could be read ends as it would have ended without --history, but for     *)
(* --fail-on-regression (commands.py:527).  It never turns a failure into a *)
(* success.                                                                 *)
HistoryDoesNotJudge ==
    \A r \in Runs : Finished(r) =>
        LET all   == UNION {results[r][s] : s \in Skills}
            plain == Code({d \in all : d[1] \notin History}, request[r].strict)
        IN  /\ plain # 0 => status[r] # 0
            /\ \/ request[r].strict \/ <<"history.read.failed", "error">> \in all
               \/ status[r] = plain
               \/ request[r].failing /\ Regressed(all) /\ status[r] = 1

(* "New history writes never update a shared ledger or alter a skill        *)
(* bundle" (history_store.py:1).                                            *)
BundlesUnaltered ==
    [][(\E r \in Runs : Proceed(r)) => \A s \in Skills : Inner(s)' = Inner(s)]_vars
=============================================================================
