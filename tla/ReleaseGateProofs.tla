------------------------- MODULE ReleaseGateProofs -------------------------
(***************************************************************************)
(* Proofs about ReleaseGate for any bundle, policy, records and timing of  *)
(* the command and of the people around it.                                *)
(***************************************************************************)
EXTENDS ReleaseGate, FiniteSetTheorems, WellFoundedInduction, TLAPS

(* What the decision guarantees for every input, however it came about.     *)

LEMMA WorstType == ASSUME NEW S \in SUBSET States
                   PROVE  Worst(S) \in States
BY DEF Worst, States

(* Only unanimity passes, and a failure is never outranked. *)
LEMMA WorstPass == ASSUME NEW S \in SUBSET States, Worst(S) = "pass", NEW s \in S
                   PROVE  s = "pass"
BY DEF Worst, States

LEMMA WorstFail == ASSUME NEW S \in SUBSET States
                   PROVE  Worst(S) = "fail" <=> "fail" \in S
BY DEF Worst, States

LEMMA ValidType == ASSUME NEW in \in Input, NEW id
                   PROVE  /\ Valid(id, in) \in SUBSET in.records
                          /\ {r.state : r \in Valid(id, in)} \in SUBSET States
BY DEF Input, Evidence, Valid

LEMMA CheckStateType == ASSUME NEW in \in Input, NEW id
                        PROVE  CheckState(id, in) \in States
<1>1. Worst({r.state : r \in Valid(id, in)}) \in States
  BY ValidType, WorstType
<1> QED BY <1>1 DEF CheckState, States

LEMMA VerdictType == ASSUME NEW in \in Input
                     PROVE  Verdict(in) \in States
<1>1. {CheckState(id, in) : id \in Required(in)} \in SUBSET States
  BY CheckStateType
<1>2. Worst({CheckState(id, in) : id \in Required(in)}) \in States
  BY <1>1, WorstType
<1> QED BY <1>2 DEF Verdict, States

(* A required check fails exactly if an accepted record of it says so. *)
LEMMA CheckFails ==
  ASSUME NEW in \in Input, NEW id \in Required(in)
  PROVE  CheckState(id, in) = "fail" <=> \E r \in Valid(id, in) : r.state = "fail"
<1> DEFINE states == {r.state : r \in Valid(id, in)}
<1>1. Worst(states) = "fail" <=> "fail" \in states
  BY ValidType, WorstFail
<1>2. "fail" \in states <=> \E r \in Valid(id, in) : r.state = "fail"
  OBVIOUS
<1>3. Valid(id, in) # {} => (CheckState(id, in) = "fail" <=> Worst(states) = "fail")
  BY DEF CheckState
<1>4. Valid(id, in) = {} => CheckState(id, in) # "fail"
  BY DEF CheckState
<1> QED BY <1>1, <1>2, <1>3, <1>4

LEMMA VerdictFails ==
  ASSUME NEW in \in Input
  PROVE  Verdict(in) = "fail"
           <=> \E id \in Required(in) : \E r \in Valid(id, in) : r.state = "fail"
<1> DEFINE states == {CheckState(id, in) : id \in Required(in)}
<1>1. states \in SUBSET States
  BY CheckStateType
<1>2. Worst(states) = "fail" <=> "fail" \in states
  BY <1>1, WorstFail
<1>3. Verdict(in) = "fail" <=> Worst(states) = "fail" /\ Required(in) # {}
  BY DEF Verdict
<1>4. "fail" \in states <=> \E id \in Required(in) : CheckState(id, in) = "fail"
  OBVIOUS
<1> QED BY <1>2, <1>3, <1>4, CheckFails

(* What a pass takes of one required check. *)
LEMMA CheckPasses ==
  ASSUME NEW in \in Input, NEW id \in Required(in), CheckState(id, in) = "pass"
  PROVE  /\ Valid(id, in) # {}
         /\ \A r \in Valid(id, in) : r.state = "pass"
         /\ in.strict => \E r \in Valid(id, in) : r.method = "observed-execution"
<1> DEFINE states == {r.state : r \in Valid(id, in)}
<1>1. Valid(id, in) # {}
  BY DEF CheckState, Required
<1>2. Worst(states) = "pass"
  BY <1>1 DEF CheckState
<1>3. \A s \in states : s = "pass"
  BY <1>2, ValidType, WorstPass
<1>4. in.strict => \E r \in Valid(id, in) : r.method = "observed-execution"
  BY <1>1, <1>2 DEF CheckState, Required
<1> QED BY <1>1, <1>3, <1>4

LEMMA VerdictPasses ==
  ASSUME NEW in \in Input, Verdict(in) = "pass"
  PROVE  /\ Required(in) # {}
         /\ \A id \in Required(in) : CheckState(id, in) = "pass"
<1> DEFINE states == {CheckState(id, in) : id \in Required(in)}
<1>1. states \in SUBSET States
  BY CheckStateType
<1>2. Required(in) # {} /\ Worst(states) = "pass"
  BY DEF Verdict
<1>3. \A s \in states : s = "pass"
  BY <1>1, <1>2, WorstPass
<1> QED BY <1>2, <1>3

(* A record is judged by itself: not by the records next to it, and not by
   whether observed execution is asked for. *)
LEMMA JudgedAlone ==
  ASSUME NEW in \in Input, NEW E, NEW b, NEW r, NEW c
  PROVE  Compatible(r, c, [in EXCEPT !.records = E, !.strict = b]) <=> Compatible(r, c, in)
<1> DEFINE other == [in EXCEPT !.records = E, !.strict = b]
<1>1. /\ other.base = in.base /\ other.cand = in.cand /\ other.policy = in.policy
      /\ other.now = in.now /\ other.signed = in.signed /\ other.automated = in.automated
  BY DEF Input
<1> HIDE DEF other
<1>2. Vouched(r, other) <=> Vouched(r, in)
  BY <1>1 DEF Vouched, Automated
<1>3. Bound(r, c, other) <=> Bound(r, c, in)
  BY <1>1 DEF Bound
<1>4. Fresh(r, c, other) <=> Fresh(r, c, in)
  BY <1>1 DEF Fresh
<1>5. ScopeHolds(c, other) <=> ScopeHolds(c, in)
  BY <1>1 DEF ScopeHolds
<1>6. Reusable(r, c, other) <=> Reusable(r, c, in)
  BY <1>1 DEF Reusable, Changed
<1> QED BY <1>2, <1>3, <1>4, <1>5, <1>6 DEF Compatible, other
-----------------------------------------------------------------------------

(* What the properties need besides types: SKILL.md is never missing, a     *)
(* signature read was a signature made, what was read as approved had an    *)
(* approval that binds it, and a finished command answered from what it had *)
(* read.                                                                    *)
OnDisk   == \A p \in Paths : /\ base[p] \in Contents[p]
                             /\ tree[p] \in Contents[p]
                             /\ input.cand.files[p] \in Contents[p]
Answered == phase = "done" => verdict \in {Verdict(input), "infrastructure-error"}

Approved == /\ phase \in {"idle", "hashed", "manifested"} => input.automated = {}
            /\ \A r \in input.automated : \E a \in accepted : a.record = r /\ Binding(a)

GInv == /\ TypeOK
        /\ OnDisk
        /\ Approved
        /\ input.signed \subseteq signatures
        /\ Answered

LEMMA ManifestType ==
  ASSUME NEW hashed \in Files, NEW reread \in Files, hashed[Skill] # Absent
  PROVE  ManifestOf(hashed, reread) \in Manifest /\ ManifestOf(hashed, reread).files = hashed
<1> DEFINE docs    == [reread EXCEPT ![Skill] = hashed[Skill]]
           reached == Reach({Skill}, AllEdges(docs))
           deps    == {e \in AllEdges(docs) : e[1] \in reached}
           errors  == \/ \E p \in reached : docs[p] = Absent
                      \/ \E e \in deps : e[1] \in Reach({e[2]}, deps)
           opaque  == \E p \in reached : docs[p] # Absent /\ docs[p].sha \in Opaque
<1>1. deps \in SUBSET (Paths \X Paths)
  BY DEF AllEdges
<1>2. Describes[hashed[Skill].sha] \in Blobs
  BY ReleaseAssumption DEF Files
<1>3. errors \in BOOLEAN /\ (~errors /\ ~opaque) \in BOOLEAN
  OBVIOUS
<1>4. ManifestOf(hashed, reread) =
        [files |-> hashed, deps |-> deps, complete |-> ~errors /\ ~opaque,
         errors |-> errors, description |-> Describes[hashed[Skill].sha]]
  BY DEF ManifestOf
<1> HIDE DEF docs, reached, deps, errors, opaque
<1> QED BY <1>1, <1>2, <1>3, <1>4 DEF Manifest

LEMMA RecordType ==
  ASSUME TypeOK, NEW id \in CheckIds, NEW o \in Outcomes
  PROVE  RecordOf(id, o) \in Evidence
<1> DEFINE dom == {q \in o.inputs : tree[q] # Absent}
           ins == [p \in dom |-> tree[p].sha]
<1>1. o.inputs \subseteq Paths
  BY ReleaseAssumption
<1>2. ins \in [dom -> Blobs] /\ dom \in SUBSET Paths
  BY <1>1 DEF TypeOK, Files
<1>3. ins \in UNION {[S -> Blobs] : S \in SUBSET Paths}
  BY <1>2
<1>4. policy.checks[id].ident \in [IdentFields -> Ids]
  BY DEF TypeOK, Policy, RequiredCheck
<1>5. now \in Int /\ tree \in Files
  BY ReleaseAssumption DEF TypeOK
<1>6. /\ o.state \in States /\ o.method \in Methods /\ o.immutable \in BOOLEAN
      /\ o.context \in [ContextKeys -> Values]
  BY ReleaseAssumption
<1> HIDE DEF ins
<1> QED BY <1>3, <1>4, <1>5, <1>6, Zenon DEF RecordOf, Evidence, ins

LEMMA InitInvariant == Init => GInv
<1> SUFFICES ASSUME Init PROVE GInv
  OBVIOUS
<1> USE ReleaseAssumption
<1>1. PICK p \in PolicyRules :
         policy = [checks |-> p.checks, signers |-> p.signers,
                   automation |-> p.automation, trusted |-> {}]
  BY DEF Init
<1>2. policy \in Policy
  BY <1>1 DEF Policy
<1>3. FirstTree[Skill] # Absent
  BY ReleaseAssumption
<1>4. /\ ManifestOf(FirstTree, FirstTree) \in Manifest
      /\ ManifestOf(FirstTree, FirstTree).files = FirstTree
  BY <1>3, ManifestType
<1>5. input \in Input
  BY <1>2, <1>4 DEF Init, Input
<1>6. TypeOK
  BY <1>2, <1>5 DEF Init, TypeOK, States
<1>7. OnDisk
  BY <1>4 DEF Init, OnDisk
<1>8. Approved
  BY DEF Init, Approved
<1> QED BY <1>6, <1>7, <1>8 DEF Init, GInv, Answered

(* The world moves while the command stands still. *)
LEMMA LocalKept ==
  ASSUME GInv, UNCHANGED local, TypeOK', OnDisk', signatures \subseteq signatures'
  PROVE  GInv'
<1>1. Approved'
  BY DEF GInv, Approved, Binding, local
<1> QED BY <1>1 DEF GInv, Answered, local

LEMMA WorldKeeps ==
  ASSUME GInv, [Next]_vars, ~Command
  PROVE  GInv'
<1> USE ReleaseAssumption DEF GInv, local
<1>1. ASSUME NEW p \in Paths, NEW f \in Contents[p], Edit(p, f) PROVE GInv'
  <2>1. TypeOK'
    BY <1>1 DEF Edit, TypeOK, Files
  <2>2. OnDisk'
    BY <1>1 DEF Edit, TypeOK, OnDisk, Files
  <2> QED BY <1>1, <2>1, <2>2, LocalKept DEF Edit
<1>2. CASE Promote
  <2>1. TypeOK' /\ OnDisk'
    BY <1>2 DEF Promote, TypeOK, OnDisk
  <2> QED BY <1>2, <2>1, LocalKept DEF Promote
<1>3. ASSUME NEW id \in CheckIds, NEW o \in Outcomes, Observe(id, o) PROVE GInv'
  <2>1. TypeOK' /\ OnDisk'
    BY <1>3, RecordType DEF Observe, TypeOK, OnDisk
  <2> QED BY <1>3, <2>1, LocalKept DEF Observe
<1>4. ASSUME NEW r \in store, Trust(r) \/ Revoke(r) PROVE GInv'
  <2>1. policy' \in Policy
    BY <1>4 DEF Trust, Revoke, TypeOK, Policy
  <2>2. TypeOK' /\ OnDisk'
    BY <1>4, <2>1 DEF Trust, Revoke, TypeOK, OnDisk
  <2> QED BY <1>4, <2>2, LocalKept DEF Trust, Revoke
<1>5. ASSUME NEW r \in store, Sign(r) PROVE GInv'
  <2>1. TypeOK' /\ OnDisk'
    BY <1>5 DEF Sign, TypeOK, OnDisk
  <2> QED BY <1>5, <2>1, LocalKept DEF Sign
<1>6. ASSUME NEW r \in store, NEW u \in runs, NEW expires \in 1 .. MaxNow + 1,
             NEW genuine \in BOOLEAN, Approve(r, u, expires, genuine)
      PROVE  GInv'
  <2> DEFINE env == [record |-> r, policy |-> policy, run |-> u, issued |-> now,
                     expires |-> expires, genuine |-> genuine]
  <2>1. env \in Envelope /\ env.record = r
    BY DEF TypeOK, Envelope
  <2>2. approvals' = {a \in approvals : a.record # r} \cup {env}
    BY <1>6 DEF Approve
  <2> HIDE DEF env
  <2>3. /\ approvals' \subseteq Envelope
        /\ \A a, b \in approvals' : a.record = b.record => a = b
    BY <2>1, <2>2 DEF TypeOK
  <2>4. TypeOK' /\ OnDisk'
    BY <1>6, <2>3 DEF Approve, TypeOK, OnDisk
  <2> QED BY <1>6, <2>4, LocalKept DEF Approve
<1>7. ASSUME NEW p \in PolicyRules, Amend(p) PROVE GInv'
  <2>1. policy' \in Policy
    BY <1>7 DEF Amend, TypeOK, Policy
  <2>2. TypeOK' /\ OnDisk'
    BY <1>7, <2>1 DEF Amend, TypeOK, OnDisk
  <2> QED BY <1>7, <2>2, LocalKept DEF Amend
<1>8. CASE Tick
  <2>1. TypeOK' /\ OnDisk'
    BY <1>8 DEF Tick, TypeOK, OnDisk
  <2> QED BY <1>8, <2>1, LocalKept DEF Tick
<1>9. ASSUME NEW id \in RunIds, BeginRun(id) PROVE GInv'
  <2>1. [id |-> id, start |-> now] \in Run
    BY DEF TypeOK, Run
  <2>2. TypeOK' /\ OnDisk'
    BY <1>9, <2>1 DEF BeginRun, TypeOK, OnDisk
  <2> QED BY <1>9, <2>2, LocalKept DEF BeginRun
<1>10. CASE UNCHANGED vars
  <2>1. TypeOK' /\ OnDisk'
    BY <1>10 DEF vars, world, TypeOK, OnDisk
  <2> QED BY <1>10, <2>1, LocalKept DEF vars, world
<1> QED
  BY <1>1, <1>2, <1>3, <1>4, <1>5, <1>6, <1>7, <1>8, <1>9, <1>10 DEF Next

LEMMA CommandKeeps ==
  ASSUME GInv, Command
  PROVE  GInv'
<1> USE ReleaseAssumption DEF GInv
<1>1. ASSUME NEW E \in SUBSET store, NEW strict \in BOOLEAN, NEW u \in runs \cup {NoRun},
             HashBundles(E, strict, u)
      PROVE  GInv'
  <2>1. base[Skill] # Absent /\ tree[Skill] # Absent
    BY DEF OnDisk
  <2>2. /\ ManifestOf(base, base) \in Manifest
        /\ ManifestOf(tree, tree) \in Manifest /\ ManifestOf(tree, tree).files = tree
    BY <2>1, ManifestType DEF TypeOK
  <2>3. /\ input' \in Input
        /\ input'.cand = ManifestOf(tree, tree) /\ input'.signed = input.signed
        /\ input'.automated = input.automated
    BY <1>1, <2>2 DEF HashBundles, TypeOK, Input
  <2>4. Approved'
    BY <1>1, <2>3 DEF HashBundles, Approved
  <2> QED BY <1>1, <2>2, <2>3, <2>4 DEF HashBundles, world, TypeOK, OnDisk, Answered
<1>2. CASE AnalyzeReferences
  <2>1. input.cand.files \in Files /\ input.cand.files[Skill] # Absent
    BY DEF TypeOK, OnDisk, Input, Manifest
  <2>2. /\ ManifestOf(input.cand.files, tree) \in Manifest
        /\ ManifestOf(input.cand.files, tree).files = input.cand.files
    BY <2>1, ManifestType DEF TypeOK
  <2>3. now \in Int
    BY DEF TypeOK
  <2>4. /\ input' \in Input
        /\ input'.cand = ManifestOf(input.cand.files, tree) /\ input'.signed = input.signed
        /\ input'.automated = input.automated
    BY <1>2, <2>2, <2>3 DEF AnalyzeReferences, TypeOK, Input
  <2>5. Approved'
    BY <1>2, <2>4 DEF AnalyzeReferences, Approved
  <2> QED BY <1>2, <2>2, <2>4, <2>5 DEF AnalyzeReferences, world, TypeOK, OnDisk, Answered
<1>3. CASE LoadEvidence
  <2> DEFINE read     == Sidecars(input.records)
             approved == {a.record : a \in read}
             signed   == IF input.policy.signers THEN signatures \cap input.records ELSE {}
  <2>1. read \subseteq Envelope /\ \A a \in read : Binding(a)
    BY <1>3 DEF LoadEvidence, Sidecars, TypeOK
  <2>2. approved \in SUBSET Evidence
    BY <2>1 DEF Envelope
  <2>3. signed \in SUBSET Evidence /\ signed \subseteq signatures
    BY DEF TypeOK
  <2>4. input' = [input EXCEPT !.automated = approved, !.signed = signed]
    BY <1>3 DEF LoadEvidence, Loaded, TypeOK, Input
  <2>5. \A r \in approved : \E a \in read : a.record = r /\ Binding(a)
    BY <2>1
  <2> HIDE DEF read, approved, signed
  <2>6. /\ input' \in Input
        /\ input'.cand = input.cand /\ input'.signed \subseteq signatures
        /\ input'.automated = approved /\ input'.policy = input.policy
        /\ input'.now = input.now
    BY <2>2, <2>3, <2>4 DEF TypeOK, Input
  <2>7. /\ phase' = "loaded" /\ accepted' = read /\ run' = run
        /\ verdict' = verdict /\ UNCHANGED world
    BY <1>3 DEF LoadEvidence, read
  <2>8. \A a : Binding(a) => Binding(a)'
    BY <2>6, <2>7 DEF Binding
  <2>9. Approved'
    BY <2>5, <2>6, <2>7, <2>8 DEF Approved
  <2> QED BY <2>1, <2>6, <2>7, <2>9 DEF world, TypeOK, OnDisk, Answered
<1>4. CASE RefuseSidecar \/ LoadFails
  <2>1. Approved'
    BY <1>4 DEF RefuseSidecar, LoadFails, Approved, Binding
  <2> QED BY <1>4, <2>1 DEF RefuseSidecar, LoadFails, world, TypeOK, OnDisk, Answered, States
<1>5. CASE Decide
  <2>1. Verdict(input) \in States
    BY VerdictType DEF TypeOK
  <2>2. Approved'
    BY <1>5 DEF Decide, Approved, Binding
  <2> QED BY <1>5, <2>1, <2>2 DEF Decide, world, TypeOK, OnDisk, Answered
<1> QED BY <1>1, <1>2, <1>3, <1>4, <1>5 DEF Command

LEMMA Inductive == GInv /\ [Next]_vars => GInv'
BY WorldKeeps, CommandKeeps

THEOREM Invariance == Spec => []GInv
BY InitInvariant, Inductive, PTL DEF Spec

(* The comparison's state is well typed, whatever the people around it do. *)
THEOREM TypeCorrect == Spec => []TypeOK
<1>1. GInv => TypeOK
  BY DEF GInv
<1> QED BY <1>1, Invariance, PTL
-----------------------------------------------------------------------------
(* A record that passes for a candidate declares the digests of that very
   candidate, also when it was made for the baseline. *)
LEMMA DigestsAreTheCandidates ==
  ASSUME NEW in \in Input, NEW r \in Evidence, NEW c, Compatible(r, c, in),
         NEW p \in DOMAIN r.inputs
  PROVE  Sha(in.cand.files, p) = r.inputs[p]
<1>1. CASE r.bundle = in.cand.files
  BY <1>1 DEF Compatible, Bound
<1>2. CASE r.bundle # in.cand.files
  <2>1. p \in Paths
    BY DEF Evidence
  <2>2. p \in Governed(r, c, in.base.deps \cup in.cand.deps)
    BY DEF Governed
  <2>3. in.base.files[p] = in.cand.files[p]
    BY <1>2, <2>1, <2>2 DEF Compatible, Reusable, Changed
  <2>4. Sha(in.base.files, p) = r.inputs[p]
    BY <1>2 DEF Compatible, Bound
  <2> QED BY <2>3, <2>4 DEF Sha
<1> QED BY <1>1, <1>2

(* A pass rests, check by check, on authorised evidence for the files whose
   digest the report names. *)
THEOREM PassNeedsEvidence == Spec => []PassIsEarned
<1>1. GInv => PassIsEarned
  <2> SUFFICES ASSUME GInv, phase = "done", verdict = "pass" PROVE PassIsEarned
    BY DEF PassIsEarned
  <2>1. input \in Input /\ Verdict(input) = "pass"
    BY DEF GInv, TypeOK, Answered
  <2>2. Required(input) # {}
    BY <2>1, VerdictPasses
  <2>3. ASSUME NEW id \in Required(input)
        PROVE  \E r \in input.records :
                 LET c == input.policy.checks[id] IN
                 /\ r.check = id /\ r.state = "pass" /\ r.ident = c.ident
                 /\ \/ r \in input.policy.trusted
                    \/ /\ r.check \in input.policy.automation /\ r.bundle = input.cand.files
                       /\ \E a \in accepted :
                            /\ a.genuine /\ a.record = r /\ a.policy = input.policy
                            /\ a.run = run /\ run \in runs
                            /\ run.start <= r.at /\ r.at <= a.issued
                            /\ a.issued <= input.now /\ input.now < a.expires
                            /\ a.expires <= run.start + Lifetime
                 /\ input.policy.signers => r \in signatures
                 /\ input.strict => r.method = "observed-execution"
                 /\ r.at >= input.now - c.maxAge
                 /\ c.inputs \subseteq DOMAIN r.inputs
                 /\ \A p \in DOMAIN r.inputs : Sha(input.cand.files, p) = r.inputs[p]
    <3> DEFINE c == input.policy.checks[id]
    <3>1. CheckState(id, input) = "pass"
      BY <2>1, <2>3, VerdictPasses
    <3>2. PICK r \in Valid(id, input) :
            r.state = "pass" /\ (input.strict => r.method = "observed-execution")
      BY <2>1, <2>3, <3>1, CheckPasses
    <3>3. r \in input.records /\ r \in Evidence /\ r.check = id /\ Compatible(r, c, input)
      BY <2>1 DEF Valid, Input
    <3>4. id \in CheckIds
      BY <2>3 DEF Required
    <3>5. c.ident \in [IdentFields -> Ids] /\ c.maxAge \in Nat
      BY <2>1, <3>4 DEF Input, Policy, RequiredCheck
    <3>6. r.ident = c.ident
      BY <3>3, <3>5 DEF Compatible, SameIdentity, Evidence
    <3>7. r.at >= input.now - c.maxAge
      BY <2>1, <3>3, <3>5 DEF Compatible, Fresh, Evidence, Input
    <3>8. /\ r \in input.policy.trusted \/ Automated(r, input)
          /\ input.policy.signers => r \in signatures
      BY <3>3 DEF Compatible, Vouched, GInv
    <3>11. ASSUME Automated(r, input)
           PROVE  \E a \in accepted :
                    /\ a.genuine /\ a.record = r /\ a.policy = input.policy
                    /\ a.run = run /\ run \in runs
                    /\ run.start <= r.at /\ r.at <= a.issued
                    /\ a.issued <= input.now /\ input.now < a.expires
                    /\ a.expires <= run.start + Lifetime
      <4>1. PICK a \in accepted : a.record = r /\ Binding(a)
        BY <3>11 DEF Automated, GInv, Approved
      <4>2. run \in runs /\ run.start \in Nat /\ a.expires \in Nat /\ Lifetime \in Nat
        BY <4>1, ReleaseAssumption DEF GInv, TypeOK, Binding, Run, Envelope
      <4>3. a.expires <= run.start + Lifetime
        BY <4>1, <4>2 DEF Binding
      <4> QED BY <4>1, <4>2, <4>3 DEF Binding
    <3>9. c.inputs \subseteq DOMAIN r.inputs
      BY <3>3 DEF Compatible, Bound
    <3>10. \A p \in DOMAIN r.inputs : Sha(input.cand.files, p) = r.inputs[p]
      BY <2>1, <3>3, DigestsAreTheCandidates
    <3> QED BY <3>2, <3>3, <3>6, <3>7, <3>8, <3>9, <3>10, <3>11 DEF Automated
  <2> QED BY <2>2, <2>3 DEF PassIsEarned
<1> QED BY <1>1, Invariance, PTL

(* No accepted failure is hidden behind a pass. *)
THEOREM FailureIsNotHidden == Spec => []NoHiddenFailure
<1>1. GInv => NoHiddenFailure
  <2> SUFFICES ASSUME GInv, phase = "done", verdict = "pass",
                      NEW id \in Required(input), NEW r \in input.records,
                      r.check = id, Compatible(r, input.policy.checks[id], input)
               PROVE  r.state = "pass"
    BY DEF NoHiddenFailure
  <2>1. input \in Input /\ Verdict(input) = "pass"
    BY DEF GInv, TypeOK, Answered
  <2>2. r \in Valid(id, input)
    BY DEF Valid
  <2> QED BY <2>1, <2>2, VerdictPasses, CheckPasses
<1> QED BY <1>1, Invariance, PTL

(* Adding records to a failed comparison leaves it failed. *)
THEOREM FailureStays == Spec => []FailureIsFinal
<1>1. GInv => FailureIsFinal
  <2> SUFFICES ASSUME GInv, Verdict(input) = "fail", NEW E \in SUBSET store
               PROVE  Verdict([input EXCEPT !.records = @ \cup E]) = "fail"
    BY DEF FailureIsFinal
  <2> DEFINE more == [input EXCEPT !.records = @ \cup E]
  <2>1. input \in Input /\ more \in Input
    BY DEF GInv, TypeOK, Input
  <2>2. PICK id \in Required(input) : \E r \in Valid(id, input) : r.state = "fail"
    BY <2>1, VerdictFails
  <2>3. PICK r \in Valid(id, input) : r.state = "fail"
    BY <2>2
  <2>4. more = [input EXCEPT !.records = input.records \cup E, !.strict = input.strict]
    BY <2>1 DEF Input
  <2>5. Compatible(r, input.policy.checks[id], more)
    BY <2>1, <2>3, <2>4, JudgedAlone DEF Valid
  <2>6. more.policy = input.policy /\ more.records = input.records \cup E
    BY <2>1 DEF Input
  <2> HIDE DEF more
  <2>7. id \in Required(more) /\ r \in Valid(id, more)
    BY <2>2, <2>3, <2>5, <2>6 DEF Required, Valid
  <2>8. Verdict(more) = "fail"
    BY <2>1, <2>3, <2>7, VerdictFails
  <2> QED BY <2>8 DEF more
<1> QED BY <1>1, Invariance, PTL
-----------------------------------------------------------------------------
LEMMA SameValidSameVerdict ==
  ASSUME NEW in \in Input, NEW in2 \in Input, in2.policy = in.policy,
         in2.cand = in.cand, in2.strict = in.strict,
         \A id \in CheckIds : Valid(id, in2) = Valid(id, in)
  PROVE  Verdict(in2) = Verdict(in)
<1>1. Required(in2) = Required(in) /\ Required(in) \subseteq CheckIds
  BY DEF Required
<1>2. \A id \in CheckIds : CheckState(id, in2) = CheckState(id, in)
  BY DEF CheckState
<1>3. {CheckState(id, in2) : id \in Required(in2)} = {CheckState(id, in) : id \in Required(in)}
  BY <1>1, <1>2
<1> QED BY <1>1, <1>3 DEF Verdict

(* The records the command was pointed at exist. *)
Chosen == input.records \subseteq store

LEMMA ChosenKept == GInv /\ Chosen /\ [Next]_vars => Chosen'
<1> SUFFICES ASSUME GInv, Chosen, [Next]_vars PROVE Chosen'
  OBVIOUS
<1>1. ASSUME NEW E \in SUBSET store, NEW strict \in BOOLEAN, NEW u \in runs \cup {NoRun},
             HashBundles(E, strict, u)
      PROVE  Chosen'
  BY <1>1 DEF HashBundles, world, Chosen, GInv, TypeOK, Input
<1>2. CASE AnalyzeReferences \/ LoadEvidence
  BY <1>2 DEF AnalyzeReferences, LoadEvidence, Loaded, world, Chosen, GInv, TypeOK, Input
<1>3. ASSUME NEW id \in CheckIds, NEW o \in Outcomes, Observe(id, o) PROVE Chosen'
  BY <1>3 DEF Observe, local, Chosen
<1>4. ASSUME UNCHANGED <<input, store>> PROVE Chosen'
  BY <1>4 DEF Chosen
<1>5. \/ UNCHANGED <<input, store>> \/ AnalyzeReferences \/ LoadEvidence
      \/ \E E \in SUBSET store, strict \in BOOLEAN, u \in runs \cup {NoRun} :
           HashBundles(E, strict, u)
      \/ \E id \in CheckIds, o \in Outcomes : Observe(id, o)
  BY DEF Next, Command, vars, world, local, Edit, Promote, Trust, Revoke, Sign, Approve,
         BeginRun, Amend, Tick, RefuseSidecar, LoadFails, Decide
<1> QED
  BY <1>1, <1>2, <1>3, <1>4, <1>5

(* Who is authorised among the records of a command that is about to load. *)
Authorised(E) == {r \in E : \/ r \in input.policy.trusted
                            \/ \E a \in Sidecars({r}) : Binding(a)}

LEMMA LoadedParts ==
  ASSUME GInv, NEW E \in SUBSET store
  PROVE  /\ Loaded(E) \in Input /\ Loaded(E).records = E
         /\ Loaded(E).base = input.base /\ Loaded(E).cand = input.cand
         /\ Loaded(E).policy = input.policy /\ Loaded(E).now = input.now
         /\ Loaded(E).strict = input.strict
         /\ Loaded(E).automated = {a.record : a \in Sidecars(E)}
         /\ Loaded(E).signed = IF input.policy.signers THEN signatures \cap E ELSE {}
<1> DEFINE approved == {a.record : a \in Sidecars(E)}
           signed   == IF input.policy.signers THEN signatures \cap E ELSE {}
<1>1. approved \in SUBSET Evidence
  BY DEF Sidecars, GInv, TypeOK, Envelope
<1>2. signed \in SUBSET Evidence /\ E \in SUBSET Evidence
  BY DEF GInv, TypeOK
<1>3. input \in Input
  BY DEF GInv, TypeOK
<1>4. Loaded(E) = [input EXCEPT !.records = E, !.automated = approved, !.signed = signed]
  BY DEF Loaded
<1> HIDE DEF approved, signed
<1>5. /\ Loaded(E) \in Input /\ Loaded(E).records = E
      /\ Loaded(E).base = input.base /\ Loaded(E).cand = input.cand
      /\ Loaded(E).policy = input.policy /\ Loaded(E).now = input.now
      /\ Loaded(E).strict = input.strict
      /\ Loaded(E).automated = approved /\ Loaded(E).signed = signed
  BY <1>1, <1>2, <1>3, <1>4 DEF Input
<1> QED BY <1>5 DEF approved, signed

(* Two sets of records with the same approvals beside them: an authorised
   record is judged alike in both, another one is accepted in neither. *)
LEMMA JudgedAlike ==
  ASSUME GInv, NEW E \in SUBSET store, NEW A, A = Authorised(E),
         Sidecars(E) = Sidecars(A), NEW c, NEW r \in E
  PROVE  /\ r \in A => (Compatible(r, c, Loaded(A)) <=> Compatible(r, c, Loaded(E)))
         /\ Compatible(r, c, Loaded(E)) => r \in A
<1> DEFINE more == Loaded(E)
           less == Loaded(A)
<1>1. A \in SUBSET store /\ A \subseteq E
  BY DEF Authorised
<1>2. /\ more.base = less.base /\ more.cand = less.cand /\ more.policy = less.policy
      /\ more.now = less.now /\ more.automated = less.automated
      /\ more.policy = input.policy /\ more.automated = {a.record : a \in Sidecars(A)}
  <2>1. /\ more.base = input.base /\ more.cand = input.cand /\ more.policy = input.policy
        /\ more.now = input.now /\ more.automated = {a.record : a \in Sidecars(E)}
    BY LoadedParts
  <2>2. /\ less.base = input.base /\ less.cand = input.cand /\ less.policy = input.policy
        /\ less.now = input.now /\ less.automated = {a.record : a \in Sidecars(A)}
    BY <1>1, LoadedParts
  <2> HIDE DEF more, less
  <2> QED BY <2>1, <2>2
<1>3. r \in A => (r \in more.signed <=> r \in less.signed)
  BY <1>1, LoadedParts
<1> HIDE DEF more, less
<1>4. r \in A => (Vouched(r, less) <=> Vouched(r, more))
  BY <1>2, <1>3 DEF Vouched, Automated
<1>5. Bound(r, c, less) <=> Bound(r, c, more)
  BY <1>2 DEF Bound
<1>6. Fresh(r, c, less) <=> Fresh(r, c, more)
  BY <1>2 DEF Fresh
<1>7. ScopeHolds(c, less) <=> ScopeHolds(c, more)
  BY <1>2 DEF ScopeHolds
<1>8. Reusable(r, c, less) <=> Reusable(r, c, more)
  BY <1>2 DEF Reusable, Changed
<1>9. r \in more.automated => r \in A
  <2> SUFFICES ASSUME NEW a \in Sidecars(A), a.record = r PROVE r \in A
    BY <1>2
  <2> QED BY DEF Sidecars
<1>10. Vouched(r, more) => r \in A
  BY <1>2, <1>9 DEF Vouched, Automated, Authorised
<1> QED
  BY <1>4, <1>5, <1>6, <1>7, <1>8, <1>10 DEF Compatible, more, less

LEMMA AnswerOfAuthorised ==
  ASSUME GInv, NEW E \in SUBSET store
  PROVE  Answer(E) = IF Sidecars(E \ Authorised(E)) = {} THEN Answer(Authorised(E))
                     ELSE "infrastructure-error"
<1> DEFINE A == Authorised(E)
<1>1. A \in SUBSET store /\ A \subseteq E
  BY DEF Authorised
<1>2. Sidecars(E) = Sidecars(A) \cup Sidecars(E \ A)
  BY <1>1 DEF Sidecars
<1>3. ASSUME NEW a \in Sidecars(E \ A) PROVE a \in Sidecars(E) /\ ~Binding(a)
  <2>1. a.record \in E \ A /\ a \in Sidecars({a.record})
    BY <1>3 DEF Sidecars
  <2> QED BY <1>2, <2>1 DEF Authorised
<1>4. CASE Sidecars(E \ A) # {}
  BY <1>3, <1>4 DEF Answer
<1>5. CASE Sidecars(E \ A) = {}
  <2>1. Sidecars(E) = Sidecars(A)
    BY <1>2, <1>5
  <2>2. /\ Loaded(E) \in Input /\ Loaded(A) \in Input
        /\ Loaded(A).policy = Loaded(E).policy /\ Loaded(A).cand = Loaded(E).cand
        /\ Loaded(A).strict = Loaded(E).strict
        /\ Loaded(A).records = A /\ Loaded(E).records = E
    BY <1>1, LoadedParts
  <2>3. ASSUME NEW id \in CheckIds PROVE Valid(id, Loaded(A)) = Valid(id, Loaded(E))
    <3> DEFINE c == Loaded(E).policy.checks[id]
    <3>1. \A r \in E : /\ r \in A => (Compatible(r, c, Loaded(A)) <=> Compatible(r, c, Loaded(E)))
                       /\ Compatible(r, c, Loaded(E)) => r \in A
      BY <2>1, JudgedAlike
    <3>2. Valid(id, Loaded(A)) = {r \in A : r.check = id /\ Compatible(r, c, Loaded(A))}
      BY <2>2 DEF Valid
    <3>3. Valid(id, Loaded(E)) = {r \in E : r.check = id /\ Compatible(r, c, Loaded(E))}
      BY <2>2 DEF Valid
    <3> HIDE DEF c, A
    <3> QED BY <1>1, <3>1, <3>2, <3>3
  <2>4. Verdict(Loaded(A)) = Verdict(Loaded(E))
    BY <2>2, <2>3, SameValidSameVerdict
  <2> QED BY <1>5, <2>1, <2>4 DEF Answer
<1> QED BY <1>4, <1>5

(* Records that the allowlist and the approvals leave out can refuse the answer
   by an approval file of theirs, and change nothing else. *)
THEOREM SelfReportsHaveNoSay == Spec => []SelfReportsIgnored
<1>1. GInv /\ Chosen => SelfReportsIgnored
  <2> SUFFICES ASSUME GInv, Chosen PROVE SelfReportsIgnored
    OBVIOUS
  <2>a. Answer(input.records) =
          IF Sidecars(input.records \ Authorised(input.records)) = {}
          THEN Answer(Authorised(input.records)) ELSE "infrastructure-error"
    BY AnswerOfAuthorised DEF Chosen
  <2> DEFINE kept == {r \in input.records : r \in input.policy.trusted \/ r \in input.automated}
             less == [input EXCEPT !.records = kept]
  <2>1. input \in Input /\ less \in Input
    BY DEF GInv, TypeOK, Input
  <2>2. /\ less = [input EXCEPT !.records = kept, !.strict = input.strict]
        /\ less.policy = input.policy /\ less.cand = input.cand
        /\ less.strict = input.strict /\ less.records = kept
    BY <2>1 DEF Input
  <2>3. ASSUME NEW r, NEW c
        PROVE  Compatible(r, c, less) <=> Compatible(r, c, input)
    BY <2>1, <2>2, JudgedAlone
  <2>4. ASSUME NEW r \in input.records, NEW c, Compatible(r, c, input)
        PROVE  r \in kept
    BY <2>4 DEF Compatible, Vouched, Automated
  <2>b. less = [input EXCEPT !.records =
                  {r \in @ : r \in input.policy.trusted \/ r \in input.automated}]
    OBVIOUS
  <2> HIDE DEF less
  <2>5. ASSUME NEW id \in CheckIds PROVE Valid(id, less) = Valid(id, input)
    BY <2>2, <2>3, <2>4 DEF Valid
  <2>6. Verdict(input) = Verdict(less)
    BY <2>1, <2>2, <2>5, SameValidSameVerdict
  <2> QED BY <2>a, <2>b, <2>6 DEF SelfReportsIgnored, Authorised
<1>2. Init => GInv /\ Chosen
  <2>1. Init => input.records = {}
    BY DEF Init
  <2> QED BY <2>1, InitInvariant DEF Chosen
<1>3. GInv /\ Chosen /\ [Next]_vars => (GInv /\ Chosen)'
  BY Inductive, ChosenKept
<1> QED BY <1>1, <1>2, <1>3, PTL DEF Spec

(* Turning some passes into unknown only turns a pass of the whole into
   unknown. *)
LEMMA DemotionWithholds ==
  ASSUME NEW F, NEW G, "skipped" \notin F, "skipped" \notin G,
         "fail" \in G <=> "fail" \in F,
         "infrastructure-error" \in G <=> "infrastructure-error" \in F,
         "unknown" \in F => "unknown" \in G
  PROVE  Worst(G) = Worst(F) \/ (Worst(F) = "pass" /\ Worst(G) = "unknown")
BY DEF Worst

(* --require-observed-execution can withhold a pass and do nothing else. *)
THEOREM StrictWithholds == Spec => []StrictOnlyWithholds
<1>1. GInv => StrictOnlyWithholds
  <2> DEFINE plain  == [input EXCEPT !.strict = FALSE]
             strict == [input EXCEPT !.strict = TRUE]
             ids    == Required(input)
             F      == {CheckState(id, plain) : id \in ids}
             G      == {CheckState(id, strict) : id \in ids}
  <2> SUFFICES ASSUME GInv
               PROVE  \/ Verdict(strict) = Verdict(plain)
                      \/ Verdict(plain) = "pass" /\ Verdict(strict) = "unknown"
    BY DEF StrictOnlyWithholds
  <2>1. input \in Input /\ plain \in Input /\ strict \in Input
    BY DEF GInv, TypeOK, Input
  <2>2. /\ plain = [input EXCEPT !.records = input.records, !.strict = FALSE]
        /\ strict = [input EXCEPT !.records = input.records, !.strict = TRUE]
    BY <2>1 DEF Input
  <2>3. /\ plain.policy = input.policy /\ strict.policy = input.policy
        /\ plain.cand = input.cand /\ strict.cand = input.cand
        /\ plain.records = input.records /\ strict.records = input.records
        /\ plain.strict = FALSE /\ strict.strict = TRUE
    BY <2>1 DEF Input
  <2>4. ASSUME NEW r, NEW c
        PROVE  Compatible(r, c, plain) <=> Compatible(r, c, strict)
    BY <2>1, <2>2, JudgedAlone
  <2>5. ASSUME NEW id PROVE Valid(id, plain) = Valid(id, strict)
    <3> HIDE DEF plain, strict
    <3> QED BY <2>3, <2>4 DEF Valid
  <2> HIDE DEF plain, strict
  <2>6. Required(plain) = ids /\ Required(strict) = ids
    BY <2>3 DEF Required
  <2>7. ASSUME NEW id \in ids
        PROVE  /\ CheckState(id, plain) \in States \ {"skipped"}
               /\ \/ CheckState(id, strict) = CheckState(id, plain)
                  \/ CheckState(id, plain) = "pass" /\ CheckState(id, strict) = "unknown"
    <3>1. CheckState(id, plain) \in States
      BY <2>1, CheckStateType
    <3>2. plain.policy.checks[id].required /\ strict.policy.checks[id].required
      BY <2>3 DEF Required
    <3> QED BY <2>3, <2>5, <3>1, <3>2 DEF CheckState
  <2>8. /\ "skipped" \notin F /\ "skipped" \notin G
        /\ "fail" \in G <=> "fail" \in F
        /\ "infrastructure-error" \in G <=> "infrastructure-error" \in F
        /\ "unknown" \in F => "unknown" \in G
    BY <2>7
  <2> HIDE DEF F, G
  <2>9. Worst(G) = Worst(F) \/ (Worst(F) = "pass" /\ Worst(G) = "unknown")
    BY <2>8, DemotionWithholds
  <2>10. /\ F = {CheckState(id, plain) : id \in Required(plain)}
         /\ G = {CheckState(id, strict) : id \in Required(strict)}
    BY <2>6 DEF F, G
  <2> QED BY <2>3, <2>6, <2>9, <2>10 DEF Verdict
<1> QED BY <1>1, Invariance, PTL
-----------------------------------------------------------------------------
(* Induction over the natural numbers, for a set of them. *)
LEMMA NatSet ==
  ASSUME NEW T, 0 \in T, \A n \in T \cap Nat : n + 1 \in T
  PROVE  Nat \subseteq T
<1> SUFFICES ASSUME NEW m \in Nat, m \notin T PROVE FALSE
  OBVIOUS
<1> DEFINE above == {k \in 0 .. m : k \notin T}
           tails == {(0 .. k) : k \in above}
<1>1. IsFiniteSet(0 .. m)
  BY FS_Interval
<1>2. tails \subseteq FiniteSubsetsOf(0 .. m) /\ tails # {}
  <2>1. tails \subseteq SUBSET (0 .. m)
    OBVIOUS
  <2>2. m \in above
    OBVIOUS
  <2>3. (0 .. m) \in tails
    BY <2>2
  <2> QED
    BY <1>1, <2>1, <2>3, FS_FiniteSubsetsOfFinite
<1>3. PICK t \in tails : \A u \in tails : ~(<<u, t>> \in StrictSubsetOrdering(0 .. m))
  <2> HIDE DEF tails
  <2> QED
    BY <1>2, FS_StrictSubsetOrderingWellFounded, WFMin
<1>4. PICK k \in above : t = 0 .. k
  BY <1>3
<1>5. k \in Nat \ {0} /\ k - 1 \in 0 .. m
  BY <1>4
<1>6. k - 1 \in above
  <2>1. k - 1 \in T => (k - 1) + 1 \in T
    BY <1>5
  <2>2. (k - 1) + 1 = k
    BY <1>5
  <2> QED
    BY <1>4, <1>5, <2>1, <2>2
<1>7. <<(0 .. k - 1), (0 .. k)>> \in StrictSubsetOrdering(0 .. m)
  <2>1. (0 .. k - 1) \subseteq (0 .. m) /\ (0 .. k) \subseteq (0 .. m) 
    BY <1>4, <1>5
  <2>2. (0 .. k - 1) \subseteq (0 .. k) /\ (0 .. k - 1) # (0 .. k)
    BY <1>5
  <2> QED BY <2>1, <2>2, Zenon DEF StrictSubsetOrdering
<1>8. (0 .. k - 1) \in tails
  BY <1>6
<1> QED
  BY <1>3, <1>4, <1>7, <1>8

(* Iterating F from x. *)
Iterates(F, x, g) == g[0] = x /\ \A n \in Nat : g[n + 1] = F[g[n]]

LEMMA IterationExists ==
  ASSUME NEW X, NEW F \in [X -> X], NEW x \in X
  PROVE  \E g \in [Nat -> X] : Iterates(F, x, g)
<1> DEFINE Upto(n) == {h \in [0 .. n -> X] : h[0] = x /\ \A k \in 0 .. n : k # n => h[k + 1] = F[h[k]]}
           T == {n \in Nat : \E h \in Upto(n) : \A k \in Upto(n) : k = h}
<1>1. 0 \in T
  <2>1. [k \in 0 .. 0 |-> x] \in Upto(0)
    OBVIOUS
  <2>2. \A h, k \in Upto(0) : h = k
    OBVIOUS
  <2> QED
    BY <2>1, <2>2
<1>2. ASSUME NEW n \in T \cap Nat PROVE n + 1 \in T
  <2>1. PICK h \in Upto(n) : \A k \in Upto(n) : k = h
    OBVIOUS
  <2> DEFINE next == [k \in 0 .. n + 1 |-> IF k = n + 1 THEN F[h[n]] ELSE h[k]]
  <2>2. next \in Upto(n + 1)
    OBVIOUS
  <2>3. ASSUME NEW k \in Upto(n + 1) PROVE k = next
    <3>1. [i \in 0 .. n |-> k[i]] \in Upto(n)
      OBVIOUS
    <3>2. [i \in 0 .. n |-> k[i]] = h
      BY <3>1, <2>1
    <3>3. \A i \in 0 .. n : k[i] = h[i]
      BY <3>2
    <3>4. k[n + 1] = F[h[n]]
      BY <3>3
    <3> QED
      BY <3>3, <3>4
  <2> QED
    BY <2>2, <2>3
<1>3. Nat \subseteq T
  <2> HIDE DEF T
  <2> QED
    BY <1>1, <1>2, NatSet
<1>4. \E A : \A n \in Nat : A[n] \in Upto(n)
  <2> DEFINE A == [n \in Nat |-> CHOOSE h \in Upto(n) : TRUE]
  <2>1. \A n \in Nat : A[n] \in Upto(n)
    BY <1>3
  <2> HIDE DEF A
  <2> QED
    BY <2>1
<1>5. PICK A : \A n \in Nat : A[n] \in Upto(n)
  BY <1>4
<1>6. ASSUME NEW n \in Nat, NEW h \in Upto(n) PROVE h = A[n]
  <2>1. \E i \in Upto(n) : \A k \in Upto(n) : k = i
    BY <1>3
  <2>2. A[n] \in Upto(n)
    BY <1>5
  <2> HIDE DEF Upto
  <2> QED
    BY <2>1, <2>2
<1>7. ASSUME NEW n \in Nat PROVE A[n][n] \in X /\ A[0][0] = x
  <2>1. A[n] \in [0 .. n -> X] /\ n \in 0 .. n
    BY <1>5
  <2>2. A[0][0] = x
    BY <1>5
  <2> QED
    BY <2>1, <2>2
<1>8. ASSUME NEW n \in Nat PROVE A[n + 1][n + 1] = F[A[n][n]]
  <2>1. PICK f : f = A[n + 1]
    OBVIOUS
  <2>2. /\ f \in [0 .. n + 1 -> X] /\ f[0] = x
        /\ \A k \in 0 .. n + 1 : k # n + 1 => f[k + 1] = F[f[k]]
    BY <1>5, <2>1
  <2>3. PICK h : h = [i \in 0 .. n |-> f[i]]
    OBVIOUS
  <2>4. h \in Upto(n)
    <3>1. \A k \in 0 .. n : k \in 0 .. n + 1 /\ k # n + 1 /\ (k # n => k + 1 \in 0 .. n)
      OBVIOUS
    <3>2. h \in [0 .. n -> X] /\ h[0] = x
      BY <2>2, <2>3, <3>1
    <3>3. \A k \in 0 .. n : k # n => h[k + 1] = F[h[k]]
      BY <2>2, <2>3, <3>1
    <3> QED
      BY <3>2, <3>3
  <2>5. n \in 0 .. n /\ n \in 0 .. n + 1 /\ n # n + 1
    OBVIOUS
  <2>6. h = A[n]
    BY <2>4, <1>6
  <2>7. f[n] = A[n][n] /\ f[n + 1] = F[f[n]]
    BY <2>2, <2>3, <2>5, <2>6
  <2> QED
    BY <2>1, <2>7
<1>9. PICK g : g = [n \in Nat |-> A[n][n]]
  OBVIOUS
<1> QED
  <2> HIDE DEF Upto, T
  <2> QED
    BY <1>7, <1>8, <1>9 DEF Iterates

(* The rounds of Reach and of Governed. *)
Grows(S, E, f) == [n \in Nat |-> IF n = 0 THEN S ELSE Expand(f[n - 1], E)]
Layers(S, E)   == CHOOSE f : f = Grows(S, E, f)

LEMMA LayersDef ==
  ASSUME NEW S \in SUBSET Paths, NEW E \in SUBSET (Paths \X Paths)
  PROVE  /\ Layers(S, E)[0] = S
         /\ \A n \in Nat : Layers(S, E)[n + 1] = Expand(Layers(S, E)[n], E)
<1> DEFINE X == SUBSET Paths
           F == [D \in X |-> Expand(D, E)]
<1>1. F \in [X -> X] /\ S \in X
  BY DEF Expand
<1>2. PICK g \in [Nat -> X] : Iterates(F, S, g)
  <2> HIDE DEF F, X
  <2> QED
    BY <1>1, IterationExists
<1>3. g[0] = S /\ \A n \in Nat : g[n + 1] = Expand(g[n], E)
  BY <1>2 DEF Iterates
<1>4. g = Grows(S, E, g)
  <2>1. ASSUME NEW n \in Nat PROVE g[n] = IF n = 0 THEN S ELSE Expand(g[n - 1], E)
    <3>1. CASE n # 0
      <4>1. n - 1 \in Nat /\ (n - 1) + 1 = n
        BY <3>1
      <4> QED
        BY <3>1, <4>1, <1>3
    <3> QED
      BY <3>1, <1>3
  <2> QED
    BY <1>2, <2>1 DEF Grows
<1>5. PICK f : f = Layers(S, E)
  OBVIOUS
<1>6. f = Grows(S, E, f)
  BY <1>4, <1>5, Zenon DEF Layers
<1>7. f[0] = S
  BY <1>6 DEF Grows
<1>8. ASSUME NEW n \in Nat PROVE f[n + 1] = Expand(f[n], E)
  <2>1. n + 1 \in Nat /\ n + 1 # 0 /\ (n + 1) - 1 = n
    OBVIOUS
  <2>2. Grows(S, E, f)[n + 1] = Expand(f[n], E)
    BY <2>1 DEF Grows
  <2> QED
    BY <1>6, <2>2
<1> QED
  BY <1>5, <1>7, <1>8

Closed(T, E) == \A e \in E : e[1] \in T => e[2] \in T

(* After as many rounds as there are paths nothing is added any more. *)
LEMMA LayersClose ==
  ASSUME NEW S \in SUBSET Paths, NEW E \in SUBSET (Paths \X Paths),
         NEW k \in Nat, Cardinality(Paths) <= k
  PROVE  /\ Layers(S, E)[k] \in SUBSET Paths /\ S \subseteq Layers(S, E)[k]
         /\ Closed(Layers(S, E)[k], E)
<1>1. PICK f : f = Layers(S, E)
  OBVIOUS
<1>2. f[0] = S /\ \A n \in Nat : f[n + 1] = Expand(f[n], E)
  BY <1>1, LayersDef
<1>3. IsFiniteSet(Paths) /\ Cardinality(Paths) \in Nat
  BY ReleaseAssumption, FS_CardinalityType
<1>4. \A n \in Nat : S \subseteq f[n] /\ f[n] \in SUBSET Paths
  <2> DEFINE T == {n \in Nat : S \subseteq f[n] /\ f[n] \in SUBSET Paths}
  <2>1. 0 \in T /\ \A n \in T \cap Nat : n + 1 \in T
    BY <1>2 DEF Expand
  <2>2. Nat \subseteq T
    <3> HIDE DEF T
    <3> QED
      BY <2>1, NatSet
  <2> QED
    BY <2>2
<1>5. \A n \in Nat : Cardinality(f[n]) \in Nat /\ IsFiniteSet(f[n]) /\ Cardinality(f[n]) <= Cardinality(Paths)
  BY <1>3, <1>4, FS_Subset, FS_CardinalityType
<1> DEFINE T == {n \in Nat : Closed(f[n], E) \/ Cardinality(f[n]) >= n + 1}
<1>6. 0 \in T
  <2>1. CASE S = {}
    BY <1>2, <2>1 DEF Closed
  <2>2. CASE S # {}
    <3>1. Cardinality(f[0]) # 0
      BY <1>2, <1>5, <2>2, FS_EmptySet
    <3> QED
      BY <3>1, <1>5
  <2> QED
    BY <2>1, <2>2
<1>7. ASSUME NEW n \in T \cap Nat PROVE n + 1 \in T
  <2>1. f[n + 1] = Expand(f[n], E) /\ n + 1 \in Nat
    BY <1>2
  <2>2. CASE Closed(f[n], E)
    <3>1. f[n + 1] = f[n]
      BY <2>1, <2>2 DEF Closed, Expand
    <3> QED
      BY <3>1, <2>2
  <2>3. CASE ~Closed(f[n], E)
    <3>1. PICK e \in E : e[1] \in f[n] /\ e[2] \notin f[n]
      BY <2>3 DEF Closed
    <3>2. f[n] \subseteq f[n + 1] /\ e[2] \in f[n + 1]
      BY <2>1, <3>1 DEF Expand
    <3>3. f[n] \in SUBSET f[n + 1] /\ f[n] # f[n + 1] /\ IsFiniteSet(f[n + 1])
      BY <3>1, <3>2, <1>5, <2>1
    <3>4. Cardinality(f[n]) <= Cardinality(f[n + 1]) /\ Cardinality(f[n]) # Cardinality(f[n + 1])
      BY <3>3, FS_Subset
    <3>5. Cardinality(f[n]) >= n + 1
      BY <2>3
    <3>6. Cardinality(f[n + 1]) >= (n + 1) + 1
      BY <3>4, <3>5, <1>5, <2>1
    <3> QED
      BY <3>6, <2>1
  <2> QED
    BY <2>2, <2>3
<1>8. Nat \subseteq T
  <2> HIDE DEF T
  <2> QED
    BY <1>6, <1>7, NatSet
<1>9. ~(Cardinality(f[k]) >= k + 1)
  BY <1>3, <1>5
<1> QED
  BY <1>1, <1>4, <1>8, <1>9

(* Reach gives a set that is closed under the edges, and the least one. *)
LEMMA ReachClosed ==
  ASSUME NEW S \in SUBSET Paths, NEW E \in SUBSET (Paths \X Paths)
  PROVE  Reach(S, E) \in SUBSET Paths /\ S \subseteq Reach(S, E) /\ Closed(Reach(S, E), E)
<1>1. Reach(S, E) = Layers(S, E)[Cardinality(Paths)]
  BY Zenon DEF Reach, Layers, Grows
<1>2. Cardinality(Paths) \in Nat /\ Cardinality(Paths) <= Cardinality(Paths)
  BY ReleaseAssumption, FS_CardinalityType
<1>3. \A k \in Nat : Cardinality(Paths) <= k =>
          /\ Layers(S, E)[k] \in SUBSET Paths /\ S \subseteq Layers(S, E)[k]
          /\ Closed(Layers(S, E)[k], E)
  BY LayersClose
<1> QED
  BY <1>1, <1>2, <1>3

LEMMA ReachLeast ==
  ASSUME NEW S \in SUBSET Paths, NEW E \in SUBSET (Paths \X Paths),
         NEW U, S \subseteq U, Closed(U, E)
  PROVE  Reach(S, E) \subseteq U
<1>1. PICK f : f = Layers(S, E)
  OBVIOUS
<1>2. f[0] = S /\ \A n \in Nat : f[n + 1] = Expand(f[n], E)
  BY <1>1, LayersDef
<1> DEFINE T == {n \in Nat : f[n] \subseteq U}
<1>3. 0 \in T /\ \A n \in T \cap Nat : n + 1 \in T
  BY <1>2 DEF Expand, Closed
<1>4. Nat \subseteq T
  <2> HIDE DEF T
  <2> QED
    BY <1>3, NatSet
<1>5. Cardinality(Paths) \in Nat
  BY ReleaseAssumption, FS_CardinalityType
<1>6. Reach(S, E) = f[Cardinality(Paths)]
  BY <1>1, Zenon DEF Reach, Layers, Grows
<1> QED
  BY <1>4, <1>5, <1>6

(* What the code governs in MaxRounds rounds is closed too, for bundles that
   have no more paths than there are rounds. *)
LEMMA GovernedClosed ==
  ASSUME NEW r, NEW c, NEW E \in SUBSET (Paths \X Paths), ~Scoped(c),
         c.inputs \cup DOMAIN r.inputs \in SUBSET Paths, Cardinality(Paths) <= MaxRounds
  PROVE  Closed(Governed(r, c, E), E)
<1> DEFINE start == c.inputs \cup DOMAIN r.inputs
<1>1. Governed(r, c, E) = start \cup Layers(start, E)[IF Scoped(c) THEN 0 ELSE MaxRounds]
  BY Zenon DEF Governed, Layers, Grows
<1>2. MaxRounds \in Nat
  BY GateAssumption
<1>3. start \subseteq Layers(start, E)[MaxRounds] /\ Closed(Layers(start, E)[MaxRounds], E)
  BY <1>2, LayersClose
<1>4. Governed(r, c, E) = Layers(start, E)[MaxRounds]
  BY <1>1, <1>3
<1> QED
  BY <1>3, <1>4
-----------------------------------------------------------------------------

(* The baseline, unlike the candidate, is one tree read twice, so its       *)
(* manifest has all the edges that SKILL.md leads to; and a description is  *)
(* always the one of the SKILL.md that was hashed.                          *)
Manifested == /\ input.base = ManifestOf(input.base.files, input.base.files)
              /\ input.base.files[Skill] # Absent
              /\ input.cand.description = Describes[input.cand.files[Skill].sha]

LEMMA ManifestParts ==
  ASSUME NEW hashed \in Files, NEW reread \in Files
  PROVE  /\ ManifestOf(hashed, reread).files = hashed
         /\ ManifestOf(hashed, reread).description = Describes[hashed[Skill].sha]
BY DEF ManifestOf

LEMMA ManifestedKept == GInv /\ Manifested /\ [Next]_vars => Manifested'
<1> SUFFICES ASSUME GInv, Manifested, [Next]_vars PROVE Manifested'
  OBVIOUS
<1> USE ReleaseAssumption
<1>1. ASSUME NEW E \in SUBSET store, NEW strict \in BOOLEAN, NEW u \in runs \cup {NoRun},
             HashBundles(E, strict, u)
      PROVE  Manifested'
  <2>1. base \in Files /\ tree \in Files /\ base[Skill] # Absent
    BY DEF GInv, TypeOK, OnDisk
  <2>2. input'.base = ManifestOf(base, base) /\ input'.cand = ManifestOf(tree, tree)
    BY <1>1 DEF HashBundles, GInv, TypeOK, Input
  <2> QED
    BY <2>1, <2>2, ManifestParts DEF Manifested
<1>2. CASE AnalyzeReferences
  <2>1. input.cand.files \in Files /\ tree \in Files
    BY DEF GInv, TypeOK, Input, Manifest
  <2>2. input'.base = input.base /\ input'.cand = ManifestOf(input.cand.files, tree)
    BY <1>2 DEF AnalyzeReferences, GInv, TypeOK, Input
  <2> QED
    BY <2>1, <2>2, ManifestParts DEF Manifested
<1>3. CASE LoadEvidence
  <2>1. input'.base = input.base /\ input'.cand = input.cand
    BY <1>3 DEF LoadEvidence, Loaded, GInv, TypeOK, Input
  <2> QED
    BY <2>1 DEF Manifested
<1>4. ASSUME UNCHANGED input PROVE Manifested'
  BY <1>4 DEF Manifested
<1>5. \/ UNCHANGED input \/ AnalyzeReferences \/ LoadEvidence
      \/ \E E \in SUBSET store, strict \in BOOLEAN, u \in runs \cup {NoRun} :
           HashBundles(E, strict, u)
  BY DEF Next, Command, vars, local, Edit, Promote, Observe, Trust, Revoke, Sign, Approve,
         BeginRun, Amend, Tick, RefuseSidecar, LoadFails, Decide
<1> QED
  BY <1>1, <1>2, <1>3, <1>4, <1>5

LEMMA ManifestedInit == Init => Manifested
<1> SUFFICES ASSUME Init PROVE Manifested
  OBVIOUS
<1>1. FirstTree \in Files /\ FirstTree[Skill] # Absent
  BY ReleaseAssumption
<1>2. input.base = ManifestOf(FirstTree, FirstTree) /\ input.cand = ManifestOf(FirstTree, FirstTree)
  BY DEF Init
<1> QED
  BY <1>1, <1>2, ManifestParts DEF Manifested

(* A baseline without resource errors knows every edge of the documents that
   SKILL.md leads to. *)
LEMMA BaselineKnows ==
  ASSUME NEW f \in Files
  PROVE  /\ AllEdges(f) \in SUBSET (Paths \X Paths)
         /\ ManifestOf(f, f).deps
              = {e \in AllEdges(f) : e[1] \in Reach({Skill}, AllEdges(f))}
<1>1. [f EXCEPT ![Skill] = f[Skill]] = f
  BY DEF Files
<1> QED
  BY <1>1 DEF ManifestOf, AllEdges

(* The heart: what is governed and led to is closed under all the edges of
   both trees, if nothing that is governed changed. *)
LEMMA LedIsClosed ==
  ASSUME NEW b \in Files, NEW c \in Files, NEW D \in SUBSET (Paths \X Paths),
         NEW G \in SUBSET Paths,
         Closed(G, ManifestOf(b, b).deps \cup D),
         {p \in Paths : b[p] # c[p]} \cap G = {}
  PROVE  Closed(G \cap Reach({Skill}, AllEdges(b)), AllEdges(b) \cup AllEdges(c))
<1>1. PICK R : R = Reach({Skill}, AllEdges(b))
  OBVIOUS
<1>2. {Skill} \in SUBSET Paths /\ AllEdges(b) \in SUBSET (Paths \X Paths)
  BY ReleaseAssumption, BaselineKnows
<1>3. Closed(R, AllEdges(b))
  BY <1>1, <1>2, ReachClosed
<1>4. ManifestOf(b, b).deps = {e \in AllEdges(b) : e[1] \in R}
  BY <1>1, BaselineKnows
<1>5. ASSUME NEW e \in AllEdges(b), e[1] \in G, e[1] \in R
      PROVE  e[2] \in G /\ e[2] \in R
  BY <1>3, <1>4, <1>5 DEF Closed
<1>6. ASSUME NEW e \in AllEdges(c), e[1] \in G
      PROVE  e \in AllEdges(b)
  <2>1. b[e[1]] = c[e[1]]
    BY <1>6
  <2> QED
    BY <2>1 DEF AllEdges, LinksAt
<1>7. ASSUME NEW e \in AllEdges(b) \cup AllEdges(c), e[1] \in G \cap R
      PROVE  e[2] \in G \cap R
  BY <1>5, <1>6, <1>7
<1> QED
  BY <1>1, <1>7 DEF Closed

(* ClosureUnchanged, for every bundle that has no more paths than the code
   follows rounds of references: a record of another bundle is only accepted
   when neither its inputs nor anything that they lead to has changed. *)
THEOREM ClosureStays ==
  ASSUME Cardinality(Paths) <= MaxRounds
  PROVE  Spec => []ClosureUnchanged
<1>1. ASSUME GInv, Manifested PROVE ClosureUnchanged
  <2> SUFFICES ASSUME phase = "loaded", NEW id \in Required(input), NEW r \in Valid(id, input),
                      r.bundle # input.cand.files
               PROVE  LET c       == input.policy.checks[id]
                          differs == {p \in Paths : r.bundle[p] # input.cand.files[p]}
                          named   == c.inputs \cup DOMAIN r.inputs
                          led     == named \cap Reach({Skill}, AllEdges(input.base.files))
                      IN  /\ differs \cap named = {}
                          /\ ~Scoped(c) => differs \cap Reach(led, Edges(input)) = {}
                          /\ c.kind = "routing" =>
                                /\ differs \cap c.neighbors = {}
                                /\ Describes[Sha(r.bundle, Skill)]
                                      = Describes[Sha(input.cand.files, Skill)]
    BY DEF ClosureUnchanged
  <2>0. PICK b : b = input.base.files
    OBVIOUS
  <2>1. PICK f : f = input.cand.files
    OBVIOUS
  <2>2. PICK c : c = input.policy.checks[id]
    OBVIOUS
  <2>3. PICK D : D = input.cand.deps
    OBVIOUS
  <2>4. /\ b \in Files /\ f \in Files /\ D \in SUBSET (Paths \X Paths)
        /\ r \in Evidence /\ c \in RequiredCheck
    BY <1>1, <2>0, <2>1, <2>2, <2>3, ValidType
       DEF GInv, TypeOK, Input, Manifest, Policy, Required
  <2>5. /\ input.base = ManifestOf(b, b) /\ b[Skill] # Absent
        /\ input.cand.description = Describes[f[Skill].sha] /\ f[Skill] # Absent
    BY <1>1, <2>0, <2>1, ReleaseAssumption DEF Manifested, GInv, OnDisk
  <2>6. Compatible(r, c, input)
    BY <2>2 DEF Valid
  <2>7. r.bundle = b
    BY <2>0, <2>6 DEF Compatible, Bound
  <2>8. PICK named : named = c.inputs \cup DOMAIN r.inputs
    OBVIOUS
  <2>9. named \in SUBSET Paths /\ c.inputs \cup DOMAIN r.inputs \in SUBSET Paths
    BY <2>4, <2>8 DEF Evidence, RequiredCheck
  <2>10. PICK differs : differs = {p \in Paths : b[p] # f[p]}
    OBVIOUS
  <2>11. PICK E : E = ManifestOf(b, b).deps \cup D
    OBVIOUS
  <2>12. E \in SUBSET (Paths \X Paths) /\ AllEdges(b) \in SUBSET (Paths \X Paths)
         /\ AllEdges(f) \in SUBSET (Paths \X Paths)
    BY <2>4, <2>11, BaselineKnows
  <2>13. /\ differs \cap Governed(r, c, E) = {} /\ differs \cap c.neighbors = {}
         /\ c.kind = "routing" => input.base.description = input.cand.description
    BY <2>0, <2>1, <2>3, <2>5, <2>6, <2>10, <2>11 DEF Compatible, Reusable, Changed
  <2>14. named \subseteq Governed(r, c, E)
    BY <2>8 DEF Governed
  <2>15. differs \cap named = {}
    BY <2>13, <2>14
  <2>16. c.kind = "routing" => Describes[Sha(b, Skill)] = Describes[Sha(f, Skill)]
    <3>1. input.base.description = Describes[b[Skill].sha]
      BY <2>4, <2>5, ManifestParts
    <3> QED
      BY <3>1, <2>5, <2>13 DEF Sha
  <2>17. ASSUME ~Scoped(c)
         PROVE  differs \cap Reach(named \cap Reach({Skill}, AllEdges(b)),
                                   AllEdges(b) \cup AllEdges(f)) = {}
    <3>1. PICK G : G = Governed(r, c, E) \cap Paths
      OBVIOUS
    <3>2. Closed(Governed(r, c, E), E)
      BY <2>9, <2>12, <2>17, GovernedClosed
    <3>3. Closed(G, E)
      BY <3>1, <3>2, <2>12 DEF Closed
    <3>4. differs \cap G = {} /\ G \in SUBSET Paths /\ named \subseteq G
      BY <3>1, <2>9, <2>13, <2>14
    <3>5. PICK R : R = Reach({Skill}, AllEdges(b))
      OBVIOUS
    <3>6. Closed(G \cap R, AllEdges(b) \cup AllEdges(f))
      BY <3>3, <3>4, <3>5, <2>4, <2>10, <2>11, LedIsClosed
    <3>7. /\ named \cap R \in SUBSET Paths /\ named \cap R \subseteq G \cap R
          /\ AllEdges(b) \cup AllEdges(f) \in SUBSET (Paths \X Paths)
      BY <3>4, <2>12
    <3>8. Reach(named \cap R, AllEdges(b) \cup AllEdges(f)) \subseteq G \cap R
      BY <3>6, <3>7, ReachLeast
    <3> QED
      BY <3>4, <3>5, <3>8
  <2> QED
    BY <2>0, <2>1, <2>2, <2>7, <2>8, <2>10, <2>13, <2>15, <2>16, <2>17 DEF Edges
<1>2. GInv /\ Manifested => ClosureUnchanged
  BY <1>1
<1>3. Init => GInv /\ Manifested
  BY InitInvariant, ManifestedInit
<1>4. GInv /\ Manifested /\ [Next]_vars => (GInv /\ Manifested)'
  BY Inductive, ManifestedKept
<1> QED
  BY <1>2, <1>3, <1>4, PTL DEF Spec
=============================================================================
