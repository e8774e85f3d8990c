---------------------------- MODULE ReleaseGate ----------------------------
(***************************************************************************)
(* The life of one "tracemantle compare": a candidate tree that editors    *)
(* keep changing, observers that produce records of evidence, maintainers  *)
(* who commit policy revisions, and the command itself, which reads all of *)
(* these at different moments (product_commands._run, 97-120) and decides  *)
(* with Gate.  The command keeps nothing between runs, so a behaviour has  *)
(* one run and everything that leads up to it.                             *)
(***************************************************************************)
EXTENDS Gate

CONSTANTS Skill,        \* the path of SKILL.md
          Contents,     \* path -> the file entries it may hold
          Links,        \* blob -> the paths it links to
          Opaque,       \* blobs with references that cannot be classified
          Describes,    \* blob -> the description it carries
          PolicyRules,  \* policies that can be committed, allowlist aside
          Outcomes,     \* ways a check can turn out
          FirstTree,    \* the tree both bundles start from
          RunIds,       \* names of runs of the protected scheduler
          NoRun,        \* a command line without --approval-run-id
          Lifetime,     \* longest life of an approval after the start of its run
          MaxRecords, MaxNow, MaxEdits

ASSUME ReleaseAssumption ==
    /\ Skill \in Paths
    /\ Contents \in [Paths -> SUBSET ([sha : Blobs, exec : BOOLEAN] \cup {Absent})]
    /\ Absent \notin Contents[Skill]
    /\ Links \in [Blobs -> SUBSET Paths]
    /\ Opaque \subseteq Blobs
    /\ Describes \in [Blobs -> Blobs]
    /\ PolicyRules \subseteq [checks : [CheckIds -> RequiredCheck], signers : BOOLEAN,
                              automation : SUBSET CheckIds]
    /\ Outcomes \subseteq [state : States, method : Methods, immutable : BOOLEAN,
                           context : [ContextKeys -> Values], inputs : SUBSET Paths]
    /\ FirstTree \in Files
    /\ \A p \in Paths : FirstTree[p] \in Contents[p]
    /\ IsFiniteSet(Paths)
    /\ {MaxRecords, MaxNow, MaxEdits, Lifetime} \subseteq Nat
    /\ NoRun \notin [id : RunIds, start : 0 .. MaxNow]

(* A run of the scheduler, and what an automation key signs: the approval of a
   record under a policy within a run.  Only a genuine one has its signature. *)
Run      == [id : RunIds, start : 0 .. MaxNow]
Envelope == [record : Evidence, policy : Policy, run : Run, issued : 0 .. MaxNow,
             expires : 1 .. MaxNow + 1, genuine : BOOLEAN]

VARIABLES base,         \* the files of the baseline checkout
          tree,         \* the files of the candidate directory, now
          edits,        \* bound on the editors
          store,        \* records of evidence that exist
          policy,       \* the newest policy commit
          signatures,   \* records with a valid required signature
          approvals,    \* approval files, one beside a record
          runs,         \* runs the scheduler has begun
          now,
          phase,        \* how far the command is
          input,        \* what it has read so far
          run,          \* the run its command line names
          accepted,     \* the approvals it has accepted
          verdict       \* what it answered

world == <<base, tree, edits, store, policy, signatures, approvals, runs, now>>
local == <<phase, input, run, accepted, verdict>>
vars  == <<world, local>>
-----------------------------------------------------------------------------
(* What is reached from S along a set of edges. *)
Reach(S, edges) ==
    LET step[n \in Nat] == IF n = 0 THEN S ELSE Expand(step[n - 1], edges)
    IN  step[Cardinality(Paths)]

LinksAt(files, p) == IF files[p] = Absent THEN {} ELSE Links[files[p].sha]

(* The edges the files really have, whether or not SKILL.md leads to them. *)
AllEdges(files) == {e \in Paths \X Paths : e[2] \in LinksAt(files, e[1])}

(* create_manifest: the walk hashes the files and, later, the dependency
   analysis opens the documents again; only SKILL.md is read once.  A missing
   target or a cycle is a resource error, an unclassified reference leaves the
   coverage incomplete.  The depth limit cannot bite on this few paths.  *)
ManifestOf(hashed, reread) ==
    LET docs    == [reread EXCEPT ![Skill] = hashed[Skill]]
        reached == Reach({Skill}, AllEdges(docs))
        deps    == {e \in AllEdges(docs) : e[1] \in reached}
        errors  == \/ \E p \in reached : docs[p] = Absent
                   \/ \E e \in deps : e[1] \in Reach({e[2]}, deps)
        opaque  == \E p \in reached : docs[p] # Absent /\ docs[p].sha \in Opaque
    IN  [files |-> hashed, deps |-> deps, complete |-> ~errors /\ ~opaque,
         errors |-> errors, description |-> Describes[hashed[Skill].sha]]

(* A record of running check id on the present tree, as an importer binds it:
   identities from the policy, digests from the files. *)
RecordOf(id, o) ==
    [check |-> id, state |-> o.state, bundle |-> tree,
     ident |-> policy.checks[id].ident,
     inputs |-> [p \in {q \in o.inputs : tree[q] # Absent} |-> tree[p].sha],
     at |-> now, method |-> o.method, context |-> o.context, immutable |-> o.immutable]
-----------------------------------------------------------------------------
Init == /\ base = FirstTree
        /\ tree = FirstTree
        /\ edits = 0
        /\ store = {}
        /\ \E p \in PolicyRules :
             policy = [checks |-> p.checks, signers |-> p.signers,
                       automation |-> p.automation, trusted |-> {}]
        /\ signatures = {}
        /\ approvals = {} /\ runs = {}
        /\ now = 0
        /\ phase = "idle"
        /\ input = [base |-> ManifestOf(FirstTree, FirstTree),
                    cand |-> ManifestOf(FirstTree, FirstTree),
                    records |-> {}, policy |-> policy, now |-> 0, strict |-> FALSE,
                    signed |-> {}, automated |-> {}]
        /\ run = NoRun /\ accepted = {}
        /\ verdict = "unknown"

(* An editor changes one file of the candidate, at any moment. *)
Edit(p, f) == /\ phase # "done" /\ edits < MaxEdits
              /\ tree[p] # f
              /\ tree' = [tree EXCEPT ![p] = f]
              /\ edits' = edits + 1
              /\ UNCHANGED <<base, store, policy, signatures, approvals, runs, now, local>>

(* The present tree becomes the baseline of later comparisons. *)
Promote == /\ phase = "idle" /\ base # tree
           /\ base' = tree
           /\ UNCHANGED <<tree, edits, store, policy, signatures, approvals, runs, now, local>>

(* Somebody runs, or claims to have run, a check on the present tree. *)
Observe(id, o) == /\ phase = "idle"
                  /\ Cardinality(store) < MaxRecords
                  /\ store' = store \cup {RecordOf(id, o)}
                  /\ UNCHANGED <<base, tree, edits, policy, signatures, approvals, runs, now, local>>

(* Maintainers commit a revision: the allowlist gains or loses a digest, or
   the checks change. *)
Trust(r) == /\ phase = "idle" /\ r \notin policy.trusted
            /\ policy' = [policy EXCEPT !.trusted = @ \cup {r}]
            /\ UNCHANGED <<base, tree, edits, store, signatures, approvals, runs, now, local>>

Revoke(r) == /\ phase # "done" /\ r \in policy.trusted
             /\ policy' = [policy EXCEPT !.trusted = @ \ {r}]
             /\ UNCHANGED <<base, tree, edits, store, signatures, approvals, runs, now, local>>

Amend(p) == /\ phase = "idle" /\ policy.checks # p.checks
            /\ policy' = [checks |-> p.checks, signers |-> p.signers,
                          automation |-> p.automation, trusted |-> policy.trusted]
            /\ UNCHANGED <<base, tree, edits, store, signatures, approvals, runs, now, local>>

(* Sidecars appear next to a record: a signature, or an approval, which names
   the record, the policy and the run it was issued under.  A record has one
   approval file, so a new one replaces the old; anybody can leave one, only the
   automation can sign it. *)
Sign(r) == /\ phase # "done" /\ policy.signers /\ r \notin signatures
           /\ signatures' = signatures \cup {r}
           /\ UNCHANGED <<base, tree, edits, store, policy, approvals, runs, now, local>>

Approve(r, u, expires, genuine) ==
    /\ phase # "done" /\ policy.automation # {} /\ now < expires
    /\ approvals' = {a \in approvals : a.record # r} \cup
         {[record |-> r, policy |-> policy, run |-> u, issued |-> now,
           expires |-> expires, genuine |-> genuine]}
    /\ UNCHANGED <<base, tree, edits, store, policy, signatures, runs, now, local>>

(* The scheduler, which never uses an identity again, begins a run. *)
BeginRun(id) ==
    /\ phase = "idle" /\ \A u \in runs : u.id # id
    /\ runs' = runs \cup {[id |-> id, start |-> now]}
    /\ UNCHANGED <<base, tree, edits, store, policy, signatures, approvals, now, local>>

Tick == /\ phase # "done" /\ now < MaxNow
        /\ now' = now + 1
        /\ UNCHANGED <<base, tree, edits, store, policy, signatures, approvals, runs, local>>
-----------------------------------------------------------------------------
(* The command line fixes the policy commit, the run and the records to read;
   the baseline is manifested, then the files of the candidate are hashed. *)
HashBundles(E, strict, u) ==
    /\ phase = "idle"
    /\ input' = [input EXCEPT !.base = ManifestOf(base, base),
                              !.cand = ManifestOf(tree, tree),
                              !.records = E, !.policy = policy, !.strict = strict]
    /\ run' = u
    /\ phase' = "hashed"
    /\ UNCHANGED <<world, accepted, verdict>>

(* The documents of the candidate are opened again for their references, and
   the clock is read. *)
AnalyzeReferences ==
    /\ phase = "hashed"
    /\ input' = [input EXCEPT !.cand = ManifestOf(input.cand.files, tree), !.now = now]
    /\ phase' = "manifested"
    /\ UNCHANGED <<world, run, accepted, verdict>>

(* Every record is read with its sidecars.  Without an authority no approval
   is looked at; one that is there must hold (approvals.py:39-60). *)
Sidecars(E) == IF input.policy.automation = {} THEN {}
               ELSE {a \in approvals : a.record \in E}

(* Slip: the run an approval was issued in is not compared. *)
BindingReplayed(a) ==
    /\ run # NoRun /\ a.policy = input.policy
    /\ a.record.check \in input.policy.automation
    /\ a.record.bundle = input.cand.files
    /\ run.start <= a.record.at /\ a.record.at <= a.issued
    /\ a.issued <= input.now /\ input.now < a.expires
    /\ a.expires - run.start <= Lifetime
    /\ a.genuine

Binding(a) ==
    /\ run # NoRun /\ a.run = run /\ a.policy = input.policy
    /\ a.record.check \in input.policy.automation
    /\ a.record.bundle = input.cand.files
    /\ run.start <= a.record.at /\ a.record.at <= a.issued
    /\ a.issued <= input.now /\ input.now < a.expires
    /\ a.expires - run.start <= Lifetime
    /\ a.genuine

(* What compare is given for the records E. *)
Loaded(E) == [input EXCEPT !.records = E,
                           !.automated = {a.record : a \in Sidecars(E)},
                           !.signed = IF input.policy.signers
                                      THEN signatures \cap E ELSE {}]

LoadEvidence ==
    /\ phase = "manifested"
    /\ \A a \in Sidecars(input.records) : Binding(a)
    /\ input' = Loaded(input.records)
    /\ accepted' = Sidecars(input.records)
    /\ phase' = "loaded"
    /\ UNCHANGED <<world, run, verdict>>

RefuseSidecar ==
    /\ phase = "manifested"
    /\ \E a \in Sidecars(input.records) : ~Binding(a)
    /\ verdict' = "infrastructure-error"
    /\ phase' = "done"
    /\ UNCHANGED <<world, input, run, accepted>>

(* A file of evidence cannot be read or is no record, or a signature beside it
   is too large or its tool is missing, fails to run or takes too long: an
   EvidenceError out of the loop over the files. *)
LoadFails ==
    /\ phase = "manifested" /\ input.records # {}
    /\ verdict' = "infrastructure-error"
    /\ phase' = "done"
    /\ UNCHANGED <<world, input, run, accepted>>

Decide == /\ phase = "loaded"
          /\ verdict' = Verdict(input)
          /\ phase' = "done"
          /\ UNCHANGED <<world, input, run, accepted>>

Command == \/ \E E \in SUBSET store, strict \in BOOLEAN, u \in runs \cup {NoRun} :
                 HashBundles(E, strict, u)
           \/ AnalyzeReferences
           \/ LoadEvidence \/ RefuseSidecar \/ LoadFails
           \/ Decide

Next == \/ \E p \in Paths : \E f \in Contents[p] : Edit(p, f)
        \/ Promote
        \/ \E id \in CheckIds, o \in Outcomes : Observe(id, o)
        \/ \E r \in store : Trust(r) \/ Revoke(r) \/ Sign(r)
        \/ \E r \in store, u \in runs, expires \in 1 .. MaxNow + 1, genuine \in BOOLEAN :
             Approve(r, u, expires, genuine)
        \/ \E id \in RunIds : BeginRun(id)
        \/ \E p \in PolicyRules : Amend(p)
        \/ Tick
        \/ Command

Spec == Init /\ [][Next]_vars
-----------------------------------------------------------------------------
TypeOK == /\ base \in Files /\ tree \in Files
          /\ edits \in 0 .. MaxEdits
          /\ store \subseteq Evidence
          /\ policy \in Policy
          /\ signatures \subseteq store
          /\ approvals \subseteq Envelope
          /\ \A a, b \in approvals : a.record = b.record => a = b
          /\ runs \subseteq Run
          /\ run \in runs \cup {NoRun} /\ accepted \subseteq Envelope
          /\ now \in 0 .. MaxNow
          /\ phase \in {"idle", "hashed", "manifested", "loaded", "done"}
          /\ input \in Input
          /\ verdict \in States

(* A release is only reported safe on evidence that holds for the very files
   whose digest the report names, whoever edited them meanwhile: for every
   required check some passing record, authorised by the selected policy, has
   declared every input of the check with the digest the candidate has.  What
   stands in for the allowlist is an approval signed within the run the command
   was started for, after the record was observed in that same run, and not
   expired; one of another run or policy, or a replaced one, is of no use. *)
PassIsEarned ==
    phase = "done" /\ verdict = "pass" =>
        /\ Required(input) # {}
        /\ \A id \in Required(input) : \E r \in input.records :
             LET c == input.policy.checks[id] IN
             /\ r.check = id /\ r.state = "pass" /\ r.ident = c.ident
             /\ \/ r \in input.policy.trusted
                \/ /\ r.check \in input.policy.automation /\ r.bundle = input.cand.files
                   /\ \E a \in accepted :
                        /\ a.genuine /\ a.record = r /\ a.policy = input.policy
                        /\ a.run = run /\ run \in runs
                        /\ run.start <= r.at /\ r.at <= a.issued
                        /\ a.issued <= input.now /\ input.now < a.expires
                        /\ a.expires <= run.start + Lifetime
             /\ input.policy.signers => r \in signatures
             /\ input.strict => r.method = "observed-execution"
             /\ r.at >= input.now - c.maxAge
             /\ c.inputs \subseteq DOMAIN r.inputs
             /\ \A p \in DOMAIN r.inputs : Sha(input.cand.files, p) = r.inputs[p]

(* An approved failure for the evaluated candidate cannot be outvoted by a
   passing record, a newer one or a signed one. *)
NoHiddenFailure ==
    phase = "done" /\ verdict = "pass" =>
        \A id \in Required(input) : \A r \in input.records :
            ~ /\ r.check = id /\ r.state # "pass"
              /\ r.bundle = input.cand.files
              /\ Compatible(r, input.policy.checks[id], input)

(* A record of another bundle is accepted only if nothing its inputs lead to
   has changed in bytes or mode, for the inputs that SKILL.md leads to; even
   when the candidate is edited between the hashing of its files and the
   reading of their references.  A closed scope answers for its declared inputs
   alone; a routing check also for the description and its neighbours. *)
Edges(in) == AllEdges(in.base.files) \cup AllEdges(in.cand.files)

ClosureUnchanged ==
    phase = "loaded" =>
        \A id \in Required(input) : \A r \in Valid(id, input) :
            r.bundle # input.cand.files =>
                LET c       == input.policy.checks[id]
                    differs == {p \in Paths : r.bundle[p] # input.cand.files[p]}
                    named   == c.inputs \cup DOMAIN r.inputs
                    led     == named \cap Reach({Skill}, AllEdges(input.base.files))
                IN  /\ differs \cap named = {}
                    /\ ~Scoped(c) => differs \cap Reach(led, Edges(input)) = {}
                    /\ c.kind = "routing" =>
                          /\ differs \cap c.neighbors = {}
                          /\ Describes[Sha(r.bundle, Skill)]
                                = Describes[Sha(input.cand.files, Skill)]

(* docs/evidence-workflow.md:119: "Changed declared inputs and their Markdown
   dependency closure invalidate old results."  The code only knows the
   references of documents that SKILL.md leads to. *)
DeclaredClosureInvalidates ==
    phase = "loaded" =>
        \A id \in Required(input) : \A r \in Valid(id, input) :
            LET c == input.policy.checks[id] IN
            \/ Scoped(c) \/ r.bundle = input.cand.files
            \/ Changed(input) \cap Reach(c.inputs, Edges(input)) = {}

(* More evidence never turns a failed comparison into another answer. *)
FailureIsFinal ==
    phase = "loaded" /\ Verdict(input) = "fail" =>
        \A E \in SUBSET store : Verdict([input EXCEPT !.records = @ \cup E]) = "fail"

(* What the command answers for the records E once all files could be read. *)
Answer(E) == IF \A a \in Sidecars(E) : Binding(a) THEN Verdict(Loaded(E))
             ELSE "infrastructure-error"

(* Records that nobody authorised, by the allowlist or by an approval that
   binds, cannot bring about a verdict or prevent one, with one exception: an
   approval file beside such a record, which then is foreign, forged or expired,
   refuses the whole answer, and only under a policy with an automation
   authority (approvals.py:35-60).  Without such a file the answer is the one
   for the authorised records alone, a signature beside the others included;
   and what was loaded decides as the authorised records in it do.  *)
SelfReportsIgnored ==
    /\ phase = "manifested" =>
         LET E          == input.records
             authorised == {r \in E : \/ r \in input.policy.trusted
                                     \/ \E a \in Sidecars({r}) : Binding(a)}
         IN  Answer(E) = IF Sidecars(E \ authorised) = {} THEN Answer(authorised)
                         ELSE "infrastructure-error"
    /\ phase = "loaded" =>
         Verdict(input) = Verdict([input EXCEPT !.records =
             {r \in @ : r \in input.policy.trusted \/ r \in input.automated}])

(* --require-observed-execution only withholds a pass: any other answer is the
   same with and without it. *)
StrictOnlyWithholds ==
    phase = "loaded" =>
        LET plain  == Verdict([input EXCEPT !.strict = FALSE])
            strict == Verdict([input EXCEPT !.strict = TRUE])
        IN  strict = plain \/ (plain = "pass" /\ strict = "unknown")
=============================================================================
