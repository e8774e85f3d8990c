-------------------------------- MODULE Gate --------------------------------
(***************************************************************************)
(* The release decision of tracemantle.comparison as a function: which     *)
(* records of evidence a check accepts (_compatible) and what the accepted *)
(* ones add up to (compare).  A digest is represented by what it is the    *)
(* digest of: a record by itself, a bundle by its table of files.          *)
(***************************************************************************)
EXTENDS Integers, FiniteSets

CONSTANTS Paths,      \* resource paths of a bundle
          Blobs,      \* file contents
          Absent,     \* no file at a path
          CheckIds,   \* checks a trusted policy can name
          Ids,        \* checker, configuration, fixture and profile digests
          Values,     \* values of the execution context
          Unknown,    \* a context value that is blank or "unknown"
          NoModel,    \* the context value "none"
          NoScope,    \* no input_scope_sha256
          MaxRounds,  \* rounds of dependency expansion (32 in the code)
          Skew        \* seconds a record may be dated ahead of the clock (300)

ASSUME GateAssumption == /\ Absent \notin [sha : Blobs, exec : BOOLEAN]
                         /\ {Unknown, NoModel} \subseteq Values
                         /\ NoScope \notin Ids
                         /\ MaxRounds \in Nat \ {0}
                         /\ Skew \in Nat

States      == {"fail", "infrastructure-error", "unknown", "skipped", "pass"}
Methods     == {"static-analysis", "observed-execution", "inferred-trace",
                "model-judgment", "unknown"}
Kinds       == {"static", "deterministic", "behavioral", "routing"}
IdentFields == {"configuration", "profile", "checker", "fixture"}
Assumptions == {"runner", "adapter", "model", "model_revision", "environment", "tokenizer"}
ContextKeys == Assumptions \cup {"permissions"}

Files    == [Paths -> [sha : Blobs, exec : BOOLEAN] \cup {Absent}]
Manifest == [files : Files, deps : SUBSET (Paths \X Paths), complete : BOOLEAN,
             errors : BOOLEAN, description : Blobs]

Evidence == [check : CheckIds, state : States, bundle : Files,
             ident : [IdentFields -> Ids],
             inputs : UNION {[S -> Blobs] : S \in SUBSET Paths},
             at : Int, method : Methods,
             context : [ContextKeys -> Values], immutable : BOOLEAN]

RequiredCheck == [kind : Kinds, inputs : SUBSET Paths, coverage : BOOLEAN,
                  ident : [IdentFields -> Ids], maxAge : Nat, required : BOOLEAN,
                  context : UNION {[S -> Values] : S \in SUBSET ContextKeys},
                  neighbors : SUBSET Paths, scope : Ids \cup {NoScope}]

(* signers says whether required_signers is present; automation holds the   *)
(* checks an automation authority may approve evidence for.                 *)
Policy == [checks : [CheckIds -> RequiredCheck], signers : BOOLEAN,
           automation : SUBSET CheckIds, trusted : SUBSET Evidence]

(* What one call of compare is given. *)
Input == [base : Manifest, cand : Manifest, records : SUBSET Evidence,
          policy : Policy, now : Int, strict : BOOLEAN,
          signed : SUBSET Evidence, automated : SUBSET Evidence]
-----------------------------------------------------------------------------
(* An operator whose comment starts with "Slip:" is the definition after it  *)
(* with a plausible bug that some run must catch; no specification uses it.  *)

Sha(files, p) == IF files[p] = Absent THEN Absent ELSE files[p].sha

(* Slip: the executable bit is forgotten. *)
ChangedBytes(in) == {p \in Paths : Sha(in.base.files, p) # Sha(in.cand.files, p)}

(* Paths whose bytes or executable bit differ. *)
Changed(in) == {p \in Paths : in.base.files[p] # in.cand.files[p]}

Scoped(c) == c.scope # NoScope

Automated(r, in) == /\ r.check \in in.policy.automation
                    /\ r.bundle = in.cand.files
                    /\ r \in in.automated

(* Slip: a signature vouches for a record that is not on the allowlist. *)
VouchedBySignature(r, in) == \/ r \in in.policy.trusted \/ Automated(r, in)
                             \/ in.policy.signers /\ r \in in.signed

(* The digest is on the allowlist of the trusted base, or a run-scoped
   approval stands in for that; a required signature is asked for besides. *)
Vouched(r, in) == /\ r \in in.policy.trusted \/ Automated(r, in)
                  /\ in.policy.signers => r \in in.signed

SameIdentity(r, c) == \A f \in IdentFields : r.ident[f] = c.ident[f]

(* The record belongs to one of the two bundles, and the digests it declares
   are the ones of that bundle. *)
Bound(r, c, in) ==
    LET expected == IF r.bundle = in.cand.files THEN in.cand.files ELSE in.base.files
    IN  /\ r.bundle \in {in.cand.files, in.base.files}
        /\ c.inputs \subseteq DOMAIN r.inputs
        /\ \A p \in DOMAIN r.inputs : Sha(expected, p) = r.inputs[p]

(* How the result must have been obtained, by kind of check. *)
Observed(r, c) ==
    /\ c.kind # "static" => r.method = "observed-execution"
    /\ c.kind = "static" => r.method = "static-analysis"
    /\ c.kind \in {"behavioral", "routing"} =>
          /\ \A k \in Assumptions : r.context[k] # Unknown
          /\ r.immutable
    /\ c.kind = "deterministic" =>
          r.context["model"] = NoModel /\ r.context["model_revision"] = NoModel
    /\ \A k \in DOMAIN c.context : r.context[k] = c.context[k]

Fresh(r, c, in) == /\ in.now - r.at >= -Skew
                   /\ in.now - r.at <= c.maxAge

(* A closed scope names its own profile, is complete, and asks for manifests
   that were read without resource errors. *)
ScopeHolds(c, in) == Scoped(c) => /\ c.ident["profile"] = c.scope
                                  /\ c.coverage
                                  /\ ~in.cand.errors /\ ~in.base.errors

(* The governed inputs: expanded round by round along the dependencies of
   both bundles, at most MaxRounds times, and not at all in a closed scope. *)
Expand(S, edges) == S \cup {e[2] : e \in {d \in edges : d[1] \in S}}

(* Slip: only the declared inputs are governed. *)
GovernedDirect(r, c, edges) == c.inputs \cup DOMAIN r.inputs

Governed(r, c, edges) ==
    LET start == c.inputs \cup DOMAIN r.inputs
        round[n \in Nat] == IF n = 0 THEN start ELSE Expand(round[n - 1], edges)
    IN  start \cup round[IF Scoped(c) THEN 0 ELSE MaxRounds]

(* Slip: the changes are not compared with the governed inputs. *)
ReusableAnyway(r, c, in) ==
    r.bundle # in.cand.files => /\ c.coverage
                                /\ Scoped(c) \/ (in.cand.complete /\ in.base.complete)

(* A record of the baseline is reused for a changed candidate only if what it
   depends on is known and did not change. *)
Reusable(r, c, in) ==
    r.bundle # in.cand.files =>
        /\ c.coverage
        /\ Scoped(c) \/ (in.cand.complete /\ in.base.complete)
        /\ Changed(in) \cap Governed(r, c, in.base.deps \cup in.cand.deps) = {}
        /\ Changed(in) \cap c.neighbors = {}
        /\ c.kind = "routing" => in.base.description = in.cand.description

(* comparison._compatible finds no reason to reject the record. *)
Compatible(r, c, in) == /\ Vouched(r, in)
                        /\ SameIdentity(r, c)
                        /\ Bound(r, c, in)
                        /\ Observed(r, c)
                        /\ Fresh(r, c, in)
                        /\ ScopeHolds(c, in)
                        /\ Reusable(r, c, in)
-----------------------------------------------------------------------------
Valid(id, in) == {r \in in.records : r.check = id /\ Compatible(r, in.policy.checks[id], in)}

(* Slips: no default state; a skip outranks the rest. *)
WorstOfFour(S) == IF "fail" \in S THEN "fail"
                  ELSE IF "unknown" \in S THEN "unknown" ELSE "none"
WorstSkipFirst(S) == IF "skipped" \in S THEN "skipped"
                     ELSE IF "fail" \in S THEN "fail"
                     ELSE IF "unknown" \in S THEN "unknown" ELSE "pass"

(* fail, infrastructure-error, unknown and skipped outrank pass. *)
Worst(S) == IF "fail" \in S THEN "fail"
            ELSE IF "infrastructure-error" \in S THEN "infrastructure-error"
            ELSE IF "unknown" \in S THEN "unknown"
            ELSE IF "skipped" \in S THEN "skipped"
            ELSE "pass"

CheckState(id, in) ==
    LET valid == Valid(id, in)
        worst == Worst({r.state : r \in valid})
        need  == in.policy.checks[id].required
    IN  IF valid = {} THEN IF need THEN "unknown" ELSE "skipped"
        ELSE IF need /\ worst = "skipped" THEN "unknown"
        ELSE IF /\ need /\ in.strict /\ worst = "pass"
                /\ \A r \in valid : r.method # "observed-execution" THEN "unknown"
        ELSE worst

Required(in) == {id \in CheckIds : in.policy.checks[id].required}

(* The state of the comparison as a whole. *)
Verdict(in) ==
    LET worst == Worst({CheckState(id, in) : id \in Required(in)})
    IN  IF Required(in) = {} THEN "unknown"
        ELSE IF /\ worst = "pass" /\ ~in.cand.complete
                /\ \E id \in Required(in) : ~Scoped(in.policy.checks[id]) THEN "unknown"
        ELSE worst

(* The checks a caller is told to run again. *)
Reruns(in) == {id \in CheckIds :
                  /\ CheckState(id, in) # "pass"
                  /\ in.policy.checks[id].required \/ Valid(id, in) # {}}
=============================================================================
