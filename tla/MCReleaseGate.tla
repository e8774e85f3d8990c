--------------------------- MODULE MCReleaseGate ---------------------------
(* Instances of ReleaseGate.  Each cfg takes one bundle, one or two policies  *)
(* and the outcomes an observer can report.                                   *)
EXTENDS ReleaseGate

File(b)  == [sha |-> b, exec |-> FALSE]
Tool(b)  == [sha |-> b, exec |-> TRUE]

(* Three documents and a program none of them mentions.  s1 links to the
   helper, h1 links to the appendix. *)
TreePaths    == {"SKILL.md", "helper.md", "appendix.md", "run.sh"}
TreeBlobs    == {"s0", "s1", "h0", "h1", "a0", "a1", "x0"}
TreeLinks    == [b \in TreeBlobs |-> CASE b = "s1" -> {"helper.md"}
                                       [] b = "h1" -> {"appendix.md"}
                                       [] OTHER -> {}]
TreeContents == [p \in TreePaths |-> CASE p = "SKILL.md"  -> {File("s0"), File("s1")}
                                       [] p = "helper.md" -> {File("h0"), File("h1"), Tool("h1")}
                                       [] p = "run.sh"    -> {File("x0"), Tool("x0")}
                                       [] OTHER -> {File("a0"), File("a1"), Absent}]
TreeFirst    == [p \in TreePaths |-> CASE p = "SKILL.md"  -> File("s1")
                                       [] p = "helper.md" -> File("h1")
                                       [] p = "run.sh"    -> File("x0")
                                       [] OTHER -> File("a0")]
LooseFirst   == [TreeFirst EXCEPT !["SKILL.md"] = File("s0")]
TreeDescribes == [b \in TreeBlobs |-> b]

Ident(v)   == [f \in IdentFields |-> v]
Nothing    == [k \in {} |-> Unknown]
Check(kind, ins, need) ==
    [kind |-> kind, inputs |-> ins, coverage |-> TRUE, ident |-> Ident("v1"),
     maxAge |-> 1, required |-> need, context |-> Nothing, neighbors |-> {},
     scope |-> NoScope]
Rules(checks, signers, automation) ==
    [checks |-> checks, signers |-> signers, automation |-> automation]

Named   == [k \in ContextKeys |-> "named"]
NoAgent == [Named EXCEPT !["model"] = NoModel, !["model_revision"] = NoModel]
Vague   == [Named EXCEPT !["tokenizer"] = Unknown]
Outcome(s, m, ctx, ins) ==
    [state |-> s, method |-> m, immutable |-> TRUE, context |-> ctx, inputs |-> ins]

(* Loose: the check declares the helper, which SKILL.md need not link to. *)
LooseRules    == {Rules([i \in CheckIds |-> Check("static", {"helper.md"}, TRUE)], FALSE, {})}
LooseOutcomes == {Outcome("pass", "static-analysis", NoAgent, {"helper.md"})}

(* Four scenarios share one run: each has its policies, its outcomes and its
   bounds, and Scope keeps a behaviour inside of one of them. *)
Idle == [Check("static", {}, FALSE) EXCEPT !.coverage = FALSE]
Only(c, signers, automation) ==
    Rules([i \in CheckIds |-> IF i = "lint" THEN c ELSE Idle], signers, automation)
Reads == {"SKILL.md", "helper.md"}

(* Authority: allowlist, signatures and automation for one deterministic check
   while the program changes its mode. *)
AuthorityRules == {Only(Check("deterministic", {"SKILL.md"}, TRUE), s, a) :
                      s \in BOOLEAN, a \in SUBSET {"lint"}}
AuthorityOutcomes == {Outcome(s, "observed-execution", NoAgent, Reads) : s \in {"pass", "fail"}}

(* Reuse: a static check of SKILL.md, a routing check with a neighbour, closed
   scopes with another input or another checker, incomplete coverage. *)
Plain      == Check("static", {"SKILL.md"}, TRUE)
ReuseRules == {Only(c, FALSE, {}) : c \in
                {Plain, [Plain EXCEPT !.coverage = FALSE],
                 [Plain EXCEPT !.kind = "routing", !.neighbors = {"appendix.md"}],
                 [Plain EXCEPT !.scope = "v1", !.inputs = {"helper.md"}],
                 [Plain EXCEPT !.scope = "v1", !.ident = Ident("v2")]}}
ReuseOutcomes == {Outcome("pass", m, Named, Reads) :
                     m \in {"static-analysis", "observed-execution"}}

(* Conflict: a required check of each kind beside an optional one. *)
ConflictRules == {Rules([i \in CheckIds |-> Check(k, {"SKILL.md"}, i = "lint")], FALSE, {}) :
                      k \in {"static", "behavioral"}}
ConflictOutcomes == {Outcome(s, m, Named, Reads) : s \in {"pass", "fail"},
                        m \in {"observed-execution", "static-analysis"}}
                    \cup {Outcome("pass", "observed-execution", Vague, Reads),
                          Outcome("skipped", "observed-execution", Named, Reads)}

(* Approval: two runs of the scheduler, approvals of either, genuine or not,
   and time for an approval to expire and for evidence to grow old. *)
ApprovalRules    == {Only(Check("static", {"SKILL.md"}, TRUE), FALSE, {"lint"})}
ApprovalOutcomes == {Outcome("pass", "static-analysis", NoAgent, Reads)}

Scenario(rules, ids, outcomes, edited, records, changes, ticks, begun) ==
    [rules |-> rules, ids |-> ids, outcomes |-> outcomes, edited |-> edited,
     records |-> records, changes |-> changes, ticks |-> ticks, begun |-> begun]
Scenarios == {Scenario(AuthorityRules, {"lint"}, AuthorityOutcomes, {"run.sh"}, 1, 1, 0, 1),
              Scenario(ReuseRules, {"lint"}, ReuseOutcomes, TreePaths \ {"run.sh"}, 1, 2, 0, 0),
              Scenario(ConflictRules, CheckIds, ConflictOutcomes, {}, 2, 0, 0, 0),
              Scenario(ApprovalRules, {"lint"}, ApprovalOutcomes, {}, 1, 0, 2, 2)}

ObservedBy(s, r) == r.check \in s.ids /\
    [state |-> r.state, method |-> r.method, immutable |-> r.immutable,
     context |-> r.context, inputs |-> DOMAIN r.inputs] \in s.outcomes

Scope == \E s \in Scenarios :
    /\ \E p \in s.rules : policy.checks = p.checks /\ policy.signers = p.signers
                             /\ policy.automation = p.automation
    /\ \A r \in store : ObservedBy(s, r)
    /\ \A p \in TreePaths \ s.edited : tree[p] = TreeFirst[p]
    /\ Cardinality(store) <= s.records /\ edits <= s.changes /\ now <= s.ticks
    /\ signatures # {} => \E p \in s.rules : p.signers
    /\ Cardinality(runs) <= s.begun
    /\ runs # {} => policy.automation # {}
    /\ s.begun = 1 => \A a \in approvals : a.genuine /\ a.expires = 1
    /\ input.strict => s.records = 2
    /\ s.begun = 2 => policy.trusted = {}

AllRules    == UNION {s.rules : s \in Scenarios}
AllOutcomes == UNION {s.outcomes : s \in Scenarios}
=============================================================================
