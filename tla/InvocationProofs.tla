--------------------------- MODULE InvocationProofs ---------------------------
(***************************************************************************)
(* What holds of every command, for any directories, settings files,       *)
(* skills, command lines and edits: an accepted set of modes has one       *)
(* meaning, the strict flags only tighten, and every skill is judged under *)
(* the settings of its own project.                                        *)
(***************************************************************************)
EXTENDS Invocation, FiniteSetTheorems, SequenceTheorems, TLAPS

(* Two modes of a set that is let through are not both prompts. *)
LEMMA OneEmit ==
    ASSUME NEW given, ~ModeConflict(given),
           NEW a \in Active(given) \cap Emit, NEW b \in Active(given) \cap Emit
    PROVE  a = b
<1> DEFINE E == Active(given) \cap Emit
<1>1. IsFiniteSet(Emit)
  <2>1. Emit = {"emit-critique-prompt"} \cup ({"emit-graph"} \cup ({"emit-graph-prompt"}
                \cup ({"activation-hypotheses"} \cup {"agent-reason"})))
    BY DEF Emit
  <2> QED
    BY <2>1, FS_Singleton, FS_Union, Zenon
<1>2. IsFiniteSet(E) /\ Cardinality(E) \in Nat
  BY <1>1, FS_Subset, FS_CardinalityType
<1>3. ~(Cardinality(E) > 1)
  BY DEF ModeConflict
<1>4. SUFFICES ASSUME a # b PROVE FALSE
  OBVIOUS
<1>5. IsFiniteSet({a, b}) /\ Cardinality({a, b}) = 2
  <2>1. IsFiniteSet({a}) /\ Cardinality({a}) = 1
    BY FS_Singleton
  <2>2. b \notin {a} /\ {a, b} = {a} \cup {b}
    BY <1>4
  <2> QED
    BY <2>1, <2>2, FS_AddElement
<1>6. Cardinality({a, b}) <= Cardinality(E)
  BY <1>2, FS_Subset
<1> QED
  BY <1>2, <1>3, <1>5, <1>6

(* If an accepted command line asks for a mode, the dispatch takes it. *)
LEMMA DispatchTakes ==
    ASSUME NEW given, ~ModeConflict(given),
           NEW mode \in Emit \cup {"show-history"}, Asks(given, mode)
    PROVE  Dispatch(given) = mode
<1> DEFINE Taken(i) == /\ i \in DOMAIN Order
                       /\ Asks(given, Order[i])
                       /\ \A j \in 1 .. i - 1 : ~Asks(given, Order[j])
<1>1. Order = <<"show-history", "emit-graph", "emit-critique-prompt", "emit-graph-prompt",
                "agent-reason", "activation-hypotheses">> /\ DOMAIN Order = 1 .. 6
  BY DEF Order
<1>2. \A i \in 1 .. 6 : Order[i] \in Emit \cup {"show-history"}
  BY <1>1 DEF Emit
<1>3. \E i \in 1 .. 6 : Order[i] = mode
  BY <1>1 DEF Emit
<1>4. ASSUME NEW other \in Emit \cup {"show-history"}, Asks(given, other)
      PROVE  other = mode
  <2>1. \A m \in Emit : Asks(given, m) => m \in Active(given) \cap Emit
    BY DEF Asks, Active
  <2>2. \A m \in Emit : Asks(given, m) => ~Asks(given, "show-history")
    BY <2>1 DEF ModeConflict, Ledger, Asks
  <2> QED
    BY <1>4, <2>1, <2>2, OneEmit
<1>5. PICK k \in 1 .. 6 : Order[k] = mode
  BY <1>3
<1>6. Taken(k)
  <2>1. \A j \in 1 .. k - 1 : j \in 1 .. 6 /\ Order[j] # Order[k]
    BY <1>1
  <2> QED
    BY <1>1, <1>2, <1>4, <1>5, <2>1
<1>7. \A i : Taken(i) => Order[i] = mode
  BY <1>1, <1>2, <1>4
<1>8. Order[CHOOSE i \in DOMAIN Order :
                /\ Asks(given, Order[i])
                /\ \A j \in 1 .. i - 1 : ~Asks(given, Order[j])] = mode
  BY <1>1, <1>6, <1>7
<1> QED
  BY <1>1, <1>6, <1>8 DEF Dispatch

(* Without such a mode it judges. *)
LEMMA DispatchJudges ==
    ASSUME NEW given, \A mode \in Emit \cup {"show-history"} : ~Asks(given, mode)
    PROVE  Dispatch(given) = "validate"
<1>1. \A i \in DOMAIN Order : Order[i] \in Emit \cup {"show-history"}
  BY DEF Order, Emit
<1> QED
  BY <1>1 DEF Dispatch

(* The dispatch takes a mode it was asked for, or judges. *)
LEMMA DispatchRange ==
    ASSUME NEW given, ~ModeConflict(given)
    PROVE  \/ Dispatch(given) = "validate" /\ \A mode \in Emit \cup {"show-history"} : ~Asks(given, mode)
           \/ Dispatch(given) \in Emit \cup {"show-history"} /\ Asks(given, Dispatch(given))
<1>1. CASE \E mode \in Emit \cup {"show-history"} : Asks(given, mode)
  BY <1>1, DispatchTakes
<1>2. CASE \A mode \in Emit \cup {"show-history"} : ~Asks(given, mode)
  BY <1>2, DispatchJudges
<1> QED
  BY <1>1, <1>2

(* What an accepted set of modes means, for the history and for an answer. *)
LEMMA HistoryIsWritten ==
    ASSUME NEW given, ~ModeConflict(given), "history" \in given
    PROVE  Dispatch(given) = "validate"
<1>1. \A mode \in Emit : Asks(given, mode) => mode \in Active(given) \cap Emit
  BY DEF Asks, Active
<1>2. \A mode \in Emit \cup {"show-history"} : ~Asks(given, mode)
  BY <1>1 DEF ModeConflict, Ledger, Asks
<1> QED
  BY <1>2, DispatchJudges

LEMMA AnswersAreUsed ==
    ASSUME NEW given, ~ModeConflict(given), given \cap Ingest # {}
    PROVE  Dispatch(given) \in {"validate", "show-history", "activation-hypotheses"}
<1>1. SUFFICES ASSUME Dispatch(given) \in Emit, Asks(given, Dispatch(given))
               PROVE  Dispatch(given) = "activation-hypotheses"
  BY DispatchRange
<1>2. Dispatch(given) # "agent-reason"
  BY <1>1 DEF Asks
<1>3. Dispatch(given) \in Active(given) /\ Ingest \cap given \subseteq Active(given)
  BY <1>1, <1>2 DEF Asks, Active, Ingest
<1>4. \A a, b : a \in Active(given) /\ b \in Active(given) => {a, b} \notin Pairwise
  <2>1. \A pair \in Pairwise : ~(pair \subseteq Active(given))
    BY DEF ModeConflict
  <2> QED
    BY <2>1
<1>5. \A a \in {"emit-critique-prompt", "emit-graph", "emit-graph-prompt"}, b \in Ingest :
          {a, b} \in Pairwise
  BY DEF Pairwise, Ingest
<1>6. PICK b \in Ingest : b \in Active(given)
  BY <1>3
<1>7. Dispatch(given) \notin {"emit-critique-prompt", "emit-graph", "emit-graph-prompt"}
  BY <1>3, <1>4, <1>5, <1>6
<1> QED
  BY <1>1, <1>2, <1>7 DEF Emit

LEMMA GraphIsAnalyzed ==
    ASSUME NEW given, ~ModeConflict(given), "analyze-graph" \in given
    PROVE  Dispatch(given) \notin {"emit-graph", "emit-graph-prompt"}
<1>1. SUFFICES ASSUME Dispatch(given) \in {"emit-graph", "emit-graph-prompt"} PROVE FALSE
  OBVIOUS
<1>2. Dispatch(given) \in Emit /\ Dispatch(given) # "validate"
  BY <1>1 DEF Emit
<1>3. {Dispatch(given), "analyze-graph"} \subseteq Active(given)
  <2>1. Dispatch(given) \in given
    BY <1>2, DispatchRange DEF Asks
  <2> QED
    BY <1>1, <2>1 DEF Active
<1>4. {Dispatch(given), "analyze-graph"} \in Pairwise
  BY <1>1 DEF Pairwise
<1> QED
  BY <1>3, <1>4 DEF ModeConflict

(* What goes beside the mode that is taken. *)
LEMMA NothingElse ==
    ASSUME NEW given, ~ModeConflict(given), NEW m \in given, m \in Modes, m # Dispatch(given)
    PROVE  /\ m \in Beside(Dispatch(given))
           /\ m = "agent-reason" => given \cap Ingest # {}
<1>1. ~(m \in Emit \cup {"show-history"} /\ Asks(given, m))
  BY DispatchTakes
<1>2. m = "agent-reason" => given \cap Ingest # {}
  BY <1>1 DEF Asks, Emit
<1>3. m \in {"agent-reason", "history", "analyze-graph"} \cup Ingest
  BY <1>1 DEF Asks, Modes, Ledger
<1>4. CASE m = "history"
  BY <1>4, HistoryIsWritten DEF Beside
<1>5. CASE m = "agent-reason" \/ m \in Ingest
  <2>1. Dispatch(given) \in {"validate", "show-history", "activation-hypotheses"}
    BY <1>2, <1>5, AnswersAreUsed
  <2> QED
    BY <1>2, <1>5, <2>1 DEF Beside
<1>6. CASE m = "analyze-graph"
  <2>1. Dispatch(given) \in {"validate", "show-history", "activation-hypotheses",
                             "emit-critique-prompt", "agent-reason"}
    BY <1>6, DispatchRange, GraphIsAnalyzed DEF Emit
  <2> QED
    BY <1>6, <2>1 DEF Beside
<1> QED
  BY <1>2, <1>3, <1>4, <1>5, <1>6
-----------------------------------------------------------------------------
(* Settings are functions that have a value for every field. *)
Complete(s) == s = [f \in DOMAIN s |-> s[f]] /\ Fields \subseteq DOMAIN s
Scoped(s) == s.target_agent \in {"claude", "vscode", "cursor", "all"}

LEMMA StrictChanges ==
    ASSUME NEW s, Complete(s)
    PROVE  /\ \A f \in Fields \ {"strict_vscode", "strict_cursor", "strict_all"} : Strict(s)[f] = s[f]
           /\ Strict(s).strict_vscode = TRUE /\ Strict(s).strict_cursor = TRUE
           /\ Strict(s).strict_all = TRUE
BY DEF Strict, Complete, Fields

LEMMA OthersUnchanged ==
    ASSUME NEW d, NEW s, Complete(s)
    PROVE  /\ DirectoryMatch(d, Strict(s)) = DirectoryMatch(d, s)
           /\ ReservedWords(d, Strict(s)) = ReservedWords(d, s)
           /\ QualityRules(d, Strict(s)) = QualityRules(d, s)
           /\ FieldRules(d, Strict(s)) = FieldRules(d, s)
           /\ SizingRules(d, Strict(s)) = SizingRules(d, s)
           /\ DisclosureRules(d, Strict(s)) = DisclosureRules(d, s)
           /\ ReferenceRules(d, Strict(s)) = ReferenceRules(d, s)
           /\ Countable(Strict(s)) = Countable(s)
<1> DEFINE t == Strict(s)
<1>1. /\ t.skip_dirname_check = s.skip_dirname_check /\ t.reserved_words = s.reserved_words
      /\ t.min_desc_score = s.min_desc_score /\ t.extension_fields = s.extension_fields
      /\ t.max_lines = s.max_lines /\ t.max_tokens = s.max_tokens /\ t.tokenizer = s.tokenizer
      /\ t.skip_ref_check = s.skip_ref_check
  BY StrictChanges DEF Fields
<1> HIDE DEF t
<1>2. \A text : Tokens(text, t) = Tokens(text, s)
  BY <1>1, Zenon DEF Tokens
<1>3. DirectoryMatch(d, t) = DirectoryMatch(d, s) /\ ReservedWords(d, t) = ReservedWords(d, s)
  BY <1>1, Zenon DEF DirectoryMatch, ReservedWords
<1>4. QualityRules(d, t) = QualityRules(d, s) /\ FieldRules(d, t) = FieldRules(d, s)
  BY <1>1, Zenon DEF QualityRules, FieldRules
<1>5. SizingRules(d, t) = SizingRules(d, s) /\ DisclosureRules(d, t) = DisclosureRules(d, s)
  <2>1. /\ Tokens(d.whole, t) = Tokens(d.whole, s) /\ Tokens(d.head, t) = Tokens(d.head, s)
        /\ Tokens(d.body, t) = Tokens(d.body, s)
    BY <1>2
  <2>2. SizingRules(d, t) = SizingRules(d, s)
    BY <1>1, <2>1, Zenon DEF SizingRules
  <2>3. DisclosureRules(d, t) = DisclosureRules(d, s)
    BY <2>1 DEF DisclosureRules
  <2> QED
    BY <2>2, <2>3
<1>6. ReferenceRules(d, t) = ReferenceRules(d, s) /\ Countable(t) = Countable(s)
  BY <1>1, Zenon DEF ReferenceRules, Countable
<1> QED
  BY <1>3, <1>4, <1>5, <1>6 DEF t

(* The advice about agents: the same rules, some of them more severe. *)
LEMMA AdviceTightens ==
    ASSUME NEW d, NEW s, Complete(s), Scoped(s)
    PROVE  Covers(CompatRules(d, Strict(s)), CompatRules(d, s))
<1> DEFINE t == Strict(s)
<1>1. /\ t.target_agent = s.target_agent
      /\ t.strict_vscode = TRUE /\ t.strict_cursor = TRUE /\ t.strict_all = TRUE
  BY StrictChanges DEF Fields
<1> HIDE DEF t
<1>2. Rank["error"] > Rank["info"] /\ Rank["error"] > Rank["warning"]
  BY DEF Rank
<1>3. \A milder \in {"info", "warning", "error"} :
          /\ Covers(Dirname(d, "error"), Dirname(d, milder))
          /\ Covers(BlockScalar(d, "error"), BlockScalar(d, milder))
  <2>1. ASSUME NEW condition, NEW rule, NEW milder \in {"info", "warning", "error"}
        PROVE  Covers(When(condition, rule, "error"), When(condition, rule, milder))
    <3>1. CASE condition
      <4>1. When(condition, rule, "error") = {<<rule, "error">>}
            /\ When(condition, rule, milder) = {<<rule, milder>>}
        BY <3>1 DEF When
      <4>2. <<rule, "error">>[1] = <<rule, milder>>[1]
            /\ (<<rule, "error">>[2] = <<rule, milder>>[2]
                \/ Rank[<<rule, "error">>[2]] > Rank[<<rule, milder>>[2]])
        BY <1>2
      <4> QED
        BY <4>1, <4>2 DEF Covers
    <3>2. CASE ~condition
      BY <3>2 DEF When, Covers
    <3> QED
      BY <3>1, <3>2
  <2> QED
    BY <2>1 DEF Dirname, BlockScalar
<1>4. \A a, b, c, e : Covers(a, b) /\ Covers(c, e) => Covers(a \cup c, b \cup e)
  BY DEF Covers
<1>5. \A a : Covers(a, a)
  BY DEF Covers
<1>6. CASE s.target_agent = "all"
  <2>1. CompatRules(d, t) = ClaudeFields(d) \cup UnverifiedFields(d)
                            \cup Dirname(d, "error") \cup BlockScalar(d, "error")
    BY <1>1, <1>6 DEF CompatRules
  <2>2. PICK v, c \in {"info", "error"} :
            CompatRules(d, s) = ClaudeFields(d) \cup UnverifiedFields(d)
                                \cup Dirname(d, v) \cup BlockScalar(d, c)
    <3>1. CompatRules(d, s) =
              ClaudeFields(d) \cup UnverifiedFields(d)
              \cup Dirname(d, IF s.strict_vscode \/ s.strict_all THEN "error" ELSE "info")
              \cup BlockScalar(d, IF s.strict_cursor \/ s.strict_all THEN "error" ELSE "info")
      BY <1>6 DEF CompatRules
    <3> QED
      BY <3>1
  <2>3. /\ Covers(Dirname(d, "error"), Dirname(d, v)) /\ Covers(BlockScalar(d, "error"), BlockScalar(d, c))
        /\ Covers(ClaudeFields(d) \cup UnverifiedFields(d), ClaudeFields(d) \cup UnverifiedFields(d))
    BY <1>3, <1>5
  <2>4. Covers(ClaudeFields(d) \cup UnverifiedFields(d) \cup Dirname(d, "error"),
               ClaudeFields(d) \cup UnverifiedFields(d) \cup Dirname(d, v))
    BY <1>4, <2>3
  <2> QED
    BY <1>4, <2>1, <2>2, <2>3, <2>4 DEF t
<1>7. CASE s.target_agent = "vscode"
  BY <1>1, <1>3, <1>7 DEF CompatRules, t
<1>8. CASE s.target_agent = "claude"
  BY <1>1, <1>5, <1>8 DEF CompatRules, t
<1>9. CASE s.target_agent = "cursor"
  BY <1>1, <1>3, <1>9 DEF CompatRules, t
<1> QED
  BY <1>6, <1>7, <1>8, <1>9 DEF Scoped

LEMMA AdviceIsAdvice ==
    ASSUME NEW d, NEW s, Scoped(s), NEW f \in CompatRules(d, s)
    PROVE  f[1][1] = "compat"
<1>1. \A severity : (\A g \in Dirname(d, severity) : g[1][1] = "compat")
                     /\ (\A g \in BlockScalar(d, severity) : g[1][1] = "compat")
  BY DEF Dirname, BlockScalar, When
<1>2. \A g \in ClaudeFields(d) \cup UnverifiedFields(d) : g[1][1] = "compat"
  BY DEF ClaudeFields, UnverifiedFields, When
<1>3. PICK v, c : f \in ClaudeFields(d) \cup UnverifiedFields(d)
                         \cup Dirname(d, v) \cup BlockScalar(d, c)
  BY DEF CompatRules, Scoped
<1> QED
  BY <1>1, <1>2, <1>3

(* For every text and all settings: what --strict reports covers what is   *)
(* reported without it, and differs from it only in the advice about       *)
(* agents (rules/__init__.py:145-170).                                     *)
THEOREM StrictTightens ==
    ASSUME NEW d, NEW s, Complete(s), Scoped(s)
    PROVE  /\ Covers(Kept(Judge(d, Strict(s)), Strict(s)), Kept(Judge(d, s), s))
           /\ Rest(Kept(Judge(d, Strict(s)), Strict(s))) = Rest(Kept(Judge(d, s), s))
<1> DEFINE t == Strict(s)
           others == NameRules(d) \cup DirectoryMatch(d, s) \cup ReservedWords(d, s)
                     \cup DescriptionRules(d) \cup QualityRules(d, s) \cup FieldRules(d, s)
                     \cup SizingRules(d, s) \cup DisclosureRules(d, s) \cup ReferenceRules(d, s)
<1>1. \A findings : Kept(findings, t) = Kept(findings, s)
  <2>1. t.ignore = s.ignore
    BY StrictChanges DEF Fields
  <2> HIDE DEF t
  <2> QED
    BY <2>1, Zenon DEF Kept
<1>2. t.target_agent = s.target_agent /\ Scoped(t)
  BY StrictChanges DEF Fields, Scoped
<1> HIDE DEF t
<1>3. \A a, b : Covers(a, b) => Covers(Kept(a, s), Kept(b, s))
  BY DEF Covers, Kept
<1>4. CASE d.readable /\ Countable(s)
  <2>1. AllRules(d, s) = others \cup CompatRules(d, s)
    BY DEF AllRules
  <2>2. AllRules(d, t) = others \cup CompatRules(d, t)
    BY OthersUnchanged DEF AllRules, t
  <2> HIDE DEF others
  <2>3. Judge(d, s) = others \cup CompatRules(d, s)
    BY <1>4, <2>1 DEF Judge
  <2>4. Judge(d, t) = others \cup CompatRules(d, t)
    BY <1>4, <2>2, OthersUnchanged DEF Judge, t
  <2>5. Covers(Judge(d, t), Judge(d, s))
    BY <2>3, <2>4, AdviceTightens DEF Covers, t
  <2>6. Rest(Kept(Judge(d, t), s)) = Rest(Kept(Judge(d, s), s))
    BY <1>2, <2>3, <2>4, AdviceIsAdvice DEF Rest, Kept
  <2> QED
    BY <1>1, <1>3, <2>5, <2>6 DEF t
<1>5. CASE ~(d.readable /\ Countable(s))
  <2>1. Judge(d, t) = Judge(d, s)
    BY <1>5, OthersUnchanged DEF Judge, t
  <2> QED
    BY <1>1, <2>1 DEF t, Covers
<1> QED
  BY <1>4, <1>5
-----------------------------------------------------------------------------
(* From the moment the options are settled they are complete and no modes  *)
(* conflict; the command then keeps to the one mode that they dispatch.    *)
Deciding == {"search", "load", "load again", "settle"}
Working  == {"collect", "confirm", "dispatch", "print", "judge"}

Stages == /\ step \in Deciding \cup Working \cup {"end"}
          /\ step # "end" => outcome.mode = "none"
Agreed == step \in Working \/ outcome.mode # "none" =>
              Complete(options) /\ Scoped(options) /\ ~ModeConflict(Chosen(options))
Answer == /\ outcome.mode # "none" => outcome.mode = Mode
          /\ step = "judge" => Mode = "validate"
          /\ step = "print" => Mode # "validate"
Says(r) == r.with = options /\ r.says = Kept(Judge(r.text, options), options)
Said   == /\ step \notin {"print", "judge", "end"} => DOMAIN reports = {}
          /\ step = "judge" \/ outcome.mode = "validate" =>
                 \A p \in DOMAIN reports : Says(reports[p])
CInv == Stages /\ Agreed /\ Answer /\ Said

LEMMA SettledIsComplete == \A l, e : Complete(InForce(l, e))
<1>1. DOMAIN Defaults = Fields
  BY Zenon DEF Defaults
<1>2. \A w, e : Override(w, e) = [f \in DOMAIN Override(w, e) |-> Override(w, e)[f]]
                /\ DOMAIN w \subseteq DOMAIN Override(w, e)
  BY DEF Override
<1>3. \A w : w = [f \in DOMAIN w |-> w[f]] /\ Fields \subseteq DOMAIN w =>
          \A a, b, c : Complete([w EXCEPT !.reserved_words = a, !.strict_vscode = b, !.strict_cursor = c])
  BY DEF Complete
<1> QED
  BY <1>1, <1>2, <1>3 DEF InForce

LEMMA CInvInit == Init => CInv
BY DEF Init, CInv, Stages, Agreed, Answer, Said, Deciding, Working, Nothing

LEMMA CInvNext == CInv /\ [Next]_vars => CInv'
<1> SUFFICES ASSUME CInv, [Next]_vars PROVE CInv'
  OBVIOUS
<1> USE DEF CInv, Stages, Deciding, Working
<1>1. CASE UNCHANGED vars
  BY <1>1 DEF vars, world, reading, work, Agreed, Answer, Said, Says, Mode, Chosen
<1> DEFINE Quiet == cmd' = cmd /\ options' = options /\ reports' = reports
           Early == step \notin {"print", "judge", "end"}
           Halts == step' = "end" /\ outcome'.mode = "none"
           Reads == step \in Deciding /\ step' \in Deciding /\ outcome' = outcome
           Works == step \in Working /\ step' \in Working /\ outcome' = outcome
                    /\ step' \notin {"print", "judge"}
<1>2. Quiet /\ Early /\ (Halts \/ Reads \/ Works) => CInv'
  BY DEF Agreed, Answer, Said, Says, Mode, Chosen
<1>3. CASE Search
  <2>1. Quiet /\ Early
    BY <1>3 DEF Search, world, work
  <2>2. step = "search" /\ (Refuses \/ Goes("load"))
    BY <1>3, Zenon DEF Search
  <2>3. Halts \/ Reads
    <3>1. CASE Refuses
      BY <3>1 DEF Refuses, Ends
    <3>2. CASE Goes("load")
      BY <2>2, <3>2 DEF Goes
    <3> QED
      BY <2>2, <3>1, <3>2
  <2> QED
    BY <1>2, <2>1, <2>3
<1>4. CASE Load
  <2>1. Quiet /\ Early
    BY <1>4 DEF Load, world, work
  <2>2. step = "load" /\ (Refuses \/ Goes("load") \/ Goes("load again"))
    BY <1>4, Zenon DEF Load
  <2>3. Halts \/ Reads
    <3>1. CASE Refuses
      BY <3>1 DEF Refuses, Ends
    <3>2. CASE Goes("load")
      BY <2>2, <3>2 DEF Goes
    <3>3. CASE Goes("load again")
      BY <2>2, <3>3 DEF Goes
    <3> QED
      BY <2>2, <3>1, <3>2, <3>3
  <2> QED
    BY <1>2, <2>1, <2>3
<1>5. CASE LoadAgain
  <2>1. Quiet /\ Early
    BY <1>5 DEF LoadAgain, world, work
  <2>2. step = "load again" /\ (Refuses \/ Ends("traceback", "none") \/ Goes("load"))
    BY <1>5, Zenon DEF LoadAgain
  <2>3. Halts \/ Reads
    <3>1. CASE Refuses
      BY <3>1 DEF Refuses, Ends
    <3>2. CASE Ends("traceback", "none")
      BY <3>2 DEF Ends
    <3>3. CASE Goes("load")
      BY <2>2, <3>3 DEF Goes
    <3> QED
      BY <2>2, <3>1, <3>2, <3>3
  <2> QED
    BY <1>2, <2>1, <2>3
<1>6. CASE NextTarget
  <2>1. Quiet /\ Early
    BY <1>6 DEF NextTarget, world, work
  <2>2. step = "load" /\ (Refuses \/ Goes("search") \/ Goes("settle"))
    BY <1>6, Zenon DEF NextTarget
  <2>3. Halts \/ Reads
    <3>1. CASE Refuses
      BY <3>1 DEF Refuses, Ends
    <3>2. CASE Goes("search")
      BY <2>2, <3>2 DEF Goes
    <3>3. CASE Goes("settle")
      BY <2>2, <3>3 DEF Goes
    <3> QED
      BY <2>2, <3>1, <3>2, <3>3
  <2> QED
    BY <1>2, <2>1, <2>3
<1>7. CASE Settle
  <2>1. Complete(options')
    BY <1>7, SettledIsComplete DEF Settle
  <2>2. UNCHANGED <<cmd, reports>> /\ DOMAIN reports = {} /\ outcome.mode = "none"
    BY <1>7 DEF Settle, world, Said
  <2>3. CASE Refuses
    BY <2>2, <2>3 DEF Refuses, Ends, Agreed, Answer, Said
  <2>4. CASE Goes("collect") /\ Valid(options') /\ ~ModeConflict(Chosen(options'))
    <3>1. Scoped(options')
      BY <2>4 DEF Valid, Scoped
    <3>2. Chosen(options)' = Chosen(options')
      BY <2>2 DEF Chosen
    <3> QED
      BY <2>1, <2>2, <2>4, <3>1, <3>2 DEF Goes, Agreed, Answer, Said
  <2> QED
    BY <1>7, <2>3, <2>4 DEF Settle
<1>8. CASE Collect
  <2>1. Quiet /\ Early
    BY <1>8 DEF Collect, world, work
  <2>2. Halts \/ Reads \/ Works
    BY <1>8 DEF Collect, Refuses, Ends, Goes
  <2> QED
    BY <1>2, <2>1, <2>2
<1>9. CASE Confirm
  <2>1. Quiet /\ Early
    BY <1>9 DEF Confirm, world, work
  <2>2. Halts \/ Reads \/ Works
    BY <1>9 DEF Confirm, Refuses, Ends, Goes
  <2> QED
    BY <1>2, <2>1, <2>2
<1>10. CASE ShowHistory
  <2>1. Quiet /\ step = "dispatch" /\ Mode = "show-history"
    BY <1>10 DEF ShowHistory, world, work
  <2>2. PICK kind : Ends(kind, Mode)
    BY <1>10 DEF ShowHistory
  <2>3. step' = "end" /\ outcome'.mode = "show-history"
    BY <2>1, <2>2 DEF Ends
  <2> QED
    BY <2>1, <2>3 DEF Agreed, Answer, Said, Mode, Chosen
<1>11. CASE Begin
  <2>1. UNCHANGED <<cmd, options, reports>> /\ step = "dispatch" /\ DOMAIN reports = {}
    BY <1>11 DEF Begin, world, work, Said
  <2>2. CASE Refuses
    BY <1>2, <2>1, <2>2 DEF Refuses, Ends
  <2>3. CASE Goes("print") /\ Mode # "validate"
    BY <2>1, <2>3 DEF Goes, Agreed, Answer, Said, Mode, Chosen
  <2>4. CASE Goes("judge") /\ Mode = "validate"
    BY <2>1, <2>4 DEF Goes, Agreed, Answer, Said, Mode, Chosen
  <2> QED
    BY <1>11, <2>2, <2>3, <2>4 DEF Begin
<1>12. CASE EmitOne
  <2>1. cmd' = cmd /\ options' = options /\ step = "print"
    BY <1>12 DEF EmitOne, world
  <2>2. Ends("traceback", Mode) \/ Goes("print")
    BY <1>12, Zenon DEF EmitOne
  <2>3. \/ step' = "end" /\ outcome'.mode = Mode
        \/ step' = "print" /\ outcome' = outcome
    <3>1. CASE Ends("traceback", Mode)
      BY <3>1 DEF Ends
    <3>2. CASE Goes("print")
      BY <3>2 DEF Goes
    <3> QED
      BY <2>2, <3>1, <3>2
  <2> QED
    BY <2>1, <2>3 DEF Agreed, Answer, Said, Mode, Chosen
<1>13. CASE Emitted
  BY <1>13 DEF Emitted, world, work, Ends, Agreed, Answer, Said, Mode, Chosen
<1>14. CASE JudgeOne
  <2>1. /\ UNCHANGED <<cmd, options, outcome, step>> /\ step = "judge"
        /\ reports' = [p \in DOMAIN reports \cup {First(paths)} |->
              IF p = First(paths)
              THEN [text |-> Parsed(First(paths)), with |-> options,
                    says |-> Kept(Judge(Parsed(First(paths)), options), options)]
              ELSE reports[p]]
    BY <1>14 DEF JudgeOne, world, Goes
  <2>2. \A p \in DOMAIN reports' : Says(reports[p])'
    <3>1. \A p \in DOMAIN reports : Says(reports[p])
      BY <2>1 DEF Said
    <3> QED
      BY <2>1, <3>1 DEF Says
  <2> QED
    BY <2>1, <2>2 DEF Agreed, Answer, Said, Mode, Chosen
<1>15. CASE Judged
  BY <1>15 DEF Judged, world, work, Ends, Agreed, Answer, Said, Says, Mode, Chosen
<1>16. ASSUME NEW s \in Saves, Reconfigure(s.path, s.file) PROVE CInv'
  BY <1>16 DEF Reconfigure, Edit, reading, work, Agreed, Answer, Said, Says, Mode, Chosen
<1>17. ASSUME NEW s \in Skills, NEW text \in Texts, Rewrite(s, text) PROVE CInv'
  BY <1>17 DEF Rewrite, Edit, reading, work, Agreed, Answer, Said, Says, Mode, Chosen
<1>18. CASE Ended
  BY <1>1, <1>18 DEF Ended
<1> QED
  BY <1>1, <1>3, <1>4, <1>5, <1>6, <1>7, <1>8, <1>9, <1>10, <1>11, <1>12, <1>13, <1>14, <1>15,
     <1>16, <1>17, <1>18 DEF Next, Command

LEMMA CInvAlways == Spec => []CInv
BY CInvInit, CInvNext, PTL DEF Spec

(* For any skills, texts and settings, the strict flags never take a        *)
(* finding of a run away or make it milder (rules/__init__.py:145-170).     *)
THEOREM StrictFlagsTighten == Spec => []StrictOnlyTightens
<1>1. CInv => StrictOnlyTightens
  <2>1. SUFFICES ASSUME CInv, NEW p \in DOMAIN reports, outcome.mode = "validate" \/ step = "judge"
                 PROVE  LET r == reports[p]
                            severe == Kept(Judge(r.text, Strict(r.with)), Strict(r.with))
                        IN  Covers(severe, r.says) /\ Rest(severe) = Rest(r.says)
    BY DEF StrictOnlyTightens
  <2>2. Complete(options) /\ Scoped(options) /\ Says(reports[p])
    BY <2>1 DEF CInv, Agreed, Said, Working
  <2> QED
    BY <2>2, StrictTightens DEF Says
<1> QED
  BY <1>1, CInvAlways, PTL
-----------------------------------------------------------------------------
(* Every way up comes to an end, so what holds where it ends, and below     *)
(* wherever it holds, holds everywhere.                                     *)
LEMMA GoingUp ==
    ASSUME NEW D \in SUBSET Dirs, Stops \subseteq D,
           \A d \in Dirs \ Stops : Parent[d] \in D => d \in D
    PROVE  D = Dirs
<1>1. SUFFICES ASSUME Dirs \ D # {} PROVE FALSE
  OBVIOUS
<1>2. PICK d \in Dirs \ D : Parent[d] \notin Dirs \ D
  BY <1>1, DirsAssumption
<1> QED
  BY <1>2, DirsAssumption

(* The directories on the way up from d, up to the first one of H. *)
Rises(D, H) == \A d \in D \ H : Parent[d] \in D
Way(d, H) == {e \in Dirs : \A D \in SUBSET Dirs : d \in D /\ Rises(D, H) => e \in D}

LEMMA WayUp ==
    ASSUME NEW H, NEW d \in Dirs
    PROVE  Way(d, H) = {d} \cup (IF d \in H THEN {} ELSE Way(Parent[d], H))
<1> DEFINE W == {d} \cup (IF d \in H THEN {} ELSE Way(Parent[d], H))
<1>1. Parent[d] \in Dirs
  BY DirsAssumption
<1>2. W \in SUBSET Dirs /\ d \in W
  BY DEF Way
<1>3. Rises(W, H)
  <2>1. ASSUME NEW x \in W \ H PROVE Parent[x] \in W
    <3>1. CASE x = d
      BY <1>1, <2>1, <3>1 DEF Way
    <3>2. CASE x # d
      <4>1. d \notin H /\ x \in Way(Parent[d], H)
        BY <2>1, <3>2
      <4>2. Parent[x] \in Way(Parent[d], H)
        BY <2>1, <4>1, DirsAssumption DEF Way, Rises
      <4> QED
        BY <4>1, <4>2
    <3> QED
      BY <3>1, <3>2
  <2> QED
    BY <2>1 DEF Rises
<1>4. Way(d, H) \subseteq W
  <2> HIDE DEF W
  <2> QED
    BY <1>2, <1>3 DEF Way
<1>5. d \in Way(d, H)
  BY DEF Way
<1>6. ASSUME d \notin H PROVE Way(Parent[d], H) \subseteq Way(d, H)
  BY <1>6 DEF Way, Rises
<1> QED
  BY <1>4, <1>5, <1>6

(* The recursions over the directories are what they say. *)
LEMMA UpsRise ==
    ASSUME NEW d \in Dirs
    PROVE  Ups(d) = {d} \cup (IF d \in Stops THEN {} ELSE Ups(Parent[d]))
<1> DEFINE Rule(f) == [e \in Dirs |-> {e} \cup (IF e \in Stops THEN {} ELSE f[Parent[e]])]
           up == CHOOSE f : f = Rule(f)
<1>1. \E f : f = Rule(f)
  <2> DEFINE g == [e \in Dirs |-> Way(e, Stops)]
  <2>1. ASSUME NEW e \in Dirs PROVE g[e] = {e} \cup (IF e \in Stops THEN {} ELSE g[Parent[e]])
    BY WayUp, DirsAssumption
  <2>2. g = Rule(g)
    <3> HIDE DEF g
    <3>1. g = [e \in Dirs |-> g[e]]
      BY DEF g
    <3> QED
      BY <2>1, <3>1
  <2> QED
    BY <2>2
<1>2. up = Rule(up)
  <2> HIDE DEF Rule
  <2> QED
    BY <1>1
<1>3. \A e \in Dirs : Ups(e) = up[e]
  BY Zenon DEF Ups
<1>4. Parent[d] \in Dirs
  BY DirsAssumption
<1>5. up[d] = {d} \cup (IF d \in Stops THEN {} ELSE up[Parent[d]])
  <2> HIDE DEF up
  <2> QED
    BY <1>2
<1> HIDE DEF up
<1> QED
  BY <1>3, <1>4, <1>5

LEMMA SearchRises ==
    ASSUME NEW files, NEW d \in Dirs
    PROVE  ProjectConfigs(files, d) =
               IF Unsearchable(files, d) THEN [error |-> TRUE, paths |-> {}]
               ELSE IF Found(files, d) # {} \/ d \in Stops
                    THEN [error |-> FALSE, paths |-> Found(files, d)]
                    ELSE ProjectConfigs(files, Parent[d])
<1> DEFINE Ended1(e, other) == IF Unsearchable(files, e) THEN [error |-> TRUE, paths |-> {}]
                               ELSE IF Found(files, e) # {} \/ e \in Stops
                                    THEN [error |-> FALSE, paths |-> Found(files, e)]
                                    ELSE other
           Rule(f) == [e \in Dirs |->
                          IF Unsearchable(files, e) THEN [error |-> TRUE, paths |-> {}]
                          ELSE IF Found(files, e) # {} \/ e \in Stops
                               THEN [error |-> FALSE, paths |-> Found(files, e)]
                               ELSE f[Parent[e]]]
           search == CHOOSE f : f = Rule(f)
           H == {e \in Dirs : Unsearchable(files, e) \/ Found(files, e) # {} \/ e \in Stops}
           Last1(e) == Way(e, H) \cap H
           g == [e \in Dirs |-> Ended1(CHOOSE x : x \in Last1(e), {})]
<1>1. ASSUME NEW e \in Dirs PROVE Last1(e) = IF e \in H THEN {e} ELSE Last1(Parent[e])
  <2> HIDE DEF H
  <2>1. Way(e, H) = {e} \cup (IF e \in H THEN {} ELSE Way(Parent[e], H))
    BY WayUp
  <2> QED
    BY <2>1
<1>2. ASSUME NEW e \in Dirs PROVE g[e] = Ended1(e, g[Parent[e]])
  <2>1. CASE e \in H
    <3>1. (CHOOSE x : x \in Last1(e)) = e
      <4>1. Last1(e) = {e}
        BY <1>1, <2>1
      <4> HIDE DEF Last1
      <4> QED
        BY <4>1
    <3>2. g[e] = Ended1(e, {})
      <4> HIDE DEF Ended1, Last1
      <4> QED
        BY <3>1
    <3> QED
      <4> HIDE DEF g, Last1
      <4> QED
        BY <2>1, <3>2
  <2>2. CASE e \notin H
    <3>1. Last1(e) = Last1(Parent[e]) /\ Parent[e] \in Dirs
      BY <1>1, <2>2, DirsAssumption
    <3>2. g[e] = g[Parent[e]]
      <4> HIDE DEF Ended1, Last1
      <4> QED
        BY <3>1
    <3> QED
      <4> HIDE DEF g, Last1
      <4> QED
        BY <2>2, <3>2
  <2> QED
    BY <2>1, <2>2
<1>3. g = Rule(g)
  <2>1. g = [e \in Dirs |-> g[e]]
    OBVIOUS
  <2> HIDE DEF g
  <2> QED
    BY <1>2, <2>1
<1>4. search = Rule(search)
  <2> HIDE DEF Rule, g
  <2> QED
    BY <1>3
<1>5. \A e : ProjectConfigs(files, e) = search[e]
  BY Zenon DEF ProjectConfigs
<1>6. search[d] = Ended1(d, search[Parent[d]])
  <2> HIDE DEF search
  <2> QED
    BY <1>4
<1> HIDE DEF search
<1> QED
  BY <1>5, <1>6

(* What lies above a directory above lies above. *)
LEMMA UpsRange == \A d \in Dirs : d \in Ups(d) /\ Ups(d) \subseteq Dirs
<1> DEFINE D == {d \in Dirs : Ups(d) \subseteq Dirs}
<1>1. Stops \subseteq D
  BY UpsRise, DirsAssumption
<1>2. \A d \in Dirs \ Stops : Parent[d] \in D => d \in D
  BY UpsRise
<1>3. D = Dirs
  <2> HIDE DEF D
  <2>1. D \in SUBSET Dirs
    BY DEF D
  <2> QED
    BY <1>1, <1>2, <2>1, GoingUp
<1> QED
  BY <1>3, UpsRise

LEMMA UpsTransitive == \A d \in Dirs : \A e \in Ups(d) : Ups(e) \subseteq Ups(d)
<1> DEFINE D == {d \in Dirs : \A e \in Ups(d) : Ups(e) \subseteq Ups(d)}
<1>1. Stops \subseteq D
  <2>1. ASSUME NEW d \in Stops PROVE d \in Dirs /\ Ups(d) = {d}
    BY UpsRise, DirsAssumption
  <2> QED
    BY <2>1
<1>2. \A d \in Dirs \ Stops : Parent[d] \in D => d \in D
  BY UpsRise
<1>3. D = Dirs
  <2> HIDE DEF D
  <2>1. D \in SUBSET Dirs
    BY DEF D
  <2> QED
    BY <1>1, <1>2, <2>1, GoingUp
<1> QED
  BY <1>3

(* Nothing lies above itself. *)
LEMMA UpsAcyclic == \A d \in Dirs : \A e \in Ups(d) : d \in Ups(e) => d = e
<1> DEFINE D == {d \in Dirs : \A e \in Ups(d) : d \in Ups(e) => d = e}
<1>1. Stops \subseteq D
  <2>1. ASSUME NEW d \in Stops PROVE d \in Dirs /\ Ups(d) = {d}
    BY UpsRise, DirsAssumption
  <2> QED
    BY <2>1
<1>2. ASSUME NEW d \in Dirs \ Stops, Parent[d] \in D PROVE d \in D
  <2>1. SUFFICES ASSUME NEW e \in Ups(d), d \in Ups(e), d # e PROVE FALSE
    OBVIOUS
  <2>2. Ups(d) = {d} \cup Ups(Parent[d]) /\ Parent[d] \in Dirs
    BY UpsRise, DirsAssumption
  <2>3. e \in Ups(Parent[d])
    BY <2>1, <2>2
  <2>4. d \in Ups(Parent[d])
    BY <2>1, <2>2, <2>3, UpsTransitive
  <2>5. Parent[d] \in Ups(d)
    BY <2>2, UpsRange
  <2>6. d = Parent[d]
    BY <1>2, <2>4, <2>5
  <2>7. PICK x \in {d} : Parent[x] \notin {d}
    <3>1. {d} \in SUBSET (Dirs \ Stops) /\ {d} # {}
      OBVIOUS
    <3> QED
      BY <3>1, DirsAssumption
  <2> QED
    BY <2>6, <2>7
<1>3. D = Dirs
  <2> HIDE DEF D
  <2>1. D \in SUBSET Dirs
    BY DEF D
  <2> QED
    BY <1>1, <1>2, <2>1, GoingUp
<1> QED
  BY <1>3

(* A search that ends without an error has the files of the nearest         *)
(* directory above that has some, or there is none.                         *)
Roots(files, d) == {e \in Ups(d) : Found(files, e) # {}}

LEMMA SearchFindsNearest ==
    ASSUME NEW files, NEW start \in Dirs
    PROVE  LET s == ProjectConfigs(files, start)
           IN  \/ s.error /\ s.paths = {}
               \/ s.paths = {} /\ Roots(files, start) = {}
               \/ \E r \in Roots(files, start) :
                      s.paths = Found(files, r) /\ \A e \in Roots(files, start) : e \in Ups(r)
<1> DEFINE P(d) == ProjectConfigs(files, d)
           R(d) == Roots(files, d)
           Good(d) == \/ P(d).error /\ P(d).paths = {}
                      \/ P(d).paths = {} /\ R(d) = {}
                      \/ \E r \in R(d) : P(d).paths = Found(files, r) /\ \A e \in R(d) : e \in Ups(r)
           D == {d \in Dirs : Good(d)}
<1>1. ASSUME NEW d \in Dirs, d \in Stops \/ Parent[d] \in D PROVE Good(d)
  <2>1. CASE Unsearchable(files, d)
    <3>1. P(d) = [error |-> TRUE, paths |-> {}]
      BY <2>1, SearchRises
    <3> QED
      BY <3>1
  <2>2. CASE ~Unsearchable(files, d) /\ Found(files, d) # {}
    <3>1. P(d) = [error |-> FALSE, paths |-> Found(files, d)]
      BY <2>2, SearchRises
    <3>2. d \in R(d) /\ R(d) \subseteq Ups(d)
      BY <2>2, UpsRange DEF Roots
    <3> QED
      <4> HIDE DEF R
      <4>1. P(d).paths = Found(files, d)
        BY <3>1
      <4> QED
        BY <3>2, <4>1
  <2>3. CASE ~Unsearchable(files, d) /\ Found(files, d) = {} /\ d \in Stops
    <3>1. P(d) = [error |-> FALSE, paths |-> {}]
      BY <2>3, SearchRises
    <3>2. Ups(d) = {d}
      BY <2>3, UpsRise
    <3>3. R(d) = {}
      BY <2>3, <3>2 DEF Roots
    <3> QED
      <4> HIDE DEF R
      <4> QED
        BY <3>1, <3>3
  <2>4. CASE ~Unsearchable(files, d) /\ Found(files, d) = {} /\ d \notin Stops
    <3>1. P(d) = P(Parent[d])
      BY <2>4, SearchRises
    <3>2. R(d) = R(Parent[d])
      BY <2>4, UpsRise DEF Roots
    <3>3. Good(Parent[d])
      BY <1>1, <2>4
    <3> QED
      <4> HIDE DEF P, R
      <4> QED
        BY <3>1, <3>2, <3>3
  <2> QED
    BY <2>1, <2>2, <2>3, <2>4
<1>2. D = Dirs
  <2> HIDE DEF Good
  <2>1. D \in SUBSET Dirs
    OBVIOUS
  <2>2. Stops \subseteq D
    BY <1>1, DirsAssumption
  <2>3. \A d \in Dirs \ Stops : Parent[d] \in D => d \in D
    BY <1>1
  <2> HIDE DEF D
  <2> QED
    BY <2>1, <2>2, <2>3, GoingUp
<1>3. Good(start)
  BY <1>2
<1> QED
  BY <1>3
-----------------------------------------------------------------------------
LEMMA OverrideAt ==
    ASSUME NEW a, NEW b
    PROVE  /\ DOMAIN Override(a, b) = DOMAIN a \cup DOMAIN b
           /\ \A f \in DOMAIN b : Override(a, b)[f] = b[f]
           /\ \A f \in DOMAIN a \ DOMAIN b : Override(a, b)[f] = a[f]
BY DEF Override

LEMMA OverrideSays ==
    ASSUME NEW a, NEW b, NEW f
    PROVE  /\ f \in DOMAIN Override(a, b) <=> (f \in DOMAIN a \/ f \in DOMAIN b)
           /\ f \in DOMAIN b => Override(a, b)[f] = b[f]
           /\ f \in DOMAIN a /\ f \notin DOMAIN b => Override(a, b)[f] = a[f]
BY DEF Override

LEMMA Joined ==
    ASSUME NEW S, NEW x \in S, NEW y \in S, NEW z \in S
    PROVE  /\ <<x>> \o <<y>> \o <<z>> = <<x, y, z>>
           /\ <<x>> \o <<y>> \o <<>> = <<x, y>>
           /\ <<x>> \o <<>> \o <<z>> = <<x, z>>
           /\ <<x>> \o <<>> \o <<>> = <<x>>
           /\ <<>> \o <<y>> \o <<z>> = <<y, z>>
           /\ <<>> \o <<y>> \o <<>> = <<y>>
           /\ <<>> \o <<>> \o <<z>> = <<z>>
           /\ <<>> \o <<>> \o <<>> = <<>>
<1>1. ASSUME NEW a \in S, NEW b \in S PROVE <<a>> \o <<b>> = <<a, b>>
  <2>10. <<a>> \in Seq(S) /\ Len(<<a>>) = 1 /\ <<a>>[1] = a
    OBVIOUS
  <2>1. PICK p : p = <<a>> /\ p \in Seq(S) /\ Len(p) = 1 /\ p[1] = a
    BY <2>10
  <2>20. <<b>> \in Seq(S) /\ Len(<<b>>) = 1 /\ <<b>>[1] = b
    OBVIOUS
  <2>2. PICK q : q = <<b>> /\ q \in Seq(S) /\ Len(q) = 1 /\ q[1] = b
    BY <2>20
  <2>30. <<a, b>> \in Seq(S) /\ Len(<<a, b>>) = 2 /\ <<a, b>>[1] = a /\ <<a, b>>[2] = b
    OBVIOUS
  <2>3. PICK r : r = <<a, b>> /\ r \in Seq(S) /\ Len(r) = 2 /\ r[1] = a /\ r[2] = b
    BY <2>30
  <2>4. PICK c \in Seq(S) : c = p \o q
    BY <2>1, <2>2, ConcatProperties
  <2>5. Len(c) = 2 /\ c[1] = a /\ c[2] = b
    BY <2>1, <2>2, <2>4, ConcatProperties
  <2>6. \A i \in 1 .. Len(c) : c[i] = r[i]
    BY <2>3, <2>5
  <2>7. c = r
    BY <2>3, <2>5, <2>6, SeqEqual
  <2> QED
    BY <2>1, <2>2, <2>3, <2>4, <2>7
<1>4. <<x, y>> \o <<z>> = <<x, y, z>>
  <2>10. <<x, y>> \in Seq(S) /\ Len(<<x, y>>) = 2 /\ <<x, y>>[1] = x /\ <<x, y>>[2] = y
    OBVIOUS
  <2>1. PICK p : p = <<x, y>> /\ p \in Seq(S) /\ Len(p) = 2 /\ p[1] = x /\ p[2] = y
    BY <2>10
  <2>20. <<z>> \in Seq(S) /\ Len(<<z>>) = 1 /\ <<z>>[1] = z
    OBVIOUS
  <2>2. PICK q : q = <<z>> /\ q \in Seq(S) /\ Len(q) = 1 /\ q[1] = z
    BY <2>20
  <2>30. /\ <<x, y, z>> \in Seq(S) /\ Len(<<x, y, z>>) = 3
         /\ <<x, y, z>>[1] = x /\ <<x, y, z>>[2] = y /\ <<x, y, z>>[3] = z
    OBVIOUS
  <2>3. PICK r : r = <<x, y, z>> /\ r \in Seq(S) /\ Len(r) = 3 /\ r[1] = x /\ r[2] = y /\ r[3] = z
    BY <2>30
  <2>4. PICK c \in Seq(S) : c = p \o q
    BY <2>1, <2>2, ConcatProperties
  <2>5. Len(c) = 3 /\ c[1] = x /\ c[2] = y /\ c[3] = z
    BY <2>1, <2>2, <2>4, ConcatProperties
  <2>6. \A i \in 1 .. Len(c) : c[i] = r[i]
    BY <2>3, <2>5
  <2>7. c = r
    BY <2>3, <2>5, <2>6, SeqEqual
  <2> QED
    BY <2>1, <2>2, <2>3, <2>4, <2>7
<1>2. \A q \in Seq(S) : q \o <<>> = q /\ <<>> \o q = q
  BY ConcatEmptySeq
<1>3. /\ <<>> \in Seq(S) /\ <<x>> \in Seq(S) /\ <<y>> \in Seq(S) /\ <<z>> \in Seq(S)
      /\ <<x, y>> \in Seq(S)
  OBVIOUS
<1> QED
  BY <1>1, <1>2, <1>3, <1>4

LEMMA NothingIsEmpty == DOMAIN Nothing = {}
BY DEF Nothing

(* A directory has at most three settings files, and they are read in order. *)
LEMMA InOrderRange ==
    ASSUME NEW chosen
    PROVE  InOrder(chosen) \in Seq(chosen) /\ Len(InOrder(chosen)) <= 3
<1> DEFINE named(n) == IF \E p \in chosen : p[2] = n THEN <<CHOOSE p \in chosen : p[2] = n>> ELSE <<>>
<1>1. ASSUME NEW n PROVE named(n) \in Seq(chosen) /\ Len(named(n)) <= 1
  <2>1. CASE \E p \in chosen : p[2] = n
    <3>1. PICK x \in chosen : x = CHOOSE p \in chosen : p[2] = n
      BY <2>1
    <3> QED
      BY <2>1, <3>1
  <2>2. CASE ~\E p \in chosen : p[2] = n
    BY <2>2
  <2> QED
    BY <2>1, <2>2
<1>2. InOrder(chosen) = named(Names[1]) \o named(Names[2]) \o named(Names[3])
  BY Zenon DEF InOrder
<1> HIDE DEF named
<1> QED
  BY <1>1, <1>2

Part(d, n) == IF Counts(disk, <<d, n>>) THEN <<<<d, n>>>> ELSE <<>>

LEMMA InOrderFound ==
    ASSUME NEW d
    PROVE  InOrder(Found(disk, d)) =
               Part(d, "skillcheck.toml") \o Part(d, "pyproject.toml") \o Part(d, "tracemantle.toml")
<1> DEFINE F == Found(disk, d)
           named(n) == IF \E p \in F : p[2] = n THEN <<CHOOSE p \in F : p[2] = n>> ELSE <<>>
<1>0. Names[1] = "skillcheck.toml" /\ Names[2] = "pyproject.toml" /\ Names[3] = "tracemantle.toml"
  BY DEF Names
<1>1. ASSUME NEW i \in 1 .. 3 PROVE named(Names[i]) = Part(d, Names[i])
  <2> DEFINE x == <<d, Names[i]>>
  <2>1. \A p \in F : p[2] = Names[i] => p = x
    BY DEF Found
  <2>2. x[2] = Names[i]
    OBVIOUS
  <2>3. x \in F <=> Counts(disk, x)
    BY <1>0 DEF Found
  <2>4. CASE x \in F
    <3>1. x = CHOOSE p \in F : p[2] = Names[i]
      <4> HIDE DEF F, x
      <4> QED
        BY <2>1, <2>2, <2>4
    <3> HIDE DEF F, x
    <3>2. named(Names[i]) = <<x>>
      BY <2>2, <2>4, <3>1
    <3> QED
      BY <2>3, <2>4, <3>2 DEF Part, x
  <2>5. CASE x \notin F
    <3> HIDE DEF F, x
    <3>1. named(Names[i]) = <<>>
      BY <2>1, <2>5
    <3> QED
      BY <2>3, <2>5, <3>1 DEF Part, x
  <2> QED
    BY <2>4, <2>5
<1>2. InOrder(F) = named(Names[1]) \o named(Names[2]) \o named(Names[3])
  BY Zenon DEF InOrder
<1> HIDE DEF named, F
<1>3. 1 \in 1 .. 3 /\ 2 \in 1 .. 3 /\ 3 \in 1 .. 3
  OBVIOUS
<1> QED
  BY <1>0, <1>1, <1>2, <1>3 DEF F

(* What is loaded in the end if files q are still to be put over it. *)
Read(files, p) == Values(p, files[p])
Merged(files, l, q) ==
    IF Len(q) = 0 THEN l
    ELSE IF Len(q) = 1 THEN Override(l, Read(files, q[1]))
    ELSE IF Len(q) = 2 THEN Override(Override(l, Read(files, q[1])), Read(files, q[2]))
    ELSE Override(Override(Override(l, Read(files, q[1])), Read(files, q[2])), Read(files, q[3]))

LEMMA MergedHead ==
    ASSUME NEW files, NEW l, NEW q \in Seq(Paths), q # <<>>, Len(q) <= 3
    PROVE  Merged(files, l, q) = Merged(files, Override(l, Read(files, Head(q))), Tail(q))
<1>1. Len(q) = 1 \/ Len(q) = 2 \/ Len(q) = 3
  <2>1. Len(q) \in Nat
    BY LenProperties
  <2>2. Len(q) # 0
    BY EmptySeq
  <2>3. PICK n \in Nat : n = Len(q)
    BY <2>1
  <2>4. n = 1 \/ n = 2 \/ n = 3
    BY <2>2, <2>3, SMT
  <2> QED
    BY <2>3, <2>4
<1>2. Head(q) = q[1] /\ Len(Tail(q)) = Len(q) - 1
  BY HeadTailProperties
<1>3. \A i \in 1 .. Len(Tail(q)) : Tail(q)[i] = q[i + 1]
  BY HeadTailProperties
<1>4. PICK t : t = Tail(q) /\ \A i \in 1 .. Len(t) : t[i] = q[i + 1]
  BY <1>3
<1>5. CASE Len(q) = 1
  <2>1. Len(t) = 0
    BY <1>2, <1>4, <1>5
  <2>2. Merged(files, l, q) = Merged(files, Override(l, Read(files, q[1])), t)
    BY <1>5, <2>1 DEF Merged
  <2> QED
    BY <1>2, <1>4, <2>2
<1>6. CASE Len(q) = 2
  <2>0. Len(t) = 1
    BY <1>2, <1>4, <1>6
  <2>1. Len(t) = 1 /\ t[1] = q[2]
    BY <1>4, <2>0
  <2>2. Merged(files, l, q) = Merged(files, Override(l, Read(files, q[1])), t)
    BY <1>6, <2>1 DEF Merged
  <2> QED
    BY <1>2, <1>4, <2>2
<1>7. CASE Len(q) = 3
  <2>0. Len(t) = 2
    BY <1>2, <1>4, <1>7
  <2>1. Len(t) = 2 /\ t[1] = q[2] /\ t[2] = q[3]
    BY <1>4, <2>0
  <2>2. Merged(files, l, q) = Merged(files, Override(l, Read(files, q[1])), t)
    BY <1>7, <2>1 DEF Merged
  <2> QED
    BY <1>2, <1>4, <2>2
<1> QED
  BY <1>1, <1>5, <1>6, <1>7

(* The files of a directory, merged, say what its layers say: the strongest *)
(* layer that has the field.                                                *)
Top(l, f) == IF f \in DOMAIN l[4] THEN l[4][f] ELSE IF f \in DOMAIN l[3] THEN l[3][f]
             ELSE IF f \in DOMAIN l[2] THEN l[2][f] ELSE l[1][f]
Told(l, f) == \E i \in 1 .. 4 : f \in DOMAIN l[i]

LEMMA TopIsStrongest ==
    ASSUME NEW l, NEW f, Told(l, f)
    PROVE  LET says == {i \in 1 .. 4 : f \in DOMAIN l[i]}
           IN  Top(l, f) = l[CHOOSE i \in says : \A j \in says : j <= i][f]
<1> DEFINE says == {i \in 1 .. 4 : f \in DOMAIN l[i]}
           best(i) == i \in says /\ \A j \in says : j <= i
<1>1. says \subseteq 1 .. 4 /\ says # {}
  BY DEF Told
<1>2. PICK k \in 1 .. 4 : best(k) /\ Top(l, f) = l[k][f]
  <2>1. CASE f \in DOMAIN l[4]
    BY <2>1 DEF Top
  <2>2. CASE f \notin DOMAIN l[4] /\ f \in DOMAIN l[3]
    <3>1. \A j \in says : j <= 3
      BY <2>2
    <3> QED
      BY <2>2, <3>1 DEF Top
  <2>3. CASE f \notin DOMAIN l[4] /\ f \notin DOMAIN l[3] /\ f \in DOMAIN l[2]
    <3>1. \A j \in says : j <= 2
      BY <2>3
    <3> QED
      BY <2>3, <3>1 DEF Top
  <2>4. CASE f \notin DOMAIN l[4] /\ f \notin DOMAIN l[3] /\ f \notin DOMAIN l[2]
    <3>1. says = {1}
      BY <1>1, <2>4
    <3> QED
      BY <2>4, <3>1 DEF Top
  <2> QED
    BY <2>1, <2>2, <2>3, <2>4
<1>3. \A i : best(i) => i = k
  <2> SUFFICES ASSUME NEW i, best(i) PROVE i = k
    OBVIOUS
  <2>1. i <= k /\ k <= i /\ i \in 1 .. 4
    BY <1>1, <1>2
  <2> HIDE DEF says
  <2> QED
    BY <2>1
<1>4. k = CHOOSE i \in says : \A j \in says : j <= i
  <2> HIDE DEF says
  <2> QED
    BY <1>2, <1>3
<1> QED
  BY <1>2, <1>4

LEMMA LayersSay ==
    ASSUME NEW d \in Dirs, \A p \in Paths : SettingsFile(disk[p]), NEW f
    PROVE  LET m == Merged(disk, Nothing, InOrder(Found(disk, d)))
           IN  /\ f \in DOMAIN m <=> Told(Layers(d), f)
               /\ f \in DOMAIN m => m[f] = Top(Layers(d), f)
<1> DEFINE p1 == <<d, "skillcheck.toml">>
           p2 == <<d, "pyproject.toml">>
           p3 == <<d, "tracemantle.toml">>
           old == disk[p2].legacy
           new == disk[p2].canonical
<1>1. /\ p1 \in Paths /\ p2 \in Paths /\ p3 \in Paths
      /\ p1[2] = "skillcheck.toml" /\ p2[2] = "pyproject.toml" /\ p3[2] = "tracemantle.toml"
  BY DEF Paths, Names
<1>2. SettingsFile(disk[p1]) /\ SettingsFile(disk[p2]) /\ SettingsFile(disk[p3])
  BY <1>1
<1>3. Layers(d) = <<Read(disk, p1), old, new, Read(disk, p3)>>
  BY DEF Layers, Read
<1>4. Read(disk, p2) = Override(old, new)
  BY <1>1 DEF Read, Values, Namespaced
<1>5. ~Counts(disk, p1) => Read(disk, p1) = Nothing
  BY <1>1, <1>2 DEF Counts, SettingsFile, Read, Values, Namespaced
<1>6. ~Counts(disk, p2) => old = Nothing /\ new = Nothing
  BY <1>1, <1>2 DEF Counts, SettingsFile
<1>7. ~Counts(disk, p3) => Read(disk, p3) = Nothing
  BY <1>1, <1>2 DEF Counts, SettingsFile, Read, Values, Namespaced
<1> DEFINE l == <<Read(disk, p1), old, new, Read(disk, p3)>>
           A == Read(disk, p1)
           T == Read(disk, p3)
           c1 == Counts(disk, p1)
           c2 == Counts(disk, p2)
           c3 == Counts(disk, p3)
           q == (IF c1 THEN <<p1>> ELSE <<>>) \o (IF c2 THEN <<p2>> ELSE <<>>) \o (IF c3 THEN <<p3>> ELSE <<>>)
           m == Merged(disk, Nothing, q)
<1>8. InOrder(Found(disk, d)) = q
  BY InOrderFound DEF Part
<1>9. Told(l, f) <=> (f \in DOMAIN A \/ f \in DOMAIN old \/ f \in DOMAIN new \/ f \in DOMAIN T)
  <2>1. l[1] = A /\ l[2] = old /\ l[3] = new /\ l[4] = T
    OBVIOUS
  <2> HIDE DEF l, A, T, old, new
  <2>2. \A i \in 1 .. 4 : i = 1 \/ i = 2 \/ i = 3 \/ i = 4
    OBVIOUS
  <2> QED
    BY <2>1, <2>2 DEF Told
<1>10. Top(l, f) = IF f \in DOMAIN T THEN T[f] ELSE IF f \in DOMAIN new THEN new[f]
                   ELSE IF f \in DOMAIN old THEN old[f] ELSE A[f]
  <2>1. l[1] = A /\ l[2] = old /\ l[3] = new /\ l[4] = T
    OBVIOUS
  <2> HIDE DEF l, A, T, old, new
  <2> QED
    BY <2>1 DEF Top
<1>11. m = (IF c1 THEN IF c2 THEN IF c3 THEN Override(Override(Override(Nothing, A), Read(disk, p2)), T)
                                   ELSE Override(Override(Nothing, A), Read(disk, p2))
                       ELSE IF c3 THEN Override(Override(Nothing, A), T) ELSE Override(Nothing, A)
            ELSE IF c2 THEN IF c3 THEN Override(Override(Nothing, Read(disk, p2)), T)
                            ELSE Override(Nothing, Read(disk, p2))
                 ELSE IF c3 THEN Override(Nothing, T) ELSE Nothing)
  <2> HIDE DEF p1, p2, p3, c1, c2, c3
  <2>1. CASE c1 /\ c2 /\ c3
    <3>1. q = <<p1, p2, p3>>
      BY <2>1, <1>1, Joined
    <3> HIDE DEF q
    <3> QED
      BY <2>1, <3>1 DEF Merged
  <2>2. CASE c1 /\ c2 /\ ~c3
    <3>1. q = <<p1, p2>>
      BY <2>2, <1>1, Joined
    <3> HIDE DEF q
    <3> QED
      BY <2>2, <3>1 DEF Merged
  <2>3. CASE c1 /\ ~c2 /\ c3
    <3>1. q = <<p1, p3>>
      BY <2>3, <1>1, Joined
    <3> HIDE DEF q
    <3> QED
      BY <2>3, <3>1 DEF Merged
  <2>4. CASE c1 /\ ~c2 /\ ~c3
    <3>1. q = <<p1>>
      BY <2>4, <1>1, Joined
    <3> HIDE DEF q
    <3> QED
      BY <2>4, <3>1 DEF Merged
  <2>5. CASE ~c1 /\ c2 /\ c3
    <3>1. q = <<p2, p3>>
      BY <2>5, <1>1, Joined
    <3> HIDE DEF q
    <3> QED
      BY <2>5, <3>1 DEF Merged
  <2>6. CASE ~c1 /\ c2 /\ ~c3
    <3>1. q = <<p2>>
      BY <2>6, <1>1, Joined
    <3> HIDE DEF q
    <3> QED
      BY <2>6, <3>1 DEF Merged
  <2>7. CASE ~c1 /\ ~c2 /\ c3
    <3>1. q = <<p3>>
      BY <2>7, <1>1, Joined
    <3> HIDE DEF q
    <3> QED
      BY <2>7, <3>1 DEF Merged
  <2>8. CASE ~c1 /\ ~c2 /\ ~c3
    <3>1. q = <<>>
      BY <2>8, <1>1, Joined
    <3> HIDE DEF q
    <3> QED
      BY <2>8, <3>1 DEF Merged
  <2> QED
    BY <2>1, <2>2, <2>3, <2>4, <2>5, <2>6, <2>7, <2>8
<1> HIDE DEF l, m, A, T, c1, c2, c3, q, old, new
<1>12. /\ ~c1 => DOMAIN A = {}
       /\ ~c2 => DOMAIN old = {} /\ DOMAIN new = {}
       /\ ~c3 => DOMAIN T = {}
  BY <1>5, <1>6, <1>7, NothingIsEmpty DEF A, T, c1, c2, c3
<1>13. /\ f \in DOMAIN m <=> (f \in DOMAIN A \/ f \in DOMAIN old \/ f \in DOMAIN new \/ f \in DOMAIN T)
       /\ f \in DOMAIN m => m[f] = IF f \in DOMAIN T THEN T[f] ELSE IF f \in DOMAIN new THEN new[f]
                                   ELSE IF f \in DOMAIN old THEN old[f] ELSE A[f]
  <2> DEFINE B == Override(old, new)
  <2>0. Read(disk, p2) = B
    BY <1>4
  <2>1. /\ f \in DOMAIN B <=> (f \in DOMAIN old \/ f \in DOMAIN new)
        /\ f \in DOMAIN new => B[f] = new[f]
        /\ f \in DOMAIN old /\ f \notin DOMAIN new => B[f] = old[f]
    BY OverrideSays
  <2> HIDE DEF B
  <2>2. CASE c1 /\ c2 /\ c3
    <3> DEFINE X == Override(Nothing, A)
               Y == Override(X, B)
               Z == Override(Y, T)
    <3>1. /\ f \in DOMAIN X <=> (f \in DOMAIN Nothing \/ f \in DOMAIN A)
          /\ f \in DOMAIN A => X[f] = A[f]
          /\ f \in DOMAIN Nothing /\ f \notin DOMAIN A => X[f] = Nothing[f]
      BY OverrideSays
    <3>2. /\ f \in DOMAIN Y <=> (f \in DOMAIN X \/ f \in DOMAIN B)
          /\ f \in DOMAIN B => Y[f] = B[f]
          /\ f \in DOMAIN X /\ f \notin DOMAIN B => Y[f] = X[f]
      BY OverrideSays
    <3>3. /\ f \in DOMAIN Z <=> (f \in DOMAIN Y \/ f \in DOMAIN T)
          /\ f \in DOMAIN T => Z[f] = T[f]
          /\ f \in DOMAIN Y /\ f \notin DOMAIN T => Z[f] = Y[f]
      BY OverrideSays
    <3>4. m = Z
      BY <1>11, <2>2, <2>0
    <3> HIDE DEF X, Y, Z
    <3> QED
      BY <1>12, <2>1, <2>2, NothingIsEmpty, <3>1, <3>2, <3>3, <3>4
  <2>3. CASE c1 /\ c2 /\ ~c3
    <3> DEFINE X == Override(Nothing, A)
               Y == Override(X, B)
    <3>1. /\ f \in DOMAIN X <=> (f \in DOMAIN Nothing \/ f \in DOMAIN A)
          /\ f \in DOMAIN A => X[f] = A[f]
          /\ f \in DOMAIN Nothing /\ f \notin DOMAIN A => X[f] = Nothing[f]
      BY OverrideSays
    <3>2. /\ f \in DOMAIN Y <=> (f \in DOMAIN X \/ f \in DOMAIN B)
          /\ f \in DOMAIN B => Y[f] = B[f]
          /\ f \in DOMAIN X /\ f \notin DOMAIN B => Y[f] = X[f]
      BY OverrideSays
    <3>3. m = Y
      BY <1>11, <2>3, <2>0
    <3> HIDE DEF X, Y
    <3> QED
      BY <1>12, <2>1, <2>3, NothingIsEmpty, <3>1, <3>2, <3>3
  <2>4. CASE c1 /\ ~c2 /\ c3
    <3> DEFINE X == Override(Nothing, A)
               Y == Override(X, T)
    <3>1. /\ f \in DOMAIN X <=> (f \in DOMAIN Nothing \/ f \in DOMAIN A)
          /\ f \in DOMAIN A => X[f] = A[f]
          /\ f \in DOMAIN Nothing /\ f \notin DOMAIN A => X[f] = Nothing[f]
      BY OverrideSays
    <3>2. /\ f \in DOMAIN Y <=> (f \in DOMAIN X \/ f \in DOMAIN T)
          /\ f \in DOMAIN T => Y[f] = T[f]
          /\ f \in DOMAIN X /\ f \notin DOMAIN T => Y[f] = X[f]
      BY OverrideSays
    <3>3. m = Y
      BY <1>11, <2>4
    <3> HIDE DEF X, Y
    <3> QED
      BY <1>12, <2>1, <2>4, NothingIsEmpty, <3>1, <3>2, <3>3
  <2>5. CASE c1 /\ ~c2 /\ ~c3
    <3> DEFINE X == Override(Nothing, A)
    <3>1. /\ f \in DOMAIN X <=> (f \in DOMAIN Nothing \/ f \in DOMAIN A)
          /\ f \in DOMAIN A => X[f] = A[f]
          /\ f \in DOMAIN Nothing /\ f \notin DOMAIN A => X[f] = Nothing[f]
      BY OverrideSays
    <3>2. m = X
      BY <1>11, <2>5
    <3> HIDE DEF X
    <3> QED
      BY <1>12, <2>1, <2>5, NothingIsEmpty, <3>1, <3>2
  <2>6. CASE ~c1 /\ c2 /\ c3
    <3> DEFINE X == Override(Nothing, B)
               Y == Override(X, T)
    <3>1. /\ f \in DOMAIN X <=> (f \in DOMAIN Nothing \/ f \in DOMAIN B)
          /\ f \in DOMAIN B => X[f] = B[f]
          /\ f \in DOMAIN Nothing /\ f \notin DOMAIN B => X[f] = Nothing[f]
      BY OverrideSays
    <3>2. /\ f \in DOMAIN Y <=> (f \in DOMAIN X \/ f \in DOMAIN T)
          /\ f \in DOMAIN T => Y[f] = T[f]
          /\ f \in DOMAIN X /\ f \notin DOMAIN T => Y[f] = X[f]
      BY OverrideSays
    <3>3. m = Y
      BY <1>11, <2>6, <2>0
    <3> HIDE DEF X, Y
    <3> QED
      BY <1>12, <2>1, <2>6, NothingIsEmpty, <3>1, <3>2, <3>3
  <2>7. CASE ~c1 /\ c2 /\ ~c3
    <3> DEFINE X == Override(Nothing, B)
    <3>1. /\ f \in DOMAIN X <=> (f \in DOMAIN Nothing \/ f \in DOMAIN B)
          /\ f \in DOMAIN B => X[f] = B[f]
          /\ f \in DOMAIN Nothing /\ f \notin DOMAIN B => X[f] = Nothing[f]
      BY OverrideSays
    <3>2. m = X
      BY <1>11, <2>7, <2>0
    <3> HIDE DEF X
    <3> QED
      BY <1>12, <2>1, <2>7, NothingIsEmpty, <3>1, <3>2
  <2>8. CASE ~c1 /\ ~c2 /\ c3
    <3> DEFINE X == Override(Nothing, T)
    <3>1. /\ f \in DOMAIN X <=> (f \in DOMAIN Nothing \/ f \in DOMAIN T)
          /\ f \in DOMAIN T => X[f] = T[f]
          /\ f \in DOMAIN Nothing /\ f \notin DOMAIN T => X[f] = Nothing[f]
      BY OverrideSays
    <3>2. m = X
      BY <1>11, <2>8
    <3> HIDE DEF X
    <3> QED
      BY <1>12, <2>1, <2>8, NothingIsEmpty, <3>1, <3>2
  <2>9. CASE ~c1 /\ ~c2 /\ ~c3
    BY <1>11, <1>12, <2>9, NothingIsEmpty
  <2> QED
    BY <2>2, <2>3, <2>4, <2>5, <2>6, <2>7, <2>8, <2>9
<1>14. m = Merged(disk, Nothing, InOrder(Found(disk, d))) /\ Layers(d) = l
  BY <1>3, <1>8 DEF m, l, old, new
<1> QED
  BY <1>9, <1>10, <1>13, <1>14
-----------------------------------------------------------------------------
LEMMA Least ==
    ASSUME NEW S \in SUBSET Int, IsFiniteSet(S), S # {}
    PROVE  \E m \in S : \A j \in S : m <= j
<1> DEFINE Below1(i) == {j \in S : j < i}
           heads == {Below1(i) : i \in S}
<1>1. heads \subseteq FiniteSubsetsOf(S) /\ heads # {}
  <2>1. heads \subseteq SUBSET S /\ heads # {}
    OBVIOUS
  <2> QED
    BY <2>1, FS_FiniteSubsetsOfFinite
<1>2. PICK t \in heads : \A u \in heads : ~(<<u, t>> \in StrictSubsetOrdering(S))
  <2> HIDE DEF heads
  <2> QED
    BY <1>1, FS_StrictSubsetOrderingWellFounded, WFMin
<1>3. PICK m \in S : t = Below1(m)
  BY <1>2
<1>4. ASSUME NEW j \in S, j < m PROVE FALSE
  <2>1. j \in Int /\ m \in Int /\ \A k \in S : k \in Int
    OBVIOUS
  <2>2. Below1(j) \subseteq Below1(m) /\ j \in Below1(m) /\ j \notin Below1(j)
    <3>1. \A k \in Below1(j) : k \in Below1(m)
      BY <1>4, <2>1
    <3>2. ~(j < j)
      BY <2>1
    <3> QED
      BY <1>4, <3>1, <3>2
  <2>3. <<Below1(j), Below1(m)>> \in StrictSubsetOrdering(S)
    <3>1. Below1(j) \in SUBSET S /\ Below1(m) \in SUBSET S
      OBVIOUS
    <3> HIDE DEF Below1
    <3> QED
      BY <2>2, <3>1 DEF StrictSubsetOrdering
  <2>4. Below1(j) \in heads
    OBVIOUS
  <2> QED
    BY <1>2, <1>3, <2>3, <2>4
<1>5. \A j \in S : m <= j
  BY <1>4
<1> QED
  BY <1>5

LEMMA FirstIsOne ==
    ASSUME NEW chosen, chosen \subseteq Skills, chosen # {}
    PROVE  First(chosen) \in chosen
<1> DEFINE at(i) == i \in DOMAIN Sorted /\ Sorted[i] \in chosen
           I == {i \in DOMAIN Sorted : Sorted[i] \in chosen}
<1>1. DOMAIN Sorted = 1 .. Len(Sorted) /\ Len(Sorted) \in Nat
  BY InvocationAssumption, LenProperties
<1>2. I # {}
  BY InvocationAssumption
<1>3. I \in SUBSET Int /\ IsFiniteSet(I)
  <2>1. I \subseteq 1 .. Len(Sorted)
    BY <1>1
  <2>2. IsFiniteSet(1 .. Len(Sorted))
    BY <1>1, FS_Interval
  <2> QED
    BY <1>1, <2>1, <2>2, FS_Subset
<1>4. PICK k \in I : \A j \in I : k <= j
  <2> HIDE DEF I
  <2> QED
    BY <1>2, <1>3, Least
<1>5. \A j \in 1 .. k - 1 : Sorted[j] \notin chosen
  BY <1>1, <1>4
<1>6. PICK c : c = CHOOSE i \in DOMAIN Sorted :
                  Sorted[i] \in chosen /\ \A j \in 1 .. i - 1 : Sorted[j] \notin chosen
  OBVIOUS
<1>7. Sorted[c] \in chosen
  BY <1>4, <1>5, <1>6
<1> QED
  BY <1>6, <1>7, Zenon DEF First

(* Whatever is found in a text has one of the three severities. *)
LEMMA JudgeRated ==
    ASSUME NEW d, Rated(d), NEW s, Scoped(s)
    PROVE  \A f \in Judge(d, s) : f[2] \in Severities
<1>0. "info" \in Severities /\ "warning" \in Severities /\ "error" \in Severities
  BY DEF Severities
<1>1. \A c, r, v : v \in Severities => \A f \in When(c, r, v) : f[2] \in Severities
  <2> SUFFICES ASSUME NEW c, NEW r, NEW v \in Severities, NEW f \in When(c, r, v)
               PROVE  f[2] \in Severities
    OBVIOUS
  <2>1. f = <<r, v>>
    BY DEF When
  <2> QED
    BY <2>1
<1>2. \A f \in NameRules(d) : f[2] \in Severities
  BY <1>0, <1>1 DEF NameRules
<1>3. \A f \in DirectoryMatch(d, s) \cup ReservedWords(d, s) : f[2] \in Severities
  BY <1>0, <1>1 DEF DirectoryMatch, ReservedWords
<1>4. \A f \in DescriptionRules(d) : f[2] \in Severities
  BY <1>0, <1>1 DEF DescriptionRules
<1>5. \A f \in QualityRules(d, s) : f[2] \in Severities
  BY <1>0, <1>1 DEF QualityRules
<1>6. \A f \in FieldRules(d, s) : f[2] \in Severities
  <2>1. \A f \in {<<<<"frontmatter", g, "type">>, "error">> : g \in d.mistyped} : f[2] \in Severities
    BY <1>0
  <2> QED
    BY <1>0, <1>1, <2>1 DEF FieldRules
<1>7. \A f \in SizingRules(d, s) : f[2] \in Severities
  BY <1>0, <1>1 DEF SizingRules
<1>8. \A f \in DisclosureRules(d, s) : f[2] \in Severities
  BY <1>0, <1>1 DEF DisclosureRules
<1>9. \A f \in ReferenceRules(d, s) : f[2] \in Severities
  BY DEF ReferenceRules, Rated
<1>10. \A f \in CompatRules(d, s) : f[2] \in Severities
  <2>1. \A v \in Severities : \A f \in Dirname(d, v) \cup BlockScalar(d, v) : f[2] \in Severities
    BY <1>1 DEF Dirname, BlockScalar
  <2>2. \A f \in ClaudeFields(d) \cup UnverifiedFields(d) : f[2] \in Severities
    BY <1>0, <1>1 DEF ClaudeFields, UnverifiedFields
  <2> QED
    BY <1>0, <2>1, <2>2 DEF CompatRules, Scoped
<1>11. \A f \in AllRules(d, s) : f[2] \in Severities
  BY <1>2, <1>3, <1>4, <1>5, <1>6, <1>7, <1>8, <1>9, <1>10 DEF AllRules
<1> QED
  BY <1>0, <1>11 DEF Judge

LEMMA SearchRange == \A files : \A d \in Dirs : ProjectConfigs(files, d).paths \subseteq Paths
<1> SUFFICES ASSUME NEW files, NEW d \in Dirs PROVE ProjectConfigs(files, d).paths \subseteq Paths
  OBVIOUS
<1>1. \A e \in Dirs : Found(files, e) \subseteq Paths
  BY DEF Found, Paths
<1>2. Roots(files, d) \subseteq Dirs
  BY UpsRange DEF Roots
<1> QED
  BY <1>1, <1>2, SearchFindsNearest

LEMMA InForceDomain ==
    ASSUME NEW l, NEW e, DOMAIN l \subseteq Fields, DOMAIN e \subseteq Fields
    PROVE  DOMAIN InForce(l, e) = Fields
<1>1. DOMAIN Defaults = Fields
  BY Zenon DEF Defaults
<1>2. DOMAIN Override(Override(Defaults, l), e) = Fields
  <2>1. DOMAIN Override(Defaults, l) = Fields \cup DOMAIN l
    BY <1>1 DEF Override
  <2>2. DOMAIN Override(Override(Defaults, l), e) = DOMAIN Override(Defaults, l) \cup DOMAIN e
    BY DEF Override
  <2> QED
    BY <2>1, <2>2
<1>3. \A w, a, b, c : DOMAIN [w EXCEPT !.reserved_words = a, !.strict_vscode = b, !.strict_cursor = c] = DOMAIN w
  OBVIOUS
<1> QED
  BY <1>2, <1>3 DEF InForce

(* Types, with what the files, texts and the command line are made of. *)
Formed == /\ \A p \in Paths : SettingsFile(disk[p])
          /\ \A s \in Skills : Rated(draft[s])
          /\ cmd.config \subseteq Paths
          /\ cmd.targets \in Seq(Dirs \cup DOMAIN Folder)
          /\ todo \in Seq(Paths) /\ Len(todo) <= 3
          /\ step = "load again" => todo # <<>>
TInv == TypeOK /\ Formed

WorldOK == /\ DOMAIN disk = Paths /\ DOMAIN draft = Skills /\ Accepted(cmd)
           /\ \A p \in Paths : SettingsFile(disk[p])
           /\ \A s \in Skills : Rated(draft[s])
           /\ cmd.config \subseteq Paths
           /\ cmd.targets \in Seq(Dirs \cup DOMAIN Folder)
           /\ edits \in 0 .. MaxEdits
StepOK == /\ step \in Steps /\ outcome.kind \in Kinds
          /\ outcome.mode \in {"none", "validate"} \cup {Order[i] : i \in DOMAIN Order}
          /\ step = "end" <=> (outcome.kind # "running")
ReadOK == /\ target \in 1 .. Len(cmd.targets)
          /\ here \subseteq Paths /\ found \subseteq Paths
          /\ \A i \in DOMAIN todo : todo[i] \in here
          /\ todo \in Seq(Paths) /\ Len(todo) <= 3
          /\ step = "load again" => todo # <<>>
          /\ DOMAIN loaded \subseteq Fields
WorkOK == /\ DOMAIN options = Fields
          /\ paths \subseteq batch /\ batch \subseteq Skills /\ DOMAIN reports \subseteq batch
          /\ \A p \in DOMAIN reports : \A f \in reports[p].says : f[2] \in Severities
          /\ scanned \in 0 .. MaxBytes

LEMMA TInvParts == TInv <=> WorldOK /\ StepOK /\ ReadOK /\ WorkOK
<1>1. (\A p \in Paths : SettingsFile(disk[p])) => \A p \in Paths : disk[p].is \in Readings
  BY DEF SettingsFile
<1> QED
  BY <1>1 DEF TInv, TypeOK, Formed, WorldOK, StepOK, ReadOK, WorkOK

LEMMA TInvPartsNext == TInv' <=> WorldOK' /\ StepOK' /\ ReadOK' /\ WorkOK'
<1>1. (\A p \in Paths : SettingsFile(disk'[p])) => \A p \in Paths : disk'[p].is \in Readings
  BY DEF SettingsFile
<1> QED
  BY <1>1 DEF TInv, TypeOK, Formed, WorldOK, StepOK, ReadOK, WorkOK

LEMMA TInvInit == Init => TInv
<1> SUFFICES ASSUME Init PROVE TInv
  OBVIOUS
<1>1. PICK w \in Worlds : disk = w.files /\ draft = w.texts /\ cmd = w.line
  BY DEF Init
<1>2. WorldOK
  BY <1>1, InvocationAssumption DEF Init, WorldOK
<1>3. StepOK
  BY DEF Init, StepOK, Steps, Kinds
<1>4. ReadOK
  <2>1. Len(cmd.targets) > 0
    BY <1>2 DEF WorldOK, Accepted
  <2>2. 1 \in 1 .. Len(cmd.targets)
    BY <2>1, InvocationAssumption
  <2> QED
    BY <2>2, NothingIsEmpty DEF Init, ReadOK
<1>5. WorkOK
  <2>1. DOMAIN Defaults = Fields
    BY Zenon DEF Defaults
  <2> QED
    BY <2>1, NothingIsEmpty, InvocationAssumption DEF Init, WorkOK
<1> QED
  BY <1>2, <1>3, <1>4, <1>5, TInvParts

(* What the command does leaves the world alone, and it ends, or goes on. *)
LEMMA WorldKept == WorldOK /\ UNCHANGED world => WorldOK'
BY DEF WorldOK, world

LEMMA WorkKept == WorkOK /\ UNCHANGED work => WorkOK'
BY DEF WorkOK, work

LEMMA ReadKept ==
    ReadOK /\ UNCHANGED <<cmd, reading>> /\ step' # "load again" => ReadOK'
BY DEF ReadOK, reading

LEMMA StepEnds ==
    ASSUME NEW kind \in Kinds \ {"running"},
           NEW mode \in {"none", "validate"} \cup {Order[i] : i \in DOMAIN Order}, Ends(kind, mode)
    PROVE  StepOK' /\ step' = "end"
BY DEF Ends, StepOK, Steps

LEMMA StepRefuses == Refuses => StepOK' /\ step' = "end"
<1>1. "refused" \in Kinds \ {"running"}
  BY DEF Kinds
<1> QED
  BY <1>1, StepEnds, Zenon DEF Refuses

LEMMA StepGoes ==
    ASSUME StepOK, step # "end", NEW next \in Steps \ {"end"}, Goes(next)
    PROVE  StepOK' /\ step' = next
BY DEF Goes, StepOK

LEMMA TInvNext == TInv /\ CInv /\ CInv' /\ [Next]_vars => TInv'
<1> SUFFICES ASSUME TInv, CInv, CInv', [Next]_vars PROVE TInv'
  OBVIOUS
<1>0. WorldOK /\ StepOK /\ ReadOK /\ WorkOK
  BY TInvParts
<1>a. SUFFICES WorldOK' /\ StepOK' /\ ReadOK' /\ WorkOK'
  BY TInvPartsNext
<1>b. /\ "search" \in Steps \ {"end"} /\ "load" \in Steps \ {"end"} /\ "load again" \in Steps \ {"end"}
      /\ "settle" \in Steps \ {"end"} /\ "collect" \in Steps \ {"end"} /\ "confirm" \in Steps \ {"end"}
      /\ "dispatch" \in Steps \ {"end"} /\ "print" \in Steps \ {"end"} /\ "judge" \in Steps \ {"end"}
  BY DEF Steps
<1>c. /\ "refused" \in Kinds \ {"running"} /\ "traceback" \in Kinds \ {"running"}
      /\ "printed" \in Kinds \ {"running"} /\ "incomplete" \in Kinds \ {"running"}
      /\ "shown" \in Kinds \ {"running"} /\ "none to show" \in Kinds \ {"running"}
      /\ "judged" \in Kinds \ {"running"}
  BY DEF Kinds
<1>d. ASSUME step \in Working PROVE Mode \in {"none", "validate"} \cup {Order[i] : i \in DOMAIN Order}
  <2>1. ~ModeConflict(Chosen(options))
    BY <1>d DEF CInv, Agreed
  <2>2. Mode \in {"validate"} \cup Emit \cup {"show-history"}
    BY <2>1, DispatchRange DEF Mode
  <2>3. /\ Order[1] = "show-history" /\ Order[2] = "emit-graph" /\ Order[3] = "emit-critique-prompt"
        /\ Order[4] = "emit-graph-prompt" /\ Order[5] = "agent-reason" /\ Order[6] = "activation-hypotheses"
        /\ DOMAIN Order = 1 .. 6
    BY DEF Order
  <2>4. Emit \cup {"show-history"} \subseteq {Order[i] : i \in DOMAIN Order}
    BY <2>3 DEF Emit
  <2> QED
    BY <2>2, <2>4
<1>1. CASE Search
  <2> DEFINE t == Start(cmd.targets[target])
             s == ProjectConfigs(disk, t)
  <2>1. UNCHANGED world /\ UNCHANGED work /\ UNCHANGED <<target, loaded, found>> /\ step = "search"
    BY <1>1, Zenon DEF Search
  <2>2. here' = (IF cmd.config # {} THEN cmd.config ELSE s.paths) /\ todo' = InOrder(here')
    BY <1>1, Zenon DEF Search
  <2>3. Refuses \/ Goes("load")
    BY <1>1, Zenon DEF Search
  <2>4. t \in Dirs
    <3>1. cmd.targets[target] \in Dirs \cup DOMAIN Folder
      <4>1. cmd.targets \in Seq(Dirs \cup DOMAIN Folder) /\ target \in 1 .. Len(cmd.targets)
        BY <1>0 DEF WorldOK, ReadOK
      <4> QED
        BY <4>1, ElementOfSeq
    <3> QED
      BY <3>1, InvocationAssumption DEF Start
  <2>5. here' \subseteq Paths
    <3>1. s.paths \subseteq Paths
      BY <2>4, SearchRange
    <3> HIDE DEF s
    <3> QED
      BY <1>0, <2>2, <3>1 DEF WorldOK
  <2>6. /\ todo' \in Seq(Paths) /\ Len(todo') <= 3
        /\ \A i \in DOMAIN todo' : todo'[i] \in here'
    <3>1. todo' \in Seq(here') /\ Len(todo') <= 3
      BY <2>2, InOrderRange
    <3> QED
      BY <2>5, <3>1, SeqMonotonic
  <2>7. StepOK' /\ step' # "load again"
    BY <1>0, <1>b, <2>1, <2>3, StepRefuses, StepGoes
  <2>8. ReadOK'
    BY <1>0, <2>1, <2>5, <2>6, <2>7 DEF ReadOK, world
  <2> QED
    BY <1>0, <2>1, <2>7, <2>8, WorldKept, WorkKept
<1>2. CASE Load
  <2> DEFINE path == Head(todo)
  <2>1. UNCHANGED world /\ UNCHANGED work /\ UNCHANGED <<target, here, found>> /\ step = "load" /\ todo # <<>>
    BY <1>2, Zenon DEF Load
  <2>2. /\ path \in Paths /\ Tail(todo) \in Seq(Paths) /\ Len(Tail(todo)) = Len(todo) - 1
        /\ Len(todo) \in Nat /\ \A i \in DOMAIN Tail(todo) : Tail(todo)[i] \in here
    <3>0. todo \in Seq(Paths) /\ \A i \in DOMAIN todo : todo[i] \in here
      BY <1>0 DEF ReadOK
    <3>1. todo \in Seq(Paths) /\ \A i \in 1 .. Len(todo) : todo[i] \in here
      BY <3>0, LenProperties
    <3>2. /\ path \in Paths /\ Tail(todo) \in Seq(Paths) /\ Len(Tail(todo)) = Len(todo) - 1
          /\ \A i \in 1 .. Len(Tail(todo)) : Tail(todo)[i] = todo[i + 1]
      BY <2>1, <3>1, HeadTailProperties
    <3> QED
      BY <3>1, <3>2
  <2>3. DOMAIN Values(path, disk[path]) \subseteq Fields
    <3>1. SettingsFile(disk[path])
      BY <1>0, <2>2 DEF WorldOK
    <3>2. PICK file : file = disk[path]
      OBVIOUS
    <3>3. /\ DOMAIN file.own \subseteq Fields /\ DOMAIN file.legacy \subseteq Fields
          /\ DOMAIN file.canonical \subseteq Fields
      BY <3>1, <3>2 DEF SettingsFile
    <3>4. DOMAIN Override(file.legacy, file.canonical) \subseteq Fields
      BY <3>3 DEF Override
    <3> QED
      BY <3>2, <3>3, <3>4 DEF Values
  <2>4. CASE Refuses /\ UNCHANGED <<todo, loaded>>
    <3>1. StepOK' /\ step' = "end"
      BY <2>4, StepRefuses
    <3> QED
      BY <1>0, <2>1, <2>4, <3>1, WorldKept, WorkKept, ReadKept DEF reading, world
  <2>5. ASSUME loaded' = (IF target = 1 THEN Override(loaded, Values(path, disk[path])) ELSE loaded),
               \/ Goes("load again") /\ UNCHANGED todo
               \/ todo' = Tail(todo) /\ Goes("load")
        PROVE  StepOK' /\ ReadOK'
    <3>1. DOMAIN loaded' \subseteq Fields
      <4> HIDE DEF path
      <4> QED
        BY <1>0, <2>3, <2>5, OverrideAt DEF ReadOK
    <3>2. CASE Goes("load again") /\ UNCHANGED todo
      <4>1. StepOK' /\ step' = "load again"
        BY <1>0, <1>b, <2>1, <3>2, StepGoes
      <4> QED
        BY <1>0, <2>1, <3>1, <3>2, <4>1 DEF ReadOK, world
    <3>3. CASE todo' = Tail(todo) /\ Goes("load")
      <4>1. StepOK' /\ step' = "load"
        BY <1>0, <1>b, <2>1, <3>3, StepGoes
      <4>2. Len(todo') <= 3 /\ todo' \in Seq(Paths) /\ \A i \in DOMAIN todo' : todo'[i] \in here'
        BY <1>0, <2>1, <2>2, <3>3 DEF ReadOK
      <4> QED
        BY <1>0, <2>1, <3>1, <4>1, <4>2 DEF ReadOK, world
    <3> QED
      BY <2>5, <3>2, <3>3
  <2>6. \/ Refuses /\ UNCHANGED <<todo, loaded>>
        \/ /\ loaded' = (IF target = 1 THEN Override(loaded, Values(path, disk[path])) ELSE loaded)
           /\ \/ Goes("load again") /\ UNCHANGED todo
              \/ todo' = Tail(todo) /\ Goes("load")
    BY <1>2, Zenon DEF Load
  <2> QED
    BY <1>0, <2>1, <2>4, <2>5, <2>6, WorldKept, WorkKept
<1>3. CASE LoadAgain
  <2>1. UNCHANGED world /\ UNCHANGED work /\ UNCHANGED <<target, here, loaded, found>>
        /\ step = "load again" /\ todo' = Tail(todo)
    BY <1>3, Zenon DEF LoadAgain
  <2>2. /\ Tail(todo) \in Seq(Paths) /\ Len(Tail(todo)) = Len(todo) - 1
        /\ Len(todo) \in Nat /\ \A i \in DOMAIN Tail(todo) : Tail(todo)[i] \in here
    <3>0. todo \in Seq(Paths) /\ todo # <<>> /\ \A i \in DOMAIN todo : todo[i] \in here
      BY <1>0, <2>1 DEF ReadOK
    <3>1. todo \in Seq(Paths) /\ todo # <<>> /\ \A i \in 1 .. Len(todo) : todo[i] \in here
      BY <3>0, LenProperties
    <3>2. /\ Tail(todo) \in Seq(Paths) /\ Len(Tail(todo)) = Len(todo) - 1
          /\ \A i \in 1 .. Len(Tail(todo)) : Tail(todo)[i] = todo[i + 1]
      BY <3>1, HeadTailProperties
    <3> QED
      BY <3>1, <3>2
  <2>3. Refuses \/ Ends("traceback", "none") \/ Goes("load")
    BY <1>3, Zenon DEF LoadAgain
  <2>4. StepOK' /\ step' # "load again"
    <3>1. CASE Refuses
      BY <3>1, StepRefuses
    <3>2. CASE Ends("traceback", "none")
      BY <1>c, <3>2, StepEnds
    <3>3. CASE Goes("load")
      BY <1>0, <1>b, <2>1, <3>3, StepGoes
    <3> QED
      BY <2>3, <3>1, <3>2, <3>3
  <2>5. Len(todo') <= 3 /\ todo' \in Seq(Paths) /\ \A i \in DOMAIN todo' : todo'[i] \in here'
    <3>1. Len(todo) <= 3
      BY <1>0 DEF ReadOK
    <3>2. Len(Tail(todo)) <= 3
      BY <2>2, <3>1
    <3> QED
      BY <2>1, <2>2, <3>2
  <2>6. ReadOK'
    BY <1>0, <2>1, <2>4, <2>5 DEF ReadOK, world
  <2> QED
    BY <1>0, <2>1, <2>4, <2>6, WorldKept, WorkKept
<1>4. CASE NextTarget
  <2>1. UNCHANGED world /\ UNCHANGED work /\ UNCHANGED <<here, todo, loaded>> /\ step = "load"
        /\ found' = (IF target = 1 THEN here ELSE found)
    BY <1>4, Zenon DEF NextTarget
  <2>2. \/ Refuses /\ UNCHANGED target
        \/ Goes("settle") /\ UNCHANGED target
        \/ Goes("search") /\ target' = target + 1 /\ target # Len(cmd.targets)
    BY <1>4, Zenon DEF NextTarget
  <2>3. StepOK' /\ step' # "load again"
    BY <1>0, <1>b, <2>1, <2>2, StepRefuses, StepGoes
  <2>4. target' \in 1 .. Len(cmd.targets)
    <3>1. Len(cmd.targets) \in Nat /\ target \in 1 .. Len(cmd.targets)
      <4>1. cmd.targets \in Seq(Dirs \cup DOMAIN Folder)
        BY <1>0 DEF WorldOK
      <4> QED
        BY <1>0, <4>1, LenProperties DEF ReadOK
    <3> QED
      BY <2>2, <3>1
  <2>5. ReadOK'
    BY <1>0, <2>1, <2>3, <2>4 DEF ReadOK, world
  <2> QED
    BY <1>0, <2>1, <2>3, <2>5, WorldKept, WorkKept
<1>5. CASE Settle
  <2>1. UNCHANGED world /\ UNCHANGED reading /\ UNCHANGED <<batch, paths, reports, scanned>> /\ step = "settle"
        /\ options' = InForce(loaded, cmd.explicit)
    BY <1>5, Zenon DEF Settle
  <2>2. Refuses \/ Goes("collect")
    BY <1>5, Zenon DEF Settle
  <2>3. StepOK' /\ step' # "load again"
    BY <1>0, <1>b, <2>1, <2>2, StepRefuses, StepGoes
  <2>4. DOMAIN options' = Fields
    <3>1. DOMAIN cmd.explicit \subseteq Fields
      BY <1>0 DEF WorldOK, Accepted
    <3> QED
      BY <1>0, <2>1, <3>1, InForceDomain DEF ReadOK
  <2> QED
    BY <1>0, <2>1, <2>3, <2>4, WorldKept, ReadKept DEF WorkOK, world
<1>6. CASE Collect
  <2>1. UNCHANGED world /\ UNCHANGED reading /\ UNCHANGED <<options, reports, scanned>> /\ step = "collect"
    BY <1>6, Zenon DEF Collect
  <2> DEFINE targets == {cmd.targets[i] : i \in DOMAIN cmd.targets}
             all == UNION {Below(t) : t \in targets}
             Out == \E t \in targets : t \notin Dirs \cup Skills \/ TooMany(t) \/ Below(t) = {}
  <2>2. \/ Refuses /\ UNCHANGED <<batch, paths>>
        \/ ~Out /\ batch' = all /\ paths' = all /\ Goes("confirm")
    BY <1>6, Zenon DEF Collect
  <2>3. StepOK' /\ step' # "load again"
    BY <1>0, <1>b, <2>1, <2>2, StepRefuses, StepGoes
  <2>4. ASSUME ~Out PROVE all \subseteq Skills
    <3>1. \A t \in Dirs \cup Skills : Below(t) \subseteq Skills
      BY DEF Below, In
    <3>2. \A t \in targets : t \in Dirs \cup Skills
      BY <2>4
    <3> HIDE DEF targets
    <3> QED
      BY <3>1, <3>2
  <2>5. DOMAIN reports = {}
    BY <2>1 DEF CInv, Said
  <2>6. WorkOK'
    <3> HIDE DEF all, Out
    <3> QED
      BY <1>0, <2>1, <2>2, <2>4, <2>5 DEF WorkOK
  <2> QED
    BY <1>0, <2>1, <2>3, <2>6, WorldKept, ReadKept DEF world
<1>7. CASE Confirm
  <2>1. UNCHANGED world /\ UNCHANGED reading /\ UNCHANGED <<options, batch, reports, scanned>> /\ step = "confirm"
    BY <1>7, Zenon DEF Confirm
  <2>2. /\ Refuses \/ Goes("dispatch") \/ Goes("confirm") \/ Ends("traceback", "none")
        /\ paths' = batch \/ paths' = paths \ {First(paths)}
    BY <1>7, Zenon DEF Confirm
  <2>3. StepOK' /\ step' # "load again"
    BY <1>0, <1>b, <1>c, <2>1, <2>2, StepRefuses, StepGoes, StepEnds
  <2>4. WorkOK'
    BY <1>0, <2>1, <2>2 DEF WorkOK
  <2> QED
    BY <1>0, <2>1, <2>3, <2>4, WorldKept, ReadKept DEF world
<1>8. CASE ShowHistory
  <2>1. UNCHANGED world /\ UNCHANGED reading /\ UNCHANGED work /\ step = "dispatch"
    BY <1>8, Zenon DEF ShowHistory
  <2>2. Ends("shown", Mode) \/ Ends("none to show", Mode)
    BY <1>8, Zenon DEF ShowHistory
  <2>3. StepOK' /\ step' # "load again"
    BY <1>c, <1>d, <2>1, <2>2, StepEnds DEF Working
  <2> QED
    BY <1>0, <2>1, <2>3, WorldKept, ReadKept, WorkKept DEF world
<1>9. CASE Begin
  <2>1. UNCHANGED world /\ UNCHANGED reading /\ UNCHANGED work /\ step = "dispatch"
    BY <1>9, Zenon DEF Begin
  <2>2. Refuses \/ Goes("print") \/ Goes("judge")
    BY <1>9, Zenon DEF Begin
  <2>3. StepOK' /\ step' # "load again"
    BY <1>0, <1>b, <2>1, <2>2, StepRefuses, StepGoes
  <2> QED
    BY <1>0, <2>1, <2>3, WorldKept, ReadKept, WorkKept DEF world
<1>10. CASE EmitOne
  <2> DEFINE s == First(paths)
             fine == draft[s].readable /\ (IF Mode = "emit-graph" /\ draft[s].readable
                                           THEN draft[s].graph ELSE "fine") = "fine"
  <2>1. /\ UNCHANGED world /\ UNCHANGED reading /\ UNCHANGED <<options, batch, scanned>> /\ step = "print"
        /\ paths # {} /\ paths' = paths \ {s}
    BY <1>10, Zenon DEF EmitOne
  <2>2. Ends("traceback", Mode) \/ Goes("print")
    BY <1>10, Zenon DEF EmitOne
  <2>3. reports' = [p \in DOMAIN reports \cup {s} |->
                       IF p # s THEN reports[p]
                       ELSE [text |-> draft[s], with |-> options,
                             says |-> IF fine THEN {} ELSE {<<<<"parse", "error">>, "error">>}]]
    BY <1>10, Zenon DEF EmitOne
  <2>4. StepOK' /\ step' # "load again"
    BY <1>0, <1>b, <1>c, <1>d, <2>1, <2>2, StepEnds, StepGoes DEF Working
  <2>5. s \in batch
    BY <1>0, <2>1, FirstIsOne DEF WorkOK
  <2> HIDE DEF s
  <2>6. \A p \in DOMAIN reports' : \A f \in reports'[p].says : f[2] \in Severities
    <3>1. PICK says : says = (IF fine THEN {} ELSE {<<<<"parse", "error">>, "error">>})
      OBVIOUS
    <3>2. \A f \in says : f[2] \in Severities
      BY <3>1 DEF Severities
    <3> HIDE DEF fine
    <3> QED
      BY <1>0, <2>3, <3>1, <3>2 DEF WorkOK
  <2>7. DOMAIN reports' = DOMAIN reports \cup {s}
    BY <2>3
  <2>8. WorkOK'
    BY <1>0, <2>1, <2>5, <2>6, <2>7 DEF WorkOK
  <2> QED
    BY <1>0, <2>1, <2>4, <2>8, WorldKept, ReadKept DEF world
<1>11. CASE Emitted
  <2>1. UNCHANGED world /\ UNCHANGED reading /\ UNCHANGED work /\ step = "print"
    BY <1>11, Zenon DEF Emitted
  <2>2. Ends("printed", Mode) \/ Ends("incomplete", Mode)
    BY <1>11 DEF Emitted
  <2>3. StepOK' /\ step' # "load again"
    BY <1>c, <1>d, <2>1, <2>2, StepEnds DEF Working
  <2> QED
    BY <1>0, <2>1, <2>3, WorldKept, ReadKept, WorkKept DEF world
<1>12. CASE JudgeOne
  <2> DEFINE s == First(paths)
             text == Parsed(s)
             says == Kept(Judge(text, options), options)
  <2>1. /\ UNCHANGED world /\ UNCHANGED reading /\ UNCHANGED <<options, batch>> /\ step = "judge"
        /\ paths # {} /\ paths' = paths \ {s} /\ Goes("judge")
    BY <1>12, Zenon DEF JudgeOne
  <2>2. reports' = [p \in DOMAIN reports \cup {s} |->
                       IF p = s THEN [text |-> text, with |-> options, says |-> says]
                       ELSE reports[p]]
    BY <1>12, Zenon DEF JudgeOne
  <2>9. scanned' = IF text.readable THEN scanned + text.size ELSE scanned
    BY <1>12, Zenon DEF JudgeOne
  <2>3. StepOK' /\ step' # "load again"
    BY <1>0, <1>b, <2>1, StepGoes
  <2>4. s \in batch /\ s \in Skills
    BY <1>0, <2>1, FirstIsOne DEF WorkOK
  <2>5. \A f \in says : f[2] \in Severities
    <3>1. Rated(draft[s]) /\ Scoped(options)
      BY <1>0, <2>1, <2>4 DEF WorldOK, CInv, Agreed, Working
    <3>2. Rated(text)
      BY <3>1 DEF Rated, Parsed
    <3>3. \A f \in Judge(text, options) : f[2] \in Severities
      BY <3>1, <3>2, JudgeRated
    <3> QED
      BY <3>3 DEF Kept
  <2>10. scanned' \in 0 .. MaxBytes
    <3>1. draft[s].size \in Nat /\ scanned \in 0 .. MaxBytes /\ MaxBytes \in Nat
      BY <1>0, <2>4, InvocationAssumption DEF WorldOK, WorkOK, Rated
    <3>2. CASE scanned < MaxBytes /\ scanned + draft[s].size <= MaxBytes
      BY <2>9, <3>1, <3>2 DEF Parsed
    <3>3. CASE ~(scanned < MaxBytes /\ scanned + draft[s].size <= MaxBytes)
      BY <2>9, <3>1, <3>3 DEF Parsed
    <3> QED
      BY <3>2, <3>3
  <2> HIDE DEF s, text, says
  <2>6. \A p \in DOMAIN reports' : \A f \in reports'[p].says : f[2] \in Severities
    BY <1>0, <2>2, <2>5 DEF WorkOK
  <2>7. DOMAIN reports' = DOMAIN reports \cup {s}
    BY <2>2
  <2>8. WorkOK'
    BY <1>0, <2>1, <2>4, <2>6, <2>7, <2>10 DEF WorkOK
  <2> QED
    BY <1>0, <2>1, <2>3, <2>8, WorldKept, ReadKept DEF world
<1>13. CASE Judged
  <2>1. UNCHANGED world /\ UNCHANGED reading /\ UNCHANGED work /\ Ends("judged", "validate")
    BY <1>13, Zenon DEF Judged
  <2>2. StepOK' /\ step' # "load again"
    BY <1>c, <2>1, StepEnds
  <2> QED
    BY <1>0, <2>1, <2>2, WorldKept, ReadKept, WorkKept DEF world
<1>14. ASSUME Edit, UNCHANGED draft, NEW f \in Saves, disk' = [disk EXCEPT ![f.path] = f.file]
       PROVE  WorldOK' /\ StepOK' /\ ReadOK' /\ WorkOK'
  <2>1. /\ UNCHANGED cmd /\ UNCHANGED reading /\ UNCHANGED work /\ UNCHANGED <<step, outcome>>
        /\ edits' = edits + 1 /\ edits < MaxEdits
    BY <1>14 DEF Edit
  <2>2. WorldOK'
    <3>1. SettingsFile(f.file)
      BY InvocationAssumption
    <3>2. DOMAIN disk' = Paths /\ \A p \in Paths : disk'[p] = f.file \/ disk'[p] = disk[p]
      BY <1>0, <1>14 DEF WorldOK
    <3>3. edits' \in 0 .. MaxEdits
      BY <1>0, <2>1, InvocationAssumption DEF WorldOK
    <3> QED
      BY <1>0, <1>14, <2>1, <3>1, <3>2, <3>3 DEF WorldOK
  <2> QED
    BY <1>0, <2>1, <2>2, WorkKept DEF StepOK, ReadOK, reading
<1>15. ASSUME Edit, UNCHANGED disk, NEW s \in Skills, NEW text \in Texts, draft' = [draft EXCEPT ![s] = text]
       PROVE  WorldOK' /\ StepOK' /\ ReadOK' /\ WorkOK'
  <2>1. /\ UNCHANGED cmd /\ UNCHANGED reading /\ UNCHANGED work /\ UNCHANGED <<step, outcome>>
        /\ edits' = edits + 1 /\ edits < MaxEdits
    BY <1>15 DEF Edit
  <2>2. WorldOK'
    <3>1. Rated(text)
      BY InvocationAssumption
    <3>2. DOMAIN draft' = Skills /\ \A p \in Skills : draft'[p] = text \/ draft'[p] = draft[p]
      BY <1>0, <1>15 DEF WorldOK
    <3>3. edits' \in 0 .. MaxEdits
      BY <1>0, <2>1, InvocationAssumption DEF WorldOK
    <3> QED
      BY <1>0, <1>15, <2>1, <3>1, <3>2, <3>3 DEF WorldOK
  <2> QED
    BY <1>0, <2>1, <2>2, WorkKept DEF StepOK, ReadOK, reading
<1>16. CASE UNCHANGED vars
  BY <1>0, <1>16, WorldKept, WorkKept DEF vars, StepOK, ReadOK, reading, world
<1>17. ASSUME NEW f \in Saves, Reconfigure(f.path, f.file) PROVE WorldOK' /\ StepOK' /\ ReadOK' /\ WorkOK'
  BY <1>14, <1>17 DEF Reconfigure
<1>18. ASSUME NEW s \in Skills, NEW text \in Texts, Rewrite(s, text)
       PROVE  WorldOK' /\ StepOK' /\ ReadOK' /\ WorkOK'
  BY <1>15, <1>18 DEF Rewrite
<1>19. CASE Command
  BY <1>1, <1>2, <1>3, <1>4, <1>5, <1>6, <1>7, <1>8, <1>9, <1>10, <1>11, <1>12, <1>13, <1>19 DEF Command
<1> QED
  BY <1>16, <1>17, <1>18, <1>19 DEF Next, Ended

LEMMA TInvAlways == Spec => []TInv
<1>1. TInv /\ CInv /\ [Next]_vars => TInv'
  BY TInvNext, CInvNext
<1> QED
  BY <1>1, TInvInit, TInvNext, CInvNext, CInvAlways, PTL DEF Spec

(* Every state of a command has its types: the settings that are loaded are *)
(* settings, the number of the target is that of a target, only what       *)
(* belongs to the batch is judged, and the command has ended exactly when  *)
(* it has an outcome (cli.py:353-477, commands.py:90-142).                 *)
THEOREM TypeCorrect == Spec => []TypeOK
<1>1. TInv => TypeOK
  BY DEF TInv
<1> QED
  BY <1>1, TInvAlways, PTL

(* Whatever is asked for, by the command line or by settings, the command  *)
(* runs in a mode that was chosen or validates, and passes over nothing    *)
(* that was chosen but what is named in Beside (modes.py:96-144,           *)
(* cli.py:448-477).                                                        *)
THEOREM MeaningIsOne == Spec => []OneMeaning
<1>1. TInv /\ CInv => OneMeaning
  <2>1. SUFFICES ASSUME TInv, CInv, outcome.mode # "none" PROVE OneMeaning
    BY DEF OneMeaning
  <2> DEFINE chosen == Chosen(options)
  <2>2. chosen \subseteq Modes
    BY <2>1 DEF TInv, TypeOK, Accepted, Chosen, Modes, Ledger
  <2>3. ~ModeConflict(chosen) /\ outcome.mode = Dispatch(chosen)
    BY <2>1 DEF CInv, Agreed, Answer, Mode
  <2> HIDE DEF chosen
  <2>4. outcome.mode = "validate" \/ outcome.mode \in chosen
    BY <2>3, DispatchRange DEF Asks
  <2>5. /\ chosen \subseteq {outcome.mode} \cup Beside(outcome.mode)
        /\ "agent-reason" \in chosen => outcome.mode = "agent-reason" \/ chosen \cap Ingest # {}
    BY <2>2, <2>3, NothingElse
  <2> QED
    BY <2>4, <2>5 DEF OneMeaning, chosen
<1> QED
  BY <1>1, TInvAlways, CInvAlways, PTL
-----------------------------------------------------------------------------
(* So long as nobody changes settings, what is loaded and what is still to  *)
(* be read make up the files of the first target; every skill that is past  *)
(* the confirmation has the same files, and reports are made under them.    *)
All(files, chosen) == Merged(files, Nothing, InOrder(chosen))
Confirmed(files, chosen, p) ==
    LET s == ProjectConfigs(files, Folder[p]) IN ~s.error /\ s.paths = chosen

Undisturbed == ~reconfigured /\ cmd.config = {}
Loading ==
    /\ target = 1 /\ step = "search" => loaded = Nothing
    /\ target = 1 /\ step = "load" => Merged(disk, loaded, todo) = All(disk, here)
    /\ target = 1 /\ step = "load again" => Merged(disk, loaded, Tail(todo)) = All(disk, here)
    /\ step = "settle" \/ (target # 1 /\ step \in Deciding) => loaded = All(disk, found)
Settled == step \in Working \/ DOMAIN reports # {} => options = InForce(All(disk, found), cmd.explicit)
Confirming ==
    /\ step = "confirm" => \A p \in batch \ paths : Confirmed(disk, found, p)
    /\ step \in {"dispatch", "print", "judge"} \/ DOMAIN reports # {} =>
           \A p \in batch : Confirmed(disk, found, p)
Under == \A p \in DOMAIN reports : reports[p].with = options
OInv == Undisturbed => Loading /\ Settled /\ Confirming /\ Under

LEMMA OInvInit == Init => OInv
<1> SUFFICES ASSUME Init PROVE OInv
  OBVIOUS
<1>1. DOMAIN reports = {}
  BY NothingIsEmpty DEF Init
<1> QED
  BY <1>1 DEF Init, OInv, Loading, Settled, Confirming, Under, Deciding, Working

LEMMA StaysDisturbed == [Next]_vars /\ Undisturbed' => Undisturbed
<1>1. Command => UNCHANGED world
  BY Zenon DEF Command, Search, Load, LoadAgain, NextTarget, Settle, Collect, Confirm, ShowHistory, Begin,
               EmitOne, Emitted, JudgeOne, Judged
<1>2. UNCHANGED world => UNCHANGED <<cmd, reconfigured>>
  BY DEF world
<1>3. \A f \in Saves : Reconfigure(f.path, f.file) => reconfigured' = TRUE
  BY DEF Reconfigure
<1>4. \A s \in Skills, text \in Texts : Rewrite(s, text) => UNCHANGED <<cmd, reconfigured>>
  BY DEF Rewrite, Edit
<1>5. UNCHANGED vars => UNCHANGED <<cmd, reconfigured>>
  BY DEF vars, world
<1> QED
  BY <1>1, <1>2, <1>3, <1>4, <1>5 DEF Next, Ended, Undisturbed

LEMMA OInvNext == OInv /\ TInv /\ CInv /\ [Next]_vars => OInv'
<1> DEFINE Fixed == disk' = disk /\ cmd' = cmd /\ reconfigured' = reconfigured
           Same == Fixed /\ found' = found /\ options' = options /\ batch' = batch /\ reports' = reports
<1> SUFFICES ASSUME OInv, TInv, CInv, [Next]_vars, Undisturbed, Undisturbed'
             PROVE  Loading' /\ Settled' /\ Confirming' /\ Under'
  BY StaysDisturbed DEF OInv
<1>0. WorldOK /\ ReadOK /\ WorkOK
  BY TInvParts
(* Nothing moves but the step and the skills that are left. *)
<1>1. ASSUME Same, Loading', step' \in Working => step \in Working,
             step' = "confirm" => \A p \in batch \ paths' : Confirmed(disk, found, p),
             step' \in {"dispatch", "print", "judge"} => \A p \in batch : Confirmed(disk, found, p),
             Undisturbed => Loading /\ Settled /\ Confirming /\ Under
      PROVE  Loading' /\ Settled' /\ Confirming' /\ Under'
  BY <1>1 DEF Settled, Confirming, Under
<1>2. Undisturbed => Loading /\ Settled /\ Confirming /\ Under
  BY DEF OInv
<1>3. Loading /\ Settled /\ Confirming /\ Under
  BY <1>2
<1>4. step \in Deciding \cup {"collect", "confirm", "dispatch"} => DOMAIN reports = {}
  BY DEF CInv, Said, Deciding
<1>5. CASE UNCHANGED vars
  BY <1>3, <1>5 DEF vars, world, reading, work, Loading, Settled, Confirming, Under
<1>e. ASSUME NEW kind, NEW mode, Ends(kind, mode) PROVE step' = "end"
  BY <1>e DEF Ends
<1>r. Refuses => step' = "end"
  BY DEF Refuses, Ends
<1>g. ASSUME NEW next, Goes(next) PROVE step' = next
  BY <1>g DEF Goes
<1>l. step' \notin Deciding => Loading'
  BY DEF Loading, Deciding
<1>6. CASE Search
  <2>1. /\ Same /\ step = "search" /\ todo' = InOrder(here') /\ UNCHANGED <<target, loaded>>
        /\ Refuses \/ Goes("load")
    BY <1>6, Zenon DEF Search, world, work
  <2>2. step' = "end" \/ step' = "load"
    BY <1>r, <1>g, <2>1
  <2>3. Loading'
    BY <1>3, <2>1, <2>2 DEF Loading, All, Deciding
  <2> QED
    BY <1>1, <1>2, <2>1, <2>2, <2>3 DEF Working
<1>7. CASE Load
  <2>1. Same /\ step = "load" /\ todo # <<>> /\ UNCHANGED <<target, here>>
    BY <1>7, Zenon DEF Load, world, work
  <2>2. \/ Refuses
        \/ /\ loaded' = (IF target = 1 THEN Override(loaded, Values(Head(todo), disk[Head(todo)])) ELSE loaded)
           /\ \/ Goes("load again") /\ UNCHANGED todo
              \/ todo' = Tail(todo) /\ Goes("load")
    BY <1>7, Zenon DEF Load
  <2>3. todo \in Seq(Paths) /\ Len(todo) <= 3
    BY <1>0 DEF ReadOK
  <2>4. Merged(disk, loaded, todo) = Merged(disk, Override(loaded, Read(disk, Head(todo))), Tail(todo))
    BY <2>1, <2>3, MergedHead
  <2>5. step' \in {"end", "load again", "load"}
    BY <1>r, <1>g, <2>2
  <2>6. Loading'
    <3>1. CASE Refuses
      BY <1>l, <1>r, <3>1 DEF Deciding
    <3>2. CASE Goes("load again") /\ UNCHANGED todo /\ ~Refuses
      <4>1. step' = "load again"
        BY <1>g, <3>2
      <4> QED
        BY <1>3, <2>1, <2>2, <2>4, <3>2, <4>1 DEF Loading, Deciding, Read
    <3>3. CASE todo' = Tail(todo) /\ Goes("load") /\ ~Refuses
      <4>1. step' = "load"
        BY <1>g, <3>3
      <4> QED
        BY <1>3, <2>1, <2>2, <2>4, <3>3, <4>1 DEF Loading, Deciding, Read
    <3> QED
      BY <2>2, <3>1, <3>2, <3>3
  <2> QED
    BY <1>1, <1>2, <2>1, <2>5, <2>6 DEF Working
<1>8. CASE LoadAgain
  <2>1. Same /\ step = "load again" /\ todo' = Tail(todo) /\ UNCHANGED <<target, here, loaded>>
    BY <1>8, Zenon DEF LoadAgain, world, work
  <2>2. Refuses \/ Ends("traceback", "none") \/ Goes("load")
    BY <1>8, Zenon DEF LoadAgain
  <2>3. step' = "end" \/ step' = "load"
    BY <1>r, <1>e, <1>g, <2>2
  <2>4. Loading'
    BY <1>3, <2>1, <2>3 DEF Loading, Deciding
  <2> QED
    BY <1>1, <1>2, <2>1, <2>3, <2>4 DEF Working
<1>9. CASE NextTarget
  <2>1. /\ Fixed /\ step = "load" /\ todo = <<>> /\ UNCHANGED <<here, loaded, options, batch, reports>>
        /\ found' = (IF target = 1 THEN here ELSE found)
    BY <1>9, Zenon DEF NextTarget, world, work
  <2>2. \/ Refuses
        \/ Goes("settle")
        \/ Goes("search") /\ target' = target + 1
    BY <1>9, Zenon DEF NextTarget
  <2>3. step' = "end" \/ step' = "settle" \/ (step' = "search" /\ target' = target + 1)
    BY <1>r, <1>g, <2>2
  <2>4. target + 1 # 1
    <3>1. cmd.targets \in Seq(Dirs \cup DOMAIN Folder) /\ target \in 1 .. Len(cmd.targets)
      BY <1>0 DEF WorldOK, ReadOK
    <3>2. Len(cmd.targets) \in Nat
      BY <3>1, LenProperties
    <3> QED
      BY <3>1, <3>2
  <2>5. Merged(disk, loaded, todo) = loaded
    BY <2>1, EmptySeq DEF Merged
  <2>6. loaded = All(disk, found')
    <3>1. CASE target = 1
      BY <1>3, <2>1, <2>5, <3>1 DEF Loading
    <3>2. CASE target # 1
      BY <1>3, <2>1, <3>2 DEF Loading, Deciding
    <3> QED
      BY <3>1, <3>2
  <2>7. Loading'
    <3>1. step' # "search" => Loading'
      BY <2>1, <2>3, <2>6 DEF Loading, Deciding
    <3>2. step' = "search" => target' # 1
      BY <2>3, <2>4
    <3>3. step' = "search" => Loading'
      BY <2>1, <2>6, <3>2 DEF Loading, Deciding
    <3> QED
      BY <3>1, <3>3
  <2>8. DOMAIN reports' = {}
    BY <1>4, <2>1 DEF Deciding
  <2> QED
    BY <2>3, <2>7, <2>8 DEF Settled, Confirming, Under, Working
<1>10. CASE Settle
  <2>1. /\ Fixed /\ step = "settle" /\ UNCHANGED <<found, batch, reports>>
        /\ options' = InForce(loaded, cmd.explicit)
    BY <1>10, Zenon DEF Settle, world, reading
  <2>2. Refuses \/ Goes("collect")
    BY <1>10, Zenon DEF Settle
  <2>3. step' = "end" \/ step' = "collect"
    BY <1>r, <1>g, <2>2
  <2>4. DOMAIN reports' = {} /\ loaded = All(disk, found)
    BY <1>3, <1>4, <2>1 DEF Deciding, Loading
  <2>5. Loading'
    BY <1>l, <2>3 DEF Deciding
  <2> QED
    BY <2>1, <2>3, <2>4, <2>5 DEF Settled, Confirming, Under
<1>11. CASE Collect
  <2>1. Fixed /\ step = "collect" /\ UNCHANGED <<found, options, reports>>
    BY <1>11, Zenon DEF Collect, world, reading
  <2>2. Refuses \/ (Goes("confirm") /\ batch' = paths')
    BY <1>11, Zenon DEF Collect
  <2>3. step' = "end" \/ (step' = "confirm" /\ batch' = paths')
    BY <1>r, <1>g, <2>2
  <2>4. DOMAIN reports' = {}
    BY <1>4, <2>1
  <2>5. Loading'
    BY <1>l, <2>3 DEF Deciding
  <2>6. options = InForce(All(disk, found), cmd.explicit)
    BY <1>3, <2>1 DEF Settled, Working
  <2> QED
    BY <2>1, <2>3, <2>4, <2>5, <2>6 DEF Settled, Confirming, Under
<1>12. CASE Confirm
  <2> DEFINE s == ProjectConfigs(disk, Folder[First(paths)])
  <2>1. Same /\ step = "confirm"
    BY <1>12, Zenon DEF Confirm, world, reading
  <2>2. \/ (cmd.config # {} \/ paths = {}) /\ Goes("dispatch")
        \/ s.error /\ Ends("traceback", "none")
        \/ Refuses
        \/ ~s.error /\ s.paths = found /\ Goes("confirm") /\ paths' = paths \ {First(paths)}
    BY <1>12, Zenon DEF Confirm
  <2>3. \A p \in batch \ paths : Confirmed(disk, found, p)
    BY <1>3, <2>1 DEF Confirming
  <2>4. CASE step' = "end"
    BY <1>1, <1>2, <1>l, <2>1, <2>4 DEF Deciding, Working
  <2>5. CASE paths = {} /\ step' = "dispatch"
    BY <1>1, <1>2, <1>l, <2>1, <2>3, <2>5 DEF Deciding, Working
  <2>6. CASE ~s.error /\ s.paths = found /\ step' = "confirm" /\ paths' = paths \ {First(paths)}
    <3>1. Confirmed(disk, found, First(paths))
      BY <2>6 DEF Confirmed
    <3>2. \A p \in batch \ paths' : Confirmed(disk, found, p)
      BY <2>3, <2>6, <3>1
    <3> QED
      BY <1>1, <1>2, <1>l, <2>1, <2>6, <3>2 DEF Deciding, Working
  <2> HIDE DEF s
  <2>7. cmd.config = {}
    BY DEF Undisturbed
  <2> QED
    BY <1>e, <1>r, <1>g, <2>2, <2>4, <2>5, <2>6, <2>7
<1>13. CASE ShowHistory
  <2>1. Same
    BY <1>13, Zenon DEF ShowHistory, world, reading, work
  <2>2. step' = "end"
    BY <1>13, Zenon DEF ShowHistory, Ends
  <2> QED
    BY <1>1, <1>2, <1>l, <2>1, <2>2 DEF Deciding, Working
<1>14. CASE Begin
  <2>1. Same /\ step = "dispatch"
    BY <1>14, Zenon DEF Begin, world, reading, work
  <2>2. Refuses \/ Goes("print") \/ Goes("judge")
    BY <1>14, Zenon DEF Begin
  <2>3. step' \in {"end", "print", "judge"}
    BY <1>r, <1>g, <2>2
  <2>4. \A p \in batch : Confirmed(disk, found, p)
    BY <1>3, <2>1 DEF Confirming
  <2> QED
    BY <1>1, <1>2, <1>l, <2>1, <2>3, <2>4 DEF Deciding, Working
(* A report is added, under the settings in force. *)
<1>15. ASSUME NEW s, NEW r, Fixed, UNCHANGED <<found, options, batch>>, step \in {"print", "judge"},
              step' \in {"end", "print", "judge"}, r.with = options,
              reports' = [p \in DOMAIN reports \cup {s} |-> IF p = s THEN r ELSE reports[p]]
       PROVE  Loading' /\ Settled' /\ Confirming' /\ Under'
  <2>1. Loading'
    BY <1>l, <1>15 DEF Deciding
  <2>2. options = InForce(All(disk, found), cmd.explicit) /\ \A p \in batch : Confirmed(disk, found, p)
    BY <1>3, <1>15 DEF Settled, Confirming, Working
  <2>3. \A p \in DOMAIN reports' : reports'[p].with = options
    BY <1>3, <1>15 DEF Under
  <2>4. step' # "confirm"
    BY <1>15
  <2> QED
    BY <1>15, <2>1, <2>2, <2>3, <2>4 DEF Settled, Confirming, Under
<1>16. CASE EmitOne
  <2> DEFINE s == First(paths)
             graph == IF Mode = "emit-graph" /\ draft[s].readable THEN draft[s].graph ELSE "fine"
             r == [text |-> draft[s], with |-> options,
                   says |-> IF draft[s].readable /\ graph = "fine" THEN {}
                            ELSE {<<<<"parse", "error">>, "error">>}]
  <2>1. Fixed /\ UNCHANGED <<found, options, batch>> /\ step = "print"
    BY <1>16, Zenon DEF EmitOne, world, reading
  <2>2. Ends("traceback", Mode) \/ Goes("print")
    BY <1>16, Zenon DEF EmitOne
  <2>3. step' \in {"end", "print", "judge"}
    BY <1>e, <1>g, <2>2
  <2>4. reports' = [p \in DOMAIN reports \cup {s} |-> IF p # s THEN reports[p] ELSE r]
    BY <1>16, Zenon DEF EmitOne
  <2>5. r.with = options
    OBVIOUS
  <2> HIDE DEF r, s
  <2>6. reports' = [p \in DOMAIN reports \cup {s} |-> IF p = s THEN r ELSE reports[p]]
    BY <2>4
  <2> QED
    BY <1>15, <2>1, <2>3, <2>5, <2>6
<1>17. CASE JudgeOne
  <2> DEFINE s == First(paths)
             r == [text |-> Parsed(s), with |-> options, says |-> Kept(Judge(Parsed(s), options), options)]
  <2>1. Fixed /\ UNCHANGED <<found, options, batch>> /\ step = "judge" /\ Goes("judge")
    BY <1>17, Zenon DEF JudgeOne, world, reading
  <2>2. reports' = [p \in DOMAIN reports \cup {s} |-> IF p = s THEN r ELSE reports[p]]
    BY <1>17, Zenon DEF JudgeOne
  <2>3. r.with = options /\ step' = "judge"
    BY <1>g, <2>1
  <2> HIDE DEF r, s
  <2> QED
    BY <1>15, <2>1, <2>2, <2>3
<1>18. CASE Emitted \/ Judged
  <2>1. Same
    BY <1>18, Zenon DEF Emitted, Judged, world, reading, work
  <2>2. step' = "end"
    BY <1>18 DEF Emitted, Judged, Ends
  <2> QED
    BY <1>1, <1>2, <1>l, <2>1, <2>2 DEF Deciding, Working
<1>19. ASSUME NEW f \in Saves, Reconfigure(f.path, f.file) PROVE FALSE
  BY <1>19 DEF Reconfigure, Undisturbed
<1>20. ASSUME NEW s \in Skills, NEW text \in Texts, Rewrite(s, text)
       PROVE  Loading' /\ Settled' /\ Confirming' /\ Under'
  <2>1. Same /\ UNCHANGED <<reading, paths, step>>
    BY <1>20 DEF Rewrite, Edit, reading, work
  <2> QED
    BY <1>3, <2>1 DEF Loading, Settled, Confirming, Under, reading
<1>21. CASE Command
  BY <1>6, <1>7, <1>8, <1>9, <1>10, <1>11, <1>12, <1>13, <1>14, <1>16, <1>17, <1>18, <1>21 DEF Command
<1> QED
  BY <1>5, <1>19, <1>20, <1>21 DEF Next, Ended

LEMMA OInvAlways == Spec => []OInv
<1>1. OInv /\ TInv /\ CInv /\ [Next]_vars => OInv'
  BY OInvNext
<1> QED
  BY <1>1, OInvInit, TInvAlways, CInvAlways, PTL DEF Spec

(* What the files found for a directory say is what its project says. *)
LEMMA AskedOf ==
    ASSUME NEW p \in Skills, NEW f, \A q \in Paths : SettingsFile(disk[q]),
           NEW chosen, Confirmed(disk, chosen, p)
    PROVE  Asked(p, f) = IF f \in DOMAIN cmd.explicit THEN cmd.explicit[f]
                         ELSE IF f \in DOMAIN All(disk, chosen) THEN All(disk, chosen)[f]
                         ELSE Defaults[f]
<1> DEFINE roots == {d \in Ups(Folder[p]) : Found(disk, d) # {}}
           near == CHOOSE d \in roots : \A e \in roots : e \in Ups(d)
           says == {i \in 1 .. 4 : f \in DOMAIN Layers(near)[i]}
           top == Layers(near)[CHOOSE i \in says : \A j \in says : j <= i][f]
           m == All(disk, chosen)
<1>1. Asked(p, f) = IF f \in DOMAIN cmd.explicit THEN cmd.explicit[f]
                    ELSE IF roots = {} \/ says = {} THEN Defaults[f] ELSE top
  BY DEF Asked
<1>2. Folder[p] \in Dirs
  BY InvocationAssumption
<1>3. roots = Roots(disk, Folder[p])
  BY DEF Roots
<1>4. CASE chosen = {} /\ roots = {}
  <2>1. InOrder({}) = <<>>
    <3>1. <<>> \o <<>> \o <<>> = <<>>
      BY ConcatEmptySeq, EmptySeq
    <3>2. \A n : (IF \E q \in {} : q[2] = n THEN <<CHOOSE q \in {} : q[2] = n>> ELSE <<>>) = <<>>
      OBVIOUS
    <3> QED
      BY <3>1, <3>2 DEF InOrder
  <2>2. DOMAIN m = {}
    BY <1>4, <2>1, NothingIsEmpty, EmptySeq DEF All, Merged
  <2> HIDE DEF roots, says, top, m
  <2> QED
    BY <1>1, <1>4, <2>2 DEF m
<1>5. ASSUME NEW r \in roots, chosen = Found(disk, r), \A e \in roots : e \in Ups(r)
      PROVE  near = r
  <2>1. roots \subseteq Dirs
    BY <1>2, UpsRange
  <2>2. \A d \in roots : (\A e \in roots : e \in Ups(d)) => d = r
    BY <1>5, <2>1, UpsAcyclic
  <2> HIDE DEF roots
  <2> QED
    BY <1>5, <2>2
<1>6. ASSUME NEW r \in roots, chosen = Found(disk, r), \A e \in roots : e \in Ups(r)
      PROVE  IF says = {} THEN f \notin DOMAIN m ELSE f \in DOMAIN m /\ m[f] = top
  <2>1. r \in Dirs /\ near = r
    BY <1>2, <1>5, <1>6, UpsRange
  <2>2. /\ f \in DOMAIN m <=> Told(Layers(r), f)
        /\ f \in DOMAIN m => m[f] = Top(Layers(r), f)
    BY <1>6, <2>1, LayersSay DEF All
  <2>3. says = {} <=> ~Told(Layers(r), f)
    BY <2>1 DEF Told
  <2>4. Told(Layers(r), f) => Top(Layers(r), f) = top
    <3>1. PICK l : l = Layers(r)
      OBVIOUS
    <3>2. Told(l, f) => Top(l, f) = l[CHOOSE i \in {k \in 1 .. 4 : f \in DOMAIN l[k]} :
                                         \A j \in {k \in 1 .. 4 : f \in DOMAIN l[k]} : j <= i][f]
      BY TopIsStrongest
    <3> HIDE DEF near
    <3> QED
      BY <2>1, <3>1, <3>2
  <2> HIDE DEF says, top, m
  <2> QED
    BY <2>2, <2>3, <2>4
<1>7. \/ chosen = {} /\ roots = {}
      \/ \E r \in roots : chosen = Found(disk, r) /\ \A e \in roots : e \in Ups(r)
  BY <1>2, <1>3, SearchFindsNearest DEF Confirmed
<1> HIDE DEF roots, says, top, m, near
<1>8. CASE \E r \in roots : chosen = Found(disk, r) /\ \A e \in roots : e \in Ups(r)
  <2>1. PICK r \in roots : chosen = Found(disk, r) /\ \A e \in roots : e \in Ups(r)
    BY <1>8
  <2>2. IF says = {} THEN f \notin DOMAIN m ELSE f \in DOMAIN m /\ m[f] = top
    BY <1>6, <2>1
  <2>3. roots # {}
    BY <2>1
  <2> QED
    BY <1>1, <2>2, <2>3 DEF m
<1> QED
  BY <1>4, <1>7, <1>8

(* What is in force for a field, before strict counts for both agents. *)
Supplied(l, e, f) == IF f \in DOMAIN e THEN e[f] ELSE IF f \in DOMAIN l THEN l[f] ELSE Defaults[f]

LEMMA SuppliedSays ==
    ASSUME NEW l, NEW e, NEW f \in Fields
    PROVE  LET w == Override(Override(Defaults, l), e) IN f \in DOMAIN w /\ w[f] = Supplied(l, e, f)
<1> DEFINE v == Override(Defaults, l)
           w == Override(v, e)
<1>1. DOMAIN Defaults = Fields
  BY Zenon DEF Defaults
<1>2. /\ f \in DOMAIN v
      /\ f \in DOMAIN l => v[f] = l[f]
      /\ f \notin DOMAIN l => v[f] = Defaults[f]
  BY <1>1, OverrideSays
<1>3. /\ f \in DOMAIN w <=> (f \in DOMAIN v \/ f \in DOMAIN e)
      /\ f \in DOMAIN e => w[f] = e[f]
      /\ f \in DOMAIN v /\ f \notin DOMAIN e => w[f] = v[f]
  BY OverrideSays
<1>4. w = Override(Override(Defaults, l), e)
  OBVIOUS
<1> HIDE DEF v, w
<1>5. f \in DOMAIN w /\ w[f] = Supplied(l, e, f)
  BY <1>2, <1>3 DEF Supplied
<1> QED
  BY <1>4, <1>5

Finished(w, a, b, c) == [w EXCEPT !.reserved_words = a, !.strict_vscode = b, !.strict_cursor = c]

LEMMA FinishedSays ==
    ASSUME NEW w, NEW a, NEW b, NEW c, NEW f \in DOMAIN w
    PROVE  Finished(w, a, b, c)[f] = IF f = "strict_vscode" THEN b ELSE IF f = "strict_cursor" THEN c
                                     ELSE IF f = "reserved_words" THEN a ELSE w[f]
BY DEF Finished

LEMMA InForceSays ==
    ASSUME NEW l, NEW e, NEW f \in Fields
    PROVE  InForce(l, e)[f] =
               IF f \in {"strict_vscode", "strict_cursor"} THEN Supplied(l, e, f) \/ Supplied(l, e, "strict_all")
               ELSE IF f = "reserved_words" /\ Supplied(l, e, f) = {} THEN DefaultReserved
               ELSE Supplied(l, e, f)
<1>1. PICK w : w = Override(Override(Defaults, l), e)
  OBVIOUS
<1>2. \A g \in Fields : g \in DOMAIN w /\ w[g] = Supplied(l, e, g)
  BY <1>1, SuppliedSays
<1>3. /\ w.strict_all = Supplied(l, e, "strict_all") /\ w.strict_vscode = Supplied(l, e, "strict_vscode")
      /\ w.strict_cursor = Supplied(l, e, "strict_cursor") /\ w.reserved_words = Supplied(l, e, "reserved_words")
  BY <1>2 DEF Fields
<1> DEFINE a == IF w.reserved_words = {} THEN DefaultReserved ELSE w.reserved_words
           b == w.strict_vscode \/ w.strict_all
           c == w.strict_cursor \/ w.strict_all
<1>4. InForce(l, e) = Finished(w, a, b, c)
  BY <1>1, Zenon DEF InForce, Finished
<1>5. InForce(l, e)[f] = IF f = "strict_vscode" THEN b ELSE IF f = "strict_cursor" THEN c
                         ELSE IF f = "reserved_words" THEN a ELSE w[f]
  <2>1. f \in DOMAIN w
    BY <1>2
  <2> HIDE DEF a, b, c
  <2> QED
    BY <1>4, <2>1, FinishedSays
<1> HIDE DEF a, b, c
<1>6. CASE f = "strict_vscode"
  <2>1. InForce(l, e)[f] = b
    BY <1>5, <1>6
  <2>2. b = (Supplied(l, e, f) \/ Supplied(l, e, "strict_all"))
    BY <1>3, <1>6, Zenon DEF b
  <2>3. f \in {"strict_vscode", "strict_cursor"}
    BY <1>6
  <2> QED
    BY <2>1, <2>2, <2>3, Zenon
<1>7. CASE f = "strict_cursor"
  <2>1. InForce(l, e)[f] = c
    BY <1>5, <1>7
  <2>2. c = (Supplied(l, e, f) \/ Supplied(l, e, "strict_all"))
    BY <1>3, <1>7, Zenon DEF c
  <2>3. f \in {"strict_vscode", "strict_cursor"}
    BY <1>7
  <2> QED
    BY <2>1, <2>2, <2>3, Zenon
<1>8. CASE f \notin {"strict_vscode", "strict_cursor"}
  <2>1. InForce(l, e)[f] = IF f = "reserved_words" THEN a ELSE w[f]
    BY <1>5, <1>8
  <2>2. InForce(l, e)[f] = IF f = "reserved_words" /\ Supplied(l, e, f) = {} THEN DefaultReserved
                           ELSE Supplied(l, e, f)
    BY <1>2, <1>3, <2>1 DEF a
  <2> QED
    BY <1>8, <2>2, Zenon
<1> QED
  BY <1>6, <1>7, <1>8

(* Every skill is judged as if it were alone, by the explicit flags and by  *)
(* the settings of the project it lies in, wherever the targets point, as  *)
(* long as nobody changes the settings (config_loader.py:215-257,          *)
(* cli.py:353-378, commands.py:137).                                       *)
THEOREM OwnSettingsHold == Spec => []OwnSettings
<1>1. OInv /\ TInv => OwnSettings
  <2> SUFFICES ASSUME OInv, TInv, ~reconfigured, cmd.config = {},
                      NEW p \in DOMAIN reports, NEW f \in Fields
               PROVE  reports[p].with[f] =
                          IF f \in {"strict_vscode", "strict_cursor"} THEN Asked(p, f) \/ Asked(p, "strict_all")
                          ELSE IF f = "reserved_words" /\ Asked(p, f) = {} THEN DefaultReserved
                          ELSE Asked(p, f)
    BY DEF OwnSettings
  <2> DEFINE l == All(disk, found)
  <2>1. Settled /\ Confirming /\ Under
    BY DEF OInv, Undisturbed
  <2>2. WorldOK /\ WorkOK
    BY TInvParts
  <2>3. p \in batch /\ p \in Skills
    BY <2>2 DEF WorkOK
  <2>4. reports[p].with = InForce(l, cmd.explicit)
    BY <2>1 DEF Settled, Under
  <2>5. Confirmed(disk, found, p)
    BY <2>1, <2>3 DEF Confirming
  <2>6. \A g : Asked(p, g) = Supplied(l, cmd.explicit, g)
    BY <2>2, <2>3, <2>5, AskedOf DEF WorldOK, Supplied
  <2> HIDE DEF l
  <2> QED
    BY <2>4, <2>6, InForceSays
<1> QED
  BY <1>1, OInvAlways, TInvAlways, PTL
=============================================================================
