----------------------------- MODULE SkillRules -----------------------------
(***************************************************************************)
(* The rules that judge one parsed SKILL.md under given settings           *)
(* (rules/__init__.get_rules and the rule modules): which findings a skill *)
(* gets, and how severe they are.  A rule id is the tuple of its dotted    *)
(* parts and a finding is a rule and a severity; how often a rule fires,   *)
(* its message and its line are left out.  What the regular expressions    *)
(* find in a text is an attribute of the text.                             *)
(***************************************************************************)
EXTENDS Integers, FiniteSets, Sequences

CONSTANT Tiktoken    \* whether the tiktoken vocabulary can be loaded

Severities == {"info", "warning", "error"}
Rank == [info |-> 1, warning |-> 2, error |-> 3]

ClaudeOnly == {"model", "disable-model-invocation", "mode", "hooks", "agent", "skills"}
Vendor     == ClaudeOnly \cup {"context", "user-invocable"}
SpecFields == {"name", "description", "license", "metadata", "compatibility", "allowed-tools"}
Ecosystem  == {"version", "author", "tags", "repository", "homepage", "template"}
Unverified == Vendor \cup {"version", "author", "tags", "allowed-tools"}
Typed      == {"license", "compatibility", "metadata"}

(* What the scorers count in a description. *)
Prose == [words : Nat, verbs : Nat, leads : BOOLEAN, strong : Nat, contextual : Nat,
          weak : BOOLEAN, content : Nat, vague : Nat, length : Nat]
NameMarks == {"long", "charset", "edge hyphen", "double hyphen", "elsewhere"}
ProseMarks == {"long", "tags", "person", "placeholder"}

When(condition, rule, severity) == IF condition THEN {<<rule, severity>>} ELSE {}

IsTemplate(d) ==
    d.template \/ "placeholder" \in d.description.marks \/ d.folder \in {"template", "templates"}
-----------------------------------------------------------------------------
(* The name.  A value that is no string is judged by its str(); the text of *)
(* an empty name has no marks.                                              *)
Present(n)  == n.is # "absent"
Nonempty(n) == n.is \in {"text", "other"}
Elsewhere(d) == Nonempty(d.name) /\ "elsewhere" \in d.name.marks

NameRules(d) ==
    LET n == d.name
        Bad(mark, rule) == When(Present(n) /\ mark \in n.marks, <<"frontmatter", "name", rule>>, "error")
    IN  When(~Present(n), <<"frontmatter", "name", "required">>, "error")
        \cup When(n.is = "other", <<"frontmatter", "name", "type">>, "error")
        \cup When(n.is = "empty", <<"frontmatter", "name", "invalid-chars">>, "error")
        \cup Bad("long", "max-length") \cup Bad("charset", "invalid-chars")
        \cup Bad("edge hyphen", "leading-trailing-hyphen")
        \cup Bad("double hyphen", "consecutive-hyphens")

ReservedWords(d, s) ==
    When(Present(d.name) /\ d.name.words \cap s.reserved_words # {},
         <<"frontmatter", "name", "reserved-word">>, "warning")

DirectoryMatch(d, s) ==
    When(~s.skip_dirname_check /\ ~IsTemplate(d) /\ Elsewhere(d),
         <<"frontmatter", "name", "directory-mismatch">>, "error")
-----------------------------------------------------------------------------
(* The description: "falsy" is a value such as 0 or false. *)
Described(t) == t.is \in {"blank", "text", "other"}

DescriptionRules(d) ==
    LET t == d.description
        Bad(mark, rule, severity) ==
            When(Described(t) /\ mark \in t.marks, <<"frontmatter", "description", rule>>, severity)
    IN  When(t.is = "absent", <<"frontmatter", "description", "required">>, "error")
        \cup When(t.is \in {"falsy", "other"}, <<"frontmatter", "description", "type">>, "error")
        \cup When(t.is \in {"null", "empty", "falsy", "blank"},
                  <<"frontmatter", "description", "empty">>, "error")
        \cup Bad("long", "max-length", "error") \cup Bad("tags", "xml-tags", "error")
        \cup Bad("person", "person-voice", "warning")

ActionScore(p) ==
    CASE p.leads /\ p.verbs >= 2 -> 25
      [] p.leads /\ p.verbs < 2 -> 20
      [] ~p.leads /\ p.verbs >= 2 -> 15
      [] ~p.leads /\ p.verbs = 1 -> 10
      [] OTHER -> 0

TriggerScore(p) ==
    CASE p.strong > 0 /\ p.strong + p.contextual >= 2 -> 25
      [] p.strong + p.contextual = 1 /\ p.strong = 1 -> 20
      [] p.strong = 0 /\ p.contextual >= 2 -> 20
      [] p.strong = 0 /\ p.contextual = 1 -> 15
      [] OTHER -> IF p.weak THEN 10 ELSE 0

KeywordScore(p) ==
    CASE p.words = 0 -> 0
      [] p.words > 0 /\ 100 * p.content >= 60 * p.words -> 25
      [] 100 * p.content < 60 * p.words /\ 100 * p.content >= 45 * p.words -> 20
      [] 100 * p.content < 45 * p.words /\ 100 * p.content >= 30 * p.words -> 15
      [] OTHER -> 5

SpecificityScore(p) ==
    CASE p.words = 0 -> 0
      [] p.words > 0 /\ p.vague = 0 -> 15
      [] p.vague > 0 /\ 10 * p.vague <= p.words -> 10
      [] 10 * p.vague > p.words /\ 10 * p.vague <= 2 * p.words -> 5
      [] OTHER -> 0

LengthScore(p) ==
    CASE p.length < 20 -> 0
      [] p.length \in 20 .. 39 -> 3
      [] p.length \in 40 .. 300 -> 10
      [] p.length \in 301 .. 500 -> 7
      [] OTHER -> 3

Score(p) == ActionScore(p) + TriggerScore(p) + KeywordScore(p) + SpecificityScore(p) + LengthScore(p)

QualityRules(d, s) ==
    IF IsTemplate(d) \/ d.description.is # "text" THEN {}
    ELSE When(TRUE, <<"description", "quality-score">>, "info")
         \cup When(s.min_desc_score > 0 /\ Score(d.description.prose) < s.min_desc_score,
                   <<"description", "min-score">>, "warning")
-----------------------------------------------------------------------------
FieldRules(d, s) ==
    LET strange == d.fields \ (SpecFields \cup Vendor \cup s.extension_fields)
    IN  {<<<<"frontmatter", f, "type">>, "error">> : f \in d.mistyped}
        \cup When(strange \cap Ecosystem # {}, <<"frontmatter", "field", "ecosystem">>, "info")
        \cup When(strange \ Ecosystem # {}, <<"frontmatter", "field", "unknown">>, "warning")
        \cup When(d.anchors, <<"frontmatter", "yaml-anchors">>, "warning")
        \cup When(IsTemplate(d), <<"template", "detected">>, "info")

(* A text is measured in lines, words, runs of punctuation and, if the     *)
(* vocabulary is there, in its tokens.                                     *)
Larger(a, b) == IF a < b THEN b ELSE a
Countable(s) == s.tokenizer = "heuristic" \/ (s.tokenizer = "tiktoken" /\ Tiktoken)
Tokens(t, s) ==
    Larger(1, IF s.tokenizer = "tiktoken" THEN t.tokens
              ELSE (13 * t.words) \div 10 + (15 * t.runs) \div 10)

SizingRules(d, s) ==
    When(d.whole.lines > s.max_lines, <<"sizing", "body", "line-count">>, "warning")
    \cup When(Tokens(d.whole, s) > s.max_tokens, <<"sizing", "body", "token-estimate">>, "warning")

DisclosureRules(d, s) ==
    When(d.head.lines > 0 /\ Tokens(d.head, s) > 100, <<"disclosure", "metadata-budget">>, "warning")
    \cup When(d.body.lines > 0 /\ Tokens(d.body, s) > 5000, <<"disclosure", "body-budget">>, "warning")
    \cup When((\E n \in d.blocks : n > 50) \/ (\E n \in d.tables : n > 20) \/ d.base64,
              <<"disclosure", "body-bloat">>, "info")

ReferenceRules(d, s) ==
    IF s.skip_ref_check THEN {} ELSE {<<<<"references", r[1]>>, r[2]>> : r \in d.references}
-----------------------------------------------------------------------------
(* Advice about agents: the strict flags replace a rule by a stricter one. *)
Dirname(d, severity) ==
    When(~IsTemplate(d) /\ Elsewhere(d), <<"compat", "vscode-dirname">>, severity)
BlockScalar(d, severity) ==
    When(d.scalar, <<"compat", "cursor-description-block-scalar">>, severity)
ClaudeFields(d) == When(d.fields \cap ClaudeOnly # {}, <<"compat", "claude-only">>, "info")
UnverifiedFields(d) == When(d.fields \cap Unverified # {}, <<"compat", "unverified">>, "info")

CompatRulesDropped(d, s) ==    \* slip: strict takes the warning of a scoped agent out and adds nothing
    LET vscode == s.strict_vscode \/ s.strict_all
        cursor == s.strict_cursor \/ s.strict_all
    IN  CASE s.target_agent = "all" ->
                 ClaudeFields(d) \cup UnverifiedFields(d)
                 \cup Dirname(d, IF vscode THEN "error" ELSE "info")
                 \cup BlockScalar(d, IF cursor THEN "error" ELSE "info")
          [] s.target_agent = "vscode" -> Dirname(d, IF vscode THEN "error" ELSE "info")
          [] s.target_agent = "claude" -> ClaudeFields(d)
          [] s.target_agent = "cursor" -> IF cursor THEN {} ELSE BlockScalar(d, "warning")

CompatRules(d, s) ==
    LET vscode == s.strict_vscode \/ s.strict_all
        cursor == s.strict_cursor \/ s.strict_all
    IN  CASE s.target_agent = "all" ->
                 ClaudeFields(d) \cup UnverifiedFields(d)
                 \cup Dirname(d, IF vscode THEN "error" ELSE "info")
                 \cup BlockScalar(d, IF cursor THEN "error" ELSE "info")
          [] s.target_agent = "vscode" -> Dirname(d, IF vscode THEN "error" ELSE "info")
          [] s.target_agent = "claude" -> ClaudeFields(d)
          [] s.target_agent = "cursor" -> BlockScalar(d, IF cursor THEN "error" ELSE "warning")
-----------------------------------------------------------------------------
(* All findings of a skill; a text that cannot be parsed, or whose tokens  *)
(* cannot be counted, has that one finding alone.                          *)
AllRules(d, s) ==
    NameRules(d) \cup DirectoryMatch(d, s) \cup ReservedWords(d, s)
    \cup DescriptionRules(d) \cup QualityRules(d, s) \cup FieldRules(d, s)
    \cup SizingRules(d, s) \cup DisclosureRules(d, s) \cup ReferenceRules(d, s) \cup CompatRules(d, s)

Judge(d, s) ==
    IF ~d.readable THEN {<<<<"parse", "error">>, "error">>}
    ELSE IF ~Countable(s) THEN {<<<<"sizing", "tokenizer", "unavailable">>, "error">>}
    ELSE AllRules(d, s)

(* An ignored prefix takes the rules out whose id begins with it, be it in  *)
(* the middle of a word: it is given by the words that may stand at each of *)
(* its places, in the last one all those that begin as it ends.             *)
Begins(rule, prefix) ==
    Len(prefix) <= Len(rule) /\ \A i \in 1 .. Len(prefix) : rule[i] \in prefix[i]
Kept(findings, s) == {f \in findings : \A prefix \in s.ignore : ~Begins(f[1], prefix)}

(* One set of findings is at least as severe as another. *)
Covers(strict, plain) ==
    \A f \in plain : \E g \in strict : g[1] = f[1] /\ (g[2] = f[2] \/ Rank[g[2]] > Rank[f[2]])
=============================================================================
