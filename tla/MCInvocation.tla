---------------------------- MODULE MCInvocation ----------------------------
(***************************************************************************)
(* A repository with two skills a and b below skills/, one in a virtual    *)
(* environment that no walk enters, and one in extra/.                     *)
(***************************************************************************)
EXTENDS Invocation

MCDirs == {"repo", "extra", "skills", ".venv", "a", "b"}
MCParent == [d \in MCDirs |-> CASE d \in {"repo", "extra", "skills"} -> "repo"
                                [] d \in {".venv", "a", "b"} -> "skills"]
MCStops == {"repo"}
MCWalk == <<"repo", "extra", "skills", ".venv", "a", "b">>
MCHidden == {".venv"}
MCSorted == <<"X.md", "V.md", "A.md", "B.md">>
MCSkills == {"X.md", "V.md", "A.md", "B.md"}
MCFolder == [t \in MCSkills \cup {"lost.md"} |->
                CASE t = "X.md" -> "extra" [] t = "V.md" -> ".venv" [] t = "A.md" -> "a"
                  [] t = "B.md" -> "b" [] t = "lost.md" -> "repo"]
-----------------------------------------------------------------------------
Only(f, v) == [g \in {f} |-> v]
Both(f, v, g, w) == Override(Only(f, v), Only(g, w))
Alone(own) == [Absent EXCEPT !.is = "good", !.own = own]
Tool(spaces, legacy, canonical) ==
    [Absent EXCEPT !.is = "good", !.tool = TRUE, !.spaces = spaces, !.legacy = legacy, !.canonical = canonical]

Old == Alone(Both("max_lines", 3, "min_desc_score", 99))
New == Alone(Both("min_desc_score", 60, "reserved_words", {}))
OldSpace == Tool({"skillcheck"}, Both("max_lines", 9, "strict_cursor", TRUE), Nothing)
BothSpaces == Tool({"skillcheck", "tracemantle"}, Both("max_lines", 9, "strict_all", TRUE),
                   Both("strict_all", FALSE, "target_agent", "cursor"))
OtherTools == Tool({}, Nothing, Nothing)
Broken == [Absent EXCEPT !.is = "broken"]
Unreadable == [Absent EXCEPT !.is = "unreadable"]
Wrong == [Absent EXCEPT !.is = "wrong", !.tool = TRUE, !.spaces = {"tracemantle"}]
Muted == [New EXCEPT !.tool = TRUE]

Disk(files) == [p \in Paths |-> IF p \in DOMAIN files THEN files[p] ELSE Absent]
At(d, old, project, new) ==
    [p \in {<<d, Names[i]>> : i \in 1 .. 3} |->
        CASE p[2] = "skillcheck.toml" -> old [] p[2] = "pyproject.toml" -> project
          [] p[2] = "tracemantle.toml" -> new]

(* One project whose settings lie in any of the three files. *)
OneRoot == {Disk(At("repo", old, project, new)) :
                old \in {Absent, Old}, project \in {Absent, OtherTools, OldSpace, BothSpaces},
                new \in {Absent, New, Muted, Alone(Only("history", TRUE)), Alone(Only("target_agent", "codex")), Wrong}}

(* A project within a project, or a file of one skill that is damaged. *)
Nested == {Disk(Override(At("repo", Absent, OldSpace, Absent), At(d, Absent, project, new))) :
               d \in {"a", "skills"}, project \in {Absent, OtherTools, BothSpaces, Broken},
               new \in {Absent, New}}
-----------------------------------------------------------------------------
Plain == [words |-> 10, verbs |-> 2, leads |-> TRUE, strong |-> 1, contextual |-> 0,
          weak |-> TRUE, content |-> 7, vague |-> 0, length |-> 80]
Poor == [words |-> 10, verbs |-> 0, leads |-> FALSE, strong |-> 0, contextual |-> 1,
         weak |-> TRUE, content |-> 3, vague |-> 3, length |-> 30]
Text(n) == [lines |-> n, words |-> 7 * n, runs |-> n, tokens |-> 9 * n]
Good == [readable |-> TRUE, size |-> 2, template |-> FALSE, folder |-> "a", graph |-> "fine",
         name |-> [is |-> "text", marks |-> {}, words |-> {}],
         description |-> [is |-> "text", marks |-> {}, prose |-> Plain],
         fields |-> {}, mistyped |-> {}, anchors |-> FALSE, scalar |-> FALSE,
         whole |-> Text(6), head |-> Text(2), body |-> Text(4),
         blocks |-> {}, tables |-> {}, base64 |-> FALSE, references |-> {}]

Misplaced == [Good EXCEPT !.name.marks = {"elsewhere"}, !.name.words = {"claude"}]
Draft1 == [Misplaced EXCEPT !.description.marks = {"placeholder"}, !.description.prose = Poor]
Folded == [Good EXCEPT !.scalar = TRUE, !.fields = {"hooks", "tags", "license", "color"},
                       !.mistyped = {"license"}, !.anchors = TRUE]
Nameless == [Good EXCEPT !.name.is = "absent", !.description.is = "falsy",
                         !.description.prose = Poor]
Shouting == [Good EXCEPT !.name = [is |-> "other", marks |-> {"charset", "long", "elsewhere"}, words |-> {}],
                         !.description.marks = {"person", "tags"}, !.description.prose = Poor]
Big == [Misplaced EXCEPT !.size = 3, !.whole = Text(1200), !.head = Text(20), !.body = Text(900),
                         !.blocks = {51}, !.tables = {20}, !.scalar = TRUE,
                         !.references = {<<"escape", "error">>, <<"depth-exceeded", "warning">>}]
Clashing == [Good EXCEPT !.graph = "clash"]
Endless == [Good EXCEPT !.graph = "limit"]
Garbled == [Good EXCEPT !.readable = FALSE]

With(text) == [s \in MCSkills |-> IF s = "A.md" THEN text ELSE Folded]
-----------------------------------------------------------------------------
(* The prefix "d": two families of rules begin so. *)
Cut == <<{"disclosure", "description"}>>
NoProfiles == [check |-> FALSE, configured |-> FALSE, days |-> 90, readable |-> TRUE]
Line(targets, explicit, modes) ==
    [targets |-> targets, config |-> {}, explicit |-> explicit, modes |-> modes, profiles |-> NoProfiles]
Here == <<"skills">>
AB == <<"A.md", "b">>

(* How targets and flags are given, for the ways settings may lie. *)
Placed == {Line(targets, explicit, {}) :
               targets \in {Here, AB, <<"b", "a">>},
               explicit \in {Nothing, Both("strict_all", TRUE, "ignore", {<<{"frontmatter"}, {"name"}>>}),
                             Both("target_agent", "vscode", "max_lines", 1000)}}
          \cup {[Line(AB, Nothing, {}) EXCEPT !.config = {<<d, n>>}] :
                    d \in {"repo", "a"}, n \in {"pyproject.toml", "tracemantle.toml"}}

(* Targets that cannot all be judged. *)
Wide == {Line(targets, Nothing, {}) :
             targets \in {<<"repo">>, <<"skills", "V.md">>, <<"lost.md">>, <<".venv">>, <<"extra", "A.md">>}}

(* Every pair of modes, alone and with settings that ask for more. *)
Moded == {Line(<<"A.md">>, explicit, modes) :
              explicit \in {Nothing, Only("semantic", TRUE), Only("history", TRUE),
                            Only("critique_agent", "codex")},
              modes \in {m \in SUBSET (Modes \ {"history", "analyze-graph"}) : Cardinality(m) <= 2}}
         \cup {Line(Here, Nothing, {m}) : m \in Emit \cup Ingest \cup {"show-history"}}

Agents == {Line(<<"A.md">>, Override(Both("target_agent", agent, "min_desc_score", 60), explicit), {}) :
               agent \in {"all", "claude", "vscode", "cursor"},
               explicit \in {Nothing, Only("strict_vscode", TRUE), Only("strict_cursor", TRUE),
                             Both("skip_ref_check", TRUE, "skip_dirname_check", TRUE),
                             Only("tokenizer", "tiktoken"), Both("graph_agent", "codex", "ignore", {<<{"compat"}>>, Cut})}}

Checked == {[Line(<<"A.md">>, Nothing, {}) EXCEPT
                !.profiles = [check |-> check, configured |-> c, days |-> days, readable |-> r]] :
                    check \in BOOLEAN, c \in BOOLEAN, days \in {0, 90}, r \in BOOLEAN}

Beginning(files, text, line) == [files |-> files, texts |-> With(text), line |-> line]

MCWorlds ==
    {Beginning(files, Misplaced, line) : files \in OneRoot \cup Nested, line \in Placed}
    \cup {Beginning(Disk(Nothing), Good, line) : line \in Wide \cup Checked}
    \cup {Beginning(Disk(At("a", Absent, Absent, new)), text, line) :
              line \in Moded, text \in {Good, Endless, Clashing, Garbled},
              new \in {Absent, Alone(Only("history", TRUE))}}
    \cup {Beginning(Disk(Nothing), text, line) :
              line \in Agents, text \in {Misplaced, Draft1, Folded, Nameless, Shouting, Big, Garbled}}
    \cup {Beginning(Disk(Nothing), Big, line) : line \in Placed}

MCSaves == {[path |-> <<d, "pyproject.toml">>, file |-> file] :
                d \in {"repo", "a"}, file \in {Broken, Unreadable, Absent, BothSpaces}}
           \cup {[path |-> <<d, "tracemantle.toml">>, file |-> file] :
                d \in {"repo", "a"}, file \in {New, Absent}}
MCTexts == {Garbled, Folded}
=============================================================================
