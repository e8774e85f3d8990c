--------------------------- MODULE MCSkillReview ---------------------------
(* A SKILL.md written line by line, and an agent that echoes, over-claims,   *)
(* slips or critiques.  Scope bounds the text and how far it may move away   *)
(* from what the agent was asked about.                                      *)
EXTENDS SkillReview

CONSTANTS MaxLen,    \* lines of the body
          MaxAsked,  \* lines of the body in a prompt
          MaxStart   \* first line of the body

Plain == [is |-> "text", level |-> 0, name |-> "build", marks |-> {}, quotes |-> {}, shown |-> TRUE]
Heading(n, level, marks) == [Plain EXCEPT !.is = "heading", !.name = n, !.level = level, !.marks = marks]
ListItem(n, marks) == [Plain EXCEPT !.is = "item", !.name = n, !.marks = marks]

(* "Setup", an input heading that is a verb too; outputs at two depths; two
   capabilities of one name at two depths. *)
Written == {Heading("setup", 1, {"input alias", "verb"}),
            Heading("inputs", 2, {"input alias"}),
            Heading("outputs", 2, {"output alias"}),
            Heading("build", 1, {"verb"}), Heading("build", 2, {"verb"}),
            [Heading("build", 2, {"verb"}) EXCEPT !.shown = FALSE],
            ListItem("data", {"path"}),
            [ListItem("data", {"quoted", "short"}) EXCEPT !.quotes = {"data"}],
            Plain}

(* Data declared twice and used; an output declared inside of the capability
   that quotes it; two capabilities of one name of which one uses its input. *)
Uses(n) == [Plain EXCEPT !.quotes = {n}]
Begun == {<<>>,
          <<Heading("setup", 1, {"input alias", "verb"}), ListItem("data", {"path"}),
            ListItem("data", {"quoted"}), Heading("build", 1, {"verb"}), Uses("data")>>,
          <<Heading("build", 1, {"verb"}), Plain, Heading("outputs", 2, {"output alias"}),
            [ListItem("data", {"quoted", "short"}) EXCEPT !.quotes = {"data"}]>>,
          <<Heading("inputs", 2, {"input alias"}), ListItem("data", {"path"}),
            Heading("build", 1, {"verb"}), Uses("data"), Heading("build", 2, {"verb"})>>}

(* The agent: what it says of a document d. *)
Edge(c, t, kind) == [source |-> c.id, target |-> t.id, kind |-> kind]
Bold(d) == LET e == Echo(d) IN
    [e EXCEPT !.edges = Items({Edge(c, t, "requires") : c \in Values(e.capabilities), t \in Values(e.inputs)}
                              \cup {Edge(c, t, "produces") : c \in Values(e.capabilities), t \in Values(e.outputs)},
                              {"source_id", "target_id", "kind"})]
Stray(d, line) ==
    LET e == Echo(d)
        c == Make("capability", "notes", line, 0, FALSE)
    IN [e EXCEPT !.capabilities = @ \cup Items({c}, {"id", "name", "description", "line"}),
                 !.edges = @ \cup Items({Edge(c, t, "requires") : t \in Values(e.inputs)}, {"source_id", "target_id", "kind"})]
Dangling(d) == LET e == Echo(d) IN
    [e EXCEPT !.edges = @ \cup Items({Edge(c, c, "requires") : c \in Values(e.capabilities)}, {"source_id", "target_id", "kind"})]
Wrapped(d, text) == [Echo(d) EXCEPT !.text = text]

Opinion(a, b, c) ==
    [bytes |-> "text", text |-> <<"prose", "json">>, object |-> TRUE,
     fields |-> CritiqueFields, wrong |-> {},
     scores |-> [x \in Aspects |-> CASE x = "clarity" -> a [] x = "completeness" -> b [] OTHER -> c],
     findings |-> {Item([section |-> "build", severity |-> "info"], {"section", "issue", "severity", "suggestion"})},
     missing |-> {Item("data", {})},
     contradictions |-> {Item([a |-> "build", b |-> "notes"], {"location_a", "location_b", "nature"})}]

Said(d) == {Echo(d), Bold(d), Stray(d, 0), Stray(d, Len(d.lines)), Stray(d, Len(d.lines) + 1), Dangling(d),
            Wrapped(d, <<"fence", "json", "fence">>), Wrapped(d, <<"prose", "fence", "json", "fence">>),
            [Echo(d) EXCEPT !.fields = @ \cup {"source"}],
            Opinion(69, 70, 84), Opinion(85, 100, 101),
            [Echo(d) EXCEPT !.bytes = "too many"], [Opinion(0, 0, 0) EXCEPT !.bytes = "control characters"],
            [Opinion(0, 85, 100) EXCEPT !.wrong = {"clarity"}]}

(* The text is the asked one, or it has one line more or one line less, or one
   more line precedes it, or one more name is quoted. *)
Near(d, e) == /\ Len(d.lines) - Len(e.lines) \in -1 .. 1
              /\ \A i \in DOMAIN e.lines \cap DOMAIN d.lines :
                    d.lines[i] = e.lines[i] \/ (Len(d.lines) = Len(e.lines) /\ d.start = e.start
                                               /\ d.lines[i] = [e.lines[i] EXCEPT !.quotes = {"data"}])
              /\ d.start = e.start \/ d.lines = e.lines
Short(d, n) == Len(d.lines) <= n \/ \E b \in Drafts \ {<<>>} : Near(d, [d EXCEPT !.lines = b])
Scope == /\ Short(doc, MaxLen)
         /\ doc.start <= IF asked # None \/ Len(doc.lines) <= MaxAsked THEN MaxStart ELSE 1
         /\ asked # None => /\ Short(asked, MaxAsked) /\ asked.start = 1
                            /\ Near(doc, asked)
                            /\ analysis # None => analysis.on = doc
         /\ review # None => review.on = doc
         /\ doc.readable \/ (doc.start = 1 /\ Len(doc.lines) <= 1)

(* Only data is ever quoted. *)
MCNext == /\ \/ \E l \in LineKinds : AddLine(l)
             \/ Cut
             \/ \E i \in DOMAIN doc.lines : Quote(i, "data")
             \/ Describe \/ Break
             \/ Ask \/ Reply
             \/ Analyze \/ IngestGraph \/ IngestCritique
          /\ Scope'
MCSpec == Init /\ [][MCNext]_vars
=============================================================================
