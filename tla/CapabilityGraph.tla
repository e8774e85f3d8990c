--------------------------- MODULE CapabilityGraph ---------------------------
(***************************************************************************)
(* The capability graph of a SKILL.md: extract_graph_heuristic of          *)
(* core/graph.py, the checks of the CapabilityGraph constructor and the    *)
(* analyzers of core/graph_analyzers.py, as operators on documents.        *)
(*                                                                         *)
(* A line is what the expressions of graph.py see of it: a heading with    *)
(* its depth and the words that classify it, a list item with the marks    *)
(* its kind is inferred from, other text, or nothing; with the names it    *)
(* quotes in backticks.  A line that is not shown lies in a code block.    *)
(* The eight hex digits that name a node stand for what they are made      *)
(* from; quotes that span two lines are left out.                          *)
(***************************************************************************)
EXTENDS Integers, Sequences, FiniteSets

CONSTANTS Names,     \* names of capabilities, inputs and outputs
          MaxLines,  \* the traversal budget, graph.py:355
          MaxNodes   \* io_limits.MAX_GRAPH_NODES

ASSUME BudgetAssumption == MaxLines \in Nat /\ MaxNodes \in Nat

Marks == {"input alias", "output alias", "verb",
          "capitals", "path", "quoted", "spaced", "mutating", "short"}
Line  == [is : {"heading", "item", "text", "blank"}, level : Nat, name : Names,
          marks : SUBSET Marks, quotes : SUBSET Names, shown : BOOLEAN]

(* start is the line of the file on which the body begins. *)
Document == [start : Nat \ {0}, tools : SUBSET Names, lines : Seq(Line), readable : BOOLEAN]

NoLine      == -1
InputKinds  == {"file", "tool", "env", "context", "prerequisite"}
OutputKinds == {"file", "artifact", "side_effect", "return"}

(* Nodes that two sections declare with one id are two nodes. *)
Kinds == InputKinds \cup OutputKinds \cup {"capability"}
Node  == [id : Kinds \X Names \X Int, kind : Kinds, name : Names,
          line : Int, section : Nat, described : BOOLEAN]
-----------------------------------------------------------------------------
Shown(d)    == {i \in DOMAIN d.lines : d.lines[i].shown}
Headings(d) == {i \in Shown(d) : d.lines[i].is = "heading"}

(* "Setup" is a verb too, but the aliases are asked first. *)
Class(l) == IF "input alias" \in l.marks THEN "input"
            ELSE IF "output alias" \in l.marks THEN "output"
            ELSE IF "verb" \in l.marks THEN "capability" ELSE "other"
Sections(d, class) == {h \in Headings(d) : Class(d.lines[h]) = class}

(* A section runs to the next heading that is not deeper. *)
Content(d, h) ==
    {i \in Shown(d) : i > h /\ \A g \in Headings(d) :
                        h < g /\ g <= i => d.lines[g].level > d.lines[h].level}

InputKind(l) == IF "capitals" \in l.marks THEN "env"
                ELSE IF "path" \in l.marks THEN "file"
                ELSE IF "quoted" \in l.marks /\ "spaced" \notin l.marks THEN "tool"
                ELSE "prerequisite"
OutputKind(l) == IF "path" \in l.marks THEN "file"
                 ELSE IF "mutating" \in l.marks THEN "side_effect"
                 ELSE IF "short" \in l.marks /\ "spaced" \notin l.marks THEN "return"
                 ELSE "artifact"

AtBody(d, i) == i     \* slip: the lines of the frontmatter are not counted

At(d, i) == d.start + i - 1

Make(kind, n, line, section, described) ==
    [id |-> <<kind, n, line>>, kind |-> kind, name |-> n, line |-> line, section |-> section,
     described |-> described]

(* List items below the headings of a class, in the order of the headings. *)
Harvest(d, class) == {p \in Sections(d, class) \X Shown(d) :
                        p[2] \in Content(d, p[1]) /\ d.lines[p[2]].is = "item"}

Input(d, p)  == Make(InputKind(d.lines[p[2]]), d.lines[p[2]].name, At(d, p[2]), p[1], TRUE)
Output(d, p) == Make(OutputKind(d.lines[p[2]]), d.lines[p[2]].name, At(d, p[2]), p[1], TRUE)
Tools(d)     == {Make("tool", n, NoLine, 0, TRUE) : n \in d.tools}

DescribedUnquoted(d, h) ==     \* slip: a line that quotes a name describes nothing
    \E i \in Content(d, h) : d.lines[i].is \in {"item", "text"} /\ d.lines[i].quotes = {}

Described(d, h) == \E i \in Content(d, h) : d.lines[i].is \in {"item", "text"}

Capability(d, h) == Make("capability", d.lines[h].name, At(d, h), h, Described(d, h))

(* What a quoted name refers to: its last declaration, else the tool. *)
Last(H) == CHOOSE p \in H : \A q \in H : q[1] < p[1] \/ (q[1] = p[1] /\ q[2] <= p[2])
Declared(d, class, n) == {p \in Harvest(d, class) : d.lines[p[2]].name = n}

InputNamed(d, n) == IF Declared(d, "input", n) # {}
                    THEN {Input(d, Last(Declared(d, "input", n)))}
                    ELSE {t \in Tools(d) : t.name = n}
OutputNamed(d, n) == IF Declared(d, "output", n) # {}
                     THEN {Output(d, Last(Declared(d, "output", n)))} ELSE {}

Quoted(d, h) == UNION {d.lines[i].quotes : i \in Content(d, h)}

Edges(d) == LET Ends(h, Named(_, _)) == UNION {Named(d, n) : n \in Quoted(d, h)}
                From(h, T, kind) == {[source |-> Capability(d, h).id, target |-> t.id, kind |-> kind] : t \in T}
            IN UNION {From(h, Ends(h, InputNamed), "requires")
                      \cup From(h, Ends(h, OutputNamed), "produces") : h \in Sections(d, "capability")}

Extracted(d) ==
    [capabilities |-> {Capability(d, h) : h \in Sections(d, "capability")},
     inputs  |-> {Input(d, p) : p \in Harvest(d, "input")} \cup Tools(d),
     outputs |-> {Output(d, p) : p \in Harvest(d, "output")},
     edges   |-> Edges(d)]

(* GraphLimitError: what the tokenizer counts as headings has at most six #. *)
OverBudget(d) ==
    \/ Len(d.lines) > MaxLines
    \/ Cardinality({h \in Headings(d) : d.lines[h].level <= 6}) > MaxNodes
    \/ Cardinality(Sections(d, "capability")) + Cardinality(d.tools)
       + Cardinality(Harvest(d, "input")) + Cardinality(Harvest(d, "output")) > MaxNodes

(* The constructor: no two nodes have one id, no edge dangles. *)
Ids(S) == {n.id : n \in S}
Targets(g, kind) == IF kind = "requires" THEN g.inputs ELSE g.outputs
Consistent(g) ==
    /\ \A S \in {g.capabilities, g.inputs, g.outputs} : Cardinality(Ids(S)) = Cardinality(S)
    /\ Ids(g.capabilities) \cap Ids(g.inputs \cup g.outputs) = {}
    /\ Ids(g.inputs) \cap Ids(g.outputs) = {}
    /\ \A e \in g.edges : /\ e.source \in Ids(g.capabilities)
                          /\ e.target \in Ids(Targets(g, e.kind))
-----------------------------------------------------------------------------
(* Diagnostics, without the wording. *)
Finding(rule, severity, about, line) ==
    [rule |-> rule, severity |-> severity, about |-> about, line |-> line]
Warn(rule, S) == {Finding(rule, "warning", <<n.name>>, n.line) : n \in S}

Unused(g, S, kind) == {n \in S : \A e \in g.edges : ~(e.kind = kind /\ e.target = n.id)}

Orphaned(g)          == Warn("graph.capability.orphaned",
                             {c \in g.capabilities : \A e \in g.edges : e.source # c.id})
UnusedInputs(g)      == Warn("graph.input.unused",
                             {n \in Unused(g, g.inputs, "requires") : n.line # NoLine})
UnproducedOutputs(g) == Warn("graph.output.unproduced", Unused(g, g.outputs, "produces"))
EmptyDescriptions(g) == Warn("graph.capability.empty_description",
                             {c \in g.capabilities : ~c.described})
UnreferencedTools(g) == Warn("graph.tool.unreferenced",
                             {n \in Unused(g, g.inputs, "requires") : n.kind = "tool" /\ n.line = NoLine})

GraphFindings(g) == Orphaned(g) \cup UnusedInputs(g) \cup UnproducedOutputs(g)
                    \cup EmptyDescriptions(g) \cup UnreferencedTools(g)

(* dict comprehension over the sorted nodes: the last one of a name stays. *)
Index(S, n) == CHOOSE x \in S : x.name = n /\ \A y \in S : y.name = n => y.line <= x.line
HasName(S, n) == \E x \in S : x.name = n

(* The edges of an agent's graph, with the nodes they join. *)
Claims(a) ==
    {x \in a.capabilities \X (a.inputs \cup a.outputs) \X {"requires", "produces"} :
        [source |-> x[1].id, target |-> x[2].id, kind |-> x[3]] \in a.edges}

ContradictedUndeclared(a, h) ==     \* slip: names the body does not declare are compared too
    {x \in Claims(a) : ~\E e \in h.edges : /\ e.source[2] = x[1].name /\ e.target[2] = x[2].name
                                          /\ e.kind = x[3]}

(* Edges of the agent's graph a between names that h has too, and h has not that edge. *)
Contradicted(a, h) ==
    {x \in Claims(a) :
        /\ HasName(h.capabilities, x[1].name) /\ HasName(Targets(h, x[3]), x[2].name)
        /\ [source |-> Index(h.capabilities, x[1].name).id,
            target |-> Index(Targets(h, x[3]), x[2].name).id, kind |-> x[3]] \notin h.edges}

Disagreements(a, h) ==
    {Finding("graph.contradiction.heuristic_disagreement", "error", <<x[1].name, x[2].name>>, NoLine) :
        x \in Contradicted(a, h)}
=============================================================================
