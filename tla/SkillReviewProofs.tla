------------------------- MODULE SkillReviewProofs -------------------------
(***************************************************************************)
(* Proofs about SkillReview: for every document, however the author edits  *)
(* it between the prompt, the answer and the reports, and whatever an      *)
(* agent answers.                                                          *)
(***************************************************************************)
EXTENDS SkillReview, FiniteSetTheorems, SequenceTheorems, WellFoundedInduction, TLAPS

Findings == [rule : Rules, severity : Severities, about : Seq(Names), line : Int]

(* What the three commands report, as functions of what they read.          *)
AnalysisOf(d) ==
    LET Report1(ended, found) == [of |-> "body", on |-> d, ended |-> ended, found |-> found]
    IN  IF ~d.readable THEN Report1("report", Error("parse.error"))
        ELSE IF OverBudget(d) THEN Report1("report", Error("graph.limit"))
        ELSE IF ~Consistent(Extracted(d)) THEN Report1("traceback", {})
        ELSE Report1("report", GraphFindings(Extracted(d)))

GraphReviewOf(d, r) ==
    LET Report1(ended, found) == [of |-> "graph", on |-> d, ended |-> ended, found |-> found]
        a == Placed(d, Carried(r))
    IN  IF ~Readable(r) THEN Report1("refused", {})
        ELSE IF ~d.readable
        THEN Report1("report", Error("parse.error") \cup Error("semantic.ingest.graph_parse_error"))
        ELSE IF ~GraphAccepted(r, d) \/ OverBudget(d)
        THEN Report1("report", Error("semantic.ingest.graph_parse_error"))
        ELSE IF ~Consistent(Extracted(d)) THEN Report1("traceback", {})
        ELSE Report1("report", GraphFindings(a) \cup Disagreements(a, Extracted(d)))

CritiqueReviewOf(d, r) ==
    LET Report1(ended, found) == [of |-> "critique", on |-> d, ended |-> ended, found |-> found]
    IN  IF ~Readable(r) THEN Report1("refused", {})
        ELSE IF ~d.readable
        THEN Report1("report", Error("parse.error") \cup Error("semantic.ingest.parse_error"))
        ELSE IF ~CritiqueAccepted(r) THEN Report1("report", Error("semantic.ingest.parse_error"))
        ELSE Report1("report", CritiqueFindings(d, r))

(* The names in an answer, which are no names of rules or fields. *)
Worded(r) ==
    /\ r.fields = GraphFields =>
          Values(r.capabilities) \cup Values(r.inputs) \cup Values(r.outputs) \subseteq Node
    /\ r.fields = CritiqueFields =>
          /\ Values(r.missing) \subseteq Names
          /\ \A x \in Values(r.contradictions) : x.a \in Names /\ x.b \in Names
          /\ \A x \in Values(r.findings) : x.section \in Names
AnswersAreWorded == \A d \in Document : \A r \in Answers(d) : Worded(r)
-----------------------------------------------------------------------------

(* What is in a document. *)
LEMMA Lines ==
  ASSUME NEW d \in Document
  PROVE  /\ Len(d.lines) \in Nat /\ DOMAIN d.lines = 1 .. Len(d.lines)
         /\ \A i \in DOMAIN d.lines : d.lines[i] \in Line
         /\ d.start \in Nat \ {0} /\ d.tools \in SUBSET Names
<1>1. d.lines \in Seq(Line)
  BY DEF Document
<1> QED
  BY <1>1 DEF Document

LEMMA ShownLines ==
  ASSUME NEW d \in Document
  PROVE  /\ Shown(d) \subseteq 1 .. Len(d.lines)
         /\ Headings(d) \subseteq Shown(d)
         /\ \A class : Sections(d, class) \subseteq Headings(d)
         /\ \A h : Content(d, h) \subseteq Shown(d)
BY Lines DEF Shown, Headings, Sections, Content

LEMMA CapabilityType ==
  ASSUME NEW d \in Document, NEW h \in Sections(d, "capability")
  PROVE  /\ Capability(d, h) \in Node
         /\ Capability(d, h).id = <<"capability", d.lines[h].name, d.start + h - 1>>
         /\ Capability(d, h).name = d.lines[h].name /\ Capability(d, h).line = d.start + h - 1
         /\ Capability(d, h).kind = "capability"
         /\ h \in 1 .. Len(d.lines)
<1>1. h \in 1 .. Len(d.lines) /\ h \in DOMAIN d.lines
  BY Lines, ShownLines
<1>2. d.lines[h].name \in Names /\ d.start + h - 1 \in Int /\ h \in Nat
  BY <1>1, Lines DEF Line
<1>3. Described(d, h) \in BOOLEAN
  BY DEF Described
<1> QED
  BY <1>1, <1>2, <1>3 DEF Capability, Make, Node, Kinds, At

LEMMA Harvested ==
  ASSUME NEW d \in Document, NEW class, NEW p \in Harvest(d, class)
  PROVE  /\ p = <<p[1], p[2]>> /\ p[1] \in Sections(d, class) /\ p[2] \in Content(d, p[1])
         /\ p[1] \in 1 .. Len(d.lines) /\ p[2] \in 1 .. Len(d.lines)
         /\ d.lines[p[2]].is = "item" /\ d.lines[p[2]].name \in Names
         /\ p[1] < p[2] /\ p[1] \in Nat /\ p[2] \in Nat
<1>1. p \in Sections(d, class) \X Shown(d) /\ p[2] \in Content(d, p[1]) /\ d.lines[p[2]].is = "item"
  BY DEF Harvest
<1>2. p[1] \in 1 .. Len(d.lines) /\ p[2] \in 1 .. Len(d.lines)
  BY <1>1, ShownLines
<1>3. p[1] < p[2]
  BY <1>1 DEF Content
<1>4. p[2] \in DOMAIN d.lines /\ p[1] \in Nat /\ p[2] \in Nat
  BY <1>2, Lines
<1> QED
  BY <1>1, <1>2, <1>3, <1>4, Lines DEF Line

LEMMA InputType ==
  ASSUME NEW d \in Document, NEW p \in Harvest(d, "input")
  PROVE  /\ Input(d, p) \in Node
         /\ Input(d, p).id = <<InputKind(d.lines[p[2]]), d.lines[p[2]].name, d.start + p[2] - 1>>
         /\ Input(d, p).name = d.lines[p[2]].name /\ Input(d, p).line = d.start + p[2] - 1
         /\ Input(d, p).section = p[1]
         /\ InputKind(d.lines[p[2]]) \in InputKinds
<1>1. InputKind(d.lines[p[2]]) \in InputKinds
  BY DEF InputKind, InputKinds
<1>2. d.lines[p[2]].name \in Names /\ d.start + p[2] - 1 \in Int /\ p[1] \in Nat
  BY Lines, Harvested
<1> QED
  BY <1>1, <1>2 DEF Input, Make, Node, Kinds, At

LEMMA OutputType ==
  ASSUME NEW d \in Document, NEW p \in Harvest(d, "output")
  PROVE  /\ Output(d, p) \in Node
         /\ Output(d, p).id = <<OutputKind(d.lines[p[2]]), d.lines[p[2]].name, d.start + p[2] - 1>>
         /\ Output(d, p).name = d.lines[p[2]].name /\ Output(d, p).line = d.start + p[2] - 1
         /\ Output(d, p).section = p[1]
         /\ OutputKind(d.lines[p[2]]) \in OutputKinds
<1>1. OutputKind(d.lines[p[2]]) \in OutputKinds
  BY DEF OutputKind, OutputKinds
<1>2. d.lines[p[2]].name \in Names /\ d.start + p[2] - 1 \in Int /\ p[1] \in Nat
  BY Lines, Harvested
<1> QED
  BY <1>1, <1>2 DEF Output, Make, Node, Kinds, At

LEMMA ToolType ==
  ASSUME NEW d \in Document, NEW t \in Tools(d)
  PROVE  /\ t \in Node /\ t.name \in d.tools
         /\ t = [id |-> <<"tool", t.name, NoLine>>, kind |-> "tool", name |-> t.name,
                 line |-> NoLine, section |-> 0, described |-> TRUE]
         /\ t.id = <<"tool", t.name, NoLine>> /\ t.line = NoLine /\ t.kind = "tool"
<1>1. PICK n \in d.tools : t = Make("tool", n, NoLine, 0, TRUE)
  BY DEF Tools
<1>2. n \in Names /\ NoLine \in Int
  BY Lines DEF NoLine
<1>3. t = [id |-> <<"tool", n, NoLine>>, kind |-> "tool", name |-> n, line |-> NoLine,
           section |-> 0, described |-> TRUE]
  BY <1>1 DEF Make
<1>4. /\ t.name = n /\ t.id = <<"tool", n, NoLine>> /\ t.line = NoLine /\ t.kind = "tool"
  BY <1>3
<1>5. t \in Node
  BY <1>2, <1>3 DEF Node, Kinds, InputKinds
<1> QED
  BY <1>1, <1>3, <1>4, <1>5

LEMMA ExtractedType ==
  ASSUME NEW d \in Document
  PROVE  /\ Extracted(d).capabilities \in SUBSET Node
         /\ Extracted(d).inputs \in SUBSET Node
         /\ Extracted(d).outputs \in SUBSET Node
         /\ Extracted(d).edges = Edges(d)
<1>1. {Capability(d, h) : h \in Sections(d, "capability")} \in SUBSET Node
  BY CapabilityType
<1>2. {Input(d, p) : p \in Harvest(d, "input")} \cup Tools(d) \in SUBSET Node
  BY InputType, ToolType
<1>3. {Output(d, p) : p \in Harvest(d, "output")} \in SUBSET Node
  BY OutputType
<1> QED
  BY <1>1, <1>2, <1>3 DEF Extracted

LEMMA WarningType ==
  ASSUME NEW rule \in Rules, NEW S \in SUBSET Node
  PROVE  Warn(rule, S) \in SUBSET Findings
<1>1. ASSUME NEW n \in S PROVE Finding(rule, "warning", <<n.name>>, n.line) \in Findings
  <2>1. n.name \in Names /\ n.line \in Int
    BY DEF Node
  <2>2. <<n.name>> \in Seq(Names)
    BY <2>1
  <2> QED
    BY <2>1, <2>2 DEF Finding, Findings, Severities
<1> QED
  BY <1>1 DEF Warn

LEMMA GraphFindingsType ==
  ASSUME NEW g, g.capabilities \in SUBSET Node, g.inputs \in SUBSET Node, g.outputs \in SUBSET Node
  PROVE  GraphFindings(g) \in SUBSET Findings
<1>1. Orphaned(g) \in SUBSET Findings
  <2>1. {c \in g.capabilities : \A e \in g.edges : e.source # c.id} \in SUBSET Node
    OBVIOUS
  <2>2. "graph.capability.orphaned" \in Rules
    BY DEF Rules
  <2> QED
    BY <2>1, <2>2, WarningType DEF Orphaned
<1>2. UnusedInputs(g) \in SUBSET Findings
  <2>1. {n \in Unused(g, g.inputs, "requires") : n.line # NoLine} \in SUBSET Node
    BY DEF Unused
  <2>2. "graph.input.unused" \in Rules
    BY DEF Rules
  <2> QED
    BY <2>1, <2>2, WarningType DEF UnusedInputs
<1>3. UnproducedOutputs(g) \in SUBSET Findings
  <2>1. Unused(g, g.outputs, "produces") \in SUBSET Node
    BY DEF Unused
  <2>2. "graph.output.unproduced" \in Rules
    BY DEF Rules
  <2> QED
    BY <2>1, <2>2, WarningType DEF UnproducedOutputs
<1>4. EmptyDescriptions(g) \in SUBSET Findings
  <2>1. {c \in g.capabilities : ~c.described} \in SUBSET Node
    OBVIOUS
  <2>2. "graph.capability.empty_description" \in Rules
    BY DEF Rules
  <2> QED
    BY <2>1, <2>2, WarningType DEF EmptyDescriptions
<1>5. UnreferencedTools(g) \in SUBSET Findings
  <2>1. {n \in Unused(g, g.inputs, "requires") : n.kind = "tool" /\ n.line = NoLine} \in SUBSET Node
    BY DEF Unused
  <2>2. "graph.tool.unreferenced" \in Rules
    BY DEF Rules
  <2> QED
    BY <2>1, <2>2, WarningType DEF UnreferencedTools
<1> QED
  BY <1>1, <1>2, <1>3, <1>4, <1>5 DEF GraphFindings

LEMMA ErrorType ==
  ASSUME NEW rule \in Rules
  PROVE  Error(rule) \in SUBSET Findings
<1>1. <<>> \in Seq(Names) /\ NoLine \in Int
  BY DEF NoLine
<1> QED
  BY <1>1 DEF Error, Finding, Findings, Severities

(* A finite set of numbers has a last one and a first one. *)
LEMMA Greatest ==
  ASSUME NEW S \in SUBSET Int, IsFiniteSet(S), S # {}
  PROVE  \E m \in S : \A j \in S : j <= m
<1> DEFINE Above(i) == {j \in S : j > i}
           tails    == {Above(i) : i \in S}
<1>1. tails \subseteq FiniteSubsetsOf(S) /\ tails # {}
  <2>1. tails \subseteq SUBSET S /\ tails # {}
    OBVIOUS
  <2> QED
    BY <2>1, FS_FiniteSubsetsOfFinite
<1>2. PICK t \in tails : \A u \in tails : ~(<<u, t>> \in StrictSubsetOrdering(S))
  <2> HIDE DEF tails
  <2> QED
    BY <1>1, FS_StrictSubsetOrderingWellFounded, WFMin
<1>3. PICK m \in S : t = Above(m)
  BY <1>2
<1>4. ASSUME NEW j \in S, j > m PROVE FALSE
  <2>1. Above(j) \subseteq S /\ Above(m) \subseteq S
    OBVIOUS
  <2>2. Above(j) \subseteq Above(m) /\ j \in Above(m) /\ j \notin Above(j)
    <3>1. j \in Int /\ m \in Int
      OBVIOUS
    <3>2. \A k \in S : k \in Int
      OBVIOUS
    <3>3. \A k \in Above(j) : k \in Above(m)
      BY <1>4, <3>1, <3>2
    <3>4. ~(j > j)
      BY <3>1
    <3> QED
      BY <1>4, <3>3, <3>4
  <2>3. <<Above(j), Above(m)>> \in StrictSubsetOrdering(S)
    <3> HIDE DEF Above
    <3> QED
      BY <2>1, <2>2, Zenon DEF StrictSubsetOrdering
  <2>4. Above(j) \in tails
    BY <1>4
  <2> QED
    BY <1>2, <1>3, <2>3, <2>4
<1> QED
  BY <1>4

LEMMA Least ==
  ASSUME NEW S \in SUBSET Int, IsFiniteSet(S), S # {}
  PROVE  \E m \in S : \A j \in S : m <= j
<1> DEFINE f == [i \in S |-> -i]
           N == {-i : i \in S}
<1>1. f \in Surjection(S, N)
  BY DEF Surjection
<1>2. IsFiniteSet(N)
  <2> HIDE DEF f, N
  <2> QED
    BY <1>1, FS_Surjection
<1>3. N \in SUBSET Int /\ N # {}
  OBVIOUS
<1>4. PICK k \in N : \A j \in N : j <= k
  <2> HIDE DEF N
  <2> QED
    BY <1>2, <1>3, Greatest
<1>5. PICK m \in S : k = -m
  BY <1>4
<1>6. ASSUME NEW j \in S PROVE m <= j
  <2>1. -j \in N
    OBVIOUS
  <2> QED
    BY <1>4, <1>5, <2>1
<1> QED
  BY <1>6

LEMMA SectionLineType ==
  ASSUME NEW d \in Document, NEW n
  PROVE  SectionLine(d, n) \in Int
<1> DEFINE H == {i \in DOMAIN d.lines : /\ d.lines[i].is = "heading" /\ d.lines[i].level \in 2 .. 3
                                        /\ d.lines[i].name = n}
<1>1. H \in SUBSET Int /\ IsFiniteSet(H)
  <2>1. Len(d.lines) \in Nat /\ H \subseteq 1 .. Len(d.lines)
    BY Lines
  <2>2. IsFiniteSet(1 .. Len(d.lines))
    BY <2>1, FS_Interval
  <2> QED
    BY <2>1, <2>2, FS_Subset
<1>2. CASE H = {}
  BY <1>2 DEF SectionLine, NoLine
<1>3. CASE H # {}
  <2>1. \E m \in H : \A j \in H : m <= j
    <3> HIDE DEF H
    <3> QED
      BY <1>1, <1>3, Least
  <2>2. SectionLine(d, n) = CHOOSE m \in H : \A j \in H : m <= j
    BY <1>3 DEF SectionLine
  <2>3. (CHOOSE m \in H : \A j \in H : m <= j) \in H
    <3> HIDE DEF H
    <3> QED
      BY <2>1
  <2> QED
    BY <1>1, <2>2, <2>3
<1> QED
  BY <1>2, <1>3

(* What an accepted answer carries, and what becomes of it. *)
LEMMA PlacedType ==
  ASSUME NEW d \in Document, NEW r, Worded(r), GraphAccepted(r, d)
  PROVE  LET a == Placed(d, Carried(r)) IN
         /\ a.capabilities \in SUBSET Node /\ a.inputs \in SUBSET Node /\ a.outputs \in SUBSET Node
<1> DEFINE Move(S) == {[n EXCEPT !.line = IF @ = NoLine THEN @ ELSE At(d, @)] : n \in S}
<1>1. r.fields = GraphFields
  BY DEF GraphAccepted, Form
<1>2. /\ Values(r.capabilities) \in SUBSET Node /\ Values(r.inputs) \in SUBSET Node
      /\ Values(r.outputs) \in SUBSET Node
  BY <1>1 DEF Worded
<1>3. ASSUME NEW S \in SUBSET Node PROVE Move(S) \in SUBSET Node
  <2>1. ASSUME NEW n \in S PROVE [n EXCEPT !.line = IF @ = NoLine THEN @ ELSE At(d, @)] \in Node
    <3>1. n \in Node /\ n.line \in Int
      BY DEF Node
    <3>2. At(d, n.line) \in Int
      BY <3>1, Lines DEF At
    <3> QED
      BY <3>1, <3>2 DEF Node
  <2> QED
    BY <2>1
<1>4. PICK c : c = Values(r.capabilities)
  OBVIOUS
<1>5. PICK i : i = Values(r.inputs)
  OBVIOUS
<1>6. PICK o : o = Values(r.outputs)
  OBVIOUS
<1>7. Carried(r) = [capabilities |-> c, inputs |-> i, outputs |-> o, edges |-> Values(r.edges)]
  BY <1>4, <1>5, <1>6 DEF Carried
<1>8. /\ Placed(d, Carried(r)).capabilities = Move(c) /\ Placed(d, Carried(r)).inputs = Move(i)
      /\ Placed(d, Carried(r)).outputs = Move(o)
  BY <1>7 DEF Placed
<1> HIDE DEF Move
<1> QED
  BY <1>2, <1>3, <1>4, <1>5, <1>6, <1>8

LEMMA DisagreementsType ==
  ASSUME NEW a, a.capabilities \in SUBSET Node, a.inputs \in SUBSET Node,
         a.outputs \in SUBSET Node, NEW h
  PROVE  Disagreements(a, h) \in SUBSET Findings
<1>1. ASSUME NEW x \in Contradicted(a, h)
      PROVE  Finding("graph.contradiction.heuristic_disagreement", "error",
                     <<x[1].name, x[2].name>>, NoLine) \in Findings
  <2>1. x \in a.capabilities \X (a.inputs \cup a.outputs) \X {"requires", "produces"}
    BY DEF Contradicted, Claims
  <2>2. x[1] \in Node /\ x[2] \in Node
    BY <2>1
  <2>3. x[1].name \in Names /\ x[2].name \in Names
    BY <2>2 DEF Node
  <2>4. <<x[1].name, x[2].name>> \in Seq(Names)
    BY <2>3
  <2>5. "graph.contradiction.heuristic_disagreement" \in Rules /\ "error" \in Severities /\ NoLine \in Int
    BY DEF Rules, Severities, NoLine
  <2> QED
    BY <2>4, <2>5 DEF Finding, Findings
<1> QED
  BY <1>1 DEF Disagreements

LEMMA CritiqueType ==
  ASSUME NEW d \in Document, NEW r, Worded(r), CritiqueAccepted(r)
  PROVE  CritiqueFindings(d, r) \in SUBSET Findings
<1>1. r.fields = CritiqueFields
  BY DEF CritiqueAccepted, Form
<1>2. /\ Values(r.missing) \subseteq Names
      /\ \A x \in Values(r.contradictions) : x.a \in Names /\ x.b \in Names
      /\ \A x \in Values(r.findings) : x.section \in Names /\ x.severity \in Severities
  <2>1. \A x \in Values(r.findings) : x.severity \in Severities
    BY DEF CritiqueAccepted, FindingForm, Values
  <2> QED
    BY <1>1, <2>1 DEF Worded
<1>3. NoLine \in Int /\ <<>> \in Seq(Names) /\ {"warning", "error", "info"} \subseteq Severities
  BY DEF NoLine, Severities
<1>4. ASSUME NEW rule \in Rules, NEW s \in Severities, NEW about \in Seq(Names), NEW l \in Int
      PROVE  Finding(rule, s, about, l) \in Findings
  BY DEF Finding, Findings
<1>5. ASSUME NEW a \in Aspects, NEW n PROVE Score(a, n) \in SUBSET Findings
  <2>1. Low[a] \in Rules
    BY DEF Rules
  <2>2. /\ Finding(Low[a], "warning", <<>>, NoLine) \in Findings
        /\ Finding(Low[a], "info", <<>>, NoLine) \in Findings
    BY <2>1, <1>3, <1>4
  <2> QED
    BY <2>2 DEF Score
<1>6. {Finding("semantic.context.missing", "warning", <<n>>, NoLine) : n \in Values(r.missing)} \in SUBSET Findings
  <2>1. "semantic.context.missing" \in Rules
    BY DEF Rules
  <2>2. \A n \in Values(r.missing) : <<n>> \in Seq(Names)
    BY <1>2
  <2> QED
    BY <2>1, <2>2, <1>3, <1>4
<1>7. {Finding("semantic.contradiction.detected", "error", <<x.a, x.b>>, NoLine) :
         x \in Values(r.contradictions)} \in SUBSET Findings
  <2>1. "semantic.contradiction.detected" \in Rules
    BY DEF Rules
  <2>2. \A x \in Values(r.contradictions) : <<x.a, x.b>> \in Seq(Names)
    BY <1>2
  <2> QED
    BY <2>1, <2>2, <1>3, <1>4
<1>8. {Finding(Observed[x.severity], x.severity, <<x.section>>, SectionLine(d, x.section)) :
         x \in Values(r.findings)} \in SUBSET Findings
  <2>1. \A x \in Values(r.findings) : <<x.section>> \in Seq(Names) /\ Observed[x.severity] \in Rules
    BY <1>2 DEF Rules
  <2>2. \A x \in Values(r.findings) : SectionLine(d, x.section) \in Int
    BY SectionLineType
  <2> QED
    BY <1>2, <2>1, <2>2, <1>4
<1>9. (UNION {Score(a, r.scores[a]) : a \in Aspects}) \in SUBSET Findings
  BY <1>5
<1> DEFINE U == UNION {Score(a, r.scores[a]) : a \in Aspects}
           M == {Finding("semantic.context.missing", "warning", <<n>>, NoLine) : n \in Values(r.missing)}
           C == {Finding("semantic.contradiction.detected", "error", <<x.a, x.b>>, NoLine) :
                   x \in Values(r.contradictions)}
           F == {Finding(Observed[x.severity], x.severity, <<x.section>>, SectionLine(d, x.section)) :
                   x \in Values(r.findings)}
<1>10. CritiqueFindings(d, r) = U \cup M \cup C \cup F
  BY Zenon DEF CritiqueFindings
<1>11. /\ U \in SUBSET Findings /\ M \in SUBSET Findings /\ C \in SUBSET Findings
       /\ F \in SUBSET Findings
  BY <1>6, <1>7, <1>8, <1>9, Zenon
<1> HIDE DEF U, M, C, F
<1> QED
  BY <1>10, <1>11

(* Each command reports what it read amounts to. *)
LEMMA Reports ==
  /\ Analyze => analysis' = AnalysisOf(doc)
  /\ IngestGraph => review' = GraphReviewOf(doc, answer)
  /\ IngestCritique => review' = CritiqueReviewOf(doc, answer)
BY DEF Analyze, IngestGraph, IngestCritique, AnalysisOf, GraphReviewOf, CritiqueReviewOf, Ends

LEMMA ReportsType ==
  ASSUME NEW d \in Document, NEW r, Worded(r)
  PROVE  /\ AnalysisOf(d) \in Report /\ AnalysisOf(d).on = d
         /\ GraphReviewOf(d, r) \in Report /\ GraphReviewOf(d, r).on = d
         /\ CritiqueReviewOf(d, r) \in Report /\ CritiqueReviewOf(d, r).on = d
         /\ GraphReviewOf(d, r).of = "graph" /\ CritiqueReviewOf(d, r).of = "critique"
<1>1. ASSUME NEW of \in {"body", "graph", "critique"},
             NEW ended \in {"report", "refused", "traceback"}, NEW found \in SUBSET Findings
      PROVE  [of |-> of, on |-> d, ended |-> ended, found |-> found] \in Report
  BY DEF Report, Findings
<1>2. \A rule \in {"parse.error", "graph.limit", "semantic.ingest.parse_error",
                   "semantic.ingest.graph_parse_error"} : Error(rule) \in SUBSET Findings
  BY ErrorType DEF Rules
<1>3. GraphFindings(Extracted(d)) \in SUBSET Findings
  BY ExtractedType, GraphFindingsType
<1>4. ASSUME GraphAccepted(r, d)
      PROVE  GraphFindings(Placed(d, Carried(r)))
               \cup Disagreements(Placed(d, Carried(r)), Extracted(d)) \in SUBSET Findings
  BY <1>4, PlacedType, GraphFindingsType, DisagreementsType
<1>5. AnalysisOf(d) \in Report /\ AnalysisOf(d).on = d
  BY <1>1, <1>2, <1>3 DEF AnalysisOf
<1>6. GraphReviewOf(d, r) \in Report /\ GraphReviewOf(d, r).on = d /\ GraphReviewOf(d, r).of = "graph"
  BY <1>1, <1>2, <1>4 DEF GraphReviewOf
<1>7. CritiqueReviewOf(d, r) \in Report /\ CritiqueReviewOf(d, r).on = d
      /\ CritiqueReviewOf(d, r).of = "critique"
  BY <1>1, <1>2, CritiqueType DEF CritiqueReviewOf
<1> QED
  BY <1>5, <1>6, <1>7

LEMMA ReportsOn ==
  ASSUME NEW d, NEW r
  PROVE  /\ AnalysisOf(d).on = d /\ AnalysisOf(d).of = "body"
         /\ GraphReviewOf(d, r).on = d /\ GraphReviewOf(d, r).of = "graph"
         /\ CritiqueReviewOf(d, r).on = d /\ CritiqueReviewOf(d, r).of = "critique"
<1>1. ASSUME NEW of, NEW ended, NEW found
      PROVE  /\ [of |-> of, on |-> d, ended |-> ended, found |-> found].on = d
             /\ [of |-> of, on |-> d, ended |-> ended, found |-> found].of = of
             /\ [of |-> of, on |-> d, ended |-> ended, found |-> found].ended = ended
             /\ [of |-> of, on |-> d, ended |-> ended, found |-> found].found = found
  OBVIOUS
<1>2. AnalysisOf(d).on = d /\ AnalysisOf(d).of = "body"
  BY <1>1 DEF AnalysisOf
<1>3. GraphReviewOf(d, r).on = d /\ GraphReviewOf(d, r).of = "graph"
  BY <1>1 DEF GraphReviewOf
<1>4. CritiqueReviewOf(d, r).on = d /\ CritiqueReviewOf(d, r).of = "critique"
  BY <1>1 DEF CritiqueReviewOf
<1> QED
  BY <1>2, <1>3, <1>4
-----------------------------------------------------------------------------

(* The inductive invariant: a report is what its command finds in the text  *)
(* it names, and a review is one of the answer that is there now, since a   *)
(* new prompt puts the review and the answer away together.                 *)
Text1(d) == d \in Document /\ IsFiniteSet(d.tools)

SInv == /\ Text1(doc)
        /\ asked \in Document \cup {None}
        /\ answer # None => asked # None /\ answer \in Answers(asked)
        /\ analysis # None => \E d \in Document : Text1(d) /\ analysis = AnalysisOf(d)
        /\ review # None =>
              /\ answer # None
              /\ \E d \in Document :
                    /\ Text1(d)
                    /\ review \in {GraphReviewOf(d, answer), CritiqueReviewOf(d, answer)}

LEMMA SInit == Init => SInv
<1> SUFFICES ASSUME Init PROVE SInv
  OBVIOUS
<1>1. doc \in Document
  <2>1. PICK T \in ToolSets, L \in Drafts :
               doc = [start |-> 1, tools |-> T, lines |-> L, readable |-> TRUE]
    BY DEF Init
  <2>2. T \in SUBSET Names /\ L \in Seq(Line)
    BY ReviewAssumption
  <2> QED
    BY <2>1, <2>2 DEF Document
<1>2. doc.tools \in ToolSets
  BY DEF Init
<1> QED
  BY <1>1, <1>2, ReviewAssumption DEF Init, SInv, Text1

(* The author's edits leave a document. *)
LEMMA EditsType ==
  ASSUME Text1(doc)
  PROVE  /\ \A l \in LineKinds : AddLine(l) => Text1(doc)'
         /\ Cut => Text1(doc)'
         /\ \A i \in DOMAIN doc.lines, n \in Names : Quote(i, n) => Text1(doc)'
         /\ Describe \/ Break => Text1(doc)'
<1> USE DEF Text1
<1>1. ASSUME NEW l \in LineKinds, AddLine(l) PROVE Text1(doc)'
  <2>1. l \in Line /\ doc.lines \in Seq(Line)
    BY ReviewAssumption DEF Document
  <2>2. Append(doc.lines, l) \in Seq(Line)
    BY <2>1
  <2> QED
    BY <1>1, <2>2 DEF AddLine, Document
<1>2. ASSUME Cut PROVE Text1(doc)'
  <2>1. doc.lines \in Seq(Line) /\ doc.lines # <<>>
    BY <1>2 DEF Cut, Document
  <2>2. SubSeq(doc.lines, 1, Len(doc.lines) - 1) \in Seq(Line)
    BY <2>1
  <2> QED
    BY <1>2, <2>2 DEF Cut, Document
<1>3. ASSUME NEW i \in DOMAIN doc.lines, NEW n \in Names, Quote(i, n) PROVE Text1(doc)'
  <2>1. doc.lines \in Seq(Line) /\ doc.lines[i] \in Line
    BY Lines DEF Document
  <2>2. [doc.lines[i] EXCEPT !.quotes = @ \cup {n}] \in Line
    BY <2>1 DEF Line
  <2>3. [doc.lines EXCEPT ![i] = [doc.lines[i] EXCEPT !.quotes = @ \cup {n}]] \in Seq(Line)
    BY <2>1, <2>2
  <2>4. doc' = [doc EXCEPT !.lines = [doc.lines EXCEPT ![i] = [doc.lines[i] EXCEPT !.quotes = @ \cup {n}]]]
    BY <1>3 DEF Quote
  <2> QED
    BY <2>3, <2>4 DEF Document
<1>4. ASSUME Describe \/ Break PROVE Text1(doc)'
  <2>1. doc.start + 1 \in Nat \ {0} /\ (~doc.readable) \in BOOLEAN
    BY DEF Document
  <2> QED
    BY <1>4, <2>1 DEF Describe, Break, Document
<1> QED
  BY <1>1, <1>2, <1>3, <1>4

LEMMA SNext == SInv /\ [Next]_vars => SInv'
<1> SUFFICES ASSUME SInv, [Next]_vars PROVE SInv'
  OBVIOUS
<1>0. Text1(doc) /\ doc \in Document
  BY DEF SInv, Text1
<1>1. ASSUME NEW l \in LineKinds, AddLine(l) PROVE SInv'
  BY <1>0, <1>1, EditsType DEF AddLine, SInv
<1>2. CASE Cut
  BY <1>0, <1>2, EditsType DEF Cut, SInv
<1>3. ASSUME NEW i \in DOMAIN doc.lines, NEW n \in Names, Quote(i, n) PROVE SInv'
  <2>1. Text1(doc)'
    BY <1>0, <1>3, EditsType
  <2> QED
    BY <1>3, <2>1 DEF Quote, SInv
<1>4. CASE Describe \/ Break
  <2>1. Text1(doc)'
    BY <1>0, <1>4, EditsType
  <2> QED
    BY <1>4, <2>1 DEF Describe, Break, SInv
<1>5. CASE Ask
  BY <1>0, <1>5 DEF Ask, SInv
<1>6. CASE Reply
  BY <1>6 DEF Reply, SInv
<1>7. CASE Analyze
  <2>1. analysis' = AnalysisOf(doc) /\ UNCHANGED <<doc, asked, answer, review>>
    BY <1>7, Reports DEF Analyze
  <2> QED
    BY <1>0, <2>1 DEF SInv
<1>8. CASE IngestGraph \/ IngestCritique
  <2>1. /\ review' \in {GraphReviewOf(doc, answer), CritiqueReviewOf(doc, answer)}
        /\ answer # None /\ UNCHANGED <<doc, asked, answer, analysis>>
    BY <1>8, Reports DEF IngestGraph, IngestCritique
  <2> QED
    BY <1>0, <2>1 DEF SInv
<1>9. CASE UNCHANGED vars
  BY <1>9 DEF vars, SInv
<1> QED
  BY <1>1, <1>2, <1>3, <1>4, <1>5, <1>6, <1>7, <1>8, <1>9 DEF Next

LEMMA SInvariance == Spec => []SInv
BY SInit, SNext, PTL DEF Spec

(* Type correctness, so long as the names in an answer are names: a report  *)
(* has a rule, a severity and a place whatever else an agent answers.       *)
THEOREM TypeCorrect ==
  ASSUME AnswersAreWorded
  PROVE  Spec => []TypeOK
<1>1. ASSUME SInv PROVE TypeOK
  <2>1. analysis # None => analysis \in Report
    <3> SUFFICES ASSUME NEW d \in Document, analysis = AnalysisOf(d) PROVE analysis \in Report
      BY <1>1 DEF SInv
    <3> DEFINE r == [fields |-> {}]
    <3>1. Worded(r)
      BY DEF Worded, GraphFields, CritiqueFields
    <3> QED
      BY <3>1, ReportsType
  <2>2. review # None => review \in Report
    <3> SUFFICES ASSUME answer # None, NEW d \in Document,
                        review \in {GraphReviewOf(d, answer), CritiqueReviewOf(d, answer)}
                 PROVE  review \in Report
      BY <1>1 DEF SInv
    <3>1. asked \in Document /\ answer \in Answers(asked)
      BY <1>1 DEF SInv
    <3>2. Worded(answer)
      BY <3>1 DEF AnswersAreWorded
    <3> QED
      BY <3>2, ReportsType
  <2> QED
    BY <1>1, <2>1, <2>2 DEF SInv, Text1, TypeOK
<1>2. SInv => TypeOK
  BY <1>1
<1> QED
  BY <1>2, SInvariance, PTL
-----------------------------------------------------------------------------

(* LinesTellWhere, for every document and every edit of it. *)
LEMMA GraphFindingOf ==
  ASSUME NEW g, NEW f \in GraphFindings(g)
  PROVE  /\ \E n \in g.capabilities \cup g.inputs \cup g.outputs : f.about = <<n.name>> /\ f.line = n.line
         /\ f.rule # "graph.contradiction.heuristic_disagreement"
<1>1. ASSUME NEW rule, NEW S, f \in Warn(rule, S)
      PROVE  \E n \in S : f.about = <<n.name>> /\ f.line = n.line /\ f.rule = rule
  BY <1>1 DEF Warn, Finding
<1>2. CASE f \in Orphaned(g)
  BY <1>1, <1>2 DEF Orphaned
<1>3. CASE f \in UnusedInputs(g)
  BY <1>1, <1>3 DEF UnusedInputs, Unused
<1>4. CASE f \in UnproducedOutputs(g)
  BY <1>1, <1>4 DEF UnproducedOutputs, Unused
<1>5. CASE f \in EmptyDescriptions(g)
  BY <1>1, <1>5 DEF EmptyDescriptions
<1>6. CASE f \in UnreferencedTools(g)
  BY <1>1, <1>6 DEF UnreferencedTools, Unused
<1> QED
  BY <1>2, <1>3, <1>4, <1>5, <1>6 DEF GraphFindings

(* A node with a line was declared on it. *)
LEMMA NodesLines ==
  ASSUME NEW d \in Document,
         NEW n \in Extracted(d).capabilities \cup Extracted(d).inputs \cup Extracted(d).outputs
  PROVE  \/ n \in Tools(d)
         \/ \E i \in DOMAIN d.lines : /\ d.lines[i].name = n.name /\ n.line = d.start + i - 1
                                      /\ d.lines[i].is \in {"heading", "item"}
<1>1. CASE n \in {Capability(d, h) : h \in Sections(d, "capability")}
  <2>1. PICK h \in Sections(d, "capability") : n = Capability(d, h)
    BY <1>1
  <2>2. h \in DOMAIN d.lines /\ d.lines[h].is = "heading"
    BY ShownLines, Lines DEF Sections, Headings
  <2> QED
    BY <2>1, <2>2, CapabilityType
<1>2. CASE n \in {Input(d, p) : p \in Harvest(d, "input")}
  <2>1. PICK p \in Harvest(d, "input") : n = Input(d, p)
    BY <1>2
  <2>2. p[2] \in DOMAIN d.lines /\ d.lines[p[2]].is = "item"
    BY Harvested, Lines
  <2> QED
    BY <2>1, <2>2, InputType
<1>3. CASE n \in {Output(d, p) : p \in Harvest(d, "output")}
  <2>1. PICK p \in Harvest(d, "output") : n = Output(d, p)
    BY <1>3
  <2>2. p[2] \in DOMAIN d.lines /\ d.lines[p[2]].is = "item"
    BY Harvested, Lines
  <2> QED
    BY <2>1, <2>2, OutputType
<1> QED
  BY <1>1, <1>2, <1>3 DEF Extracted

(* LinesTellWhere, for every document: the lines of the frontmatter are      *)
(* counted once, wherever the body begins and whatever the author does.      *)
THEOREM LinesAreRight == Spec => []LinesTellWhere
<1>1. ASSUME SInv PROVE LinesTellWhere
  <2> SUFFICES ASSUME analysis # None, NEW f \in analysis.found, f.line # NoLine
               PROVE  /\ f.line - analysis.on.start + 1 \in DOMAIN analysis.on.lines
                      /\ <<analysis.on.lines[f.line - analysis.on.start + 1].name>> = f.about
    BY DEF LinesTellWhere
  <2>1. PICK d \in Document : analysis = AnalysisOf(d)
    BY <1>1 DEF SInv
  <2>2. analysis.on = d
    BY <2>1, ReportsOn
  <2>3. \A rule : f \notin Error(rule)
    BY DEF Error, Finding
  <2>4. f \in GraphFindings(Extracted(d))
    BY <2>1, <2>3 DEF AnalysisOf
  <2>5. PICK n \in Extracted(d).capabilities \cup Extracted(d).inputs \cup Extracted(d).outputs :
               f.about = <<n.name>> /\ f.line = n.line
    BY <2>4, GraphFindingOf
  <2>6. n \notin Tools(d)
    BY <2>5, ToolType
  <2>7. PICK i \in DOMAIN d.lines : d.lines[i].name = n.name /\ n.line = d.start + i - 1
    BY <2>6, NodesLines
  <2>8. f.line - d.start + 1 = i
    BY <2>5, <2>7, Lines
  <2> QED
    BY <2>2, <2>5, <2>7, <2>8
<1>2. SInv => LinesTellWhere
  BY <1>1
<1> QED
  BY <1>2, SInvariance, PTL
-----------------------------------------------------------------------------

(* The last declaration of a name, and where it is.                         *)
LEMMA LastDeclared ==
  ASSUME NEW d \in Document, NEW class, NEW n, Declared(d, class, n) # {}
  PROVE  /\ Last(Declared(d, class, n)) \in Declared(d, class, n)
         /\ \A q \in Declared(d, class, n) :
               \/ q[1] < Last(Declared(d, class, n))[1]
               \/ q[1] = Last(Declared(d, class, n))[1] /\ q[2] <= Last(Declared(d, class, n))[2]
<1>1. PICK H : H = Declared(d, class, n)
  OBVIOUS
<1>2. \A p \in H : p = <<p[1], p[2]>> /\ p[1] \in 1 .. Len(d.lines) /\ p[2] \in 1 .. Len(d.lines)
  BY <1>1, Harvested DEF Declared
<1>3. Len(d.lines) \in Nat /\ IsFiniteSet(1 .. Len(d.lines))
  BY Lines, FS_Interval
<1> DEFINE F == {p[1] : p \in H}
<1>4. F \in SUBSET (1 .. Len(d.lines)) /\ F # {}
  BY <1>1, <1>2
<1>5. PICK a \in F : \A j \in F : j <= a
  <2>1. F \in SUBSET Int /\ IsFiniteSet(F)
    BY <1>3, <1>4, FS_Subset
  <2> HIDE DEF F
  <2> QED
    BY <1>4, <2>1, Greatest
<1> DEFINE G == {i \in 1 .. Len(d.lines) : <<a, i>> \in H}
<1>6. G # {}
  <2>1. PICK p \in H : p[1] = a
    BY <1>5
  <2>2. p = <<a, p[2]>> /\ p[2] \in 1 .. Len(d.lines)
    BY <1>2, <2>1
  <2> QED
    BY <2>1, <2>2
<1>7. PICK b \in G : \A j \in G : j <= b
  <2>1. G \in SUBSET (1 .. Len(d.lines)) /\ G \in SUBSET Int
    OBVIOUS
  <2>2. IsFiniteSet(G)
    <3> HIDE DEF G
    <3> QED
      BY <1>3, <2>1, FS_Subset
  <2> HIDE DEF G
  <2> QED
    BY <1>6, <2>1, <2>2, Greatest
<1>8. <<a, b>> \in H
  BY <1>7
<1>9. ASSUME NEW q \in H PROVE q[1] < a \/ (q[1] = a /\ q[2] <= b)
  <2>1. q[1] \in F /\ q[1] <= a /\ q[1] \in Int /\ a \in Int
    BY <1>2, <1>4, <1>5
  <2>2. ASSUME q[1] = a PROVE q[2] <= b
    <3>1. q[2] \in G
      BY <1>2, <2>2
    <3> QED
      BY <1>7, <3>1
  <2> QED
    BY <2>1, <2>2
<1>10. \E p \in H : \A q \in H : q[1] < p[1] \/ (q[1] = p[1] /\ q[2] <= p[2])
  <2>1. \A q \in H : q[1] < <<a, b>>[1] \/ (q[1] = <<a, b>>[1] /\ q[2] <= <<a, b>>[2])
    BY <1>9
  <2> QED
    BY <1>8, <2>1
<1>11. PICK l : l = Last(H)
  OBVIOUS
<1>12. l = CHOOSE p \in H : \A q \in H : q[1] < p[1] \/ (q[1] = p[1] /\ q[2] <= p[2])
  BY <1>11, Zenon DEF Last
<1>13. l \in H /\ \A q \in H : q[1] < l[1] \/ (q[1] = l[1] /\ q[2] <= l[2])
  BY <1>10, <1>12
<1> QED
  BY <1>1, <1>11, <1>13

LEMMA NamedAreDeclared ==
  ASSUME NEW d \in Document, NEW n
  PROVE  /\ InputNamed(d, n) \subseteq Extracted(d).inputs
         /\ OutputNamed(d, n) \subseteq Extracted(d).outputs
<1>1. ASSUME NEW class, Declared(d, class, n) # {}
      PROVE  Last(Declared(d, class, n)) \in Harvest(d, class)
  BY <1>1, LastDeclared DEF Declared
<1>2. InputNamed(d, n) \subseteq {Input(d, p) : p \in Harvest(d, "input")} \cup Tools(d)
  BY <1>1 DEF InputNamed
<1>3. OutputNamed(d, n) \subseteq {Output(d, p) : p \in Harvest(d, "output")}
  BY <1>1 DEF OutputNamed
<1> QED
  BY <1>2, <1>3 DEF Extracted

(* The edges of a document, one by one. *)
Requires(d, e) == \E h \in Sections(d, "capability") : \E n \in Quoted(d, h) : \E t \in InputNamed(d, n) :
                     e = [source |-> Capability(d, h).id, target |-> t.id, kind |-> "requires"]
Produces(d, e) == \E h \in Sections(d, "capability") : \E n \in Quoted(d, h) : \E t \in OutputNamed(d, n) :
                     e = [source |-> Capability(d, h).id, target |-> t.id, kind |-> "produces"]

LEMMA EdgesOf ==
  ASSUME NEW d, NEW e
  PROVE  e \in Edges(d) <=> Requires(d, e) \/ Produces(d, e)
BY DEF Edges, Requires, Produces

LEMMA NothingDangles ==
  ASSUME NEW d \in Document, NEW e \in Edges(d)
  PROVE  /\ e.source \in Ids(Extracted(d).capabilities)
         /\ e.target \in Ids(Targets(Extracted(d), e.kind))
<1>1. CASE Requires(d, e)
  <2>1. PICK h \in Sections(d, "capability") : \E n \in Quoted(d, h) : \E x \in InputNamed(d, n) :
               e = [source |-> Capability(d, h).id, target |-> x.id, kind |-> "requires"]
    BY <1>1 DEF Requires
  <2>5. PICK n \in Quoted(d, h) : \E x \in InputNamed(d, n) :
               e = [source |-> Capability(d, h).id, target |-> x.id, kind |-> "requires"]
    BY <2>1
  <2>6. PICK t \in InputNamed(d, n) :
               e = [source |-> Capability(d, h).id, target |-> t.id, kind |-> "requires"]
    BY <2>5
  <2>2. e.source = Capability(d, h).id /\ e.target = t.id /\ e.kind = "requires"
    BY <2>6
  <2>3. Capability(d, h) \in Extracted(d).capabilities
    BY DEF Extracted
  <2>4. t \in Targets(Extracted(d), "requires")
    BY NamedAreDeclared DEF Targets
  <2> QED
    BY <2>2, <2>3, <2>4 DEF Ids
<1>2. CASE Produces(d, e)
  <2>1. PICK h \in Sections(d, "capability") : \E n \in Quoted(d, h) : \E x \in OutputNamed(d, n) :
               e = [source |-> Capability(d, h).id, target |-> x.id, kind |-> "produces"]
    BY <1>2 DEF Produces
  <2>5. PICK n \in Quoted(d, h) : \E x \in OutputNamed(d, n) :
               e = [source |-> Capability(d, h).id, target |-> x.id, kind |-> "produces"]
    BY <2>1
  <2>6. PICK t \in OutputNamed(d, n) :
               e = [source |-> Capability(d, h).id, target |-> t.id, kind |-> "produces"]
    BY <2>5
  <2>2. e.source = Capability(d, h).id /\ e.target = t.id /\ e.kind = "produces"
    BY <2>6
  <2>3. Capability(d, h) \in Extracted(d).capabilities
    BY DEF Extracted
  <2>4. t \in Targets(Extracted(d), "produces")
    BY NamedAreDeclared DEF Targets
  <2> QED
    BY <2>2, <2>3, <2>4 DEF Ids
<1> QED
  BY <1>1, <1>2, EdgesOf
-----------------------------------------------------------------------------

(* Quoting more leaves all of a document but the quotes.                    *)
LEMMA QuotingKeeps ==
  ASSUME NEW d \in Document, NEW e \in Document, MoreQuotes(d, e)
  PROVE  /\ e.start = d.start /\ e.tools = d.tools /\ e.readable = d.readable
         /\ DOMAIN e.lines = DOMAIN d.lines /\ Len(e.lines) = Len(d.lines)
         /\ \A i \in DOMAIN d.lines :
               /\ e.lines[i].is = d.lines[i].is /\ e.lines[i].level = d.lines[i].level
               /\ e.lines[i].name = d.lines[i].name /\ e.lines[i].marks = d.lines[i].marks
               /\ e.lines[i].shown = d.lines[i].shown
               /\ d.lines[i].quotes \subseteq e.lines[i].quotes
<1>1. e = [d EXCEPT !.lines = [i \in DOMAIN d.lines |-> [d.lines[i] EXCEPT !.quotes = e.lines[i].quotes]]]
  BY DEF MoreQuotes
<1>2. /\ e.start = d.start /\ e.tools = d.tools /\ e.readable = d.readable
      /\ e.lines = [i \in DOMAIN d.lines |-> [d.lines[i] EXCEPT !.quotes = e.lines[i].quotes]]
  BY <1>1 DEF Document
<1>3. Len(e.lines) = Len(d.lines) /\ DOMAIN e.lines = DOMAIN d.lines
  BY <1>2, Lines DEF MoreQuotes
<1>4. ASSUME NEW i \in DOMAIN d.lines
      PROVE  /\ e.lines[i].is = d.lines[i].is /\ e.lines[i].level = d.lines[i].level
             /\ e.lines[i].name = d.lines[i].name /\ e.lines[i].marks = d.lines[i].marks
             /\ e.lines[i].shown = d.lines[i].shown
             /\ d.lines[i].quotes \subseteq e.lines[i].quotes
  <2>1. PICK Q : Q = e.lines[i].quotes
    OBVIOUS
  <2>2. e.lines[i] = [d.lines[i] EXCEPT !.quotes = Q]
    BY <1>2, <2>1
  <2>3. d.lines[i] \in Line
    BY Lines
  <2>4. d.lines[i].quotes \subseteq e.lines[i].quotes
    BY DEF MoreQuotes
  <2> QED
    BY <2>2, <2>3, <2>4 DEF Line
<1> QED
  BY <1>2, <1>3, <1>4

LEMMA QuotingStructure ==
  ASSUME NEW d \in Document, NEW e \in Document, MoreQuotes(d, e)
  PROVE  /\ Shown(e) = Shown(d) /\ Headings(e) = Headings(d)
         /\ \A class : Sections(e, class) = Sections(d, class)
         /\ \A h \in Headings(d) : Content(e, h) = Content(d, h)
<1>1. Shown(e) = Shown(d)
  BY QuotingKeeps DEF Shown
<1>2. Headings(e) = Headings(d)
  BY <1>1, QuotingKeeps DEF Headings, Shown
<1>3. ASSUME NEW h \in Headings(d) PROVE Class(e.lines[h]) = Class(d.lines[h])
  <2>1. e.lines[h].marks = d.lines[h].marks
    BY QuotingKeeps DEF Headings, Shown
  <2> QED
    BY <2>1 DEF Class
<1>4. ASSUME NEW class PROVE Sections(e, class) = Sections(d, class)
  BY <1>2, <1>3 DEF Sections
<1>5. ASSUME NEW h \in Headings(d) PROVE Content(e, h) = Content(d, h)
  <2>1. PICK S : S = Shown(d)
    OBVIOUS
  <2>2. PICK H : H = Headings(d)
    OBVIOUS
  <2>3. Content(d, h) = {i \in S : i > h /\ \A g \in H : h < g /\ g <= i => d.lines[g].level > d.lines[h].level}
    BY <2>1, <2>2 DEF Content
  <2>4. Content(e, h) = {i \in S : i > h /\ \A g \in H : h < g /\ g <= i => e.lines[g].level > e.lines[h].level}
    BY <1>1, <1>2, <2>1, <2>2 DEF Content
  <2>5. \A g \in H : e.lines[g].level = d.lines[g].level
    BY <2>2, QuotingKeeps DEF Headings, Shown
  <2>6. e.lines[h].level = d.lines[h].level
    BY <2>2, <2>5
  <2> QED
    BY <2>3, <2>4, <2>5, <2>6
<1> QED
  BY <1>1, <1>2, <1>4, <1>5

LEMMA QuotingNodes ==
  ASSUME NEW d \in Document, NEW e \in Document, MoreQuotes(d, e)
  PROVE  /\ \A class : Harvest(e, class) = Harvest(d, class)
         /\ \A h \in Sections(d, "capability") : Capability(e, h) = Capability(d, h)
         /\ \A p \in Harvest(d, "input") : Input(e, p) = Input(d, p)
         /\ \A p \in Harvest(d, "output") : Output(e, p) = Output(d, p)
         /\ Tools(e) = Tools(d)
         /\ \A n : InputNamed(e, n) = InputNamed(d, n) /\ OutputNamed(e, n) = OutputNamed(d, n)
         /\ \A h \in Sections(d, "capability") : Quoted(d, h) \subseteq Quoted(e, h)
<1>1. /\ Shown(e) = Shown(d) /\ Shown(d) \subseteq DOMAIN d.lines
      /\ \A class : Sections(e, class) = Sections(d, class) /\ Sections(d, class) \subseteq Headings(d)
      /\ \A h \in Headings(d) : Content(e, h) = Content(d, h) /\ Content(d, h) \subseteq Shown(d)
      /\ Headings(d) \subseteq Shown(d)
  <2>1. /\ Shown(d) \subseteq DOMAIN d.lines /\ Headings(d) \subseteq Shown(d)
        /\ \A class : Sections(d, class) \subseteq Headings(d)
        /\ \A h : Content(d, h) \subseteq Shown(d)
    BY DEF Shown, Sections, Content, Headings
  <2> QED
    BY <2>1, QuotingStructure
<1>2. \A i \in Shown(d) :
         /\ e.lines[i].is = d.lines[i].is /\ e.lines[i].name = d.lines[i].name
         /\ e.lines[i].marks = d.lines[i].marks /\ d.lines[i].quotes \subseteq e.lines[i].quotes
  BY <1>1, QuotingKeeps
<1>3. e.start = d.start /\ Tools(e) = Tools(d)
  BY QuotingKeeps DEF Tools
<1>4. ASSUME NEW class PROVE Harvest(e, class) = Harvest(d, class)
  <2>1. PICK S : S = Sections(d, class)
    OBVIOUS
  <2>2. Harvest(d, class) = {p \in S \X Shown(d) : p[2] \in Content(d, p[1]) /\ d.lines[p[2]].is = "item"}
    BY <2>1 DEF Harvest
  <2>3. Harvest(e, class) = {p \in S \X Shown(d) : p[2] \in Content(e, p[1]) /\ e.lines[p[2]].is = "item"}
    BY <1>1, <2>1 DEF Harvest
  <2>4. ASSUME NEW p \in S \X Shown(d)
        PROVE  Content(e, p[1]) = Content(d, p[1]) /\ e.lines[p[2]].is = d.lines[p[2]].is
    <3>1. p[1] \in Headings(d) /\ p[2] \in Shown(d)
      BY <1>1, <2>1
    <3> QED
      BY <3>1, <1>1, <1>2
  <2> QED
    BY <2>2, <2>3, <2>4
<1>5. ASSUME NEW h \in Sections(d, "capability")
      PROVE  Capability(e, h) = Capability(d, h) /\ Quoted(d, h) \subseteq Quoted(e, h)
  <2>1. Content(e, h) = Content(d, h) /\ Content(d, h) \subseteq Shown(d) /\ h \in Shown(d)
    BY <1>1
  <2>2. Described(e, h) = Described(d, h)
    BY <2>1, <1>2 DEF Described
  <2>3. e.lines[h].name = d.lines[h].name
    BY <2>1, <1>2
  <2>4. Capability(e, h) = Capability(d, h)
    BY <1>3, <2>2, <2>3 DEF Capability, At
  <2>5. Quoted(d, h) \subseteq Quoted(e, h)
    BY <2>1, <1>2 DEF Quoted
  <2> QED
    BY <2>4, <2>5
<1>6. ASSUME NEW class, NEW p \in Harvest(d, class)
      PROVE  /\ p[2] \in Shown(d) /\ e.lines[p[2]].name = d.lines[p[2]].name
             /\ e.lines[p[2]].marks = d.lines[p[2]].marks
  BY <1>2 DEF Harvest
<1>7. ASSUME NEW p \in Harvest(d, "input") PROVE Input(e, p) = Input(d, p)
  BY <1>3, <1>6 DEF Input, InputKind, At
<1>8. ASSUME NEW p \in Harvest(d, "output") PROVE Output(e, p) = Output(d, p)
  BY <1>3, <1>6 DEF Output, OutputKind, At
<1>9. ASSUME NEW class, NEW n PROVE Declared(e, class, n) = Declared(d, class, n)
  BY <1>4, <1>6 DEF Declared
<1>10. ASSUME NEW n, Declared(d, "input", n) # {}
       PROVE  Input(e, Last(Declared(d, "input", n))) = Input(d, Last(Declared(d, "input", n)))
  <2>1. Last(Declared(d, "input", n)) \in Harvest(d, "input")
    BY <1>10, LastDeclared DEF Declared
  <2> QED
    BY <2>1, <1>7
<1>11. ASSUME NEW n, Declared(d, "output", n) # {}
       PROVE  Output(e, Last(Declared(d, "output", n))) = Output(d, Last(Declared(d, "output", n)))
  <2>1. Last(Declared(d, "output", n)) \in Harvest(d, "output")
    BY <1>11, LastDeclared DEF Declared
  <2> QED
    BY <2>1, <1>8
<1>12. ASSUME NEW n PROVE InputNamed(e, n) = InputNamed(d, n)
  BY <1>3, <1>9, <1>10 DEF InputNamed
<1>13. ASSUME NEW n PROVE OutputNamed(e, n) = OutputNamed(d, n)
  BY <1>9, <1>11 DEF OutputNamed
<1> QED
  BY <1>3, <1>4, <1>5, <1>7, <1>8, <1>12, <1>13

(* So the graph has the same nodes, at least the same edges, and is within  *)
(* the limits and consistent whenever it was so before.                     *)
LEMMA QuotingGraph ==
  ASSUME NEW d \in Document, NEW e \in Document, MoreQuotes(d, e)
  PROVE  /\ Extracted(e).capabilities = Extracted(d).capabilities
         /\ Extracted(e).inputs = Extracted(d).inputs
         /\ Extracted(e).outputs = Extracted(d).outputs
         /\ Extracted(d).edges \subseteq Extracted(e).edges
         /\ OverBudget(e) <=> OverBudget(d)
         /\ Consistent(Extracted(e)) <=> Consistent(Extracted(d))
<1>1. /\ \A class : Sections(e, class) = Sections(d, class) /\ Harvest(e, class) = Harvest(d, class)
      /\ Headings(e) = Headings(d) /\ Tools(e) = Tools(d) /\ e.tools = d.tools
      /\ Len(e.lines) = Len(d.lines)
      /\ \A h \in Headings(d) : e.lines[h].level = d.lines[h].level
  <2>1. Headings(d) \subseteq DOMAIN d.lines
    BY DEF Headings, Shown
  <2> QED
    BY <2>1, QuotingKeeps, QuotingStructure, QuotingNodes
<1>2. OverBudget(e) <=> OverBudget(d)
  <2>1. {h \in Headings(e) : e.lines[h].level <= 6} = {h \in Headings(d) : d.lines[h].level <= 6}
    BY <1>1
  <2>2. /\ Sections(e, "capability") = Sections(d, "capability")
        /\ Harvest(e, "input") = Harvest(d, "input") /\ Harvest(e, "output") = Harvest(d, "output")
        /\ e.tools = d.tools /\ Len(e.lines) = Len(d.lines)
    BY <1>1
  <2> QED
    BY <2>1, <2>2, Zenon DEF OverBudget
<1>3. /\ {Capability(e, h) : h \in Sections(e, "capability")}
           = {Capability(d, h) : h \in Sections(d, "capability")}
      /\ {Input(e, p) : p \in Harvest(e, "input")} = {Input(d, p) : p \in Harvest(d, "input")}
      /\ {Output(e, p) : p \in Harvest(e, "output")} = {Output(d, p) : p \in Harvest(d, "output")}
  BY <1>1, QuotingNodes
<1>4. /\ Extracted(e).capabilities = Extracted(d).capabilities
      /\ Extracted(e).inputs = Extracted(d).inputs
      /\ Extracted(e).outputs = Extracted(d).outputs
      /\ Extracted(e).edges = Edges(e) /\ Extracted(d).edges = Edges(d)
  BY <1>1, <1>3 DEF Extracted
<1>5. ASSUME NEW x \in Edges(d) PROVE x \in Edges(e)
  <2>1. Requires(d, x) => Requires(e, x)
    BY <1>1, QuotingNodes DEF Requires
  <2>2. Produces(d, x) => Produces(e, x)
    BY <1>1, QuotingNodes DEF Produces
  <2> QED
    BY <2>1, <2>2, EdgesOf
<1>6. Consistent(Extracted(e)) <=> Consistent(Extracted(d))
  <2>1. /\ \A x \in Extracted(d).edges : /\ x.source \in Ids(Extracted(d).capabilities)
                                         /\ x.target \in Ids(Targets(Extracted(d), x.kind))
        /\ \A x \in Extracted(e).edges : /\ x.source \in Ids(Extracted(e).capabilities)
                                         /\ x.target \in Ids(Targets(Extracted(e), x.kind))
    BY <1>4, NothingDangles
  <2> QED
    BY <1>4, <2>1 DEF Consistent
<1> QED
  BY <1>2, <1>4, <1>5, <1>6

(* Each warning is about what no edge touches, so edges only silence. *)
LEMMA EdgesSilence ==
  ASSUME NEW g, NEW h, h.capabilities = g.capabilities, h.inputs = g.inputs,
         h.outputs = g.outputs, g.edges \subseteq h.edges
  PROVE  GraphFindings(h) \subseteq GraphFindings(g)
<1>1. ASSUME NEW rule, NEW S, NEW T, S \subseteq T PROVE Warn(rule, S) \subseteq Warn(rule, T)
  BY <1>1 DEF Warn
<1>2. \A S, kind : Unused(h, S, kind) \subseteq Unused(g, S, kind)
  BY DEF Unused
<1>3. Orphaned(h) \subseteq Orphaned(g)
  <2>1. {c \in h.capabilities : \A e \in h.edges : e.source # c.id}
          \subseteq {c \in g.capabilities : \A e \in g.edges : e.source # c.id}
    OBVIOUS
  <2> QED
    BY <1>1, <2>1 DEF Orphaned
<1>4. UnusedInputs(h) \subseteq UnusedInputs(g)
  <2>1. {n \in Unused(h, h.inputs, "requires") : n.line # NoLine}
          \subseteq {n \in Unused(g, g.inputs, "requires") : n.line # NoLine}
    BY <1>2
  <2> QED
    BY <1>1, <2>1 DEF UnusedInputs
<1>5. UnproducedOutputs(h) \subseteq UnproducedOutputs(g)
  BY <1>1, <1>2 DEF UnproducedOutputs
<1>6. EmptyDescriptions(h) = EmptyDescriptions(g)
  BY DEF EmptyDescriptions
<1>7. UnreferencedTools(h) \subseteq UnreferencedTools(g)
  <2>1. {n \in Unused(h, h.inputs, "requires") : n.kind = "tool" /\ n.line = NoLine}
          \subseteq {n \in Unused(g, g.inputs, "requires") : n.kind = "tool" /\ n.line = NoLine}
    BY <1>2
  <2> QED
    BY <1>1, <2>1 DEF UnreferencedTools
<1> QED
  BY <1>3, <1>4, <1>5, <1>6, <1>7 DEF GraphFindings

(* ReferencesOnlySilence, as an action property of every behaviour: quoting *)
(* one more name in the text never brings a finding.                        *)
THEOREM QuotingOnlySilences == Spec => ReferencesOnlySilence
<1>1. ASSUME SInv, SInv', analysis # None, analysis' # None, MoreQuotes(analysis.on, analysis'.on)
      PROVE  analysis'.found \subseteq analysis.found
  <2>1. PICK d \in Document : analysis = AnalysisOf(d)
    BY <1>1 DEF SInv
  <2>2. \E e \in Document : analysis' = AnalysisOf(e)
    BY <1>1 DEF SInv
  <2>3. PICK e \in Document : analysis' = AnalysisOf(e)
    BY <2>2
  <2>4. MoreQuotes(d, e)
    BY <1>1, <2>1, <2>3, ReportsOn
  <2>5. /\ e.readable = d.readable
        /\ OverBudget(e) <=> OverBudget(d)
        /\ Consistent(Extracted(e)) <=> Consistent(Extracted(d))
    BY <2>4, QuotingKeeps, QuotingGraph
  <2>6. GraphFindings(Extracted(e)) \subseteq GraphFindings(Extracted(d))
    BY <2>4, QuotingGraph, EdgesSilence
  <2>7. AnalysisOf(e).found \subseteq AnalysisOf(d).found
    BY <2>5, <2>6 DEF AnalysisOf
  <2> QED
    BY <2>1, <2>3, <2>7
<1>2. SInv /\ SInv' =>
        [analysis # None /\ analysis' # None /\ MoreQuotes(analysis.on, analysis'.on)
         => analysis'.found \subseteq analysis.found]_vars
  BY <1>1
<1> QED
  BY <1>2, SInvariance, PTL DEF ReferencesOnlySilence
-----------------------------------------------------------------------------

(* The constructor's check of the ids, for sets that are finite. *)
LEMMA DistinctIds ==
  ASSUME NEW S, IsFiniteSet(S)
  PROVE  Cardinality(Ids(S)) = Cardinality(S) <=> \A m, n \in S : m.id = n.id => m = n
<1> DEFINE f == [n \in S |-> n.id]
<1>1. f \in Surjection(S, Ids(S))
  BY DEF Surjection, Ids
<1>2. Cardinality(Ids(S)) = Cardinality(S) <=> f \in Injection(S, Ids(S))
  <2> HIDE DEF f
  <2> QED
    BY <1>1, FS_Surjection
<1>3. f \in Injection(S, Ids(S)) <=> \A m, n \in S : m.id = n.id => m = n
  <2>1. f \in [S -> Ids(S)]
    BY DEF Ids
  <2>2. \A n \in S : f[n] = n.id
    OBVIOUS
  <2> HIDE DEF f
  <2> QED
    BY <2>1, <2>2 DEF Injection, IsInjective
<1> QED
  BY <1>2, <1>3

LEMMA FiniteImage ==
  ASSUME NEW S, IsFiniteSet(S), NEW f, f = [x \in S |-> f[x]]
  PROVE  /\ IsFiniteSet({f[x] : x \in S})
         /\ Cardinality({f[x] : x \in S}) <= Cardinality(S)
<1>1. PICK T : T = {f[x] : x \in S}
  OBVIOUS
<1>2. f \in Surjection(S, T)
  BY <1>1 DEF Surjection
<1> QED
  BY <1>1, <1>2, FS_Surjection

LEMMA FiniteParts ==
  ASSUME NEW d, Text1(d)
  PROVE  /\ \A class : IsFiniteSet(Sections(d, class)) /\ IsFiniteSet(Harvest(d, class))
         /\ IsFiniteSet(Extracted(d).capabilities) /\ IsFiniteSet(Extracted(d).inputs)
         /\ IsFiniteSet(Extracted(d).outputs)
<1>0. d \in Document /\ IsFiniteSet(d.tools)
  BY DEF Text1
<1>1. Len(d.lines) \in Nat /\ IsFiniteSet(1 .. Len(d.lines))
  BY <1>0, Lines, FS_Interval
<1>2. ASSUME NEW class PROVE IsFiniteSet(Sections(d, class))
  <2>1. Sections(d, class) \in SUBSET (1 .. Len(d.lines))
    BY <1>0, ShownLines
  <2> QED
    BY <1>1, <2>1, FS_Subset
<1>3. ASSUME NEW class PROVE IsFiniteSet(Harvest(d, class))
  <2>1. IsFiniteSet((1 .. Len(d.lines)) \X (1 .. Len(d.lines)))
    BY <1>1, FS_Product
  <2>2. Harvest(d, class) \in SUBSET ((1 .. Len(d.lines)) \X (1 .. Len(d.lines)))
    BY <1>0, ShownLines DEF Harvest
  <2> QED
    BY <2>1, <2>2, FS_Subset
<1>4. ASSUME NEW S, IsFiniteSet(S), NEW f, f = [x \in S |-> f[x]] PROVE IsFiniteSet({f[x] : x \in S})
  BY <1>4, FiniteImage
<1>5. IsFiniteSet({Capability(d, h) : h \in Sections(d, "capability")})
  <2>1. PICK f : f = [h \in Sections(d, "capability") |-> Capability(d, h)]
    OBVIOUS
  <2>2. {f[h] : h \in Sections(d, "capability")} = {Capability(d, h) : h \in Sections(d, "capability")}
    BY <2>1
  <2>3. f = [x \in Sections(d, "capability") |-> f[x]]
    BY <2>1
  <2>4. IsFiniteSet(Sections(d, "capability"))
    BY <1>2
  <2>5. IsFiniteSet({f[h] : h \in Sections(d, "capability")})
    BY <2>3, <2>4, FiniteImage
  <2> QED
    BY <2>2, <2>5
<1>6. IsFiniteSet({Input(d, p) : p \in Harvest(d, "input")})
  <2>1. PICK f : f = [p \in Harvest(d, "input") |-> Input(d, p)]
    OBVIOUS
  <2>2. {f[p] : p \in Harvest(d, "input")} = {Input(d, p) : p \in Harvest(d, "input")}
    BY <2>1
  <2>3. f = [x \in Harvest(d, "input") |-> f[x]]
    BY <2>1
  <2> QED
    BY <1>3, <1>4, <2>2, <2>3
<1>7. IsFiniteSet({Output(d, p) : p \in Harvest(d, "output")})
  <2>1. PICK f : f = [p \in Harvest(d, "output") |-> Output(d, p)]
    OBVIOUS
  <2>2. {f[p] : p \in Harvest(d, "output")} = {Output(d, p) : p \in Harvest(d, "output")}
    BY <2>1
  <2>3. f = [x \in Harvest(d, "output") |-> f[x]]
    BY <2>1
  <2> QED
    BY <1>3, <1>4, <2>2, <2>3
<1>8. IsFiniteSet(Tools(d))
  <2>1. PICK f : f = [n \in d.tools |-> Make("tool", n, NoLine, 0, TRUE)]
    OBVIOUS
  <2>2. {f[n] : n \in d.tools} = Tools(d)
    BY <2>1 DEF Tools
  <2>3. f = [x \in d.tools |-> f[x]]
    BY <2>1
  <2> QED
    BY <1>0, <1>4, <2>2, <2>3
<1>9. IsFiniteSet({Input(d, p) : p \in Harvest(d, "input")} \cup Tools(d))
  BY <1>6, <1>8, FS_Union
<1> QED
  BY <1>2, <1>3, <1>5, <1>7, <1>9 DEF Extracted

(* In a consistent graph the id tells the node, and no item is declared in
   two sections. *)
LEMMA IdsTell ==
  ASSUME NEW d, Text1(d), Consistent(Extracted(d))
  PROVE  /\ \A m, n \in Extracted(d).capabilities : m.id = n.id => m = n
         /\ \A m, n \in Extracted(d).inputs : m.id = n.id => m = n
         /\ \A m, n \in Extracted(d).outputs : m.id = n.id => m = n
         /\ \A m \in Extracted(d).inputs, n \in Extracted(d).outputs : m.id # n.id
<1>1. /\ Cardinality(Ids(Extracted(d).capabilities)) = Cardinality(Extracted(d).capabilities)
      /\ Cardinality(Ids(Extracted(d).inputs)) = Cardinality(Extracted(d).inputs)
      /\ Cardinality(Ids(Extracted(d).outputs)) = Cardinality(Extracted(d).outputs)
      /\ Ids(Extracted(d).inputs) \cap Ids(Extracted(d).outputs) = {}
  BY DEF Consistent
<1>2. \A m \in Extracted(d).inputs, n \in Extracted(d).outputs : m.id # n.id
  BY <1>1 DEF Ids
<1> QED
  BY <1>1, <1>2, FiniteParts, DistinctIds

LEMMA OneSection ==
  ASSUME NEW d, Text1(d), Consistent(Extracted(d)), NEW class \in {"input", "output"},
         NEW p \in Harvest(d, class), NEW q \in Harvest(d, class), p[2] = q[2]
  PROVE  p = q
<1>0. d \in Document
  BY DEF Text1
<1>1. CASE class = "input"
  <2>1. Input(d, p) \in Extracted(d).inputs /\ Input(d, q) \in Extracted(d).inputs
    BY <1>1 DEF Extracted
  <2>2. Input(d, p).id = Input(d, q).id
    BY <1>0, <1>1, InputType
  <2>3. Input(d, p) = Input(d, q)
    BY <2>1, <2>2, IdsTell
  <2>4. p[1] = q[1]
    BY <1>0, <1>1, <2>3, InputType
  <2> QED
    BY <1>0, <2>4, Harvested
<1>2. CASE class = "output"
  <2>1. Output(d, p) \in Extracted(d).outputs /\ Output(d, q) \in Extracted(d).outputs
    BY <1>2 DEF Extracted
  <2>2. Output(d, p).id = Output(d, q).id
    BY <1>0, <1>2, OutputType
  <2>3. Output(d, p) = Output(d, q)
    BY <2>1, <2>2, IdsTell
  <2>4. p[1] = q[1]
    BY <1>0, <1>2, <2>3, OutputType
  <2> QED
    BY <1>0, <2>4, Harvested
<1> QED
  BY <1>1, <1>2

(* So the last declaration, by section and line, is the one furthest down. *)
LEMMA LastIsFurthest ==
  ASSUME NEW d, Text1(d), Consistent(Extracted(d)), NEW class \in {"input", "output"}, NEW n,
         NEW p \in Declared(d, class, n)
  PROVE  LET l == Last(Declared(d, class, n)) IN
         /\ l \in Declared(d, class, n)
         /\ p = l \/ p[2] < l[2]
<1>0. d \in Document
  BY DEF Text1
<1>1. PICK l : l = Last(Declared(d, class, n))
  OBVIOUS
<1>2. /\ l \in Declared(d, class, n)
      /\ p[1] < l[1] \/ (p[1] = l[1] /\ p[2] <= l[2])
  BY <1>0, <1>1, LastDeclared
<1>3. p \in Harvest(d, class) /\ l \in Harvest(d, class)
  BY <1>2 DEF Declared
<1>4. /\ p = <<p[1], p[2]>> /\ l = <<l[1], l[2]>>
      /\ p[1] \in Nat /\ p[2] \in Nat /\ l[1] \in Nat /\ l[2] \in Nat
      /\ l[1] < l[2]
  BY <1>0, <1>3, Harvested
<1>5. CASE p[1] = l[1]
  <2>1. p[2] < l[2] \/ p[2] = l[2]
    BY <1>2, <1>4, <1>5
  <2>2. p[2] = l[2] => p = l
    BY <1>4, <1>5, Zenon
  <2> QED
    BY <1>1, <1>2, <2>1, <2>2
<1>6. CASE p[1] < l[1]
  <2> SUFFICES ASSUME ~(p[2] < l[2]) PROVE FALSE
    BY <1>1, <1>2
  <2>1. l[2] <= p[2]
    BY <1>4
  <2>2. p[2] \in Content(d, p[1]) /\ l[2] \in Shown(d) /\ d.lines[l[2]].is = "item"
        /\ p[1] \in Sections(d, class)
    BY <1>3 DEF Harvest
  <2>3. l[2] > p[1]
    BY <1>4, <1>6
  <2>4. ASSUME NEW g \in Headings(d), p[1] < g, g <= l[2]
        PROVE  d.lines[g].level > d.lines[p[1]].level
    <3>1. g \in Nat
      BY <1>0, ShownLines
    <3>2. g <= p[2]
      BY <2>1, <2>4, <3>1, <1>4
    <3> QED
      BY <2>2, <2>4, <3>2 DEF Content
  <2>5. l[2] \in Content(d, p[1])
    BY <2>2, <2>3, <2>4 DEF Content
  <2>6. <<p[1], l[2]>> \in Harvest(d, class)
    BY <2>2, <2>5 DEF Harvest
  <2>7. <<p[1], l[2]>> = l
    BY <1>3, <2>6, OneSection
  <2> QED
    BY <1>4, <1>6, <2>7
<1> QED
  BY <1>1, <1>2, <1>4, <1>5, <1>6

LEMMA IndexIs ==
  ASSUME NEW S, NEW n, NEW t \in S, t.name = n, t.line \in Int,
         \A y \in S : y.name = n => y.line \in Int /\ (y = t \/ y.line < t.line)
  PROVE  Index(S, n) = t
<1>1. \E x \in S : x.name = n /\ \A y \in S : y.name = n => y.line <= x.line
  <2>1. \A y \in S : y.name = n => y.line <= t.line
    OBVIOUS
  <2> QED
    BY <2>1
<1>2. PICK c : c = Index(S, n)
  OBVIOUS
<1>3. c = CHOOSE x \in S : x.name = n /\ \A y \in S : y.name = n => y.line <= x.line
  BY <1>2, Zenon DEF Index
<1>4. c \in S /\ c.name = n /\ \A y \in S : y.name = n => y.line <= c.line
  BY <1>1, <1>3
<1>5. t.line <= c.line /\ (c = t \/ c.line < t.line) /\ c.line \in Int
  BY <1>4
<1> QED
  BY <1>2, <1>5

(* What a quoted name refers to is what the comparison with an answer looks up. *)
LEMMA NamedIsIndexed ==
  ASSUME NEW d, Text1(d), Consistent(Extracted(d)), NEW n
  PROVE  /\ HasName(Extracted(d).inputs, n) =>
               InputNamed(d, n) = {Index(Extracted(d).inputs, n)}
         /\ HasName(Extracted(d).outputs, n) =>
               OutputNamed(d, n) = {Index(Extracted(d).outputs, n)}
<1>0. d \in Document /\ d.start \in Nat \ {0}
  BY Lines DEF Text1
<1>1. Extracted(d).inputs = {Input(d, p) : p \in Harvest(d, "input")} \cup Tools(d)
  BY DEF Extracted
<1>2. Extracted(d).outputs = {Output(d, p) : p \in Harvest(d, "output")}
  BY DEF Extracted
<1>3. ASSUME Declared(d, "input", n) # {}
      PROVE  InputNamed(d, n) = {Index(Extracted(d).inputs, n)}
  <2>1. PICK l : l = Last(Declared(d, "input", n))
    OBVIOUS
  <2>2. l \in Declared(d, "input", n)
    BY <1>0, <1>3, <2>1, LastDeclared
  <2>3. l \in Harvest(d, "input") /\ d.lines[l[2]].name = n
    BY <2>2 DEF Declared
  <2>4. /\ Input(d, l) \in Extracted(d).inputs /\ Input(d, l).name = n
        /\ Input(d, l).line = d.start + l[2] - 1 /\ l[2] \in Nat \ {0}
    BY <1>0, <1>1, <2>3, InputType, Harvested
  <2>5. ASSUME NEW y \in Extracted(d).inputs, y.name = n
        PROVE  y.line \in Int /\ (y = Input(d, l) \/ y.line < Input(d, l).line)
    <3>1. CASE y \in Tools(d)
      <4>1. y.line = -1
        BY <1>0, <3>1, ToolType DEF NoLine
      <4> QED
        BY <1>0, <2>4, <4>1
    <3>2. CASE y \in {Input(d, p) : p \in Harvest(d, "input")}
      <4>1. PICK p \in Harvest(d, "input") : y = Input(d, p)
        BY <3>2
      <4>2. y.line = d.start + p[2] - 1 /\ d.lines[p[2]].name = n /\ p[2] \in Nat
        BY <1>0, <2>5, <4>1, InputType, Harvested
      <4>3. p \in Declared(d, "input", n)
        BY <4>2 DEF Declared
      <4>4. p = l \/ p[2] < l[2]
        BY <2>1, <4>3, LastIsFurthest
      <4> QED
        BY <1>0, <2>4, <4>1, <4>2, <4>4
    <3> QED
      BY <1>1, <3>1, <3>2
  <2>6. Input(d, l).line \in Int
    BY <1>0, <2>4
  <2>7. Index(Extracted(d).inputs, n) = Input(d, l)
    BY <2>4, <2>5, <2>6, IndexIs
  <2> QED
    BY <1>3, <2>1, <2>7 DEF InputNamed
<1>4. ASSUME Declared(d, "input", n) = {}, HasName(Extracted(d).inputs, n)
      PROVE  InputNamed(d, n) = {Index(Extracted(d).inputs, n)}
  <2>1. PICK x \in Extracted(d).inputs : x.name = n
    BY <1>4 DEF HasName
  <2>2. \A y \in Extracted(d).inputs : y.name = n => y \in Tools(d)
    <3>1. ASSUME NEW p \in Harvest(d, "input") PROVE Input(d, p).name # n
      <4>1. p \notin Declared(d, "input", n)
        BY <1>4
      <4> QED
        BY <1>0, <4>1, InputType DEF Declared
    <3> QED
      BY <1>1, <3>1
  <2>3. \A y \in Tools(d) : y.name = n => y = x
    BY <1>0, <2>1, <2>2, ToolType
  <2>4. x.line \in Int
    BY <1>0, <2>1, <2>2, ToolType DEF NoLine
  <2>5. Index(Extracted(d).inputs, n) = x
    BY <2>1, <2>2, <2>3, <2>4, IndexIs
  <2>6. {t \in Tools(d) : t.name = n} = {x}
    BY <2>1, <2>2, <2>3
  <2> QED
    BY <1>4, <2>5, <2>6 DEF InputNamed
<1>5. ASSUME HasName(Extracted(d).outputs, n)
      PROVE  OutputNamed(d, n) = {Index(Extracted(d).outputs, n)}
  <2>0. Declared(d, "output", n) # {}
    <3>1. PICK p \in Harvest(d, "output") : Output(d, p).name = n
      BY <1>2, <1>5 DEF HasName
    <3>2. p \in Declared(d, "output", n)
      BY <1>0, <3>1, OutputType DEF Declared
    <3> QED
      BY <3>2
  <2>1. PICK l : l = Last(Declared(d, "output", n))
    OBVIOUS
  <2>2. l \in Declared(d, "output", n)
    BY <1>0, <2>0, <2>1, LastDeclared
  <2>3. l \in Harvest(d, "output") /\ d.lines[l[2]].name = n
    BY <2>2 DEF Declared
  <2>4. /\ Output(d, l) \in Extracted(d).outputs /\ Output(d, l).name = n
        /\ Output(d, l).line = d.start + l[2] - 1 /\ l[2] \in Nat \ {0}
    BY <1>0, <1>2, <2>3, OutputType, Harvested
  <2>5. ASSUME NEW y \in Extracted(d).outputs, y.name = n
        PROVE  y.line \in Int /\ (y = Output(d, l) \/ y.line < Output(d, l).line)
    <3>1. PICK p \in Harvest(d, "output") : y = Output(d, p)
      BY <1>2
    <3>2. y.line = d.start + p[2] - 1 /\ d.lines[p[2]].name = n /\ p[2] \in Nat
      BY <1>0, <2>5, <3>1, OutputType, Harvested
    <3>3. p \in Declared(d, "output", n)
      BY <3>2 DEF Declared
    <3>4. p = l \/ p[2] < l[2]
      BY <2>1, <3>3, LastIsFurthest
    <3> QED
      BY <1>0, <2>4, <3>1, <3>2, <3>4
  <2>6. Output(d, l).line \in Int
    BY <1>0, <2>4
  <2>7. Index(Extracted(d).outputs, n) = Output(d, l)
    BY <2>4, <2>5, <2>6, IndexIs
  <2> QED
    BY <2>0, <2>1, <2>7 DEF OutputNamed
<1> QED
  BY <1>3, <1>4, <1>5

LEMMA IndexIn ==
  ASSUME NEW S \in SUBSET Node, IsFiniteSet(S), NEW n, HasName(S, n)
  PROVE  Index(S, n) \in S /\ Index(S, n).name = n
<1> DEFINE N == {x \in S : x.name = n}
           L == {x.line : x \in N}
<1>1. IsFiniteSet(L)
  <2>1. IsFiniteSet(N)
    <3>1. N \in SUBSET S
      OBVIOUS
    <3> HIDE DEF N
    <3> QED
      BY <3>1, FS_Subset
  <2>2. PICK f : f = [x \in N |-> x.line]
    OBVIOUS
  <2>3. f = [x \in N |-> f[x]] /\ {f[x] : x \in N} = L
    BY <2>2
  <2> HIDE DEF L, N
  <2> QED
    BY <2>1, <2>3, FiniteImage
<1>2. L \in SUBSET Int /\ L # {}
  BY DEF Node, HasName
<1>3. PICK m \in L : \A j \in L : j <= m
  <2> HIDE DEF L
  <2> QED
    BY <1>1, <1>2, Greatest
<1>4. PICK y \in N : y.line = m
  BY <1>3
<1>5. \E x \in S : x.name = n /\ \A z \in S : z.name = n => z.line <= x.line
  <2>1. \A z \in S : z.name = n => z.line \in L
    OBVIOUS
  <2>2. y \in S /\ y.name = n /\ \A z \in S : z.name = n => z.line <= y.line
    BY <1>3, <1>4, <2>1
  <2> QED
    BY <2>2
<1>6. PICK c : c = Index(S, n)
  OBVIOUS
<1>7. c = CHOOSE x \in S : x.name = n /\ \A z \in S : z.name = n => z.line <= x.line
  BY <1>6, Zenon DEF Index
<1>8. c \in S /\ c.name = n
  BY <1>5, <1>7
<1> QED
  BY <1>6, <1>8

(* ContradictionsAreReal, for every document and whatever an agent answers. *)
THEOREM ContradictionsHold == Spec => []ContradictionsAreReal
<1>1. ASSUME NEW d, Text1(d), NEW r, NEW f \in GraphReviewOf(d, r).found,
             f.rule = "graph.contradiction.heuristic_disagreement"
      PROVE  /\ Consistent(Extracted(d))
             /\ f \in Disagreements(Placed(d, Carried(r)), Extracted(d))
  <2>1. /\ f \notin Error("parse.error") /\ f \notin Error("semantic.ingest.graph_parse_error")
        /\ f \notin {} /\ f \notin GraphFindings(Placed(d, Carried(r)))
    BY <1>1, GraphFindingOf DEF Error, Finding
  <2> QED
    BY <1>1, <2>1 DEF GraphReviewOf
<1>2. ASSUME NEW d, NEW r, NEW f \in CritiqueReviewOf(d, r).found
      PROVE  f.rule # "graph.contradiction.heuristic_disagreement"
  <2>1. CASE ~CritiqueAccepted(r) \/ ~d.readable \/ ~Readable(r)
    BY <1>2, <2>1 DEF CritiqueReviewOf, Error, Finding
  <2>2. CASE CritiqueAccepted(r) /\ f \in CritiqueFindings(d, r)
    <3>1. CASE f \in UNION {Score(a, r.scores[a]) : a \in Aspects}
      <4>1. PICK a \in Aspects : f \in Score(a, r.scores[a])
        BY <3>1
      <4>2. f.rule = Low[a]
        BY <4>1 DEF Score, Finding
      <4> QED
        BY <4>2 DEF Low, Aspects
    <3>2. CASE f \in {Finding("semantic.context.missing", "warning", <<n>>, NoLine) : n \in Values(r.missing)}
      BY <3>2 DEF Finding
    <3>3. CASE f \in {Finding("semantic.contradiction.detected", "error", <<x.a, x.b>>, NoLine) :
                        x \in Values(r.contradictions)}
      BY <3>3 DEF Finding
    <3>4. CASE f \in {Finding(Observed[x.severity], x.severity, <<x.section>>, SectionLine(d, x.section)) :
                        x \in Values(r.findings)}
      <4>1. PICK x \in Values(r.findings) : f.rule = Observed[x.severity]
        BY <3>4 DEF Finding
      <4>2. x.severity \in Severities
        BY <2>2 DEF CritiqueAccepted, FindingForm, Values
      <4> QED
        BY <4>1, <4>2 DEF Observed, Severities
    <3> DEFINE U == UNION {Score(a, r.scores[a]) : a \in Aspects}
               M == {Finding("semantic.context.missing", "warning", <<n>>, NoLine) : n \in Values(r.missing)}
               C == {Finding("semantic.contradiction.detected", "error", <<x.a, x.b>>, NoLine) :
                       x \in Values(r.contradictions)}
               F == {Finding(Observed[x.severity], x.severity, <<x.section>>, SectionLine(d, x.section)) :
                       x \in Values(r.findings)}
    <3>5. CritiqueFindings(d, r) = U \cup M \cup C \cup F
      BY Zenon DEF CritiqueFindings
    <3>6. f \in U \/ f \in M \/ f \in C \/ f \in F
      <4> HIDE DEF U, M, C, F
      <4> QED
        BY <2>2, <3>5
    <3> QED
      BY <3>1, <3>2, <3>3, <3>4, <3>6
  <2>3. ASSUME CritiqueAccepted(r), d.readable, Readable(r) PROVE f \in CritiqueFindings(d, r)
    BY <1>2, <2>3 DEF CritiqueReviewOf
  <2> QED
    BY <2>1, <2>2, <2>3
<1>3. ASSUME NEW d, Text1(d), Consistent(Extracted(d)), NEW a,
             NEW f \in Disagreements(a, Extracted(d))
      PROVE  LET L == d.lines
                 Heads == {i \in DOMAIN L : L[i].is = "heading" /\ L[i].shown}
                 Next1(h) == {i \in Heads : i > h /\ L[i].level <= L[h].level}
                 Under(h) == {i \in DOMAIN L : i > h /\ \A k \in Next1(h) : i < k}
             IN /\ \/ f.about[2] \in d.tools
                   \/ \E i \in DOMAIN L : L[i].is = "item" /\ L[i].name = f.about[2]
                /\ \E h \in Heads : /\ L[h].name = f.about[1]
                                    /\ \A i \in Under(h) : L[i].shown => f.about[2] \notin L[i].quotes
  <2>0. d \in Document
    BY <1>3 DEF Text1
  <2>1. PICK x \in Contradicted(a, Extracted(d)) : f.about = <<x[1].name, x[2].name>>
    BY <1>3 DEF Disagreements, Finding
  <2>2. PICK n : n = x[2].name
    OBVIOUS
  <2>3. PICK G : G = Extracted(d)
    OBVIOUS
  <2>4. /\ f.about[1] = x[1].name /\ f.about[2] = n
        /\ x[3] \in {"requires", "produces"}
        /\ HasName(G.capabilities, x[1].name) /\ HasName(Targets(G, x[3]), n)
        /\ [source |-> Index(G.capabilities, x[1].name).id,
            target |-> Index(Targets(G, x[3]), n).id, kind |-> x[3]] \notin G.edges
    BY <2>1, <2>2, <2>3 DEF Contradicted, Claims
  <2>5. \/ n \in d.tools
        \/ \E i \in DOMAIN d.lines : d.lines[i].is = "item" /\ d.lines[i].name = n
    <3>1. PICK y \in G.inputs \cup G.outputs : y.name = n
      BY <2>4 DEF HasName, Targets
    <3>2. CASE y \in Tools(d)
      BY <2>0, <3>1, <3>2, ToolType
    <3>3. CASE y \in {Input(d, p) : p \in Harvest(d, "input")}
      <4>1. PICK p \in Harvest(d, "input") : y = Input(d, p)
        BY <3>3
      <4> QED
        BY <2>0, <3>1, <4>1, InputType, Harvested, Lines
    <3>4. CASE y \in {Output(d, p) : p \in Harvest(d, "output")}
      <4>1. PICK p \in Harvest(d, "output") : y = Output(d, p)
        BY <3>4
      <4> QED
        BY <2>0, <3>1, <4>1, OutputType, Harvested, Lines
    <3> QED
      BY <2>3, <3>2, <3>3, <3>4 DEF Extracted
  <2>6. /\ Index(G.capabilities, x[1].name) \in G.capabilities
        /\ Index(G.capabilities, x[1].name).name = x[1].name
    BY <2>0, <2>3, <2>4, <1>3, ExtractedType, FiniteParts, IndexIn
  <2>7. PICK h \in Sections(d, "capability") : Index(G.capabilities, x[1].name) = Capability(d, h)
    BY <2>3, <2>6 DEF Extracted
  <2>8. d.lines[h].name = f.about[1] /\ h \in Headings(d)
    BY <2>0, <2>4, <2>6, <2>7, CapabilityType DEF Sections
  <2>9. n \notin Quoted(d, h)
    <3> SUFFICES ASSUME n \in Quoted(d, h) PROVE FALSE
      OBVIOUS
    <3>1. PICK e : e = [source |-> Capability(d, h).id, target |-> Index(Targets(G, x[3]), n).id, kind |-> x[3]]
      OBVIOUS
    <3>2. CASE x[3] = "requires"
      <4>1. Targets(G, x[3]) = G.inputs
        BY <3>2 DEF Targets
      <4>2. InputNamed(d, n) = {Index(G.inputs, n)}
        BY <1>3, <2>3, <2>4, <4>1, NamedIsIndexed
      <4>3. Requires(d, e)
        BY <3>1, <3>2, <4>1, <4>2 DEF Requires
      <4> QED
        BY <2>3, <2>4, <2>7, <3>1, <4>3, EdgesOf DEF Extracted
    <3>3. CASE x[3] = "produces"
      <4>1. Targets(G, x[3]) = G.outputs
        BY <3>3 DEF Targets
      <4>2. OutputNamed(d, n) = {Index(G.outputs, n)}
        BY <1>3, <2>3, <2>4, <4>1, NamedIsIndexed
      <4>3. Produces(d, e)
        BY <3>1, <3>3, <4>1, <4>2 DEF Produces
      <4> QED
        BY <2>3, <2>4, <2>7, <3>1, <4>3, EdgesOf DEF Extracted
    <3> QED
      BY <2>4, <3>2, <3>3
  <2> DEFINE Heads == {i \in DOMAIN d.lines : d.lines[i].is = "heading" /\ d.lines[i].shown}
             After == {i \in Heads : i > h /\ d.lines[i].level <= d.lines[h].level}
             Under == {i \in DOMAIN d.lines : i > h /\ \A k \in After : i < k}
  <2>10. Heads = Headings(d)
    BY DEF Headings, Shown
  <2>11. ASSUME NEW i \in Under, d.lines[i].shown PROVE n \notin d.lines[i].quotes
    <3>1. i \in Shown(d) /\ i > h /\ i \in Int
      BY <2>0, <2>11, Lines DEF Shown
    <3>2. ASSUME NEW g \in Headings(d), h < g, g <= i
          PROVE  d.lines[g].level > d.lines[h].level
      <4>1. g \in Int /\ g > h /\ h \in Int
        BY <2>0, <3>2, <2>8, ShownLines
      <4>2. d.lines[g] \in Line /\ d.lines[h] \in Line
        BY <2>0, <2>8, ShownLines, Lines
      <4>3. d.lines[g].level \in Nat /\ d.lines[h].level \in Nat
        BY <4>2 DEF Line
      <4>4. g \notin After
        BY <2>11, <3>1, <3>2, <4>1
      <4> QED
        BY <2>10, <4>1, <4>3, <4>4
    <3>3. i \in Content(d, h)
      BY <3>1, <3>2 DEF Content
    <3> QED
      BY <2>9, <3>3 DEF Quoted
  <2> QED
    BY <2>4, <2>5, <2>8, <2>10, <2>11
<1>4. ASSUME SInv PROVE ContradictionsAreReal
  <2> SUFFICES ASSUME review # None, NEW f \in review.found,
                      f.rule = "graph.contradiction.heuristic_disagreement"
               PROVE  LET L == review.on.lines
                          Heads == {i \in DOMAIN L : L[i].is = "heading" /\ L[i].shown}
                          Next1(h) == {i \in Heads : i > h /\ L[i].level <= L[h].level}
                          Under(h) == {i \in DOMAIN L : i > h /\ \A k \in Next1(h) : i < k}
                      IN /\ \/ f.about[2] \in review.on.tools
                            \/ \E i \in DOMAIN L : L[i].is = "item" /\ L[i].name = f.about[2]
                         /\ \E h \in Heads : /\ L[h].name = f.about[1]
                                             /\ \A i \in Under(h) : L[i].shown => f.about[2] \notin L[i].quotes
    BY DEF ContradictionsAreReal
  <2>1. PICK d \in Document : Text1(d) /\ review \in {GraphReviewOf(d, answer), CritiqueReviewOf(d, answer)}
    BY <1>4 DEF SInv
  <2>2. review = GraphReviewOf(d, answer)
    BY <1>2, <2>1
  <2>3. review.on = d
    BY <2>2, ReportsOn
  <2>4. Consistent(Extracted(d)) /\ f \in Disagreements(Placed(d, Carried(answer)), Extracted(d))
    BY <1>1, <2>1, <2>2
  <2> QED
    BY <1>3, <2>1, <2>3, <2>4
<1>5. SInv => ContradictionsAreReal
  BY <1>4
<1> QED
  BY <1>5, SInvariance, PTL
-----------------------------------------------------------------------------

(* An echo, and what becomes of it: nodes in the coordinates of the body,   *)
(* whose lines are then put back, but not the lines in their ids.           *)
Rel(d, n)     == IF n = NoLine THEN n ELSE n - d.start + 1
RelId(d, i)   == <<i[1], i[2], Rel(d, i[3])>>
RelNode(d, n) == [n EXCEPT !.line = Rel(d, @), !.id = RelId(d, @)]
RelEdge(d, e) == [e EXCEPT !.source = RelId(d, @), !.target = RelId(d, @)]
Back(d, n)    == [n EXCEPT !.id = RelId(d, @)]

RelNodes(d, S) == {RelNode(d, n) : n \in S}
Backs(d, S)    == {Back(d, n) : n \in S}
RelEdges(d, E) == {RelEdge(d, e) : e \in E}

AllNodes(d) == Extracted(d).capabilities \cup Extracted(d).inputs \cup Extracted(d).outputs

LEMMA NodeShape ==
  ASSUME NEW d \in Document, NEW n \in AllNodes(d)
  PROVE  /\ n = [id |-> n.id, kind |-> n.kind, name |-> n.name, line |-> n.line,
                 section |-> n.section, described |-> n.described]
         /\ n.id = <<n.kind, n.name, n.line>> /\ n \in Node
         /\ n.line \in Int
         /\ \/ n.line = NoLine
            \/ n.line - d.start + 1 \in 1 .. Len(d.lines) /\ n.line >= d.start
<1>0. Len(d.lines) \in Nat /\ d.start \in Nat \ {0} /\ DOMAIN d.lines = 1 .. Len(d.lines)
  BY Lines
<1>1. n \in Node
  BY ExtractedType DEF AllNodes
<1>2. n = [id |-> n.id, kind |-> n.kind, name |-> n.name, line |-> n.line,
           section |-> n.section, described |-> n.described] /\ n.line \in Int
  BY <1>1 DEF Node
<1>3. n.line = NoLine \/ (n.line - d.start + 1 \in 1 .. Len(d.lines) /\ n.line >= d.start)
  <2>1. CASE n \in Tools(d)
    BY <2>1, ToolType
  <2>2. CASE \E i \in DOMAIN d.lines : n.line = d.start + i - 1
    BY <1>0, <2>2
  <2> QED
    BY <2>1, <2>2, NodesLines DEF AllNodes
<1>4. n.id = <<n.kind, n.name, n.line>>
  <2>1. CASE n \in {Capability(d, h) : h \in Sections(d, "capability")}
    BY <2>1, CapabilityType
  <2>2. CASE n \in {Input(d, p) : p \in Harvest(d, "input")}
    <3>1. PICK p \in Harvest(d, "input") : n = Input(d, p)
      BY <2>2
    <3>2. n.kind = InputKind(d.lines[p[2]])
      BY <3>1 DEF Input, Make
    <3> QED
      BY <3>1, <3>2, InputType
  <2>3. CASE n \in {Output(d, p) : p \in Harvest(d, "output")}
    <3>1. PICK p \in Harvest(d, "output") : n = Output(d, p)
      BY <2>3
    <3>2. n.kind = OutputKind(d.lines[p[2]])
      BY <3>1 DEF Output, Make
    <3> QED
      BY <3>1, <3>2, OutputType
  <2>4. CASE n \in Tools(d)
    BY <2>4, ToolType
  <2> QED
    BY <2>1, <2>2, <2>3, <2>4 DEF AllNodes, Extracted
<1> QED
  BY <1>1, <1>2, <1>3, <1>4

LEMMA RelShape ==
  ASSUME NEW d \in Document, NEW n \in AllNodes(d)
  PROVE  /\ RelNode(d, n) = [id |-> RelId(d, n.id), kind |-> n.kind, name |-> n.name,
                             line |-> Rel(d, n.line), section |-> n.section, described |-> n.described]
         /\ Back(d, n) = [id |-> RelId(d, n.id), kind |-> n.kind, name |-> n.name,
                          line |-> n.line, section |-> n.section, described |-> n.described]
         /\ [RelNode(d, n) EXCEPT !.line = IF @ = NoLine THEN @ ELSE At(d, @)] = Back(d, n)
         /\ Rel(d, n.line) # NoLine => Rel(d, n.line) \in 1 .. Len(d.lines)
<1>0. d.start \in Nat \ {0} /\ NoLine = -1
  BY Lines DEF NoLine
<1>1. /\ n = [id |-> n.id, kind |-> n.kind, name |-> n.name, line |-> n.line,
              section |-> n.section, described |-> n.described]
      /\ \/ n.line = NoLine
         \/ n.line - d.start + 1 \in 1 .. Len(d.lines) /\ n.line >= d.start
      /\ n.line \in Int /\ Len(d.lines) \in Nat
  BY NodeShape, Lines
<1>2. RelNode(d, n) = [id |-> RelId(d, n.id), kind |-> n.kind, name |-> n.name,
                       line |-> Rel(d, n.line), section |-> n.section, described |-> n.described]
  <2>1. PICK l : l = Rel(d, n.line)
    OBVIOUS
  <2>2. PICK i : i = RelId(d, n.id)
    OBVIOUS
  <2>3. [[n EXCEPT !.line = l] EXCEPT !.id = i]
           = [id |-> i, kind |-> n.kind, name |-> n.name,
              line |-> l, section |-> n.section, described |-> n.described]
    <3>1. PICK m : m = [n EXCEPT !.line = l]
      OBVIOUS
    <3>2. m = [id |-> n.id, kind |-> n.kind, name |-> n.name,
               line |-> l, section |-> n.section, described |-> n.described]
      BY <1>1, <3>1
    <3>3. [m EXCEPT !.id = i]
             = [id |-> i, kind |-> n.kind, name |-> n.name,
                line |-> l, section |-> n.section, described |-> n.described]
      BY <3>2
    <3> QED
      BY <3>1, <3>3
  <2>4. RelNode(d, n) = [[n EXCEPT !.line = l] EXCEPT !.id = i]
    BY <2>1, <2>2, Zenon DEF RelNode
  <2> QED
    BY <2>1, <2>2, <2>3, <2>4
<1>3. Back(d, n) = [id |-> RelId(d, n.id), kind |-> n.kind, name |-> n.name,
                    line |-> n.line, section |-> n.section, described |-> n.described]
  BY <1>1 DEF Back
<1>4. (IF Rel(d, n.line) = NoLine THEN Rel(d, n.line) ELSE At(d, Rel(d, n.line))) = n.line
  BY <1>0, <1>1 DEF Rel, At
<1>5. Rel(d, n.line) # NoLine => Rel(d, n.line) \in 1 .. Len(d.lines)
  BY <1>0, <1>1 DEF Rel
<1>6. [RelNode(d, n) EXCEPT !.line = IF @ = NoLine THEN @ ELSE At(d, @)] = Back(d, n)
  <2>1. PICK l : l = Rel(d, n.line)
    OBVIOUS
  <2>2. PICK k : k = (IF l = NoLine THEN l ELSE At(d, l))
    OBVIOUS
  <2>3. k = n.line
    BY <1>4, <2>1, <2>2
  <2>4. [RelNode(d, n) EXCEPT !.line = IF @ = NoLine THEN @ ELSE At(d, @)]
           = [id |-> RelId(d, n.id), kind |-> n.kind, name |-> n.name,
              line |-> k, section |-> n.section, described |-> n.described]
    BY <1>2, <2>1, <2>2
  <2> QED
    BY <1>3, <2>3, <2>4
<1> QED
  BY <1>2, <1>3, <1>5, <1>6

(* Ids stay apart in the other coordinates. *)
LEMMA RelInjective ==
  ASSUME NEW d \in Document, NEW m \in AllNodes(d), NEW n \in AllNodes(d),
         RelId(d, m.id) = RelId(d, n.id)
  PROVE  m.id = n.id
<1>0. d.start \in Nat \ {0} /\ NoLine = -1
  BY Lines DEF NoLine
<1>1. /\ m.id = <<m.kind, m.name, m.line>> /\ n.id = <<n.kind, n.name, n.line>>
      /\ m.line \in Int /\ n.line \in Int
      /\ m.line = NoLine \/ m.line >= d.start
      /\ n.line = NoLine \/ n.line >= d.start
  BY NodeShape
<1>2. m.kind = n.kind /\ m.name = n.name /\ Rel(d, m.line) = Rel(d, n.line)
  BY <1>1 DEF RelId
<1>3. m.line = n.line
  BY <1>0, <1>1, <1>2 DEF Rel
<1> QED
  BY <1>1, <1>2, <1>3

LEMMA EdgeShape ==
  ASSUME NEW d \in Document, NEW e \in Edges(d)
  PROVE  /\ e = [source |-> e.source, target |-> e.target, kind |-> e.kind]
         /\ e.kind \in EdgeKinds
         /\ RelEdge(d, e) = [source |-> RelId(d, e.source), target |-> RelId(d, e.target), kind |-> e.kind]
<1>1. Requires(d, e) \/ Produces(d, e)
  BY EdgesOf
<1>2. PICK s, t, k : e = [source |-> s, target |-> t, kind |-> k] /\ k \in {"requires", "produces"}
  BY <1>1 DEF Requires, Produces
<1>3. e.source = s /\ e.target = t /\ e.kind = k
  BY <1>2
<1>4. PICK s1 : s1 = RelId(d, e.source)
  OBVIOUS
<1>5. PICK t1 : t1 = RelId(d, e.target)
  OBVIOUS
<1>6. [[e EXCEPT !.source = s1] EXCEPT !.target = t1] = [source |-> s1, target |-> t1, kind |-> k]
  <2>1. PICK m : m = [e EXCEPT !.source = s1]
    OBVIOUS
  <2>2. m = [source |-> s1, target |-> t, kind |-> k]
    BY <1>2, <2>1
  <2>3. [m EXCEPT !.target = t1] = [source |-> s1, target |-> t1, kind |-> k]
    BY <2>2
  <2> QED
    BY <2>1, <2>3
<1>7. RelEdge(d, e) = [[e EXCEPT !.source = s1] EXCEPT !.target = t1]
  BY <1>4, <1>5, Zenon DEF RelEdge
<1> QED
  BY <1>2, <1>3, <1>4, <1>5, <1>6, <1>7 DEF EdgeKinds

LEMMA ValuesOfItems ==
  ASSUME NEW S, NEW fields
  PROVE  /\ Values(Items(S, fields)) = S
         /\ \A x \in Items(S, fields) : Form(x, fields) /\ x.value \in S
<1>1. ASSUME NEW v PROVE Item(v, fields).value = v /\ Form(Item(v, fields), fields)
  BY DEF Item, Form
<1>2. Values(Items(S, fields)) = {Item(v, fields).value : v \in S}
  BY DEF Values, Items
<1> QED
  BY <1>1, <1>2 DEF Items

LEMMA EchoIs ==
  ASSUME NEW d
  PROVE  /\ Readable(Echo(d)) /\ Echo(d).text = <<"json">> /\ Form(Echo(d), GraphFields)
         /\ Echo(d).capabilities = Items(RelNodes(d, Extracted(d).capabilities),
                                         {"id", "name", "description", "line"})
         /\ Echo(d).inputs = Items(RelNodes(d, Extracted(d).inputs), {"id", "name", "kind", "line"})
         /\ Echo(d).outputs = Items(RelNodes(d, Extracted(d).outputs), {"id", "name", "kind", "line"})
         /\ Echo(d).edges = Items(RelEdges(d, Extracted(d).edges), {"source_id", "target_id", "kind"})
<1>1. PICK c : c = Items(RelNodes(d, Extracted(d).capabilities), {"id", "name", "description", "line"})
  OBVIOUS
<1>2. PICK i : i = Items(RelNodes(d, Extracted(d).inputs), {"id", "name", "kind", "line"})
  OBVIOUS
<1>3. PICK o : o = Items(RelNodes(d, Extracted(d).outputs), {"id", "name", "kind", "line"})
  OBVIOUS
<1>4. PICK e : e = Items(RelEdges(d, Extracted(d).edges), {"source_id", "target_id", "kind"})
  OBVIOUS
<1>5. Echo(d) = [bytes |-> "text", text |-> <<"json">>, object |-> TRUE, fields |-> GraphFields,
                 wrong |-> {}, capabilities |-> c, inputs |-> i, outputs |-> o, edges |-> e]
  BY <1>1, <1>2, <1>3, <1>4, Zenon DEF Echo, RelNodes, RelNode, RelEdges, RelEdge, RelId, Rel
<1> QED
  BY <1>1, <1>2, <1>3, <1>4, <1>5 DEF Readable, Form

LEMMA EchoCarries ==
  ASSUME NEW d
  PROVE  /\ Carried(Echo(d)).capabilities = RelNodes(d, Extracted(d).capabilities)
         /\ Carried(Echo(d)).inputs = RelNodes(d, Extracted(d).inputs)
         /\ Carried(Echo(d)).outputs = RelNodes(d, Extracted(d).outputs)
         /\ Carried(Echo(d)).edges = RelEdges(d, Extracted(d).edges)
         /\ Carried(Echo(d)) = [capabilities |-> RelNodes(d, Extracted(d).capabilities),
                                inputs |-> RelNodes(d, Extracted(d).inputs),
                                outputs |-> RelNodes(d, Extracted(d).outputs),
                                edges |-> RelEdges(d, Extracted(d).edges)]
<1>1. /\ Values(Echo(d).capabilities) = RelNodes(d, Extracted(d).capabilities)
      /\ Values(Echo(d).inputs) = RelNodes(d, Extracted(d).inputs)
      /\ Values(Echo(d).outputs) = RelNodes(d, Extracted(d).outputs)
      /\ Values(Echo(d).edges) = RelEdges(d, Extracted(d).edges)
  BY EchoIs, ValuesOfItems, Zenon
<1> QED
  BY <1>1 DEF Carried

(* An answer of no more than MaxItems of each is not too long. *)
LEMMA FewItems ==
  ASSUME NEW S, IsFiniteSet(S), NEW d, NEW fields
  PROVE  /\ IsFiniteSet(RelNodes(d, S)) /\ IsFiniteSet(Items(RelNodes(d, S), fields))
         /\ Cardinality(Items(RelNodes(d, S), fields)) <= Cardinality(S)
<1>1. PICK f : f = [n \in S |-> RelNode(d, n)]
  OBVIOUS
<1>2. {f[n] : n \in S} = RelNodes(d, S)
  BY <1>1 DEF RelNodes
<1>3. f = [x \in S |-> f[x]]
  BY <1>1
<1>4. IsFiniteSet(RelNodes(d, S)) /\ Cardinality(RelNodes(d, S)) <= Cardinality(S)
  BY <1>2, <1>3, FiniteImage
<1>5. PICK k : k = [v \in RelNodes(d, S) |-> Item(v, fields)]
  OBVIOUS
<1>6. {k[v] : v \in RelNodes(d, S)} = Items(RelNodes(d, S), fields)
  BY <1>5 DEF Items
<1>7. k = [x \in RelNodes(d, S) |-> k[x]]
  BY <1>5
<1>8. /\ IsFiniteSet(Items(RelNodes(d, S), fields))
      /\ Cardinality(Items(RelNodes(d, S), fields)) <= Cardinality(RelNodes(d, S))
  BY <1>4, <1>6, <1>7, FiniteImage
<1>9. /\ Cardinality(Items(RelNodes(d, S), fields)) \in Nat
      /\ Cardinality(RelNodes(d, S)) \in Nat /\ Cardinality(S) \in Nat
  BY <1>4, <1>8, FS_CardinalityType
<1> QED
  BY <1>4, <1>8, <1>9

LEMMA FewNodes ==
  ASSUME NEW d, Text1(d), ~OverBudget(d)
  PROVE  /\ Cardinality(Extracted(d).capabilities) <= MaxNodes
         /\ Cardinality(Extracted(d).inputs) <= MaxNodes
         /\ Cardinality(Extracted(d).outputs) <= MaxNodes
<1> DEFINE C == {Capability(d, h) : h \in Sections(d, "capability")}
           I == {Input(d, p) : p \in Harvest(d, "input")}
           O == {Output(d, p) : p \in Harvest(d, "output")}
<1>0. d \in Document /\ IsFiniteSet(d.tools)
  BY DEF Text1
<1>1. /\ IsFiniteSet(Sections(d, "capability")) /\ IsFiniteSet(Harvest(d, "input"))
      /\ IsFiniteSet(Harvest(d, "output"))
  BY FiniteParts
<1>2. IsFiniteSet(C) /\ Cardinality(C) <= Cardinality(Sections(d, "capability"))
  <2>1. PICK f : f = [h \in Sections(d, "capability") |-> Capability(d, h)]
    OBVIOUS
  <2>2. {f[h] : h \in Sections(d, "capability")} = C
    BY <2>1
  <2>3. f = [x \in Sections(d, "capability") |-> f[x]]
    BY <2>1
  <2> HIDE DEF C
  <2> QED
    BY <1>1, <2>2, <2>3, FiniteImage
<1>3. IsFiniteSet(I) /\ Cardinality(I) <= Cardinality(Harvest(d, "input"))
  <2>1. PICK f : f = [p \in Harvest(d, "input") |-> Input(d, p)]
    OBVIOUS
  <2>2. {f[p] : p \in Harvest(d, "input")} = I
    BY <2>1
  <2>3. f = [x \in Harvest(d, "input") |-> f[x]]
    BY <2>1
  <2> QED
    BY <1>1, <2>2, <2>3, FiniteImage
<1>4. IsFiniteSet(O) /\ Cardinality(O) <= Cardinality(Harvest(d, "output"))
  <2>1. PICK f : f = [p \in Harvest(d, "output") |-> Output(d, p)]
    OBVIOUS
  <2>2. {f[p] : p \in Harvest(d, "output")} = O
    BY <2>1
  <2>3. f = [x \in Harvest(d, "output") |-> f[x]]
    BY <2>1
  <2> QED
    BY <1>1, <2>2, <2>3, FiniteImage
<1>5. IsFiniteSet(Tools(d)) /\ Cardinality(Tools(d)) <= Cardinality(d.tools)
  <2>1. PICK f : f = [n \in d.tools |-> Make("tool", n, NoLine, 0, TRUE)]
    OBVIOUS
  <2>2. {f[n] : n \in d.tools} = Tools(d)
    BY <2>1 DEF Tools
  <2>3. f = [x \in d.tools |-> f[x]]
    BY <2>1
  <2> QED
    BY <1>0, <2>2, <2>3, FiniteImage
<1>6. Cardinality(I \cup Tools(d)) <= Cardinality(I) + Cardinality(Tools(d))
  <2> HIDE DEF I
  <2>1. /\ Cardinality(I \cup Tools(d)) = Cardinality(I) + Cardinality(Tools(d)) - Cardinality(I \cap Tools(d))
        /\ IsFiniteSet(I \cap Tools(d))
    BY <1>3, <1>5, FS_Union, FS_Intersection
  <2>2. Cardinality(I \cap Tools(d)) \in Nat /\ Cardinality(I) \in Nat /\ Cardinality(Tools(d)) \in Nat
    BY <1>3, <1>5, <2>1, FS_CardinalityType
  <2> QED
    BY <2>1, <2>2
<1>7. /\ Extracted(d).capabilities = C /\ Extracted(d).inputs = I \cup Tools(d)
      /\ Extracted(d).outputs = O
  BY DEF Extracted
<1>8. Cardinality(Sections(d, "capability")) + Cardinality(d.tools)
      + Cardinality(Harvest(d, "input")) + Cardinality(Harvest(d, "output")) <= MaxNodes
  <2>1. /\ Cardinality(Sections(d, "capability")) \in Nat /\ Cardinality(d.tools) \in Nat
        /\ Cardinality(Harvest(d, "input")) \in Nat /\ Cardinality(Harvest(d, "output")) \in Nat
    BY <1>0, <1>1, FS_CardinalityType
  <2> QED
    BY <2>1, BudgetAssumption DEF OverBudget
<1> HIDE DEF C, I, O
<1>9. /\ Cardinality(Sections(d, "capability")) \in Nat /\ Cardinality(d.tools) \in Nat
      /\ Cardinality(Harvest(d, "input")) \in Nat /\ Cardinality(Harvest(d, "output")) \in Nat
      /\ Cardinality(C) \in Nat /\ Cardinality(I) \in Nat /\ Cardinality(O) \in Nat
      /\ Cardinality(Tools(d)) \in Nat /\ MaxNodes \in Nat /\ Cardinality(I \cup Tools(d)) \in Nat
  BY <1>0, <1>1, <1>2, <1>3, <1>4, <1>5, FS_CardinalityType, FS_Union, BudgetAssumption
<1> QED
  BY <1>2, <1>3, <1>4, <1>5, <1>6, <1>7, <1>8, <1>9

(* No other id is read back as the id of a node. *)
LEMMA Apart ==
  ASSUME NEW d, Text1(d), Consistent(Extracted(d))
  PROVE  /\ \A m, n \in Extracted(d).capabilities : RelNode(d, m).id = RelNode(d, n).id => m = n
         /\ \A m, n \in Extracted(d).inputs : RelNode(d, m).id = RelNode(d, n).id => m = n
         /\ \A m, n \in Extracted(d).outputs : RelNode(d, m).id = RelNode(d, n).id => m = n
<1>1. d \in Document
  BY DEF Text1
<1>2. ASSUME NEW m \in AllNodes(d), NEW n \in AllNodes(d), RelNode(d, m).id = RelNode(d, n).id
      PROVE  m.id = n.id
  <2>1. RelNode(d, m).id = RelId(d, m.id) /\ RelNode(d, n).id = RelId(d, n.id)
    <3>1. ASSUME NEW x \in AllNodes(d) PROVE RelNode(d, x).id = RelId(d, x.id)
      <4>1. RelNode(d, x) = [id |-> RelId(d, x.id), kind |-> x.kind, name |-> x.name,
                             line |-> Rel(d, x.line), section |-> x.section, described |-> x.described]
        BY <1>1, RelShape
      <4> QED
        BY <4>1
    <3> QED
      BY <3>1
  <2> QED
    BY <1>1, <1>2, <2>1, RelInjective
<1> QED
  BY <1>2, IdsTell DEF AllNodes

LEMMA EchoConsistent ==
  ASSUME NEW d, Text1(d), Consistent(Extracted(d))
  PROVE  Consistent(Carried(Echo(d)))
<1> DEFINE g == Extracted(d)
           r == Carried(Echo(d))
<1>0. d \in Document
  BY DEF Text1
<1>1. /\ r.capabilities = RelNodes(d, g.capabilities) /\ r.inputs = RelNodes(d, g.inputs)
      /\ r.outputs = RelNodes(d, g.outputs) /\ r.edges = RelEdges(d, g.edges)
  BY EchoCarries
<1>2. g.edges = Edges(d)
  BY <1>0, ExtractedType
<1>3. ASSUME NEW x \in AllNodes(d) PROVE RelNode(d, x).id = RelId(d, x.id)
  <2>1. RelNode(d, x) = [id |-> RelId(d, x.id), kind |-> x.kind, name |-> x.name,
                         line |-> Rel(d, x.line), section |-> x.section, described |-> x.described]
    BY <1>0, RelShape
  <2> QED
    BY <2>1
<1>4. AllNodes(d) = (g.capabilities \cup g.inputs) \cup g.outputs
  BY DEF AllNodes
<1>5. ASSUME NEW S, IsFiniteSet(S), \A m, n \in S : RelNode(d, m).id = RelNode(d, n).id => m = n
      PROVE  Cardinality(Ids(RelNodes(d, S))) = Cardinality(RelNodes(d, S))
  <2>1. IsFiniteSet(RelNodes(d, S))
    BY <1>5, FewItems
  <2>2. \A m, n \in RelNodes(d, S) : m.id = n.id => m = n
    BY <1>5 DEF RelNodes
  <2> QED
    BY <2>1, <2>2, DistinctIds
<1>6. /\ Cardinality(Ids(r.capabilities)) = Cardinality(r.capabilities)
      /\ Cardinality(Ids(r.inputs)) = Cardinality(r.inputs)
      /\ Cardinality(Ids(r.outputs)) = Cardinality(r.outputs)
  <2>1. /\ IsFiniteSet(g.capabilities) /\ IsFiniteSet(g.inputs) /\ IsFiniteSet(g.outputs)
    BY FiniteParts
  <2>2. /\ \A m, n \in g.capabilities : RelNode(d, m).id = RelNode(d, n).id => m = n
        /\ \A m, n \in g.inputs : RelNode(d, m).id = RelNode(d, n).id => m = n
        /\ \A m, n \in g.outputs : RelNode(d, m).id = RelNode(d, n).id => m = n
    BY Apart
  <2> HIDE DEF g, r
  <2> QED
    BY <1>1, <1>5, <2>1, <2>2
<1>7. ASSUME NEW A, NEW B, A \subseteq AllNodes(d), B \subseteq AllNodes(d), Ids(A) \cap Ids(B) = {}
      PROVE  Ids(RelNodes(d, A)) \cap Ids(RelNodes(d, B)) = {}
  <2>1. SUFFICES ASSUME NEW i \in Ids(RelNodes(d, A)), i \in Ids(RelNodes(d, B)) PROVE FALSE
    OBVIOUS
  <2>2. PICK m \in A : i = RelNode(d, m).id
    BY <2>1 DEF Ids, RelNodes
  <2>3. PICK n \in B : i = RelNode(d, n).id
    BY <2>1 DEF Ids, RelNodes
  <2>4. m \in AllNodes(d) /\ n \in AllNodes(d)
    BY <1>7
  <2>5. RelId(d, m.id) = RelId(d, n.id)
    BY <1>3, <2>2, <2>3, <2>4
  <2>6. m.id = n.id
    BY <1>0, <2>4, <2>5, RelInjective
  <2> QED
    BY <1>7, <2>6 DEF Ids
<1>8. RelNodes(d, g.inputs \cup g.outputs) = r.inputs \cup r.outputs
  <2> HIDE DEF g, r
  <2> QED
    BY <1>1 DEF RelNodes
<1>9. /\ Ids(g.capabilities) \cap Ids(g.inputs \cup g.outputs) = {}
      /\ Ids(g.inputs) \cap Ids(g.outputs) = {}
  BY DEF Consistent
<1>10. /\ Ids(r.capabilities) \cap Ids(r.inputs \cup r.outputs) = {}
       /\ Ids(r.inputs) \cap Ids(r.outputs) = {}
  <2> HIDE DEF g, r
  <2>1. /\ g.capabilities \subseteq AllNodes(d) /\ (g.inputs \cup g.outputs) \subseteq AllNodes(d)
        /\ g.inputs \subseteq AllNodes(d) /\ g.outputs \subseteq AllNodes(d)
    BY <1>4
  <2>2. Ids(RelNodes(d, g.capabilities)) \cap Ids(RelNodes(d, g.inputs \cup g.outputs)) = {}
    BY <1>7, <1>9, <2>1
  <2>3. Ids(RelNodes(d, g.inputs)) \cap Ids(RelNodes(d, g.outputs)) = {}
    BY <1>7, <1>9, <2>1
  <2> QED
    BY <1>1, <1>8, <2>2, <2>3
<1>11. ASSUME NEW S, S \subseteq AllNodes(d), NEW i \in Ids(S) PROVE RelId(d, i) \in Ids(RelNodes(d, S))
  <2>1. PICK n \in S : i = n.id
    BY <1>11 DEF Ids
  <2>2. RelId(d, i) = RelNode(d, n).id
    BY <1>3, <1>11, <2>1
  <2> QED
    BY <2>2 DEF Ids, RelNodes
<1>12. ASSUME NEW e \in r.edges
       PROVE  /\ e.source \in Ids(r.capabilities)
              /\ e.target \in Ids(Targets(r, e.kind))
  <2>1. PICK x \in Edges(d) : e = RelEdge(d, x)
    BY <1>1, <1>2, <1>12 DEF RelEdges
  <2>2. RelEdge(d, x) = [source |-> RelId(d, x.source), target |-> RelId(d, x.target), kind |-> x.kind]
    BY <1>0, EdgeShape
  <2>3. e.source = RelId(d, x.source) /\ e.target = RelId(d, x.target) /\ e.kind = x.kind
    BY <2>1, <2>2
  <2>4. /\ x.source \in Ids(g.capabilities)
        /\ x.target \in Ids(Targets(g, x.kind))
    BY <1>0, NothingDangles
  <2>5. Targets(r, e.kind) = RelNodes(d, Targets(g, x.kind))
    <3> HIDE DEF g, r
    <3> QED
      BY <1>1, <2>3 DEF Targets
  <2>6. /\ g.capabilities \subseteq AllNodes(d)
        /\ Targets(g, x.kind) \subseteq AllNodes(d)
    <3> HIDE DEF g, r
    <3> QED
      BY <1>4 DEF Targets
  <2> HIDE DEF g, r
  <2> QED
    BY <1>1, <1>11, <2>3, <2>4, <2>5, <2>6
<1> HIDE DEF g
<1>13. Consistent(r)
  <2> HIDE DEF r
  <2> QED
    BY <1>6, <1>10, <1>12 DEF Consistent
<1> QED
  BY <1>13

LEMMA KindsOf ==
  ASSUME NEW d \in Document
  PROVE  /\ \A n \in Extracted(d).inputs : n.kind \in InputKinds
         /\ \A n \in Extracted(d).outputs : n.kind \in OutputKinds
<1>1. ASSUME NEW p \in Harvest(d, "input") PROVE Input(d, p).kind \in InputKinds
  <2>1. Input(d, p).kind = InputKind(d.lines[p[2]])
    BY DEF Input, Make
  <2> QED
    BY <2>1, InputType
<1>2. ASSUME NEW p \in Harvest(d, "output") PROVE Output(d, p).kind \in OutputKinds
  <2>1. Output(d, p).kind = OutputKind(d.lines[p[2]])
    BY DEF Output, Make
  <2> QED
    BY <2>1, OutputType
<1>3. ASSUME NEW t \in Tools(d) PROVE t.kind \in InputKinds
  BY <1>3, ToolType DEF InputKinds
<1>4. Extracted(d).inputs = {Input(d, p) : p \in Harvest(d, "input")} \cup Tools(d)
  BY DEF Extracted
<1>5. Extracted(d).outputs = {Output(d, p) : p \in Harvest(d, "output")}
  BY DEF Extracted
<1> QED
  BY <1>1, <1>2, <1>3, <1>4, <1>5

(* What is printed of a document can be ingested for it. *)
LEMMA EchoAccepted ==
  ASSUME NEW d, Text1(d), ~OverBudget(d), Consistent(Extracted(d)), MaxNodes <= MaxItems,
         Capped(Echo(d).edges)
  PROVE  GraphAccepted(Echo(d), d)
<1> DEFINE g == Extracted(d)
           r == Echo(d)
<1>0. d \in Document
  BY DEF Text1
<1>1. Decodes(r)
  <2>1. r.text = <<"json">>
    BY EchoIs
  <2>2. PICK t : t = <<"json">>
    OBVIOUS
  <2>3. Len(t) = 1 /\ t[1] = "json" /\ DOMAIN t = {1} /\ t \in Seq({"json"})
    BY <2>2
  <2>4. Unfenced(t) = t
    BY <2>3 DEF Unfenced
  <2>5. Braces(t) = {1}
    BY <2>3 DEF Braces
  <2>6. PICK c : c = CHOOSE i \in Braces(t) : \A j \in Braces(t) : i <= j
    OBVIOUS
  <2>7. c = 1
    <3>1. \E i \in Braces(t) : \A j \in Braces(t) : i <= j
      BY <2>5
    <3>2. c \in Braces(t)
      BY <2>6, <3>1, Zenon
    <3> QED
      BY <2>5, <3>2
  <2>8. Stripped(t) = SubSeq(t, c, Len(t))
    BY <2>5, <2>6 DEF Stripped
  <2>9. SubSeq(t, 1, Len(t)) = t
    BY <2>3, SubSeqFull
  <2>10. Stripped(Unfenced(t)) = t
    BY <2>3, <2>4, <2>7, <2>8, <2>9
  <2> QED
    BY <2>1, <2>2, <2>10, Zenon DEF Decodes
<1>2. Form(r, GraphFields)
  BY EchoIs
<1>3. Capped(r.capabilities) /\ Capped(r.inputs) /\ Capped(r.outputs) /\ Capped(r.edges)
  <2>1. IsFiniteSet(g.capabilities) /\ IsFiniteSet(g.inputs) /\ IsFiniteSet(g.outputs)
    BY FiniteParts
  <2>2. /\ Cardinality(g.capabilities) <= MaxNodes /\ Cardinality(g.inputs) <= MaxNodes
        /\ Cardinality(g.outputs) <= MaxNodes
    BY FewNodes
  <2>3. ASSUME NEW S, IsFiniteSet(S), Cardinality(S) <= MaxNodes, NEW fields
        PROVE  Capped(Items(RelNodes(d, S), fields))
    <3>1. /\ IsFiniteSet(Items(RelNodes(d, S), fields))
          /\ Cardinality(Items(RelNodes(d, S), fields)) <= Cardinality(S)
      BY <2>3, FewItems
    <3>2. Cardinality(Items(RelNodes(d, S), fields)) \in Nat /\ Cardinality(S) \in Nat
      BY <2>3, <3>1, FS_CardinalityType
    <3> QED
      BY <2>3, <3>1, <3>2, BudgetAssumption, ItemAssumption DEF Capped
  <2> HIDE DEF g
  <2>4. /\ Capped(Items(RelNodes(d, g.capabilities), {"id", "name", "description", "line"}))
        /\ Capped(Items(RelNodes(d, g.inputs), {"id", "name", "kind", "line"}))
        /\ Capped(Items(RelNodes(d, g.outputs), {"id", "name", "kind", "line"}))
    BY <2>1, <2>2, <2>3
  <2> QED
    BY <2>4, EchoIs, Zenon DEF g
<1>4. ASSUME NEW n \in AllNodes(d)
      PROVE  /\ RelNode(d, n).kind = n.kind
             /\ RelNode(d, n).line # NoLine => RelNode(d, n).line \in 1 .. Len(d.lines)
  <2>1. RelNode(d, n) = [id |-> RelId(d, n.id), kind |-> n.kind, name |-> n.name,
                         line |-> Rel(d, n.line), section |-> n.section, described |-> n.described]
    BY <1>0, RelShape
  <2>2. Rel(d, n.line) # NoLine => Rel(d, n.line) \in 1 .. Len(d.lines)
    BY <1>0, RelShape
  <2> QED
    BY <2>1, <2>2
<1>5. g.capabilities \subseteq AllNodes(d) /\ g.inputs \subseteq AllNodes(d) /\ g.outputs \subseteq AllNodes(d)
  BY DEF AllNodes
<1>6. ASSUME NEW x \in r.capabilities PROVE CapabilityForm(x)
  <2>1. x \in Items(RelNodes(d, g.capabilities), {"id", "name", "description", "line"})
    BY <1>6, EchoIs, Zenon
  <2>2. Form(x, {"id", "name", "description", "line"})
    BY <2>1, ValuesOfItems, Zenon
  <2> QED
    BY <2>2 DEF CapabilityForm
<1>7. ASSUME NEW x \in r.inputs PROVE InputForm(x)
  <2>1. x \in Items(RelNodes(d, g.inputs), {"id", "name", "kind", "line"})
    BY <1>7, EchoIs, Zenon
  <2>2. Form(x, {"id", "name", "kind", "line"}) /\ x.value \in RelNodes(d, g.inputs)
    BY <2>1, ValuesOfItems, Zenon
  <2>3. PICK n \in g.inputs : x.value = RelNode(d, n)
    BY <2>2, Zenon DEF RelNodes
  <2>4. x.value.kind \in InputKinds
    BY <1>0, <1>4, <1>5, <2>3, KindsOf
  <2> QED
    BY <2>2, <2>4, Zenon DEF InputForm
<1>8. ASSUME NEW x \in r.outputs PROVE OutputForm(x)
  <2>1. x \in Items(RelNodes(d, g.outputs), {"id", "name", "kind", "line"})
    BY <1>8, EchoIs, Zenon
  <2>2. Form(x, {"id", "name", "kind", "line"}) /\ x.value \in RelNodes(d, g.outputs)
    BY <2>1, ValuesOfItems, Zenon
  <2>3. PICK n \in g.outputs : x.value = RelNode(d, n)
    BY <2>2, Zenon DEF RelNodes
  <2>4. x.value.kind \in OutputKinds
    BY <1>0, <1>4, <1>5, <2>3, KindsOf
  <2> QED
    BY <2>2, <2>4, Zenon DEF OutputForm
<1>9. ASSUME NEW x \in r.edges PROVE EdgeForm(x)
  <2>1. x \in Items(RelEdges(d, g.edges), {"source_id", "target_id", "kind"})
    BY <1>9, EchoIs, Zenon
  <2>2. Form(x, {"source_id", "target_id", "kind"}) /\ x.value \in RelEdges(d, g.edges)
    BY <2>1, ValuesOfItems, Zenon
  <2>3. PICK e \in Edges(d) : x.value = RelEdge(d, e)
    BY <1>0, <2>2, ExtractedType DEF RelEdges
  <2>4. RelEdge(d, e) = [source |-> RelId(d, e.source), target |-> RelId(d, e.target), kind |-> e.kind]
    BY <1>0, EdgeShape
  <2>5. e.kind \in EdgeKinds
    BY <1>0, EdgeShape
  <2>6. x.value.kind \in EdgeKinds
    BY <2>3, <2>4, <2>5
  <2> QED
    BY <2>2, <2>6, Zenon DEF EdgeForm
<1>10. ASSUME NEW n \in Carried(r).capabilities \cup Carried(r).inputs \cup Carried(r).outputs,
              n.line # NoLine
       PROVE  n.line \in 1 .. Len(d.lines)
  <2>1. n \in RelNodes(d, g.capabilities) \cup RelNodes(d, g.inputs) \cup RelNodes(d, g.outputs)
    BY <1>10, EchoCarries
  <2>2. PICK m \in AllNodes(d) : n = RelNode(d, m)
    <3> HIDE DEF g
    <3> QED
      BY <1>5, <2>1 DEF RelNodes
  <2> QED
    BY <1>4, <1>10, <2>2
<1>11. Consistent(Carried(r))
  BY EchoConsistent
<1> HIDE DEF r, g
<1> QED
  BY <1>1, <1>2, <1>3, <1>6, <1>7, <1>8, <1>9, <1>10, <1>11 DEF GraphAccepted, r

(* What extract_graph_agent makes of it: the document's graph, with ids that *)
(* still have the lines of the body in them.                                 *)
LEMMA EchoPlaced ==
  ASSUME NEW d \in Document
  PROVE  /\ Placed(d, Carried(Echo(d))).capabilities = Backs(d, Extracted(d).capabilities)
         /\ Placed(d, Carried(Echo(d))).inputs = Backs(d, Extracted(d).inputs)
         /\ Placed(d, Carried(Echo(d))).outputs = Backs(d, Extracted(d).outputs)
         /\ Placed(d, Carried(Echo(d))).edges = RelEdges(d, Edges(d))
<1> DEFINE Move(S) == {[n EXCEPT !.line = IF @ = NoLine THEN @ ELSE At(d, @)] : n \in S}
<1>1. ASSUME NEW S, S \subseteq AllNodes(d) PROVE Move(RelNodes(d, S)) = Backs(d, S)
  <2>1. ASSUME NEW n \in S
        PROVE  [RelNode(d, n) EXCEPT !.line = IF @ = NoLine THEN @ ELSE At(d, @)] = Back(d, n)
    BY <1>1, RelShape
  <2>2. Move(RelNodes(d, S))
           = {[RelNode(d, n) EXCEPT !.line = IF @ = NoLine THEN @ ELSE At(d, @)] : n \in S}
    BY DEF RelNodes
  <2> QED
    BY <2>1, <2>2 DEF Backs
<1>2. PICK c : c = RelNodes(d, Extracted(d).capabilities)
  OBVIOUS
<1>3. PICK i : i = RelNodes(d, Extracted(d).inputs)
  OBVIOUS
<1>4. PICK o : o = RelNodes(d, Extracted(d).outputs)
  OBVIOUS
<1>5. PICK e : e = RelEdges(d, Extracted(d).edges)
  OBVIOUS
<1>6. Carried(Echo(d)) = [capabilities |-> c, inputs |-> i, outputs |-> o, edges |-> e]
  BY <1>2, <1>3, <1>4, <1>5, EchoCarries, Zenon
<1>7. /\ Placed(d, Carried(Echo(d))).capabilities = Move(c)
      /\ Placed(d, Carried(Echo(d))).inputs = Move(i)
      /\ Placed(d, Carried(Echo(d))).outputs = Move(o)
      /\ Placed(d, Carried(Echo(d))).edges = e
  BY <1>6 DEF Placed
<1>8. /\ Extracted(d).capabilities \subseteq AllNodes(d) /\ Extracted(d).inputs \subseteq AllNodes(d)
      /\ Extracted(d).outputs \subseteq AllNodes(d) /\ Extracted(d).edges = Edges(d)
  BY ExtractedType DEF AllNodes
<1> HIDE DEF Move
<1>9. /\ Move(c) = Backs(d, Extracted(d).capabilities) /\ Move(i) = Backs(d, Extracted(d).inputs)
      /\ Move(o) = Backs(d, Extracted(d).outputs)
  BY <1>1, <1>2, <1>3, <1>4, <1>8
<1> QED
  BY <1>5, <1>7, <1>8, <1>9, Zenon

LEMMA BackShape ==
  ASSUME NEW d \in Document, NEW n \in AllNodes(d)
  PROVE  /\ Back(d, n).id = RelId(d, n.id) /\ Back(d, n).kind = n.kind /\ Back(d, n).name = n.name
         /\ Back(d, n).line = n.line /\ Back(d, n).described = n.described
<1>1. Back(d, n) = [id |-> RelId(d, n.id), kind |-> n.kind, name |-> n.name,
                    line |-> n.line, section |-> n.section, described |-> n.described]
  BY RelShape
<1> QED
  BY <1>1

(* An edge that was read back joins the nodes it joined. *)
LEMMA EdgesAgree ==
  ASSUME NEW d \in Document, NEW e \in Edges(d), NEW n \in AllNodes(d)
  PROVE  /\ RelEdge(d, e).source = Back(d, n).id <=> e.source = n.id
         /\ RelEdge(d, e).target = Back(d, n).id <=> e.target = n.id
         /\ RelEdge(d, e).kind = e.kind
<1>1. RelEdge(d, e) = [source |-> RelId(d, e.source), target |-> RelId(d, e.target), kind |-> e.kind]
  BY EdgeShape
<1>2. RelEdge(d, e).source = RelId(d, e.source) /\ RelEdge(d, e).target = RelId(d, e.target)
      /\ RelEdge(d, e).kind = e.kind
  BY <1>1
<1>3. Back(d, n).id = RelId(d, n.id)
  BY BackShape
<1>4. PICK s \in AllNodes(d) : e.source = s.id
  BY NothingDangles DEF Ids, AllNodes
<1>5. PICK t \in AllNodes(d) : e.target = t.id
  BY NothingDangles DEF Ids, AllNodes, Targets
<1>6. RelId(d, e.source) = RelId(d, n.id) => e.source = n.id
  BY <1>4, RelInjective
<1>7. RelId(d, e.target) = RelId(d, n.id) => e.target = n.id
  BY <1>5, RelInjective
<1> QED
  BY <1>2, <1>3, <1>6, <1>7

LEMMA WarnBacks ==
  ASSUME NEW d \in Document, NEW S, S \subseteq AllNodes(d), NEW rule
  PROVE  Warn(rule, Backs(d, S)) = Warn(rule, S)
<1>1. Warn(rule, Backs(d, S))
         = {Finding(rule, "warning", <<Back(d, n).name>>, Back(d, n).line) : n \in S}
  BY DEF Warn, Backs
<1>2. ASSUME NEW n \in S
      PROVE  Finding(rule, "warning", <<Back(d, n).name>>, Back(d, n).line)
                = Finding(rule, "warning", <<n.name>>, n.line)
  BY BackShape
<1> QED
  BY <1>1, <1>2 DEF Warn

(* The graph that was read back is judged as the document's own. *)
LEMMA SameFindings ==
  ASSUME NEW d \in Document, NEW a,
         a.capabilities = Backs(d, Extracted(d).capabilities),
         a.inputs = Backs(d, Extracted(d).inputs), a.outputs = Backs(d, Extracted(d).outputs),
         a.edges = RelEdges(d, Edges(d))
  PROVE  GraphFindings(a) = GraphFindings(Extracted(d))
<1> DEFINE g == Extracted(d)
           Alone == {c \in g.capabilities : \A e \in g.edges : e.source # c.id}
           Unread == {n \in Unused(g, g.inputs, "requires") : n.line # NoLine}
           Bare == {c \in g.capabilities : ~c.described}
           Idle == {n \in Unused(g, g.inputs, "requires") : n.kind = "tool" /\ n.line = NoLine}
<1>1. /\ g.capabilities \subseteq AllNodes(d) /\ g.inputs \subseteq AllNodes(d)
      /\ g.outputs \subseteq AllNodes(d) /\ g.edges = Edges(d)
  BY ExtractedType DEF AllNodes
<1> HIDE DEF g
<1>2. /\ a.capabilities = Backs(d, g.capabilities) /\ a.inputs = Backs(d, g.inputs)
      /\ a.outputs = Backs(d, g.outputs) /\ a.edges = RelEdges(d, g.edges)
  BY <1>1 DEF g
<1>3. ASSUME NEW S, S \subseteq AllNodes(d), NEW kind
      PROVE  Unused(a, Backs(d, S), kind) = Backs(d, Unused(g, S, kind))
  <2>1. ASSUME NEW n \in S
        PROVE  (\A e \in a.edges : ~(e.kind = kind /\ e.target = Back(d, n).id))
                 <=> (\A e \in g.edges : ~(e.kind = kind /\ e.target = n.id))
    <3>1. (\A e \in a.edges : ~(e.kind = kind /\ e.target = Back(d, n).id))
            <=> (\A e \in g.edges : ~(RelEdge(d, e).kind = kind /\ RelEdge(d, e).target = Back(d, n).id))
      BY <1>2 DEF RelEdges
    <3>2. ASSUME NEW e \in g.edges
          PROVE  (RelEdge(d, e).kind = kind /\ RelEdge(d, e).target = Back(d, n).id)
                   <=> (e.kind = kind /\ e.target = n.id)
      BY <1>1, <1>3, EdgesAgree
    <3> QED
      BY <3>1, <3>2
  <2>2. Unused(a, Backs(d, S), kind)
           = {x \in Backs(d, S) : \A e \in a.edges : ~(e.kind = kind /\ e.target = x.id)}
    BY DEF Unused
  <2>3. Unused(g, S, kind) = {n \in S : \A e \in g.edges : ~(e.kind = kind /\ e.target = n.id)}
    BY DEF Unused
  <2> QED
    BY <2>1, <2>2, <2>3 DEF Backs
<1>4. /\ Unused(g, g.inputs, "requires") \subseteq AllNodes(d)
      /\ Unused(g, g.outputs, "produces") \subseteq AllNodes(d)
  BY <1>1 DEF Unused
<1>5. Orphaned(a) = Orphaned(g)
  <2>1. {c \in a.capabilities : \A e \in a.edges : e.source # c.id} = Backs(d, Alone)
    <3>1. ASSUME NEW n \in g.capabilities
          PROVE  (\A e \in a.edges : e.source # Back(d, n).id) <=> (\A e \in g.edges : e.source # n.id)
      <4>1. (\A e \in a.edges : e.source # Back(d, n).id)
              <=> (\A e \in g.edges : RelEdge(d, e).source # Back(d, n).id)
        BY <1>2 DEF RelEdges
      <4>2. ASSUME NEW e \in g.edges
            PROVE  RelEdge(d, e).source = Back(d, n).id <=> e.source = n.id
        BY <1>1, EdgesAgree
      <4> QED
        BY <4>1, <4>2
    <3> QED
      BY <1>2, <3>1 DEF Backs
  <2>2. Alone \subseteq AllNodes(d)
    BY <1>1
  <2>3. Orphaned(a) = Warn("graph.capability.orphaned", Backs(d, Alone))
    BY <2>1, Zenon DEF Orphaned
  <2>4. Orphaned(g) = Warn("graph.capability.orphaned", Alone)
    BY Zenon DEF Orphaned
  <2> HIDE DEF Alone
  <2> QED
    BY <2>2, <2>3, <2>4, WarnBacks
<1>6. UnusedInputs(a) = UnusedInputs(g)
  <2>1. Unused(a, a.inputs, "requires") = Backs(d, Unused(g, g.inputs, "requires"))
    BY <1>1, <1>2, <1>3
  <2>2. {n \in Unused(a, a.inputs, "requires") : n.line # NoLine} = Backs(d, Unread)
    <3>1. \A n \in Unused(g, g.inputs, "requires") : Back(d, n).line = n.line
      BY <1>4, BackShape
    <3> QED
      BY <2>1, <3>1 DEF Backs
  <2>3. Unread \subseteq AllNodes(d)
    BY <1>4
  <2>4. UnusedInputs(a) = Warn("graph.input.unused", Backs(d, Unread))
    BY <2>2, Zenon DEF UnusedInputs
  <2>5. UnusedInputs(g) = Warn("graph.input.unused", Unread)
    BY Zenon DEF UnusedInputs
  <2> HIDE DEF Unread
  <2> QED
    BY <2>3, <2>4, <2>5, WarnBacks
<1>7. UnproducedOutputs(a) = UnproducedOutputs(g)
  <2>1. Unused(a, a.outputs, "produces") = Backs(d, Unused(g, g.outputs, "produces"))
    BY <1>1, <1>2, <1>3
  <2>2. UnproducedOutputs(a) = Warn("graph.output.unproduced", Backs(d, Unused(g, g.outputs, "produces")))
    BY <2>1, Zenon DEF UnproducedOutputs
  <2>3. UnproducedOutputs(g) = Warn("graph.output.unproduced", Unused(g, g.outputs, "produces"))
    BY Zenon DEF UnproducedOutputs
  <2> QED
    BY <1>4, <2>2, <2>3, WarnBacks
<1>8. EmptyDescriptions(a) = EmptyDescriptions(g)
  <2>1. {c \in a.capabilities : ~c.described} = Backs(d, Bare)
    <3>1. \A n \in g.capabilities : Back(d, n).described = n.described
      BY <1>1, BackShape
    <3>2. PICK f : f = [n \in g.capabilities |-> Back(d, n)]
      OBVIOUS
    <3>3. \A n \in g.capabilities : f[n] = Back(d, n) /\ f[n].described = n.described
      BY <3>1, <3>2
    <3>4. \A x : x \in a.capabilities <=> \E n \in g.capabilities : x = Back(d, n)
      BY <1>2 DEF Backs
    <3>5. \A x : x \in Backs(d, Bare) <=> \E n \in g.capabilities : ~n.described /\ x = Back(d, n)
      BY DEF Backs
    <3>6. \A x : x \in {c \in a.capabilities : ~c.described} <=> x \in Backs(d, Bare)
      BY <3>1, <3>4, <3>5, Zenon
    <3> HIDE DEF Bare
    <3> QED
      BY <3>6, Zenon
  <2>2. Bare \subseteq AllNodes(d)
    BY <1>1
  <2>3. EmptyDescriptions(a) = Warn("graph.capability.empty_description", Backs(d, Bare))
    BY <2>1, Zenon DEF EmptyDescriptions
  <2>4. EmptyDescriptions(g) = Warn("graph.capability.empty_description", Bare)
    BY Zenon DEF EmptyDescriptions
  <2> HIDE DEF Bare
  <2> QED
    BY <2>2, <2>3, <2>4, WarnBacks
<1>9. UnreferencedTools(a) = UnreferencedTools(g)
  <2>1. Unused(a, a.inputs, "requires") = Backs(d, Unused(g, g.inputs, "requires"))
    BY <1>1, <1>2, <1>3
  <2>2. {n \in Unused(a, a.inputs, "requires") : n.kind = "tool" /\ n.line = NoLine} = Backs(d, Idle)
    <3>1. \A n \in Unused(g, g.inputs, "requires") : Back(d, n).line = n.line /\ Back(d, n).kind = n.kind
      BY <1>4, BackShape
    <3> QED
      BY <2>1, <3>1 DEF Backs
  <2>3. Idle \subseteq AllNodes(d)
    BY <1>4
  <2>4. UnreferencedTools(a) = Warn("graph.tool.unreferenced", Backs(d, Idle))
    BY <2>2, Zenon DEF UnreferencedTools
  <2>5. UnreferencedTools(g) = Warn("graph.tool.unreferenced", Idle)
    BY Zenon DEF UnreferencedTools
  <2> HIDE DEF Idle
  <2> QED
    BY <2>3, <2>4, <2>5, WarnBacks
<1>10. GraphFindings(a) = GraphFindings(g)
  BY <1>5, <1>6, <1>7, <1>8, <1>9, Zenon DEF GraphFindings
<1> QED
  BY <1>10 DEF g

(* And does not contradict it, each capability having a name of its own. *)
LEMMA NoDisagreement ==
  ASSUME NEW d, Text1(d), Consistent(Extracted(d)), Distinct(d), NEW a,
         a.capabilities = Backs(d, Extracted(d).capabilities),
         a.inputs = Backs(d, Extracted(d).inputs), a.outputs = Backs(d, Extracted(d).outputs),
         a.edges = RelEdges(d, Edges(d))
  PROVE  Disagreements(a, Extracted(d)) = {}
<1> DEFINE g == Extracted(d)
<1>0. d \in Document
  BY DEF Text1
<1>1. /\ g.capabilities \subseteq AllNodes(d) /\ g.inputs \subseteq AllNodes(d)
      /\ g.outputs \subseteq AllNodes(d) /\ g.edges = Edges(d)
  BY <1>0, ExtractedType DEF AllNodes
<1>2. SUFFICES ASSUME NEW x \in Contradicted(a, g) PROVE FALSE
  BY Zenon DEF Disagreements
<1>3. /\ x \in a.capabilities \X (a.inputs \cup a.outputs) \X {"requires", "produces"}
      /\ [source |-> x[1].id, target |-> x[2].id, kind |-> x[3]] \in a.edges
  <2> HIDE DEF g
  <2> QED
    BY DEF Contradicted, Claims
<1>4. /\ HasName(g.capabilities, x[1].name) /\ HasName(Targets(g, x[3]), x[2].name)
      /\ [source |-> Index(g.capabilities, x[1].name).id,
          target |-> Index(Targets(g, x[3]), x[2].name).id, kind |-> x[3]] \notin g.edges
  <2> HIDE DEF g
  <2> QED
    BY DEF Contradicted
<1>5. PICK c \in g.capabilities : x[1] = Back(d, c)
  <2> HIDE DEF g
  <2> QED
    BY <1>3 DEF Backs, g
<1>6. PICK t \in g.inputs \cup g.outputs : x[2] = Back(d, t)
  <2> HIDE DEF g
  <2> QED
    BY <1>3 DEF Backs, g
<1>7. PICK e \in Edges(d) : [source |-> x[1].id, target |-> x[2].id, kind |-> x[3]] = RelEdge(d, e)
  BY <1>3 DEF RelEdges
<1> HIDE DEF g
<1>8. c \in AllNodes(d) /\ t \in AllNodes(d)
  BY <1>1
<1>9. /\ RelEdge(d, e).source = Back(d, c).id /\ RelEdge(d, e).target = Back(d, t).id
      /\ RelEdge(d, e).kind = x[3]
  <2>1. PICK r : r = [source |-> x[1].id, target |-> x[2].id, kind |-> x[3]]
    OBVIOUS
  <2>2. r.source = x[1].id /\ r.target = x[2].id /\ r.kind = x[3] /\ r = RelEdge(d, e)
    BY <1>7, <2>1
  <2> QED
    BY <1>5, <1>6, <2>2
<1>10. e.source = c.id /\ e.target = t.id /\ e.kind = x[3]
  BY <1>0, <1>8, <1>9, EdgesAgree
<1>11. x[1].name = c.name /\ x[2].name = t.name
  BY <1>0, <1>5, <1>6, <1>8, BackShape
<1>12. Index(g.capabilities, c.name) = c
  <2>1. g.capabilities = {Capability(d, h) : h \in Sections(d, "capability")}
    BY DEF g, Extracted
  <2>2. PICK h \in Sections(d, "capability") : c = Capability(d, h)
    BY <2>1
  <2>3. ASSUME NEW y \in g.capabilities, y.name = c.name PROVE y = c
    <3>1. PICK k \in Sections(d, "capability") : y = Capability(d, k)
      BY <2>1
    <3>2. d.lines[h].name = d.lines[k].name
      BY <1>0, <2>2, <2>3, <3>1, CapabilityType
    <3>3. h = k
      BY <3>2 DEF Distinct
    <3> QED
      BY <2>2, <3>1, <3>3
  <2>4. c.line \in Int
    BY <1>0, <1>8, NodeShape
  <2> QED
    BY <2>3, <2>4, IndexIs
<1>13. Index(Targets(g, x[3]), t.name).id = t.id
  <2>1. ASSUME NEW u \in AllNodes(d), u.id = t.id PROVE u.name = t.name
    <3>1. u.id = <<u.kind, u.name, u.line>> /\ t.id = <<t.kind, t.name, t.line>>
      BY <1>0, <1>8, NodeShape
    <3>2. ASSUME NEW i, NEW k, NEW m, NEW l, i = <<k, m, l>> PROVE i[2] = m
      BY <3>2
    <3>3. u.id[2] = u.name
      BY <3>1, <3>2
    <3>4. t.id[2] = t.name
      BY <3>1, <3>2
    <3> QED
      BY <2>1, <3>3, <3>4, Zenon
  <2>2. CASE Requires(d, e)
    <3>1. PICK h \in Sections(d, "capability") : \E n \in Quoted(d, h) : \E u \in InputNamed(d, n) :
                 e = [source |-> Capability(d, h).id, target |-> u.id, kind |-> "requires"]
      BY <2>2 DEF Requires
    <3>1a. PICK n \in Quoted(d, h) : \E u \in InputNamed(d, n) :
                 e = [source |-> Capability(d, h).id, target |-> u.id, kind |-> "requires"]
      BY <3>1
    <3>2. PICK u \in InputNamed(d, n) :
                 e = [source |-> Capability(d, h).id, target |-> u.id, kind |-> "requires"]
      BY <3>1a
    <3>3. u \in g.inputs
      BY <1>0, <3>2, NamedAreDeclared DEF g
    <3>4. u.name = n
      <4>1. CASE Declared(d, "input", n) # {}
        <5>1. u = Input(d, Last(Declared(d, "input", n)))
          BY <3>2, <4>1 DEF InputNamed
        <5>2. Last(Declared(d, "input", n)) \in Declared(d, "input", n)
          BY <1>0, <4>1, LastDeclared
        <5> QED
          BY <1>0, <5>1, <5>2, InputType DEF Declared
      <4>2. CASE Declared(d, "input", n) = {}
        BY <3>2, <4>2 DEF InputNamed
      <4> QED
        BY <4>1, <4>2
    <3>5. u.id = t.id /\ x[3] = "requires"
      <4>1. e.target = u.id /\ e.kind = "requires"
        BY <3>2
      <4> QED
        BY <1>10, <4>1
    <3>6. u.name = t.name
      BY <1>1, <2>1, <3>3, <3>5
    <3>7. InputNamed(d, n) = {Index(g.inputs, n)}
      <4>1. HasName(Extracted(d).inputs, n)
        BY <3>3, <3>4 DEF HasName, g
      <4> QED
        BY <4>1, NamedIsIndexed DEF g
    <3>8. Targets(g, x[3]) = g.inputs
      BY <3>5 DEF Targets
    <3> QED
      BY <3>2, <3>4, <3>5, <3>6, <3>7, <3>8
  <2>3. CASE Produces(d, e)
    <3>1. PICK h \in Sections(d, "capability") : \E n \in Quoted(d, h) : \E u \in OutputNamed(d, n) :
                 e = [source |-> Capability(d, h).id, target |-> u.id, kind |-> "produces"]
      BY <2>3 DEF Produces
    <3>1a. PICK n \in Quoted(d, h) : \E u \in OutputNamed(d, n) :
                 e = [source |-> Capability(d, h).id, target |-> u.id, kind |-> "produces"]
      BY <3>1
    <3>2. PICK u \in OutputNamed(d, n) :
                 e = [source |-> Capability(d, h).id, target |-> u.id, kind |-> "produces"]
      BY <3>1a
    <3>3. u \in g.outputs
      BY <1>0, <3>2, NamedAreDeclared DEF g
    <3>4. u.name = n
      <4>1. Declared(d, "output", n) # {}
        BY <3>2 DEF OutputNamed
      <4>2. u = Output(d, Last(Declared(d, "output", n)))
        BY <3>2, <4>1 DEF OutputNamed
      <4>3. Last(Declared(d, "output", n)) \in Declared(d, "output", n)
        BY <1>0, <4>1, LastDeclared
      <4> QED
        BY <1>0, <4>2, <4>3, OutputType DEF Declared
    <3>5. u.id = t.id /\ x[3] = "produces"
      <4>1. e.target = u.id /\ e.kind = "produces"
        BY <3>2
      <4> QED
        BY <1>10, <4>1
    <3>6. u.name = t.name
      BY <1>1, <2>1, <3>3, <3>5
    <3>7. OutputNamed(d, n) = {Index(g.outputs, n)}
      <4>1. HasName(Extracted(d).outputs, n)
        BY <3>3, <3>4 DEF HasName, g
      <4> QED
        BY <4>1, NamedIsIndexed DEF g
    <3>8. Targets(g, x[3]) = g.outputs
      BY <3>5 DEF Targets
    <3> QED
      BY <3>2, <3>4, <3>5, <3>6, <3>7, <3>8
  <2> QED
    BY <2>2, <2>3, EdgesOf
<1>14. e = [source |-> e.source, target |-> e.target, kind |-> e.kind]
  BY <1>0, EdgeShape
<1>15. [source |-> Index(g.capabilities, x[1].name).id,
        target |-> Index(Targets(g, x[3]), x[2].name).id, kind |-> x[3]] = e
  BY <1>10, <1>11, <1>12, <1>13, <1>14, Zenon
<1> QED
  BY <1>1, <1>4, <1>15

(* An agent that echoes what the tool extracts is reported as the tool       *)
(* reports the text itself: no node is judged otherwise, no edge is lost on  *)
(* the way through the coordinates of the body, and nothing is a             *)
(* contradiction.  The limits are those of the code: as many items may be    *)
(* ingested of each kind as a graph may have nodes.                          *)
THEOREM EchoesAgree ==
  ASSUME MaxNodes <= MaxItems
  PROVE  Spec => []EchoAgrees
<1>1. ASSUME SInv PROVE EchoAgrees
  <2> SUFFICES ASSUME analysis # None, review # None, review.of = "graph",
                      analysis.on = review.on, analysis.ended = "report", review.on.readable,
                      analysis.found # Error("graph.limit"),
                      answer = Echo(review.on), Distinct(review.on), Capped(answer.edges)
               PROVE  review.found = analysis.found
    BY DEF EchoAgrees
  <2>1. PICK d \in Document : Text1(d) /\ analysis = AnalysisOf(d)
    BY <1>1 DEF SInv
  <2>2. PICK c \in Document : Text1(c) /\ review \in {GraphReviewOf(c, answer), CritiqueReviewOf(c, answer)}
    BY <1>1 DEF SInv
  <2>3. review = GraphReviewOf(c, answer)
    BY <2>2, ReportsOn
  <2>4. review.on = c /\ analysis.on = d
    BY <2>1, <2>3, ReportsOn
  <2>5. c = d /\ d.readable /\ Distinct(d) /\ answer = Echo(d)
    BY <2>4
  <2>6. ~OverBudget(d) /\ Consistent(Extracted(d)) /\ analysis.found = GraphFindings(Extracted(d))
    BY <2>1, <2>5 DEF AnalysisOf
  <2>7. GraphAccepted(answer, d)
    BY <2>1, <2>5, <2>6, EchoAccepted
  <2>8. Readable(answer)
    BY <2>5, EchoIs
  <2> DEFINE a == Placed(d, Carried(answer))
  <2>9. /\ a.capabilities = Backs(d, Extracted(d).capabilities)
        /\ a.inputs = Backs(d, Extracted(d).inputs)
        /\ a.outputs = Backs(d, Extracted(d).outputs)
        /\ a.edges = RelEdges(d, Edges(d))
    BY <2>5, EchoPlaced
  <2>10. review.found = GraphFindings(a) \cup Disagreements(a, Extracted(d))
    BY <2>3, <2>5, <2>6, <2>7, <2>8 DEF GraphReviewOf
  <2> HIDE DEF a
  <2>11. GraphFindings(a) = GraphFindings(Extracted(d))
    BY <2>9, SameFindings
  <2>12. Disagreements(a, Extracted(d)) = {}
    BY <2>1, <2>5, <2>6, <2>9, NoDisagreement
  <2> QED
    BY <2>6, <2>10, <2>11, <2>12
<1>2. SInv => EchoAgrees
  BY <1>1
<1> QED
  BY <1>2, SInvariance, PTL
=============================================================================
