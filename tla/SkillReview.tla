----------------------------- MODULE SkillReview -----------------------------
(***************************************************************************)
(* An author, an agent and the tool around one SKILL.md: the author edits  *)
(* it, has it analyzed (--analyze-graph), has a prompt printed for an      *)
(* agent, and later ingests what the agent answered.  Nothing binds an     *)
(* answer to the text it was asked for: run_validation of commands.py      *)
(* reads the file again and judges the answer by what is there now.        *)
(*                                                                         *)
(* What the rules find in the same run, ignored prefixes and exit codes    *)
(* are those of ValidationRuns; here a report holds what the graph and the *)
(* answer contribute.                                                      *)
(***************************************************************************)
EXTENDS AgentResponse

CONSTANTS LineKinds,    \* the lines an author writes
          ToolSets,     \* values of allowed-tools
          Drafts,       \* bodies to begin with
          Answers(_),   \* what an agent may answer when asked about a document
          None

ASSUME ReviewAssumption == /\ LineKinds \subseteq Line /\ ToolSets \subseteq SUBSET Names
                           /\ \A T \in ToolSets : IsFiniteSet(T)
                           /\ Drafts \subseteq Seq(Line)

VARIABLES doc,       \* SKILL.md as it is
          asked,     \* the text in the prompt that was printed last
          answer,    \* what the agent answered to it
          analysis,  \* the last report of --analyze-graph, and on which text
          review     \* the last report of --ingest-graph or --ingest-critique
vars == <<doc, asked, answer, analysis, review>>

Rules  == {"parse.error", "graph.limit", "semantic.ingest.parse_error",
           "semantic.ingest.graph_parse_error", "graph.capability.orphaned",
           "graph.input.unused", "graph.output.unproduced", "graph.capability.empty_description",
           "graph.tool.unreferenced", "graph.contradiction.heuristic_disagreement",
           "semantic.context.missing", "semantic.contradiction.detected"}
          \cup {Low[a] : a \in Aspects} \cup {Observed[s] : s \in Severities}
Report == [of : {"body", "graph", "critique"}, on : Document,
           ended : {"report", "refused", "traceback"},
           found : SUBSET [rule : Rules, severity : Severities, about : Seq(Names), line : Int]]

TypeOK == /\ doc \in Document
          /\ asked \in Document \cup {None}
          /\ answer # None => asked # None /\ answer \in Answers(asked)
          /\ analysis # None => analysis \in Report
          /\ review # None => review \in Report

Init == /\ doc \in [start : {1}, tools : ToolSets, lines : Drafts, readable : {TRUE}]
        /\ asked = None /\ answer = None /\ analysis = None /\ review = None
-----------------------------------------------------------------------------
(* The author.  Reports on a shorter or longer text are put aside. *)
AddLine(l) == /\ doc' = [doc EXCEPT !.lines = Append(@, l)]
              /\ analysis' = None /\ review' = None
              /\ UNCHANGED <<asked, answer>>

Cut == /\ doc.lines # <<>>
       /\ doc' = [doc EXCEPT !.lines = SubSeq(@, 1, Len(@) - 1)]
       /\ analysis' = None /\ review' = None
       /\ UNCHANGED <<asked, answer>>

(* One more name in backticks. *)
Quote(i, n) == /\ doc.lines[i].is = "text"
               /\ doc' = [doc EXCEPT !.lines[i].quotes = @ \cup {n}]
               /\ UNCHANGED <<asked, answer, analysis, review>>

(* A line more in the frontmatter; the frontmatter broken or repaired. *)
Describe == /\ doc' = [doc EXCEPT !.start = @ + 1]
            /\ UNCHANGED <<asked, answer, analysis, review>>
Break    == /\ doc' = [doc EXCEPT !.readable = ~@]
            /\ UNCHANGED <<asked, answer, analysis, review>>
-----------------------------------------------------------------------------
AskKeeping ==     \* slip: what was answered before stays with the new prompt
    /\ doc.readable
    /\ asked' = doc
    /\ UNCHANGED <<doc, answer, analysis, review>>

(* _emit_documents: what cannot be parsed is an error and gives no prompt.
   The review of an earlier answer is put aside. *)
Ask == /\ doc.readable
       /\ asked' = doc /\ answer' = None /\ review' = None
       /\ UNCHANGED <<doc, analysis>>

Reply == /\ asked # None /\ answer = None
         /\ answer' \in Answers(asked)
         /\ UNCHANGED <<doc, asked, analysis, review>>

Error(rule) == {Finding(rule, "error", <<>>, NoLine)}
Ends(of, ended, found) == [of |-> of, on |-> doc, ended |-> ended, found |-> found]

(* Only GraphLimitError is caught of what the constructor and the budget raise. *)
Analyze ==
    LET g == Extracted(doc) IN
    /\ analysis' = IF ~doc.readable THEN Ends("body", "report", Error("parse.error"))
                   ELSE IF OverBudget(doc) THEN Ends("body", "report", Error("graph.limit"))
                   ELSE IF ~Consistent(g) THEN Ends("body", "traceback", {})
                   ELSE Ends("body", "report", GraphFindings(g))
    /\ UNCHANGED <<doc, asked, answer, review>>

(* The file is read and judged first; an answer that cannot be read as text
   then ends the command with status 2 and without a report. *)
IngestGraph ==
    LET h == Extracted(doc)
        a == Placed(doc, Carried(answer)) IN
    /\ answer # None
    /\ review' = IF ~Readable(answer) THEN Ends("graph", "refused", {})
                 ELSE IF ~doc.readable
                 THEN Ends("graph", "report", Error("parse.error") \cup Error("semantic.ingest.graph_parse_error"))
                 ELSE IF ~GraphAccepted(answer, doc) \/ OverBudget(doc)
                 THEN Ends("graph", "report", Error("semantic.ingest.graph_parse_error"))
                 ELSE IF ~Consistent(h) THEN Ends("graph", "traceback", {})
                 ELSE Ends("graph", "report", GraphFindings(a) \cup Disagreements(a, h))
    /\ UNCHANGED <<doc, asked, answer, analysis>>

IngestCritique ==
    /\ answer # None
    /\ review' = IF ~Readable(answer) THEN Ends("critique", "refused", {})
                 ELSE IF ~doc.readable
                 THEN Ends("critique", "report", Error("parse.error") \cup Error("semantic.ingest.parse_error"))
                 ELSE IF ~CritiqueAccepted(answer)
                 THEN Ends("critique", "report", Error("semantic.ingest.parse_error"))
                 ELSE Ends("critique", "report", CritiqueFindings(doc, answer))
    /\ UNCHANGED <<doc, asked, answer, analysis>>

Next == \/ \E l \in LineKinds : AddLine(l)
        \/ Cut
        \/ \E i \in DOMAIN doc.lines, n \in Names : Quote(i, n)
        \/ Describe \/ Break
        \/ Ask \/ Reply
        \/ Analyze \/ IngestGraph \/ IngestCritique
Spec == Init /\ [][Next]_vars
-----------------------------------------------------------------------------
Item(v, fields) == [value |-> v, object |-> TRUE, fields |-> fields, wrong |-> {}]
Items(S, fields) == {Item(v, fields) : v \in S}

(* The answer that says of d just what extract_graph_heuristic finds there, in
   the coordinates the prompt asks for. *)
Echo(d) ==
    LET g == Extracted(d)
        Line1(n) == IF n = NoLine THEN n ELSE n - d.start + 1
        Id(i) == <<i[1], i[2], Line1(i[3])>>
        In(S) == {[n EXCEPT !.line = Line1(@), !.id = Id(@)] : n \in S}
    IN [bytes |-> "text", text |-> <<"json">>, object |-> TRUE, fields |-> GraphFields, wrong |-> {},
        capabilities |-> Items(In(g.capabilities), {"id", "name", "description", "line"}),
        inputs |-> Items(In(g.inputs), {"id", "name", "kind", "line"}), outputs |-> Items(In(g.outputs), {"id", "name", "kind", "line"}),
        edges |-> Items({[e EXCEPT !.source = Id(@), !.target = Id(@)] : e \in g.edges}, {"source_id", "target_id", "kind"})]

(* No two capabilities of a document share their name. *)
Distinct(d) == \A h, k \in Sections(d, "capability") : d.lines[h].name = d.lines[k].name => h = k

(* An agent that answers exactly what the tool itself extracts is reported as
   --analyze-graph would report the same text, location for location, and is
   not contradicted; wherever the body begins, and even if the answer was made
   for another text.  Two capabilities of one name are excepted, of which
   check_heuristic_disagreement knows only the last one, and answers with more
   edges than may be ingested. *)
EchoAgrees ==
    /\ analysis # None /\ review # None /\ review.of = "graph"
    /\ analysis.on = review.on /\ analysis.ended = "report" /\ review.on.readable
    /\ analysis.found # Error("graph.limit")
    /\ answer = Echo(review.on) /\ Distinct(review.on) /\ Capped(answer.edges)
    => review.found = analysis.found

(* A finding of --analyze-graph with a line sends the reader to the line of the
   file that declares what the finding is about. *)
LinesTellWhere ==
    analysis # None =>
        \A f \in analysis.found : f.line # NoLine =>
            /\ f.line - analysis.on.start + 1 \in DOMAIN analysis.on.lines
            /\ <<analysis.on.lines[f.line - analysis.on.start + 1].name>> = f.about

(* Quoting one more name in the text never brings a finding of --analyze-graph
   that was not there before. *)
MoreQuotes(d, e) ==
    /\ Len(d.lines) = Len(e.lines)
    /\ \A i \in DOMAIN d.lines : d.lines[i].quotes \subseteq e.lines[i].quotes
    /\ e = [d EXCEPT !.lines = [i \in DOMAIN @ |-> [@[i] EXCEPT !.quotes = e.lines[i].quotes]]]
ReferencesOnlySilence ==
    [][analysis # None /\ analysis' # None /\ MoreQuotes(analysis.on, analysis'.on)
       => analysis'.found \subseteq analysis.found]_vars

(* A contradiction reported of an answer, made for this text or for an earlier
   one, is about a heading, and an item or a tool, that the text has now; and
   there is a section under that heading that does not quote the name. *)
ContradictionsAreReal ==
    review # None =>
        \A f \in review.found : f.rule = "graph.contradiction.heuristic_disagreement" =>
            LET L == review.on.lines
                Heads == {i \in DOMAIN L : L[i].is = "heading" /\ L[i].shown}
                Next1(h) == {i \in Heads : i > h /\ L[i].level <= L[h].level}
                Under(h) == {i \in DOMAIN L : i > h /\ \A k \in Next1(h) : i < k}
            IN /\ \/ f.about[2] \in review.on.tools
                  \/ \E i \in DOMAIN L : L[i].is = "item" /\ L[i].name = f.about[2]
               /\ \E h \in Heads : /\ L[h].name = f.about[1]
                                   /\ \A i \in Under(h) : L[i].shown => f.about[2] \notin L[i].quotes

(* CHANGELOG.md:144-145: --analyze-graph no longer ends in the ValueError of the
   duplicate-ID guard. *)
NeverATraceback == analysis # None => analysis.ended = "report"
=============================================================================
