---------------------------- MODULE AgentResponse ----------------------------
(***************************************************************************)
(* What an agent answers to a prompt of --emit-graph-prompt or             *)
(* --emit-critique-prompt and how --ingest-graph and --ingest-critique     *)
(* read it: agents/_response_text.py, _ingest.py, graph_parser.py,         *)
(* parser.py and core/semantic.py, as operators on answers.                *)
(*                                                                         *)
(* An answer is the text around its JSON value and the value: whether it   *)
(* is an object, its fields, and its items with their own fields.  "wrong" *)
(* names the fields that hold a value of another type, a boolean for a     *)
(* number included.                                                        *)
(***************************************************************************)
EXTENDS CapabilityGraph

CONSTANT MaxItems  \* _ingest.py:34
ASSUME ItemAssumption == MaxItems \in Nat

(* "braced" is prose with a brace in it. *)
Text == Seq({"json", "fence", "prose", "braced"})

(* One fence, if it encloses everything; then whatever precedes a brace. *)
Unfenced(t) == IF Len(t) >= 2 /\ t[1] = "fence" /\ t[Len(t)] = "fence"
               THEN SubSeq(t, 2, Len(t) - 1) ELSE t
Braces(t)   == {i \in DOMAIN t : t[i] \in {"json", "braced"}}
Stripped(t) == IF Braces(t) = {} THEN t
               ELSE SubSeq(t, CHOOSE i \in Braces(t) : \A j \in Braces(t) : i <= j, Len(t))

Decodes(r) == Stripped(Unfenced(r.text)) = <<"json">>

(* An object with just these fields, each of its type. *)
Form(x, fields) == x.object /\ x.fields = fields /\ x.wrong = {}
Capped(S) == Cardinality(S) <= MaxItems

(* read_ingest_raw: too long, not UTF-8, or with control characters. *)
Readable(r) == r.bytes = "text"
-----------------------------------------------------------------------------
GraphFields == {"capabilities", "inputs", "outputs", "edges"}
EdgeKinds   == {"requires", "produces"}

CapabilityForm(x) == Form(x, {"id", "name", "description", "line"})
InputForm(x)  == Form(x, {"id", "name", "kind", "line"}) /\ x.value.kind \in InputKinds
OutputForm(x) == Form(x, {"id", "name", "kind", "line"}) /\ x.value.kind \in OutputKinds
EdgeForm(x)   == Form(x, {"source_id", "target_id", "kind"}) /\ x.value.kind \in EdgeKinds

Values(S) == {x.value : x \in S}
Carried(r) == [capabilities |-> Values(r.capabilities), inputs |-> Values(r.inputs),
               outputs |-> Values(r.outputs), edges |-> Values(r.edges)]

(* parse_graph_response, for the document as it is read along with it. *)
GraphAccepted(r, d) ==
    /\ Decodes(r) /\ Form(r, GraphFields)
    /\ \A S \in {r.capabilities, r.inputs, r.outputs, r.edges} : Capped(S)
    /\ \A x \in r.capabilities : CapabilityForm(x)
    /\ \A x \in r.inputs : InputForm(x)
    /\ \A x \in r.outputs : OutputForm(x)
    /\ \A x \in r.edges : EdgeForm(x)
    /\ LET g == Carried(r) IN
       /\ \A n \in g.capabilities \cup g.inputs \cup g.outputs :
             n.line # NoLine => n.line \in 1 .. Len(d.lines)
       /\ Consistent(g)

PlacedInBody(d, g) == g     \* slip: lines stay relative to the body

(* extract_graph_agent: lines of the body become lines of the file. *)
Placed(d, g) ==
    LET Move(S) == {[n EXCEPT !.line = IF @ = NoLine THEN @ ELSE At(d, @)] : n \in S}
    IN [g EXCEPT !.capabilities = Move(@), !.inputs = Move(@), !.outputs = Move(@)]
-----------------------------------------------------------------------------
Aspects        == {"clarity", "completeness", "executability"}
CritiqueFields == Aspects \cup {"findings", "missing_context", "contradictions"}
Severities     == {"error", "warning", "info"}

InRange(score)  == score \in 0 .. 100
FindingForm(x)  == /\ Form(x, {"section", "issue", "severity", "suggestion"})
                   /\ x.value.severity \in Severities
ClashForm(x)    == Form(x, {"location_a", "location_b", "nature"})

(* parse_critique_response. *)
CritiqueAccepted(r) ==
    /\ Decodes(r) /\ Form(r, CritiqueFields)
    /\ \A a \in Aspects : InRange(r.scores[a])
    /\ \A S \in {r.findings, r.missing, r.contradictions} : Capped(S)
    /\ \A x \in r.findings : FindingForm(x)
    /\ \A x \in r.missing : x.wrong = {}
    /\ \A x \in r.contradictions : ClashForm(x)

(* _find_section_line: the first heading of two or three #, in code blocks too,
   counted from the start of the body. *)
SectionLine(d, n) ==
    LET H == {i \in DOMAIN d.lines : /\ d.lines[i].is = "heading" /\ d.lines[i].level \in 2 .. 3
                                     /\ d.lines[i].name = n}
    IN IF H = {} THEN NoLine ELSE CHOOSE i \in H : \A j \in H : i <= j

(* The rules that are put together from an aspect or a severity. *)
Low      == [clarity |-> "semantic.clarity.low", completeness |-> "semantic.completeness.low",
             executability |-> "semantic.executability.low"]
Observed == [error |-> "semantic.finding.error", warning |-> "semantic.finding.warning",
             info |-> "semantic.finding.info"]

(* The thresholds of semantic.py:19. *)
Score(a, n) == IF n < 70 THEN {Finding(Low[a], "warning", <<>>, NoLine)}
               ELSE IF n < 85 THEN {Finding(Low[a], "info", <<>>, NoLine)}
               ELSE {}

CritiqueFindings(d, r) ==
    (UNION {Score(a, r.scores[a]) : a \in Aspects})
    \cup {Finding("semantic.context.missing", "warning", <<n>>, NoLine) : n \in Values(r.missing)}
    \cup {Finding("semantic.contradiction.detected", "error", <<x.a, x.b>>, NoLine) :
            x \in Values(r.contradictions)}
    \cup {Finding(Observed[x.severity], x.severity, <<x.section>>, SectionLine(d, x.section)) :
            x \in Values(r.findings)}
=============================================================================
