------------------------- MODULE DependencyAnalysis -------------------------
(***************************************************************************)
(* dependencies.analyze_dependencies: a depth-first walk over the Markdown *)
(* documents that SKILL.md leads to, one action per outcome of a           *)
(* reference, and a second pass over the collected edges for cycles that   *)
(* the walk cannot see.  A document is read when it is first referred to,  *)
(* so what counts as its depth is the way it was first found.              *)
(*                                                                         *)
(* A path is a model value.  Paths are already resolved; external links,   *)
(* anchors and generated targets are not references (lines 40-41).         *)
(***************************************************************************)
EXTENDS Naturals, Sequences, FiniteSets

CONSTANTS Docs,       \* Markdown documents of the bundle
          Skill,      \* SKILL.md
          Leaves,     \* other files of the bundle
          Gone,       \* a path of the bundle where there is no file
          Outside,    \* a target outside the bundle, or an unsafe one
          Texts,      \* the texts the documents may have
          Limit,      \* depth limit of the walk (32)
          MaxFiles    \* io_limits.MAX_SCAN_FILES

Paths == Docs \cup Leaves \cup {Gone}
Refs  == [kind : {"link", "mention", "uncertain", "control"}, to : Paths \cup {Outside}]

(* What one read of a document gives; "garbled" bytes are read and counted,
   but are not UTF-8. *)
Text  == [refs : Seq(Refs), uncertain : BOOLEAN, read : {"ok", "fails", "garbled"}]

ASSUME DependencyAssumption ==
    /\ IsFiniteSet(Docs) /\ IsFiniteSet(Leaves) /\ Skill \in Docs
    /\ Docs \cap Leaves = {}
    /\ Gone \notin Docs \cup Leaves
    /\ Outside \notin Paths
    /\ Texts \subseteq [Docs -> Text]
    /\ Limit \in Nat \ {0} /\ MaxFiles \in Nat

VARIABLES text,       \* the documents; they do not change during a walk
          pending,    \* stack of documents still to be looked at, top first
          frame,      \* the document at hand, its ancestors, its next reference
          paths, edges, asserted, expanded,
          complete, errors,
          phase

found == <<paths, edges, asserted, expanded>>
vars  == <<text, pending, frame, paths, edges, asserted, expanded, complete, errors, phase>>

Rules == {"cycle", "broken-link", "escape", "unreadable"}
Frame == [doc : Docs, chain : SUBSET Docs, next : Nat]

TypeOK == /\ text \in [Docs -> Text]
          /\ pending \in Seq(Frame) /\ frame \in Frame
          /\ Cardinality(frame.chain) <= Limit
          /\ paths \subseteq Paths /\ expanded \subseteq Docs
          /\ edges \subseteq Docs \X Paths /\ asserted \subseteq edges
          /\ complete \in BOOLEAN /\ errors \subseteq Rules
          /\ phase \in {"walk", "done"}

(* The caller has read and parsed SKILL.md. *)
Init == /\ text \in Texts /\ text[Skill].read = "ok"
        /\ pending = <<>>
        /\ frame = [doc |-> Skill, chain |-> {Skill}, next |-> 1]
        /\ paths = {} /\ edges = {} /\ asserted = {} /\ expanded = {}
        /\ complete = ~text[Skill].uncertain
        /\ errors = {}
        /\ phase = "walk"
-----------------------------------------------------------------------------
HasRef   == phase = "walk" /\ frame.next <= Len(text[frame.doc].refs)
Ref      == text[frame.doc].refs[frame.next]
Edge     == <<frame.doc, Ref.to>>
Usable   == HasRef /\ Ref.kind \in {"link", "mention"}
InBundle == Usable /\ Ref.to # Outside
Fits     == Cardinality(paths \cup {Ref.to}) <= MaxFiles
Asserts  == InBundle /\ Fits /\ Ref.kind = "link"
Advance  == frame' = [frame EXCEPT !.next = @ + 1]

Under(d) == [doc |-> d, chain |-> frame.chain \cup {d}, next |-> 1]

(* The path and the edge are kept whatever becomes of an asserted link. *)
Keep == /\ paths' = paths \cup {Ref.to}
        /\ edges' = edges \cup {Edge}
        /\ asserted' = asserted \cup {Edge}

(* Slips in the walk; no specification uses them. *)
CycleByVisit ==         \* every document met before counts as an ancestor
    /\ Asserts /\ Ref.to \in frame.chain \cup expanded
    /\ complete' = FALSE /\ errors' = errors \cup {"cycle"}
    /\ Keep /\ Advance
    /\ UNCHANGED <<text, pending, expanded, phase>>

ExpandTooDeep ==        \* the depth is compared one too late
    /\ Asserts /\ Ref.to \in Docs \ (frame.chain \cup expanded)
    /\ Cardinality(frame.chain) <= Limit /\ text[Ref.to].read = "ok"
    /\ expanded' = expanded \cup {Ref.to}
    /\ pending' = <<Under(Ref.to)>> \o pending
    /\ Keep /\ Advance
    /\ UNCHANGED <<text, complete, errors, phase>>

PopForgets ==           \* only SKILL.md is asked whether it is ambiguous
    /\ phase = "walk" /\ ~HasRef /\ pending # <<>>
    /\ frame' = Head(pending)
    /\ pending' = Tail(pending)
    /\ UNCHANGED <<text, found, complete, errors, phase>>

FinishUnchecked ==      \* no second pass
    /\ phase = "walk" /\ ~HasRef /\ pending = <<>>
    /\ phase' = "done"
    /\ UNCHANGED <<text, pending, frame, found, complete, errors>>
-----------------------------------------------------------------------------
(* A reference whose meaning depends on an unconfigured format, or one with
   control characters or a home directory that cannot be expanded. *)
Uncertain == /\ HasRef /\ Ref.kind \in {"uncertain", "control"}
             /\ complete' = FALSE
             /\ errors' = errors \cup (IF Ref.kind = "control" THEN {"unreadable"} ELSE {})
             /\ Advance
             /\ UNCHANGED <<text, pending, found, phase>>

(* A target that leaves the bundle; only an assertion of it is an error. *)
Escape == /\ Usable /\ Ref.to = Outside
          /\ complete' = FALSE
          /\ errors' = errors \cup (IF Ref.kind = "mention" THEN {} ELSE {"escape"})
          /\ Advance
          /\ UNCHANGED <<text, pending, found, phase>>

(* Too many paths: the walk returns at once, without the second pass. *)
Overflow == /\ InBundle /\ ~Fits
            /\ paths' = paths \cup {Ref.to}
            /\ complete' = FALSE
            /\ errors' = errors \cup {"unreadable"}
            /\ phase' = "done"
            /\ UNCHANGED <<text, pending, frame, edges, asserted, expanded>>

(* A path in inline code is a possible edge and is not followed. *)
Mention == /\ InBundle /\ Fits /\ Ref.kind = "mention"
           /\ paths' = paths \cup {Ref.to}
           /\ edges' = edges \cup {Edge}
           /\ complete' = FALSE
           /\ Advance
           /\ UNCHANGED <<text, pending, asserted, expanded, errors, phase>>

Cycle == /\ Asserts /\ Ref.to \in frame.chain
         /\ complete' = FALSE /\ errors' = errors \cup {"cycle"}
         /\ Keep /\ Advance
         /\ UNCHANGED <<text, pending, expanded, phase>>

Broken == /\ Asserts /\ Ref.to = Gone
          /\ complete' = FALSE /\ errors' = errors \cup {"broken-link"}
          /\ Keep /\ Advance
          /\ UNCHANGED <<text, pending, expanded, phase>>

(* A file that is not Markdown, or a document that was read before. *)
Known == /\ Asserts /\ Ref.to \notin frame.chain
         /\ Ref.to \in expanded \cup Leaves
         /\ Keep /\ Advance
         /\ UNCHANGED <<text, pending, expanded, complete, errors, phase>>

New == Asserts /\ Ref.to \in Docs \ (frame.chain \cup expanded)

(* The chain is too long, too many documents, or the read fails. *)
Refuse == /\ New
          /\ \/ Cardinality(frame.chain) >= Limit
             \/ Cardinality(expanded) >= MaxFiles
             \/ text[Ref.to].read = "fails"
          /\ complete' = FALSE /\ errors' = errors \cup {"unreadable"}
          /\ Keep /\ Advance
          /\ UNCHANGED <<text, pending, expanded, phase>>

(* The bytes were counted and the document marked before decoding failed. *)
Garbled == /\ New
           /\ Cardinality(frame.chain) < Limit
           /\ Cardinality(expanded) < MaxFiles
           /\ text[Ref.to].read = "garbled"
           /\ expanded' = expanded \cup {Ref.to}
           /\ complete' = FALSE /\ errors' = errors \cup {"unreadable"}
           /\ Keep /\ Advance
           /\ UNCHANGED <<text, pending, phase>>

Expand == /\ New
          /\ Cardinality(frame.chain) < Limit
          /\ Cardinality(expanded) < MaxFiles
          /\ text[Ref.to].read = "ok"
          /\ expanded' = expanded \cup {Ref.to}
          /\ pending' = <<Under(Ref.to)>> \o pending
          /\ Keep /\ Advance
          /\ UNCHANGED <<text, complete, errors, phase>>

(* The next document comes off the top of the stack. *)
Pop == /\ phase = "walk" /\ ~HasRef /\ pending # <<>>
       /\ frame' = Head(pending)
       /\ pending' = Tail(pending)
       /\ complete' = (complete /\ ~text[frame'.doc].uncertain)
       /\ UNCHANGED <<text, found, errors, phase>>

(* Names without an incoming edge are taken away until none is left. *)
Trim(E) == {e \in E : \E d \in E : d[2] = e[1]}
Cyclic(E) ==
    LET rest[n \in Nat] == IF n = 0 THEN E ELSE Trim(rest[n - 1])
    IN  rest[Cardinality(Docs) + 1] # {}

Finish == /\ phase = "walk" /\ ~HasRef /\ pending = <<>>
          /\ complete' = (complete /\ ~Cyclic(asserted))
          /\ errors' = errors \cup (IF Cyclic(asserted) THEN {"cycle"} ELSE {})
          /\ phase' = "done"
          /\ UNCHANGED <<text, pending, frame, found>>

Walk == \/ Uncertain \/ Escape \/ Overflow \/ Mention \/ Cycle \/ Broken
        \/ Known \/ Refuse \/ Garbled \/ Expand \/ Pop

Next == Walk \/ Finish

Spec == Init /\ [][Next]_vars
-----------------------------------------------------------------------------
(* The graph as it is, whatever the walk made of it. *)
RefsOf(d)   == {text[d].refs[i] : i \in 1 .. Len(text[d].refs)}
LinksOf(d)  == {r.to : r \in {x \in RefsOf(d) : x.kind = "link" /\ x.to # Outside}}
LinkEdges   == UNION {{d} \X LinksOf(d) : d \in {x \in Docs : text[x].read = "ok"}}

(* What is reached from S along a set of edges: the least set of paths that
   holds S and is closed under them. *)
ClosedUnder(T, E) == \A e \in E : e[1] \in T => e[2] \in T
Leads(S, E) == LET closed == {T \in SUBSET Paths : S \subseteq T /\ ClosedUnder(T, E)}
               IN  {p \in Paths : \A T \in closed : p \in T}
Circular(E) == \E e \in E : e[1] \in Leads({e[2]}, E)

Reached(S)  == Leads(S, LinkEdges)
AllDocs     == Reached({Skill}) \cap Docs
Looping     == \E d \in AllDocs : \E t \in LinksOf(d) : d \in Reached({t})
Plain(d)    == /\ text[d].read = "ok" /\ ~text[d].uncertain
               /\ \A r \in RefsOf(d) : r.kind = "link" /\ r.to \in Docs \cup Leaves

(* A walk that calls its result complete has seen everything: every document
   SKILL.md leads to was read, all of their references are edges, nothing is
   missing, ambiguous or circular; whatever the order of the links and however
   often a document is met. *)
CompleteMeansClosed ==
    phase = "done" /\ complete =>
        /\ expanded \cup {Skill} = AllDocs
        /\ edges = {e \in Docs \X Paths : e[1] \in AllDocs /\ e[2] \in LinksOf(e[1])}
        /\ \A d \in AllDocs : Plain(d)
        /\ ~Looping

(* The same without a notion of reachability, which is what a later reader of
   the edges relies on: the documents that were read are closed under links. *)
ClosedUnderLinks ==
    phase = "done" /\ complete =>
        \A d \in expanded \cup {Skill} :
            /\ Plain(d)
            /\ \A t \in LinksOf(d) : /\ <<d, t>> \in edges
                                     /\ t \in Docs => t \in expanded \cup {Skill}

(* A bundle without any defect that is not too deep or too large is never
   held to be incomplete, and has no errors. *)
SoundIsComplete ==
    /\ phase = "done"
    /\ \A d \in AllDocs : Plain(d)
    /\ ~Looping
    /\ Cardinality(AllDocs) <= Limit /\ Cardinality(Reached({Skill})) <= MaxFiles
    => complete /\ errors = {}

(* A cycle is reported exactly when links of the documents that were read
   form one, also when it spans branches of the walk. *)
CycleIffReported ==
    phase = "done" /\ Cardinality(paths) <= MaxFiles
        => ("cycle" \in errors <=> Circular(asserted))

(* No document is read twice: those on the stack are different from each
   other, from the one at hand and from SKILL.md, and all of them are marked. *)
ReadOnce ==
    /\ \A i \in 1 .. Len(pending) :
          /\ pending[i].doc \in expanded \ {Skill, frame.doc}
          /\ \A j \in 1 .. Len(pending) : pending[i].doc = pending[j].doc => i = j
    /\ frame.doc \in expanded \cup {Skill}

(* comparison.py:104-108 follows the edges from a declared input for as many
   rounds as the walk has levels.  docs/evidence-workflow.md:119 promises that
   "changed declared inputs and their Markdown dependency closure invalidate
   old results". *)
Governed(p) ==
    LET round[n \in Nat] == IF n = 0 THEN {p} ELSE round[n - 1] \cup
                              {e[2] : e \in {d \in edges : d[1] \in round[n - 1]}}
    IN  round[Limit]

RoundsSuffice ==
    phase = "done" /\ complete => \A p \in paths : Reached({p}) \subseteq Governed(p)
=============================================================================
