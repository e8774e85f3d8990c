-------------------------- MODULE DependencyProofs --------------------------
(***************************************************************************)
(* What the walk of DependencyAnalysis guarantees for every bundle.  The   *)
(* invariant says which references of a document are already accounted for *)
(* while the document waits on the stack, is at hand, or is finished.      *)
(***************************************************************************)
EXTENDS DependencyAnalysis, FiniteSetTheorems, WellFoundedInduction, TLAPS

Rooted(f) == {Skill, f.doc} \subseteq f.chain /\ Cardinality(f.chain) <= Limit

Shape == /\ TypeOK
         /\ frame.next >= 1 /\ Rooted(frame)
         /\ \A i \in 1 .. Len(pending) : pending[i].next = 1 /\ Rooted(pending[i])

Kept(d, r) == /\ r.kind = "link" /\ r.to \in Docs \cup Leaves
              /\ <<d, r.to>> \in edges
              /\ r.to \in Docs => r.to \in expanded \cup {Skill}

(* The first n references of d are accounted for. *)
Seen(d, n) == /\ text[d].read = "ok" /\ ~text[d].uncertain
              /\ \A i \in 1 .. n : i <= Len(text[d].refs) => Kept(d, text[d].refs[i])

Waits(d) == \E i \in 1 .. Len(pending) : pending[i].doc = d

Progress ==
    complete => \A d \in expanded \cup {Skill} :
                   \/ Waits(d) /\ text[d].read = "ok"
                   \/ d = frame.doc /\ Seen(d, frame.next - 1)
                   \/ Seen(d, Len(text[d].refs))

Over == phase = "done" /\ complete =>
           pending = <<>> /\ frame.next > Len(text[frame.doc].refs)

DInv == Shape /\ ReadOnce /\ Progress /\ Over
-----------------------------------------------------------------------------
LEMMA InitInvariant == Init => DInv
<1> SUFFICES ASSUME Init PROVE DInv
  OBVIOUS
<1> USE DependencyAssumption
<1>1. text[Skill] \in Text /\ text[Skill].uncertain \in BOOLEAN
  BY DEF Init, Text
<1>2. Cardinality({Skill}) = 1
  BY FS_Singleton
<1>3. Shape
  BY <1>1, <1>2 DEF Init, Shape, TypeOK, Frame, Rooted
<1>4. ReadOnce
  BY DEF Init, ReadOnce
<1>5. Progress
  <2>1. complete => Seen(Skill, 0)
    <3>1. complete => ~text[Skill].uncertain
      BY DEF Init
    <3>2. text[Skill].read = "ok" /\ \A i \in 1 .. 0 : FALSE
      BY DEF Init
    <3> QED
      BY <3>1, <3>2 DEF Seen
  <2>2. expanded \cup {Skill} = {Skill} /\ frame.doc = Skill /\ frame.next - 1 = 0
    BY DEF Init
  <2> QED
    BY <2>1, <2>2 DEF Progress
<1>6. Over
  BY DEF Init, Over
<1> QED
  BY <1>3, <1>4, <1>5, <1>6 DEF DInv

(* The reference at hand is one of the document's. *)
LEMMA RefType ==
  ASSUME Shape, HasRef
  PROVE  /\ frame.doc \in Docs /\ frame.next \in Nat \ {0}
         /\ text[frame.doc].refs \in Seq(Refs)
         /\ Ref \in Refs /\ Ref.to \in Paths \cup {Outside}
<1>1. text[frame.doc] \in Text /\ frame \in Frame
  BY DependencyAssumption DEF Shape, TypeOK, Frame
<1>2. frame.next \in 1 .. Len(text[frame.doc].refs) /\ text[frame.doc].refs \in Seq(Refs)
  BY <1>1 DEF Shape, HasRef, Text, Frame
<1>3. Ref \in Refs
  BY <1>2 DEF Ref
<1> QED
  BY <1>1, <1>2, <1>3 DEF Refs, Frame

(* Steps that only record the reference at hand. *)
LEMMA ShapeStep == Shape /\ [Next]_vars => Shape'
<1> SUFFICES ASSUME Shape, [Next]_vars PROVE Shape'
  OBVIOUS
<1> USE DependencyAssumption
<1>1. ASSUME InBundle
      PROVE  HasRef /\ Edge \in Docs \X Paths /\ Ref.to \in Paths
  BY <1>1, RefType DEF Edge, InBundle, Usable
<1>2. ASSUME Advance, HasRef
      PROVE  /\ frame' \in Frame /\ frame'.next >= 1
             /\ Rooted(frame') /\ Cardinality(frame'.chain) <= Limit
  <2>1. frame \in Frame /\ frame.next \in Nat /\ frame.next >= 1 /\ Rooted(frame)
    BY DEF Shape, TypeOK, Frame
  <2>2. /\ frame' \in Frame /\ frame'.next = frame.next + 1
        /\ frame'.doc = frame.doc /\ frame'.chain = frame.chain
    BY <1>2, <2>1 DEF Advance, Frame
  <2> HIDE DependencyAssumption
  <2> QED
    BY <2>1, <2>2 DEF Rooted
<1>3. CASE Uncertain
  BY <1>3, <1>2 DEF Uncertain, Shape, TypeOK, found, Rules
<1>4. CASE Escape
  BY <1>4, <1>2 DEF Escape, Usable, Shape, TypeOK, found, Rules
<1>5. CASE Overflow
  BY <1>5, <1>1 DEF Overflow, InBundle, Shape, TypeOK, Rules
<1>6. CASE Mention
  BY <1>6, <1>1, <1>2 DEF Mention, InBundle, Shape, TypeOK
<1>7. CASE Cycle
  BY <1>7, <1>1, <1>2 DEF Cycle, Asserts, InBundle, Keep, Shape, TypeOK, Rules
<1>8. CASE Broken
  BY <1>8, <1>1, <1>2 DEF Broken, Asserts, InBundle, Keep, Shape, TypeOK, Rules
<1>9. CASE Known
  BY <1>9, <1>1, <1>2 DEF Known, Asserts, InBundle, Keep, Shape, TypeOK
<1>10. CASE Refuse
  BY <1>10, <1>1, <1>2 DEF Refuse, New, Asserts, InBundle, Keep, Shape, TypeOK, Rules
<1>11. CASE Garbled
  BY <1>11, <1>1, <1>2 DEF Garbled, New, Asserts, InBundle, Keep, Shape, TypeOK, Rules
<1>12. CASE Expand
  <2>1. frame.chain \in SUBSET Docs /\ IsFiniteSet(frame.chain) /\ Ref.to \in Docs
    BY <1>12, FS_Subset DEF Expand, New, Shape, TypeOK, Frame
  <2>2. Cardinality(frame.chain \cup {Ref.to}) <= Limit
    <3>1. Cardinality(frame.chain) \in Nat
      BY <2>1, FS_CardinalityType
    <3>2. Cardinality(frame.chain \cup {Ref.to}) = Cardinality(frame.chain) + 1
      BY <1>12, <2>1, FS_AddElement DEF Expand, New
    <3>3. Limit \in Nat /\ Cardinality(frame.chain) < Limit
      BY <1>12 DEF Expand
    <3> HIDE DependencyAssumption
    <3> QED
      BY <3>1, <3>2, <3>3
  <2>3. Under(Ref.to) \in Frame /\ Under(Ref.to).next = 1
        /\ Rooted(Under(Ref.to))
    BY <2>1, <2>2 DEF Under, Frame, Shape, Rooted
  <2>4. pending' = <<Under(Ref.to)>> \o pending
    BY <1>12 DEF Expand
  <2>5. /\ pending' \in Seq(Frame)
        /\ \A i \in 1 .. Len(pending') : pending'[i].next = 1 /\ Rooted(pending'[i])
    BY <2>3, <2>4 DEF Shape, TypeOK
  <2> QED
    BY <1>12, <1>1, <1>2, <2>1, <2>5 DEF Expand, New, Asserts, InBundle, Keep, Shape, TypeOK
<1>13. CASE Pop
  <2>1. /\ frame' \in Frame /\ frame'.next = 1
        /\ Rooted(frame') /\ Cardinality(frame'.chain) <= Limit
        /\ pending' \in Seq(Frame)
        /\ \A i \in 1 .. Len(pending') : pending'[i] = pending[i + 1] /\ i + 1 \in 1 .. Len(pending)
    BY <1>13 DEF Pop, Shape, TypeOK, Rooted
  <2>2. text[frame'.doc].uncertain \in BOOLEAN
    BY <2>1 DEF Shape, TypeOK, Frame, Text
  <2> QED
    BY <1>13, <2>1, <2>2 DEF Pop, Shape, TypeOK, found
<1>14. CASE Finish
  BY <1>14 DEF Finish, Shape, TypeOK, found, Rules
<1>15. CASE UNCHANGED vars
  BY <1>15 DEF vars, Shape, TypeOK
<1> QED
  BY <1>3, <1>4, <1>5, <1>6, <1>7, <1>8, <1>9, <1>10, <1>11, <1>12, <1>13, <1>14, <1>15
     DEF Next, Walk

LEMMA ReadOnceStep == Shape /\ ReadOnce /\ [Next]_vars => ReadOnce'
<1> SUFFICES ASSUME Shape, ReadOnce, [Next]_vars PROVE ReadOnce'
  OBVIOUS
<1> USE DependencyAssumption
<1>1. ASSUME Advance PROVE frame'.doc = frame.doc
  BY <1>1 DEF Advance, Shape, TypeOK, Frame
<1>2. CASE Uncertain \/ Escape \/ Mention \/ Cycle \/ Broken \/ Known \/ Refuse
  BY <1>1, <1>2 DEF Uncertain, Escape, Mention, Cycle, Broken, Known, Refuse, found, ReadOnce
<1>3. CASE Overflow \/ Finish \/ UNCHANGED vars
  BY <1>3 DEF Overflow, Finish, vars, found, ReadOnce
<1>4. CASE Garbled
  BY <1>1, <1>4 DEF Garbled, ReadOnce
<1>5. CASE Expand
  <2>1. Ref.to \notin expanded /\ expanded' = expanded \cup {Ref.to}
    BY <1>5 DEF Expand, New
  <2>2. frame'.doc = frame.doc /\ frame.doc \in expanded \cup {Skill}
    BY <1>5, <1>1 DEF Expand, ReadOnce
  <2>3. \A i \in 1 .. Len(pending') :
          \/ i = 1 /\ pending'[i].doc = Ref.to
          \/ i - 1 \in 1 .. Len(pending) /\ pending'[i] = pending[i - 1]
    BY <1>5 DEF Expand, Under, Shape, TypeOK
  <2>4. Ref.to \notin {Skill, frame.doc}
    BY <1>5 DEF Expand, New, Shape, Rooted
  <2> QED
    <3>1. frame'.doc \in expanded' \cup {Skill}
      BY <2>1, <2>2
    <3>2. \A i \in 1 .. Len(pending') : pending'[i].doc \in expanded' \ {Skill, frame'.doc}
      BY <2>1, <2>2, <2>3, <2>4 DEF ReadOnce
    <3>3. \A i, j \in 1 .. Len(pending') : pending'[i].doc = pending'[j].doc => i = j
      BY <2>1, <2>3 DEF ReadOnce
    <3> QED
      BY <3>1, <3>2, <3>3 DEF ReadOnce
<1>6. CASE Pop
  <2>1. /\ frame' = pending[1] /\ pending # <<>> /\ expanded' = expanded
        /\ \A i \in 1 .. Len(pending') : pending'[i] = pending[i + 1] /\ i + 1 \in 1 .. Len(pending)
    BY <1>6 DEF Pop, found, Shape, TypeOK
  <2>2. 1 \in 1 .. Len(pending) /\ Len(pending) \in Nat
    BY <2>1 DEF Shape, TypeOK
  <2> HIDE DependencyAssumption
  <2>3. frame'.doc \in expanded' \cup {Skill}
    BY <2>1, <2>2 DEF ReadOnce
  <2>4. \A i \in 1 .. Len(pending') : pending'[i].doc \in expanded' \ {Skill, frame'.doc}
    BY <2>1, <2>2 DEF ReadOnce
  <2>5. \A i, j \in 1 .. Len(pending') : pending'[i].doc = pending'[j].doc => i = j
    BY <2>1, <2>2 DEF ReadOnce
  <2> QED
    BY <2>3, <2>4, <2>5 DEF ReadOnce
<1> QED
  BY <1>2, <1>3, <1>4, <1>5, <1>6 DEF Next, Walk

(* Nothing that was accounted for is taken back. *)
LEMMA SeenStays ==
  ASSUME NEW d, NEW n, Seen(d, n), text' = text,
         edges \subseteq edges', expanded \subseteq expanded'
  PROVE  Seen(d, n)'
<1>1. \A r : Kept(d, r) => Kept(d, r)'
  BY DEF Kept
<1> QED
  BY <1>1 DEF Seen

(* One more reference of the document at hand is accounted for. *)
LEMMA SeenNext ==
  ASSUME NEW d, NEW r, NEW n \in Nat \ {0}, Seen(d, n - 1), text' = text,
         edges \subseteq edges', expanded \subseteq expanded',
         r = text[d].refs[n], Kept(d, r)'
  PROVE  Seen(d, n)'
<1>1. Seen(d, n - 1)'
  BY SeenStays
<1>2. \A i \in 1 .. n : i \in 1 .. n - 1 \/ i = n
  OBVIOUS
<1> QED
  BY <1>1, <1>2 DEF Seen

(* A link that the walk follows or knows is accounted for by its step. *)
LEMMA Recorded ==
  ASSUME Shape, [Next]_vars, Known \/ Expand,
         NEW d, d = frame.doc, NEW r, r = Ref
  PROVE  /\ Advance /\ text' = text /\ complete' = complete
         /\ edges \subseteq edges' /\ expanded \subseteq expanded'
         /\ frame'.doc = d /\ frame'.next = frame.next + 1
         /\ Kept(d, r)'
<1>1. Advance /\ text' = text /\ complete' = complete /\ edges' = edges \cup {<<d, r.to>>}
  BY DEF Known, Expand, New, Asserts, InBundle, Keep, Edge
<1>2. expanded \subseteq expanded' /\ r.kind = "link" /\ r.to \in expanded' \cup Leaves
  BY DEF Known, Expand, New, Asserts
<1>3. frame'.doc = d /\ frame'.next = frame.next + 1
  BY <1>1 DEF Advance, Shape, TypeOK, Frame
<1>4. expanded' \subseteq Docs /\ Leaves \cap Docs = {}
  BY ShapeStep, DependencyAssumption DEF Shape, TypeOK
<1>5. Kept(d, r)'
  BY <1>1, <1>2, <1>4 DEF Kept
<1> QED
  BY <1>1, <1>2, <1>3, <1>5

LEMMA ProgressStep == Shape /\ ReadOnce /\ Progress /\ [Next]_vars => Progress'
<1> SUFFICES ASSUME Shape, ReadOnce, Progress, [Next]_vars PROVE Progress'
  OBVIOUS
<1>1. CASE Uncertain \/ Escape \/ Overflow \/ Mention \/ Cycle \/ Broken \/ Refuse \/ Garbled
  <2>1. ~complete'
    BY <1>1 DEF Uncertain, Escape, Overflow, Mention, Cycle, Broken, Refuse, Garbled
  <2> QED
    BY <2>1 DEF Progress
<1>2. CASE Known \/ Expand
  <2> SUFFICES ASSUME complete', NEW d \in expanded' \cup {Skill}
               PROVE  \/ Waits(d)' /\ text'[d].read = "ok"
                      \/ d = frame'.doc /\ Seen(d, frame.next - 1)'
                      \/ Seen(d, Len(text[d].refs))'
    BY DEF Progress
  <2>1. /\ text' = text /\ complete' = complete
        /\ edges \subseteq edges' /\ expanded \subseteq expanded'
        /\ frame'.doc = frame.doc /\ frame'.next = frame.next + 1
        /\ \A r : r = Ref /\ d = frame.doc => Kept(d, r)'
    BY <1>2, Recorded
  <2>2. frame.next \in Nat \ {0} /\ HasRef
    BY <1>2, RefType DEF Known, Expand, New, Asserts, InBundle, Usable
  <2>3. CASE d \notin expanded \cup {Skill}
    <3>1. Expand /\ d = Ref.to
      BY <1>2, <2>3 DEF Known, Expand
    <3>2. pending'[1].doc = d /\ 1 \in 1 .. Len(pending') /\ text'[d].read = "ok"
      BY <3>1 DEF Expand, Under, Shape, TypeOK
    <3> QED
      BY <3>2 DEF Waits
  <2>4. CASE Waits(d) /\ text[d].read = "ok"
    <3>1. PICK i \in 1 .. Len(pending) : pending[i].doc = d
      BY <2>4 DEF Waits
    <3>2. CASE Known
      BY <3>1, <3>2, <2>1, <2>4 DEF Known, Waits
    <3>3. CASE Expand
      <4>1. pending'[i + 1] = pending[i] /\ i + 1 \in 1 .. Len(pending')
        BY <3>1, <3>3 DEF Expand, Under, Shape, TypeOK
      <4> QED
        BY <4>1, <3>1, <2>1, <2>4 DEF Waits
    <3> QED
      BY <1>2, <3>2, <3>3
  <2>5. CASE d = frame.doc /\ Seen(d, frame.next - 1)
    <3>1. ASSUME NEW n, n = frame.next PROVE Seen(d, n)'
      <4>1. ASSUME NEW r, r = Ref PROVE Seen(d, n)'
        <5>1. r = text[d].refs[n] /\ n \in Nat \ {0} /\ Seen(d, n - 1)
          BY <3>1, <4>1, <2>2, <2>5 DEF Ref
        <5>2. Kept(d, r)'
          BY <4>1, <2>1, <2>5
        <5> QED
          BY <5>1, <5>2, <2>1, SeenNext
      <4> QED
        BY <4>1
    <3>2. frame'.next - 1 = frame.next
      BY <2>1, <2>2
    <3> QED
      BY <3>1, <3>2, <2>1, <2>5
  <2>6. CASE Seen(d, Len(text[d].refs))
    BY <2>6, <2>1, SeenStays
  <2> QED
    BY <2>1, <2>3, <2>4, <2>5, <2>6 DEF Progress
<1>3. CASE Pop
  <2> SUFFICES ASSUME complete', NEW d \in expanded' \cup {Skill}
               PROVE  \/ Waits(d)' /\ text'[d].read = "ok"
                      \/ d = frame'.doc /\ Seen(d, frame.next - 1)'
                      \/ Seen(d, Len(text[d].refs))'
    BY DEF Progress
  <2>1. /\ text' = text /\ expanded' = expanded /\ edges' = edges
        /\ frame' = pending[1] /\ frame'.next = 1
        /\ \A i \in 1 .. Len(pending) : i # 1 =>
              pending'[i - 1] = pending[i] /\ i - 1 \in 1 .. Len(pending')
    <3>1. pending \in Seq(Frame) /\ pending # <<>> /\ pending' = Tail(pending) /\ frame' = Head(pending)
      BY <1>3 DEF Pop, Shape, TypeOK
    <3>2. 1 \in 1 .. Len(pending) /\ frame' = pending[1]
      BY <3>1
    <3>3. frame'.next = 1
      BY <3>2 DEF Shape
    <3>4. ASSUME NEW i \in 1 .. Len(pending), i # 1
          PROVE  pending'[i - 1] = pending[i] /\ i - 1 \in 1 .. Len(pending')
      <4>1. Len(pending') = Len(pending) - 1 /\ i - 1 \in 1 .. Len(pending) - 1
        BY <3>1, <3>4
      <4>2. \A j \in 1 .. Len(pending) - 1 : pending'[j] = pending[j + 1]
        BY <3>1
      <4> QED
        BY <4>1, <4>2
    <3>5. text' = text /\ expanded' = expanded /\ edges' = edges
      BY <1>3 DEF Pop, found
    <3> QED
      BY <3>2, <3>3, <3>4, <3>5
  <2>5. complete /\ ~text[frame'.doc].uncertain
    BY <1>3, Zenon DEF Pop
  <2>2. CASE Waits(d) /\ text[d].read = "ok"
    <3>1. PICK i \in 1 .. Len(pending) : pending[i].doc = d
      BY <2>2 DEF Waits
    <3>2. CASE i = 1
      BY <3>1, <3>2, <2>1, <2>5, <2>2 DEF Seen
    <3>3. CASE i # 1
      BY <3>1, <3>3, <2>1, <2>2 DEF Waits
    <3> QED
      BY <3>2, <3>3
  <2>3. CASE d = frame.doc /\ Seen(d, frame.next - 1)
    <3>1. frame.doc \in Docs /\ frame.next \in Nat /\ text[frame.doc] \in Text
      BY DEF Shape, TypeOK, Frame
    <3>2. Len(text[d].refs) \in Nat
      BY <3>1, <2>3 DEF Text
    <3>3. frame.next > Len(text[d].refs)
      BY <1>3, <2>3, <3>1, <3>2 DEF Pop, HasRef
    <3>4. Seen(d, Len(text[d].refs))
      BY <2>3, <3>1, <3>2, <3>3 DEF Seen
    <3> QED
      BY <3>4, <2>1, SeenStays
  <2>4. CASE Seen(d, Len(text[d].refs))
    BY <2>4, <2>1, SeenStays
  <2> QED
    BY <2>1, <2>5, <2>2, <2>3, <2>4 DEF Progress
<1>4. CASE Finish \/ UNCHANGED vars
  <2>1. /\ text' = text /\ expanded' = expanded /\ edges' = edges
        /\ frame' = frame /\ pending' = pending
    BY <1>4 DEF Finish, found, vars
  <2>3. complete' => complete
    BY <1>4, Zenon DEF Finish, vars
  <2>2. \A d, n : Seen(d, n) => Seen(d, n)'
    BY <2>1, SeenStays
  <2> QED
    BY <2>1, <2>2, <2>3 DEF Progress, Waits
<1> QED
  BY <1>1, <1>2, <1>3, <1>4 DEF Next, Walk

LEMMA OverStep == Shape /\ Over /\ [Next]_vars => Over'
<1> SUFFICES ASSUME Shape, Over, [Next]_vars, phase' = "done", complete'
             PROVE  pending' = <<>> /\ frame'.next > Len(text'[frame'.doc].refs)
  BY DEF Over
<1>1. Finish \/ UNCHANGED vars
  <2>1. CASE Uncertain \/ Escape \/ Overflow \/ Mention \/ Cycle \/ Broken \/ Refuse \/ Garbled
    BY <2>1 DEF Uncertain, Escape, Overflow, Mention, Cycle, Broken, Refuse, Garbled
  <2>2. CASE Known \/ Expand \/ Pop
    BY <2>2 DEF Known, Expand, Pop, New, Asserts, InBundle, Usable, HasRef
  <2> QED
    BY <2>1, <2>2 DEF Next, Walk
<1>2. CASE Finish
  <2>1. text[frame.doc].refs \in Seq(Refs) /\ frame.next \in Nat
    BY DependencyAssumption DEF Shape, TypeOK, Frame, Text
  <2> QED
    BY <1>2, <2>1 DEF Finish, HasRef, found
<1>3. CASE UNCHANGED vars
  <2>1. complete
    BY <1>3, Zenon DEF vars
  <2> QED
    BY <1>3, <2>1 DEF vars, Over
<1> QED
  BY <1>1, <1>2, <1>3

THEOREM Invariance == Spec => []DInv
<1>1. DInv /\ [Next]_vars => DInv'
  BY ShapeStep, ReadOnceStep, ProgressStep, OverStep DEF DInv
<1> QED
  BY InitInvariant, <1>1, PTL DEF Spec

(* Every value stays in its type, and no chain of ancestors on the way to a
   document is longer than the limit. *)
THEOREM TypeCorrect == Spec => []TypeOK
<1>1. DInv => TypeOK
  BY DEF DInv, Shape
<1> QED
  BY Invariance, <1>1, PTL

(* No document is read twice, whatever the graph of links looks like. *)
THEOREM DocumentsReadOnce == Spec => []ReadOnce
<1>1. DInv => ReadOnce
  BY DEF DInv
<1> QED
  BY Invariance, <1>1, PTL

(* The edges of a complete walk are all there are: the documents it read are
   unambiguous, and closed under the links they contain. *)
THEOREM CompleteWalksAreClosed == Spec => []ClosedUnderLinks
<1>1. ASSUME DInv PROVE ClosedUnderLinks
  <2> SUFFICES ASSUME phase = "done", complete, NEW d \in expanded \cup {Skill}
               PROVE  /\ Plain(d)
                      /\ \A t \in LinksOf(d) : /\ <<d, t>> \in edges
                                               /\ t \in Docs => t \in expanded \cup {Skill}
    BY DEF ClosedUnderLinks
  <2>1. pending = <<>> /\ frame.next > Len(text[frame.doc].refs) /\ Shape
    BY <1>1 DEF DInv, Over
  <2>2. ~Waits(d)
    BY <2>1 DEF Waits
  <2>3. d \in Docs /\ text[d] \in Text /\ frame.next \in Nat /\ frame.doc \in Docs
    BY <2>1, DependencyAssumption DEF Shape, TypeOK, Frame
  <2>4. Seen(d, Len(text[d].refs))
    <3>1. CASE d = frame.doc /\ Seen(d, frame.next - 1)
      <4>1. \A i \in 1 .. Len(text[d].refs) : i \in 1 .. frame.next - 1
        BY <2>1, <2>3, <3>1 DEF Text
      <4> QED
        BY <3>1, <4>1 DEF Seen
    <3> QED
      BY <1>1, <2>2, <3>1 DEF DInv, Progress
  <2>5. \A r \in RefsOf(d) : Kept(d, r)
    BY <2>3, <2>4 DEF Seen, RefsOf, Text
  <2> QED
    BY <2>4, <2>5 DEF Seen, Kept, Plain, LinksOf
<1> QED
  BY Invariance, <1>1, PTL
-----------------------------------------------------------------------------
Graph == SUBSET (Docs \X Paths)
-----------------------------------------------------------------------------
(* Reachability. *)
LEMMA LeadsFrom == \A S, E : S \cap Paths \subseteq Leads(S, E) /\ Leads(S, E) \subseteq Paths
BY DEF Leads

LEMMA LeadsLeast ==
  ASSUME NEW S, NEW E, NEW T \in SUBSET Paths, S \subseteq T, ClosedUnder(T, E)
  PROVE  Leads(S, E) \subseteq T
BY DEF Leads

LEMMA LeadsClosed ==
  ASSUME NEW S, NEW E \in Graph
  PROVE  ClosedUnder(Leads(S, E), E)
<1> SUFFICES ASSUME NEW e \in E, e[1] \in Leads(S, E) PROVE e[2] \in Leads(S, E)
  BY DEF ClosedUnder
<1>1. e[2] \in Paths
  BY DEF Graph
<1> QED
  BY <1>1 DEF Leads, ClosedUnder

LEMMA LeadsOn ==
  ASSUME NEW R, NEW S, NEW E \in Graph, S \subseteq Leads(R, E)
  PROVE  Leads(S, E) \subseteq Leads(R, E)
BY LeadsFrom, LeadsClosed, LeadsLeast

LEMMA LeadsGrows ==
  ASSUME NEW S, NEW E, NEW F \in Graph, E \subseteq F
  PROVE  Leads(S, E) \subseteq Leads(S, F)
<1>1. ClosedUnder(Leads(S, F), E)
  BY LeadsClosed DEF ClosedUnder
<1> QED
  BY <1>1 DEF Leads, ClosedUnder

LEMMA CircularGrows ==
  ASSUME NEW E, NEW F \in Graph, E \subseteq F, Circular(E)
  PROVE  Circular(F)
<1>1. PICK e \in E : e[1] \in Leads({e[2]}, E)
  BY DEF Circular
<1>2. Leads({e[2]}, E) \subseteq Leads({e[2]}, F)
  BY LeadsGrows
<1> QED
  BY <1>1, <1>2 DEF Circular
-----------------------------------------------------------------------------
(* Induction over the natural numbers, for a set of them. *)
LEMMA NatSet ==
  ASSUME NEW T, 0 \in T, \A n \in T \cap Nat : n + 1 \in T
  PROVE  Nat \subseteq T
<1> SUFFICES ASSUME NEW m \in Nat, m \notin T PROVE FALSE
  OBVIOUS
<1> DEFINE above == {k \in 0 .. m : k \notin T}
           tails == {(0 .. k) : k \in above}
<1>1. IsFiniteSet(0 .. m)
  BY FS_Interval
<1>2. tails \subseteq FiniteSubsetsOf(0 .. m) /\ tails # {}
  <2>1. tails \subseteq SUBSET (0 .. m)
    OBVIOUS
  <2>2. m \in above
    OBVIOUS
  <2>3. (0 .. m) \in tails
    BY <2>2
  <2> QED
    BY <1>1, <2>1, <2>3, FS_FiniteSubsetsOfFinite
<1>3. PICK t \in tails : \A u \in tails : ~(<<u, t>> \in StrictSubsetOrdering(0 .. m))
  <2> HIDE DEF tails
  <2> QED
    BY <1>2, FS_StrictSubsetOrderingWellFounded, WFMin
<1>4. PICK k \in above : t = 0 .. k
  BY <1>3
<1>5. k \in Nat \ {0} /\ k - 1 \in 0 .. m
  BY <1>4
<1>6. k - 1 \in above
  <2>1. k - 1 \in T => (k - 1) + 1 \in T
    BY <1>5
  <2>2. (k - 1) + 1 = k
    BY <1>5
  <2> QED
    BY <1>4, <1>5, <2>1, <2>2
<1>7. <<(0 .. k - 1), (0 .. k)>> \in StrictSubsetOrdering(0 .. m)
  <2>1. (0 .. k - 1) \subseteq (0 .. m) /\ (0 .. k) \subseteq (0 .. m) 
    BY <1>4, <1>5
  <2>2. (0 .. k - 1) \subseteq (0 .. k) /\ (0 .. k - 1) # (0 .. k)
    BY <1>5
  <2> QED BY <2>1, <2>2, Zenon DEF StrictSubsetOrdering
<1>8. (0 .. k - 1) \in tails
  BY <1>6
<1> QED
  BY <1>3, <1>4, <1>7, <1>8

(* Iterating F from x. *)
Iterates(F, x, g) == g[0] = x /\ \A n \in Nat : g[n + 1] = F[g[n]]

LEMMA IterationExists ==
  ASSUME NEW X, NEW F \in [X -> X], NEW x \in X
  PROVE  \E g \in [Nat -> X] : Iterates(F, x, g)
<1> DEFINE Upto(n) == {h \in [0 .. n -> X] : h[0] = x /\ \A k \in 0 .. n : k # n => h[k + 1] = F[h[k]]}
           T == {n \in Nat : \E h \in Upto(n) : \A k \in Upto(n) : k = h}
<1>1. 0 \in T
  <2>1. [k \in 0 .. 0 |-> x] \in Upto(0)
    OBVIOUS
  <2>2. \A h, k \in Upto(0) : h = k
    OBVIOUS
  <2> QED
    BY <2>1, <2>2
<1>2. ASSUME NEW n \in T \cap Nat PROVE n + 1 \in T
  <2>1. PICK h \in Upto(n) : \A k \in Upto(n) : k = h
    OBVIOUS
  <2> DEFINE next == [k \in 0 .. n + 1 |-> IF k = n + 1 THEN F[h[n]] ELSE h[k]]
  <2>2. next \in Upto(n + 1)
    OBVIOUS
  <2>3. ASSUME NEW k \in Upto(n + 1) PROVE k = next
    <3>1. [i \in 0 .. n |-> k[i]] \in Upto(n)
      OBVIOUS
    <3>2. [i \in 0 .. n |-> k[i]] = h
      BY <3>1, <2>1
    <3>3. \A i \in 0 .. n : k[i] = h[i]
      BY <3>2
    <3>4. k[n + 1] = F[h[n]]
      BY <3>3
    <3> QED
      BY <3>3, <3>4
  <2> QED
    BY <2>2, <2>3
<1>3. Nat \subseteq T
  <2> HIDE DEF T
  <2> QED
    BY <1>1, <1>2, NatSet
<1>4. \E A : \A n \in Nat : A[n] \in Upto(n)
  <2> DEFINE A == [n \in Nat |-> CHOOSE h \in Upto(n) : TRUE]
  <2>1. \A n \in Nat : A[n] \in Upto(n)
    BY <1>3
  <2> HIDE DEF A
  <2> QED
    BY <2>1
<1>5. PICK A : \A n \in Nat : A[n] \in Upto(n)
  BY <1>4
<1>6. ASSUME NEW n \in Nat, NEW h \in Upto(n) PROVE h = A[n]
  <2>1. \E i \in Upto(n) : \A k \in Upto(n) : k = i
    BY <1>3
  <2>2. A[n] \in Upto(n)
    BY <1>5
  <2> HIDE DEF Upto
  <2> QED
    BY <2>1, <2>2
<1>7. ASSUME NEW n \in Nat PROVE A[n][n] \in X /\ A[0][0] = x
  <2>1. A[n] \in [0 .. n -> X] /\ n \in 0 .. n
    BY <1>5
  <2>2. A[0][0] = x
    BY <1>5
  <2> QED
    BY <2>1, <2>2
<1>8. ASSUME NEW n \in Nat PROVE A[n + 1][n + 1] = F[A[n][n]]
  <2>1. PICK f : f = A[n + 1]
    OBVIOUS
  <2>2. /\ f \in [0 .. n + 1 -> X] /\ f[0] = x
        /\ \A k \in 0 .. n + 1 : k # n + 1 => f[k + 1] = F[f[k]]
    BY <1>5, <2>1
  <2>3. PICK h : h = [i \in 0 .. n |-> f[i]]
    OBVIOUS
  <2>4. h \in Upto(n)
    <3>1. \A k \in 0 .. n : k \in 0 .. n + 1 /\ k # n + 1 /\ (k # n => k + 1 \in 0 .. n)
      OBVIOUS
    <3>2. h \in [0 .. n -> X] /\ h[0] = x
      BY <2>2, <2>3, <3>1
    <3>3. \A k \in 0 .. n : k # n => h[k + 1] = F[h[k]]
      BY <2>2, <2>3, <3>1
    <3> QED
      BY <3>2, <3>3
  <2>5. n \in 0 .. n /\ n \in 0 .. n + 1 /\ n # n + 1
    OBVIOUS
  <2>6. h = A[n]
    BY <2>4, <1>6
  <2>7. f[n] = A[n][n] /\ f[n + 1] = F[f[n]]
    BY <2>2, <2>3, <2>5, <2>6
  <2> QED
    BY <2>1, <2>7
<1>9. PICK g : g = [n \in Nat |-> A[n][n]]
  OBVIOUS
<1> QED
  <2> HIDE DEF Upto, T
  <2> QED
    BY <1>7, <1>8, <1>9 DEF Iterates
-----------------------------------------------------------------------------
(* Cyclic computes what its recursion says. *)
Rounds(E, r) == r[0] = E /\ \A n \in Nat : r[n + 1] = Trim(r[n])

LEMMA CyclicRounds ==
  ASSUME NEW E \in Graph
  PROVE  \E r : Rounds(E, r) /\ (Cyclic(E) <=> r[Cardinality(Docs) + 1] # {})
<1> DEFINE Round(f) == [n \in Nat |-> IF n = 0 THEN E ELSE Trim(f[n - 1])]
           r == CHOOSE f : f = Round(f)
<1>1. \E f : f = Round(f)
  <2> DEFINE X == SUBSET E
             F == [D \in X |-> Trim(D)]
  <2>1. F \in [X -> X] /\ E \in X
    BY DEF Trim
  <2>2. PICK g \in [Nat -> X] : Iterates(F, E, g)
    <3> HIDE DEF F, X
    <3> QED
      BY <2>1, IterationExists
  <2>3. g[0] = E /\ \A n \in Nat : g[n + 1] = Trim(g[n])
    BY <2>2 DEF Iterates
  <2>4. ASSUME NEW n \in Nat PROVE g[n] = IF n = 0 THEN E ELSE Trim(g[n - 1])
    <3>1. CASE n # 0
      <4>1. n - 1 \in Nat /\ (n - 1) + 1 = n
        BY <3>1
      <4> QED
        BY <3>1, <4>1, <2>3
    <3> QED
      BY <3>1, <2>3
  <2> QED
    BY <2>2, <2>4
<1>2. r = Round(r)
  <2> HIDE DEF Round
  <2> QED
    BY <1>1
<1>3. r[0] = E
  <2> HIDE DEF r
  <2> QED
    BY <1>2
<1>4. \A n \in Nat : r[n + 1] = Trim(r[n])
  <2> HIDE DEF r
  <2> SUFFICES ASSUME NEW n \in Nat PROVE r[n + 1] = Trim(r[n])
    OBVIOUS
  <2>1. n + 1 \in Nat /\ n + 1 # 0 /\ (n + 1) - 1 = n
    OBVIOUS
  <2>2. Round(r)[n + 1] = Trim(r[n])
    BY <2>1
  <2> QED
    BY <1>2, <2>2
<1>5. Cyclic(E) <=> r[Cardinality(Docs) + 1] # {}
  BY Zenon DEF Cyclic
<1> HIDE DEF r
<1> QED
  BY <1>3, <1>4, <1>5 DEF Rounds

(* What no round takes anything from. *)
Lasting(D) == D # {} /\ D \subseteq Trim(D)

LEMMA CyclicLasts ==
  ASSUME NEW E \in Graph
  PROVE  Cyclic(E) <=> \E D \in SUBSET E : Lasting(D)
<1> DEFINE N == Cardinality(Docs)
<1>0. PICK r : Rounds(E, r) /\ (Cyclic(E) <=> r[N + 1] # {})
  BY CyclicRounds
<1>1. /\ r[0] = E /\ \A n \in Nat : r[n + 1] = Trim(r[n])
      /\ Cyclic(E) <=> r[N + 1] # {}
  BY <1>0 DEF Rounds
<1>2. IsFiniteSet(Docs) /\ N \in Nat /\ N + 1 \in Nat
  BY DependencyAssumption, FS_CardinalityType
<1>3. \A n \in Nat : r[n] \subseteq E
  <2> DEFINE T == {n \in Nat : r[n] \subseteq E}
  <2>1. 0 \in T /\ \A n \in T \cap Nat : n + 1 \in T
    BY <1>1 DEF Trim
  <2>2. Nat \subseteq T
    <3> HIDE DEF T
    <3> QED
      BY <2>1, NatSet
  <2> QED
    BY <2>2
<1>4. ASSUME NEW D \in SUBSET E, Lasting(D) PROVE Cyclic(E)
  <2> DEFINE T == {n \in Nat : D \subseteq r[n]}
  <2>1. 0 \in T /\ \A n \in T \cap Nat : n + 1 \in T
    BY <1>1, <1>4 DEF Trim, Lasting
  <2>2. Nat \subseteq T
    <3> HIDE DEF T
    <3> QED
      BY <2>1, NatSet
  <2>3. D \subseteq r[N + 1]
    BY <2>2, <1>2
  <2> QED
    BY <2>3, <1>1, <1>4 DEF Lasting
<1>5. ASSUME Cyclic(E) PROVE \E D \in SUBSET E : Lasting(D)
  <2> DEFINE Src(n) == {e[1] : e \in r[n]}
             T == {n \in Nat : Trim(r[n]) = r[n] \/ Cardinality(Src(n)) + n <= N}
  <2>1. \A n \in Nat : Src(n) \in SUBSET Docs
    BY <1>3 DEF Graph
  <2>2. \A n \in Nat : IsFiniteSet(Src(n)) /\ Cardinality(Src(n)) \in Nat /\ Cardinality(Src(n)) <= N
    <3> HIDE DEF Src
    <3> QED
      BY <2>1, <1>2, FS_Subset, FS_CardinalityType
  <2>3. 0 \in T
    <3>1. Cardinality(Src(0)) + 0 <= N
      <4> HIDE DEF Src, N
      <4> QED
        BY <2>2, <1>2
    <3> QED
      BY <3>1
  <2>4. ASSUME NEW n \in T \cap Nat PROVE n + 1 \in T
    <3>1. r[n + 1] = Trim(r[n]) /\ n + 1 \in Nat
      BY <1>1
    <3>2. CASE Trim(r[n]) = r[n]
      BY <3>1, <3>2
    <3>3. CASE Trim(r[n]) # r[n]
      <4>1. PICK e \in r[n] : ~ \E d \in r[n] : d[2] = e[1]
        BY <3>3 DEF Trim
      <4>2. e[1] \in Src(n) /\ e[1] \notin Src(n + 1) /\ Src(n + 1) \subseteq Src(n)
        BY <4>1, <3>1 DEF Trim
      <4>3. Cardinality(Src(n + 1)) < Cardinality(Src(n))
        <5> HIDE DEF Src
        <5>1. /\ Cardinality(Src(n + 1)) <= Cardinality(Src(n))
              /\ Cardinality(Src(n)) = Cardinality(Src(n + 1)) => Src(n) = Src(n + 1)
          BY <4>2, <2>2, <3>1, FS_Subset
        <5> QED
          BY <5>1, <4>2, <2>2, <3>1
      <4>4. Cardinality(Src(n)) + n <= N
        BY <3>3
      <4>5. Cardinality(Src(n + 1)) + (n + 1) <= N
        <5> HIDE DEF Src, N
        <5> QED
          BY <4>3, <4>4, <2>2, <3>1, <1>2
      <4> QED
        BY <4>5, <3>1
    <3> QED
      BY <3>2, <3>3
  <2>5. Nat \subseteq T
    <3> HIDE DEF T
    <3> QED
      BY <2>3, <2>4, NatSet
  <2>6. Trim(r[N + 1]) = r[N + 1]
    <3>1. ~(Cardinality(Src(N + 1)) + (N + 1) <= N)
      <4> HIDE DEF Src, N
      <4> QED
        BY <2>2, <1>2
    <3> QED
      BY <2>5, <1>2, <3>1
  <2>7. r[N + 1] \in SUBSET E /\ Lasting(r[N + 1])
    BY <2>6, <1>1, <1>2, <1>3, <1>5 DEF Lasting
  <2> QED
    BY <2>7
<1> QED
  BY <1>4, <1>5

(* Some edge lies on a circle exactly if something lasts. *)
LEMMA LastingIsCircular ==
  ASSUME NEW E \in Graph
  PROVE  Circular(E) <=> \E D \in SUBSET E : Lasting(D)
<1>1. ASSUME Circular(E) PROVE \E D \in SUBSET E : Lasting(D)
  <2>1. PICK c \in E : c[1] \in Leads({c[2]}, E)
    BY <1>1 DEF Circular
  <2> DEFINE From == Leads({c[2]}, E)
             Back(p) == c[1] \in Leads({p}, E)
             D == {e \in E : e[1] \in From /\ Back(e[2])}
  <2>2. c[2] \in Paths /\ c[2] \in From
    BY LeadsFrom DEF Graph
  <2>3. \A e \in E : Back(e[2]) => Back(e[1])
    <3> SUFFICES ASSUME NEW e \in E, Back(e[2]) PROVE Back(e[1])
      OBVIOUS
    <3>1. e[1] \in Paths
      BY DEF Graph, Paths
    <3>2. e[2] \in Leads({e[1]}, E)
      BY <3>1, LeadsFrom, LeadsClosed DEF ClosedUnder
    <3>3. Leads({e[2]}, E) \subseteq Leads({e[1]}, E)
      BY <3>2, LeadsOn
    <3> QED
      BY <3>3
  <2>4. c \in D
    BY <2>1, <2>2
  <2>5. ASSUME NEW e \in D PROVE \E d \in D : d[2] = e[1]
    <3> DEFINE T == {p \in From : p = c[2] \/ \E d \in E : d[1] \in From /\ d[2] = p}
    <3>1. From \subseteq T
      <4>1. T \in SUBSET Paths /\ {c[2]} \subseteq T
        BY <2>2, LeadsFrom
      <4>2. ClosedUnder(T, E)
        BY LeadsClosed DEF ClosedUnder
      <4> HIDE DEF T
      <4> QED
        BY <4>1, <4>2, LeadsLeast
    <3>2. e[1] = c[2] \/ \E d \in E : d[1] \in From /\ d[2] = e[1]
      BY <3>1
    <3>3. Back(e[1])
      BY <2>3
    <3> QED
      BY <3>2, <3>3, <2>1
  <2>6. Lasting(D)
    <3> HIDE DEF D
    <3> QED
      BY <2>4, <2>5 DEF Lasting, Trim
  <2> QED
    BY <2>6
<1>2. ASSUME NEW D \in SUBSET E, Lasting(D) PROVE Circular(E)
  <2> SUFFICES ASSUME ~Circular(E) PROVE FALSE
    OBVIOUS
  <2> DEFINE Behind(p) == {d \in Docs : p \in Leads({d}, E)}
             heads == {Behind(e[1]) : e \in D}
  <2>1. heads # {} /\ heads \subseteq FiniteSubsetsOf(Docs)
    <3>1. heads \subseteq SUBSET Docs
      OBVIOUS
    <3>2. FiniteSubsetsOf(Docs) = SUBSET Docs
      BY DependencyAssumption, FS_FiniteSubsetsOfFinite
    <3>3. PICK e \in D : TRUE
      BY <1>2 DEF Lasting
    <3>4. Behind(e[1]) \in heads
      OBVIOUS
    <3> HIDE DEF heads
    <3> QED
      BY <3>1, <3>2, <3>4
  <2>2. PICK h \in heads : \A k \in heads : ~(<<k, h>> \in StrictSubsetOrdering(Docs))
    <3> HIDE DEF heads
    <3> QED
      BY <2>1, FS_StrictSubsetOrderingWellFounded, WFMin
  <2>3. PICK e \in D : h = Behind(e[1])
    BY <2>2
  <2>4. PICK d \in D : d[2] = e[1]
    BY <1>2 DEF Lasting, Trim
  <2>5. d \in E /\ d[1] \in Docs /\ d[1] \in Paths /\ e[1] \in Docs /\ e[1] \in Paths
    BY DEF Graph, Paths
  <2>6. d[2] \in Leads({d[1]}, E)
    BY <2>5, LeadsFrom, LeadsClosed DEF ClosedUnder
  <2>7. Behind(d[1]) \subseteq Behind(e[1])
    <3> SUFFICES ASSUME NEW x \in Docs, d[1] \in Leads({x}, E) PROVE e[1] \in Leads({x}, E)
      OBVIOUS
    <3> QED
      BY <2>4, <2>5, LeadsClosed DEF ClosedUnder
  <2>8. e[1] \in Behind(e[1]) /\ e[1] \notin Behind(d[1])
    <3>1. e[1] \in Leads({e[1]}, E)
      BY <2>5, LeadsFrom
    <3>2. d[1] \notin Leads({d[2]}, E)
      BY <2>5 DEF Circular
    <3> QED
      BY <3>1, <3>2, <2>4, <2>5
  <2>9. Behind(d[1]) \in heads
    OBVIOUS
  <2>10. <<Behind(d[1]), Behind(e[1])>> \in StrictSubsetOrdering(Docs)
    <3>1. Behind(d[1]) \in SUBSET Docs /\ Behind(e[1]) \in SUBSET Docs
      OBVIOUS
    <3> HIDE DEF Behind
    <3> QED
      BY <3>1, <2>7, <2>8 DEF StrictSubsetOrdering
  <2> QED
    BY <2>2, <2>3, <2>9, <2>10
<1> QED
  BY <1>1, <1>2

LEMMA CyclicIsCircular == \A E \in Graph : Cyclic(E) <=> Circular(E)
BY CyclicLasts, LastingIsCircular
-----------------------------------------------------------------------------
(* The frames of the walk: the document at hand and those that wait. *)
Frames == {frame} \cup {pending[i] : i \in 1 .. Len(pending)}

(* Ancestors lead to the document by links of E. *)
Led(f, E) == \A c \in f.chain : f.doc \in Leads({c}, E)

Ancestry == \A f \in Frames : Led(f, asserted)

CycleFound == "cycle" \in errors => Circular(asserted)

CycleTold == phase = "done" => \/ ~(Cardinality(paths) <= MaxFiles) /\ ~complete
                               \/ Circular(asserted) => "cycle" \in errors

ErrorsTell == complete => errors = {}

(* A document of a frame was reached by links and could be read. *)
Sought(f) == f.chain \subseteq AllDocs /\ text[f.doc].read = "ok"

Reading == /\ \A f \in Frames : Sought(f)
           /\ expanded \subseteq AllDocs \cap paths
           /\ asserted \subseteq {e \in LinkEdges : e[1] \in AllDocs}
           /\ complete => asserted = edges

Sound == /\ \A d \in AllDocs : Plain(d)
         /\ ~Looping
         /\ Cardinality(AllDocs) <= Limit /\ Cardinality(Reached({Skill})) <= MaxFiles

Untroubled == Sound => complete /\ paths \subseteq Reached({Skill})

WInv == DInv /\ Ancestry /\ CycleFound /\ CycleTold /\ ErrorsTell /\ Reading /\ Untroubled
-----------------------------------------------------------------------------
LEMMA LedStays ==
  ASSUME NEW f, NEW E, NEW F \in Graph, E \subseteq F, Led(f, E)
  PROVE  Led(f, F)
<1> SUFFICES ASSUME NEW c \in f.chain PROVE f.doc \in Leads({c}, F)
  BY DEF Led
<1>1. Leads({c}, E) \subseteq Leads({c}, F)
  BY LeadsGrows
<1> QED
  BY <1>1 DEF Led

LEMMA LedUnder ==
  ASSUME NEW f, NEW g, NEW d \in Paths, NEW E \in Graph, Led(f, E), <<f.doc, d>> \in E,
         g.doc = d, g.chain = f.chain \cup {d}
  PROVE  Led(g, E)
<1> SUFFICES ASSUME NEW c \in g.chain PROVE d \in Leads({c}, E)
  BY DEF Led
<1>1. CASE c \in f.chain
  <2>1. f.doc \in Leads({c}, E) /\ ClosedUnder(Leads({c}, E), E)
    BY <1>1, LeadsClosed DEF Led
  <2>2. \A e \in E : e[1] \in Leads({c}, E) => e[2] \in Leads({c}, E)
    BY <2>1 DEF ClosedUnder
  <2> QED
    BY <2>1, <2>2
<1>2. CASE c = d
  BY <1>2, LeadsFrom
<1> QED
  BY <1>1, <1>2

(* What every step leaves as it is, or only adds to. *)
LEMMA StepGrows ==
  ASSUME Shape, [Next]_vars
  PROVE  /\ text' = text /\ asserted \subseteq asserted' /\ asserted' \in Graph /\ asserted \in Graph
         /\ LinkEdges' = LinkEdges
         /\ Reached({Skill})' = Reached({Skill}) /\ AllDocs' = AllDocs
<1>1. text' = text
  BY DEF Next, Walk, Uncertain, Escape, Overflow, Mention, Cycle, Broken, Known, Refuse, Garbled,
         Expand, Pop, Finish, vars
<1>2. asserted \subseteq asserted'
  BY DEF Next, Walk, Uncertain, Escape, Overflow, Mention, Cycle, Broken, Known, Refuse, Garbled,
         Expand, Pop, Finish, vars, found, Keep
<1>3. asserted \in Graph /\ asserted' \in Graph
  BY ShapeStep DEF Shape, TypeOK, Graph
<1>4. LinkEdges' = LinkEdges
  BY <1>1 DEF LinkEdges, LinksOf, RefsOf
<1>5. Reached({Skill})' = Reached({Skill})
  BY <1>4 DEF Reached
<1> QED
  BY <1>1, <1>2, <1>3, <1>4, <1>5 DEF AllDocs

(* Every frame after a step was one before, or has just been pushed. *)
LEMMA FrameStep ==
  ASSUME Shape, [Next]_vars, NEW g \in Frames'
  PROVE  \/ \E f \in Frames : g.doc = f.doc /\ g.chain = f.chain
         \/ Expand /\ g = Under(Ref.to)
<1>1. ASSUME Advance PROVE frame'.doc = frame.doc /\ frame'.chain = frame.chain
  BY <1>1 DEF Advance, Shape, TypeOK, Frame
<1>2. CASE Uncertain \/ Escape \/ Mention \/ Cycle \/ Broken \/ Known \/ Refuse \/ Garbled
  BY <1>1, <1>2 DEF Uncertain, Escape, Mention, Cycle, Broken, Known, Refuse, Garbled, Frames
<1>3. CASE Overflow \/ Finish \/ UNCHANGED vars
  BY <1>3 DEF Overflow, Finish, vars, Frames
<1>4. CASE Expand
  <2>1. frame'.doc = frame.doc /\ frame'.chain = frame.chain
    BY <1>1, <1>4 DEF Expand
  <2>2. \A i \in 1 .. Len(pending') :
          \/ i = 1 /\ pending'[i] = Under(Ref.to)
          \/ i - 1 \in 1 .. Len(pending) /\ pending'[i] = pending[i - 1]
    <3>1. pending \in Seq(Frame) /\ pending' = <<Under(Ref.to)>> \o pending
      BY <1>4 DEF Expand, Shape, TypeOK
    <3> QED
      BY <3>1
  <2> QED
    BY <1>4, <2>1, <2>2 DEF Frames
<1>5. CASE Pop
  <2>1. /\ frame' = pending[1] /\ 1 \in 1 .. Len(pending)
        /\ \A i \in 1 .. Len(pending') : pending'[i] = pending[i + 1] /\ i + 1 \in 1 .. Len(pending)
    BY <1>5 DEF Pop, Shape, TypeOK
  <2> QED
    BY <2>1 DEF Frames
<1> QED
  BY <1>2, <1>3, <1>4, <1>5 DEF Next, Walk

LEMMA FrameType == ASSUME Shape, NEW f \in Frames
                   PROVE  f \in Frame /\ f.doc \in f.chain /\ f.doc \in Docs /\ f.chain \subseteq Docs
<1>1. frame \in Frame /\ \A i \in 1 .. Len(pending) : pending[i] \in Frame
  BY DEF Shape, TypeOK
<1>2. Rooted(frame) /\ \A i \in 1 .. Len(pending) : Rooted(pending[i])
  BY DEF Shape
<1> QED
  BY <1>1, <1>2 DEF Frames, Frame, Rooted

LEMMA AncestryStep == Shape /\ Ancestry /\ [Next]_vars => Ancestry'
<1> SUFFICES ASSUME Shape, Ancestry, [Next]_vars, NEW g \in Frames' PROVE Led(g, asserted')
  BY DEF Ancestry
<1>1. asserted \subseteq asserted' /\ asserted' \in Graph
  BY StepGrows
<1>2. ASSUME NEW f \in Frames, g.doc = f.doc, g.chain = f.chain PROVE Led(g, asserted')
  <2>1. Led(f, asserted')
    BY <1>1, LedStays DEF Ancestry
  <2> QED
    BY <1>2, <2>1 DEF Led
<1>3. CASE Expand /\ g = Under(Ref.to)
  <2>1. Led(frame, asserted')
    BY <1>1, LedStays DEF Ancestry, Frames
  <2>2. Ref.to \in Paths /\ <<frame.doc, Ref.to>> \in asserted'
    BY <1>3 DEF Expand, New, Asserts, InBundle, Keep, Edge, Paths
  <2>3. g.doc = Ref.to /\ g.chain = frame.chain \cup {Ref.to}
    BY <1>3 DEF Under
  <2> QED
    BY <1>1, <2>1, <2>2, <2>3, LedUnder
<1> QED
  BY <1>2, <1>3, FrameStep

LEMMA CycleStep == Shape /\ Ancestry /\ CycleFound /\ [Next]_vars => CycleFound'
<1> SUFFICES ASSUME Shape, Ancestry, CycleFound, [Next]_vars, "cycle" \in errors'
             PROVE  Circular(asserted')
  BY DEF CycleFound
<1>1. asserted \subseteq asserted' /\ asserted' \in Graph /\ asserted \in Graph
  BY StepGrows
<1>2. CASE "cycle" \in errors
  BY <1>1, <1>2, CircularGrows DEF CycleFound
<1>3. CASE "cycle" \notin errors /\ Cycle
  <2>1. Ref.to \in frame.chain /\ <<frame.doc, Ref.to>> \in asserted'
    BY <1>3 DEF Cycle, Keep, Edge
  <2>2. Led(frame, asserted')
    BY <1>1, LedStays DEF Ancestry, Frames
  <2>3. frame.doc \in Leads({Ref.to}, asserted')
    BY <2>1, <2>2 DEF Led
  <2> QED
    BY <2>1, <2>3 DEF Circular
<1>4. CASE "cycle" \notin errors /\ Finish
  <2>1. Cyclic(asserted) /\ asserted' = asserted
    BY <1>4 DEF Finish, found
  <2> QED
    BY <1>1, <2>1, CyclicIsCircular
<1>5. ~("cycle" \notin errors /\ ~Cycle /\ ~Finish)
  BY DEF Next, Walk, Uncertain, Escape, Overflow, Mention, Broken, Known, Refuse, Garbled, Expand, Pop, vars
<1> QED
  BY <1>2, <1>3, <1>4, <1>5

LEMMA ErrorsTellStep == Shape /\ ErrorsTell /\ [Next]_vars => ErrorsTell'
<1> SUFFICES ASSUME Shape, ErrorsTell, [Next]_vars, complete' PROVE errors' = {}
  BY DEF ErrorsTell
<1>1. CASE Uncertain \/ Escape \/ Overflow \/ Mention \/ Cycle \/ Broken \/ Refuse \/ Garbled
  BY <1>1 DEF Uncertain, Escape, Overflow, Mention, Cycle, Broken, Refuse, Garbled
<1>2. CASE Known \/ Expand \/ Pop \/ Finish \/ UNCHANGED vars
  <2>1. complete
    BY <1>2, Zenon DEF Known, Expand, Pop, Finish, vars
  <2>2. errors' = errors
    <3>1. ASSUME Finish PROVE ~Cyclic(asserted)
      BY <3>1, Zenon DEF Finish
    <3> QED
      BY <1>2, <3>1 DEF Known, Expand, Pop, Finish, vars
  <2> QED
    BY <2>1, <2>2 DEF ErrorsTell
<1> QED
  BY <1>1, <1>2 DEF Next, Walk

LEMMA CycleToldStep == Shape /\ CycleTold /\ [Next]_vars => CycleTold'
<1> SUFFICES ASSUME Shape, CycleTold, [Next]_vars, phase' = "done" PROVE CycleTold'
  BY DEF CycleTold
<1>1. CASE Overflow
  <2>1. paths \cup {Ref.to} \in SUBSET Paths /\ ~Fits /\ paths' = paths \cup {Ref.to} /\ ~complete'
    BY <1>1, RefType DEF Overflow, InBundle, Usable, Shape, TypeOK
  <2>2. ~(Cardinality(paths') <= MaxFiles)
    BY <2>1 DEF Fits
  <2> QED
    BY <2>1, <2>2 DEF CycleTold
<1>2. CASE Finish
  <2>1. asserted' = asserted /\ asserted \in Graph
    BY <1>2, StepGrows DEF Finish, found
  <2>2. Cyclic(asserted) => "cycle" \in errors'
    BY <1>2 DEF Finish
  <2> QED
    BY <2>1, <2>2, CyclicIsCircular DEF CycleTold
<1>3. CASE UNCHANGED vars
  BY <1>3, Zenon DEF vars, CycleTold
<1>4. Overflow \/ Finish \/ UNCHANGED vars
  BY DEF Next, Walk, Uncertain, Escape, Mention, Cycle, Broken, Known, Refuse, Garbled, Expand, Pop,
         New, Asserts, InBundle, Usable, HasRef
<1> QED
  BY <1>1, <1>2, <1>3, <1>4

LEMMA PathsFinite == IsFiniteSet(Paths)
<1>1. IsFiniteSet(Docs \cup Leaves)
  BY DependencyAssumption, FS_Union
<1> QED
  BY <1>1, FS_AddElement DEF Paths

LEMMA AddOne ==
  ASSUME NEW S, NEW T, NEW x, IsFiniteSet(T), S \cup {x} \in SUBSET T, x \notin S,
         NEW n \in Nat, Cardinality(T) <= n
  PROVE  ~(Cardinality(S) >= n)
<1>1. S \in SUBSET T
  OBVIOUS
<1>2. IsFiniteSet(S) /\ Cardinality(S) \in Nat /\ Cardinality(T) \in Nat
  BY <1>1, FS_Subset, FS_CardinalityType
<1>3. Cardinality(S \cup {x}) = Cardinality(S) + 1
  BY <1>2, FS_AddElement
<1>4. Cardinality(S \cup {x}) <= Cardinality(T)
  BY FS_Subset
<1> QED
  BY <1>2, <1>3, <1>4

LEMMA LinkEdgesType == Shape => LinkEdges \in Graph
<1> SUFFICES ASSUME Shape, NEW e \in LinkEdges PROVE e \in Docs \X Paths
  BY DEF Graph
<1>1. PICK d \in Docs : e \in {d} \X LinksOf(d)
  BY DEF LinkEdges
<1>2. text[d].refs \in Seq(Refs)
  BY DEF Shape, TypeOK, Text
<1>3. LinksOf(d) \subseteq Paths
  <2>1. \A r \in RefsOf(d) : r.to \in Paths \cup {Outside}
    <3>1. \A i \in 1 .. Len(text[d].refs) : text[d].refs[i] \in Refs
      BY <1>2
    <3> QED
      BY <3>1 DEF RefsOf, Refs
  <2> QED
    BY <2>1 DEF LinksOf
<1> QED
  BY <1>1, <1>3

(* What an asserted link of a document that was read adds. *)
LEMMA LinkFound ==
  ASSUME Shape, Reading, Asserts
  PROVE  /\ frame.doc \in AllDocs /\ Ref.to \in Reached({Skill}) /\ Ref.to \in LinksOf(frame.doc)
         /\ Edge \in LinkEdges /\ Edge[1] \in AllDocs
<1>1. HasRef /\ Ref.kind = "link" /\ Ref.to # Outside
  BY DEF Asserts, InBundle, Usable
<1>2. frame.doc \in Docs /\ frame.next \in Nat \ {0} /\ text[frame.doc].refs \in Seq(Refs)
  BY <1>1, RefType
<1>3. frame.next \in 1 .. Len(text[frame.doc].refs)
  BY <1>1, <1>2 DEF HasRef
<1>4. Ref.to \in LinksOf(frame.doc)
  BY <1>1, <1>3 DEF Ref, LinksOf, RefsOf
<1>5. frame.doc \in AllDocs /\ text[frame.doc].read = "ok"
  BY FrameType DEF Reading, Frames, Sought
<1>6. Edge \in LinkEdges /\ Edge[1] = frame.doc /\ Edge[2] = Ref.to
  BY <1>2, <1>4, <1>5 DEF LinkEdges, Edge
<1>7. LinkEdges \in Graph
  BY LinkEdgesType
<1>8. Ref.to \in Reached({Skill})
  BY <1>5, <1>6, <1>7, LeadsClosed DEF Reached, AllDocs, ClosedUnder
<1> QED
  BY <1>4, <1>5, <1>6, <1>8

LEMMA ReadingStep == Shape /\ Reading /\ [Next]_vars => Reading'
<1> SUFFICES ASSUME Shape, Reading, [Next]_vars PROVE Reading'
  OBVIOUS
<1>1. text' = text /\ LinkEdges' = LinkEdges /\ AllDocs' = AllDocs
  BY StepGrows
<1>2. ASSUME NEW g \in Frames' PROVE g.chain \subseteq AllDocs /\ text[g.doc].read = "ok"
  <2>1. CASE \E f \in Frames : g.doc = f.doc /\ g.chain = f.chain
    BY <2>1 DEF Reading, Sought
  <2>2. CASE Expand /\ g = Under(Ref.to)
    <3>1. Ref.to \in AllDocs
      BY <2>2, LinkFound DEF Expand, New, AllDocs
    <3>2. frame.chain \subseteq AllDocs
      BY DEF Reading, Sought, Frames
    <3> QED
      BY <2>2, <3>1, <3>2 DEF Expand, Under
  <2> QED
    BY <2>1, <2>2, FrameStep
<1>3. expanded' \subseteq AllDocs \cap paths'
  <2>1. CASE Expand \/ Garbled
    <3>1. New /\ expanded' = expanded \cup {Ref.to} /\ paths' = paths \cup {Ref.to}
      BY <2>1 DEF Expand, Garbled, Keep
    <3>2. Ref.to \in AllDocs
      BY <3>1, LinkFound DEF New, AllDocs
    <3> QED
      BY <3>1, <3>2 DEF Reading
  <2>2. CASE ~Expand /\ ~Garbled
    <3>1. expanded' = expanded /\ paths \subseteq paths'
      BY <2>2 DEF Next, Walk, Uncertain, Escape, Overflow, Mention, Cycle, Broken, Known, Refuse,
                  Pop, Finish, vars, found, Keep
    <3> QED
      BY <3>1 DEF Reading
  <2> QED
    BY <2>1, <2>2
<1>4. asserted' \subseteq {e \in LinkEdges : e[1] \in AllDocs}
  <2>1. CASE Cycle \/ Broken \/ Known \/ Refuse \/ Garbled \/ Expand
    <3>1. Asserts /\ asserted' = asserted \cup {Edge}
      BY <2>1 DEF Cycle, Broken, Known, Refuse, Garbled, Expand, New, Keep
    <3>2. Edge \in LinkEdges /\ Edge[1] \in AllDocs
      BY <3>1, LinkFound
    <3> QED
      BY <3>1, <3>2 DEF Reading
  <2>2. CASE Uncertain \/ Escape \/ Overflow \/ Mention \/ Pop \/ Finish \/ UNCHANGED vars
    <3>1. asserted' = asserted
      BY <2>2 DEF Uncertain, Escape, Overflow, Mention, Pop, Finish, vars, found
    <3> QED
      BY <3>1 DEF Reading
  <2> QED
    BY <2>1, <2>2 DEF Next, Walk
<1>5. complete' => asserted' = edges'
  <2> SUFFICES ASSUME complete' PROVE asserted' = edges'
    OBVIOUS
  <2>1. CASE Uncertain \/ Escape \/ Overflow \/ Mention \/ Cycle \/ Broken \/ Refuse \/ Garbled
    BY <2>1 DEF Uncertain, Escape, Overflow, Mention, Cycle, Broken, Refuse, Garbled
  <2>2. CASE Known \/ Expand
    BY <2>2 DEF Known, Expand, New, Keep, Reading
  <2>3. CASE Pop \/ Finish \/ UNCHANGED vars
    <3>1. complete
      BY <2>3, Zenon DEF Pop, Finish, vars
    <3> QED
      BY <2>3, <3>1 DEF Pop, Finish, vars, found, Reading
  <2> QED
    BY <2>1, <2>2, <2>3 DEF Next, Walk
<1> HIDE DEF AllDocs
<1>6. \A g \in Frames' : Sought(g)'
  BY <1>1, <1>2 DEF Sought
<1> QED
  BY <1>1, <1>3, <1>4, <1>5, <1>6 DEF Reading

(* A bundle without defects gives the walk nothing to stumble over. *)
LEMMA UntroubledStep == WInv /\ [Next]_vars => Untroubled'
<1> SUFFICES ASSUME WInv, [Next]_vars PROVE Untroubled'
  OBVIOUS
<1>1. Shape /\ Reading
  BY DEF WInv, DInv
<1>2. /\ LinkEdges' = LinkEdges /\ Reached({Skill})' = Reached({Skill})
      /\ AllDocs' = AllDocs /\ text' = text
  BY <1>1, StepGrows
<1>3. Sound' => Sound
  <2>1. (\A d \in AllDocs : Plain(d))' => \A d \in AllDocs : Plain(d)
    BY <1>2, Zenon DEF Plain, RefsOf
  <2>2. Looping => Looping'
    <3>1. \A d, t : d \in Reached({t}) => d \in Reached({t})'
      BY <1>2 DEF Reached
    <3>2. \A d : LinksOf(d)' = LinksOf(d)
      BY <1>2 DEF LinksOf, RefsOf
    <3> QED
      BY <1>2, <3>1, <3>2 DEF Looping
  <2> QED
    BY <1>2, <2>1, <2>2 DEF Sound
<1> SUFFICES ASSUME Sound PROVE complete' /\ paths' \subseteq Reached({Skill})
  BY <1>2, <1>3 DEF Untroubled
<1>4. complete /\ paths \subseteq Reached({Skill}) /\ Ancestry
  BY DEF WInv, Untroubled
<1>5. frame.doc \in AllDocs /\ Plain(frame.doc)
  <2>1. frame.doc \in AllDocs
    BY <1>1, FrameType DEF Reading, Frames, Sought
  <2> QED
    BY <2>1 DEF Sound
<1>6. ASSUME HasRef
      PROVE  Ref.kind = "link" /\ Ref.to \in Docs \cup Leaves /\ Ref.to \in LinksOf(frame.doc)
  <2>1. frame.doc \in Docs /\ frame.next \in Nat \ {0} /\ text[frame.doc].refs \in Seq(Refs)
    BY <1>1, <1>6, RefType
  <2>2. frame.next \in 1 .. Len(text[frame.doc].refs)
    BY <1>6, <2>1 DEF HasRef
  <2>3. Ref \in RefsOf(frame.doc)
    BY <2>2 DEF Ref, RefsOf
  <2>4. Ref.kind = "link" /\ Ref.to \in Docs \cup Leaves
    BY <1>5, <2>3 DEF Plain
  <2>5. Ref.to # Outside
    BY <2>4, DependencyAssumption DEF Paths
  <2> QED
    BY <2>3, <2>4, <2>5 DEF LinksOf
<1>7. Gone \notin Docs \cup Leaves /\ Outside \notin Docs \cup Leaves
  BY DependencyAssumption DEF Paths
<1>8. ~Uncertain /\ ~Escape /\ ~Mention /\ ~Broken
  BY <1>6, <1>7 DEF Uncertain, Escape, Mention, Broken, Asserts, InBundle, Usable
<1>9. LinkEdges \in Graph /\ asserted \subseteq LinkEdges
  BY <1>1, LinkEdgesType DEF Reading
<1>10. ASSUME HasRef
       PROVE  /\ Ref.to \in Reached({Skill}) /\ <<frame.doc, Ref.to>> \in LinkEdges
  <2>1. frame.doc \in Docs /\ text[frame.doc].read = "ok"
    BY <1>5 DEF AllDocs, Plain
  <2>2. <<frame.doc, Ref.to>> \in LinkEdges
    BY <2>1, <1>10, <1>6 DEF LinkEdges
  <2> QED
    BY <2>2, <1>5, <1>9, LeadsClosed DEF Reached, AllDocs, ClosedUnder
<1>11. IsFiniteSet(Reached({Skill})) /\ Cardinality(Reached({Skill})) \in Nat
  BY PathsFinite, LeadsFrom, FS_Subset, FS_CardinalityType DEF Reached
<1>12. MaxFiles \in Nat /\ Limit \in Nat
  BY DependencyAssumption
<1>13. ~Overflow
  <2> SUFFICES ASSUME HasRef PROVE Fits
    BY DEF Overflow, InBundle, Usable
  <2>1. paths \cup {Ref.to} \in SUBSET Reached({Skill})
    BY <1>4, <1>10
  <2>2. /\ Cardinality(paths \cup {Ref.to}) <= Cardinality(Reached({Skill}))
        /\ Cardinality(paths \cup {Ref.to}) \in Nat
    BY <2>1, <1>11, FS_Subset, FS_CardinalityType
  <2> QED
    BY <2>2, <1>11, <1>12 DEF Fits, Sound
<1>14. ~Cycle
  <2> SUFFICES ASSUME HasRef, Ref.to \in frame.chain PROVE FALSE
    BY DEF Cycle, Asserts, InBundle, Usable
  <2>1. Led(frame, LinkEdges)
    BY <1>4, <1>9, LedStays DEF Ancestry, Frames
  <2>2. frame.doc \in Reached({Ref.to})
    BY <2>1 DEF Led, Reached
  <2> QED
    BY <2>2, <1>5, <1>6 DEF Sound, Looping
<1>15. ~Refuse /\ ~Garbled
  <2> SUFFICES ASSUME HasRef, New
               PROVE  /\ ~(Cardinality(frame.chain) >= Limit) /\ ~(Cardinality(expanded) >= MaxFiles)
                      /\ text[Ref.to].read = "ok"
    BY DEF Refuse, Garbled, New, Asserts, InBundle, Usable
  <2>1. Ref.to \in AllDocs /\ Ref.to \notin frame.chain /\ Ref.to \notin expanded
    BY <1>10 DEF New, AllDocs
  <2>2. ~(Cardinality(frame.chain) >= Limit)
    <3>1. frame.chain \cup {Ref.to} \in SUBSET AllDocs /\ IsFiniteSet(AllDocs)
      BY <1>1, <1>11, <2>1, FS_Subset DEF Reading, Sought, Frames, AllDocs
    <3> QED
      BY <3>1, <2>1, <1>12, AddOne DEF Sound
  <2>3. ~(Cardinality(expanded) >= MaxFiles)
    <3>1. expanded \cup {Ref.to} \in SUBSET Reached({Skill})
      BY <1>1, <1>4, <2>1 DEF Reading, AllDocs
    <3> QED
      BY <3>1, <2>1, <1>11, <1>12, AddOne DEF Sound
  <2>4. text[Ref.to].read = "ok"
    BY <2>1 DEF Sound, Plain
  <2> QED
    BY <2>2, <2>3, <2>4
<1>16. CASE Known \/ Expand
  <2>1. HasRef /\ complete' = complete /\ paths' = paths \cup {Ref.to}
    BY <1>16 DEF Known, Expand, New, Asserts, InBundle, Usable, Keep
  <2> QED
    BY <2>1, <1>4, <1>10
<1>17. CASE Pop
  <2>1. frame' = pending[1] /\ 1 \in 1 .. Len(pending) /\ paths' = paths
    BY <1>1, <1>17 DEF Pop, Shape, TypeOK, found
  <2>2. frame'.doc \in AllDocs
    BY <1>1, <2>1, FrameType DEF Reading, Frames, Sought
  <2>3. ~text[frame'.doc].uncertain
    BY <2>2 DEF Sound, Plain
  <2>4. complete'
    BY <1>4, <1>17, <2>3, Zenon DEF Pop
  <2> QED
    BY <1>4, <2>1, <2>4
<1>18. CASE Finish
  <2>1. ~Circular(asserted)
    <3> SUFFICES ASSUME NEW e \in asserted, e[1] \in Leads({e[2]}, asserted) PROVE FALSE
      BY DEF Circular
    <3>1. e[1] \in AllDocs /\ e \in LinkEdges
      BY <1>1 DEF Reading
    <3>2. e[2] \in LinksOf(e[1])
      BY <3>1 DEF LinkEdges
    <3>3. e[1] \in Reached({e[2]})
      BY <1>9, LeadsGrows DEF Reached
    <3> QED
      BY <3>1, <3>2, <3>3 DEF Sound, Looping
  <2>2. ~Cyclic(asserted)
    BY <1>1, <2>1, StepGrows, CyclicIsCircular
  <2>3. complete'
    BY <1>4, <1>18, <2>2, Zenon DEF Finish
  <2> QED
    BY <1>4, <1>18, <2>3 DEF Finish, found
<1>19. CASE UNCHANGED vars
  BY <1>4, <1>19, Zenon DEF vars
<1> QED
  BY <1>8, <1>13, <1>14, <1>15, <1>16, <1>17, <1>18, <1>19 DEF Next, Walk

LEMMA InitWInv == Init => WInv
<1> SUFFICES ASSUME Init PROVE WInv
  OBVIOUS
<1>1. DInv /\ Shape
  BY InitInvariant DEF DInv
<1>2. Frames = {frame} /\ frame.doc = Skill /\ frame.chain = {Skill}
  BY DEF Init, Frames
<1>3. Skill \in Docs /\ Skill \in Paths
  BY DependencyAssumption DEF Paths
<1>4. Skill \in Leads({Skill}, asserted) /\ Skill \in AllDocs
  BY <1>3, LeadsFrom DEF AllDocs, Reached
<1>5. Ancestry
  BY <1>2, <1>4 DEF Ancestry, Led
<1>6. CycleFound /\ CycleTold /\ ErrorsTell
  BY DEF Init, CycleFound, CycleTold, ErrorsTell
<1>7. Reading
  BY <1>2, <1>4 DEF Init, Reading, Sought
<1>8. Untroubled
  <2> SUFFICES ASSUME Sound PROVE complete
    BY DEF Untroubled, Init
  <2>1. ~text[Skill].uncertain
    BY <1>4 DEF Sound, Plain
  <2> QED
    BY <2>1, Zenon DEF Init
<1> QED
  BY <1>1, <1>5, <1>6, <1>7, <1>8 DEF WInv

THEOREM WalkInvariance == Spec => []WInv
<1>1. WInv /\ [Next]_vars => WInv'
  <2> SUFFICES ASSUME WInv, [Next]_vars PROVE WInv'
    OBVIOUS
  <2>1. DInv' /\ Shape
    BY ShapeStep, ReadOnceStep, ProgressStep, OverStep DEF DInv, WInv
  <2>2. Ancestry' /\ CycleFound' /\ CycleTold' /\ ErrorsTell' /\ Reading' /\ Untroubled'
    BY <2>1, AncestryStep, CycleStep, CycleToldStep, ErrorsTellStep, ReadingStep, UntroubledStep DEF WInv
  <2> QED
    BY <2>1, <2>2 DEF WInv
<1> QED
  BY InitWInv, <1>1, PTL DEF Spec

(* A cycle among the links of the documents that were read is reported, and
   nothing else is reported as one, in whatever order the walk met them. *)
THEOREM CyclesAreReported == Spec => []CycleIffReported
<1>1. WInv => CycleIffReported
  BY DEF WInv, CycleFound, CycleTold, CycleIffReported
<1> QED
  BY WalkInvariance, <1>1, PTL

(* A bundle without defects, within the limits, is walked to a complete result
   without errors. *)
THEOREM SoundBundlesAreComplete == Spec => []SoundIsComplete
<1>1. WInv => SoundIsComplete
  BY DEF WInv, Untroubled, ErrorsTell, Sound, SoundIsComplete
<1> QED
  BY WalkInvariance, <1>1, PTL

(* A complete result is the whole truth: what was read is exactly what SKILL.md
   leads to, the edges are exactly the links of these documents, and nothing
   among them is missing, ambiguous or circular. *)
THEOREM CompleteWalksAreExact == Spec => []CompleteMeansClosed
<1>1. ASSUME WInv, ClosedUnderLinks PROVE CompleteMeansClosed
  <2> SUFFICES ASSUME phase = "done", complete
               PROVE  /\ expanded \cup {Skill} = AllDocs
                      /\ edges = {e \in Docs \X Paths : e[1] \in AllDocs /\ e[2] \in LinksOf(e[1])}
                      /\ \A d \in AllDocs : Plain(d)
                      /\ ~Looping
    BY DEF CompleteMeansClosed
  <2>1. Shape /\ Reading /\ asserted = edges /\ LinkEdges \in Graph /\ asserted \in Graph
    BY <1>1, LinkEdgesType DEF WInv, DInv, Reading, Shape, TypeOK, Graph
  <2>2. Skill \in AllDocs /\ expanded \subseteq AllDocs /\ expanded \subseteq Docs
    BY <2>1, DependencyAssumption, LeadsFrom DEF AllDocs, Reached, Reading, Shape, TypeOK, Paths
  <2>3. AllDocs \subseteq expanded \cup {Skill}
    <3> DEFINE T == expanded \cup {Skill} \cup (Paths \ Docs)
    <3>1. T \in SUBSET Paths /\ {Skill} \subseteq T
      BY <2>2, DependencyAssumption DEF Paths
    <3>2. ASSUME NEW e \in LinkEdges, e[1] \in T PROVE e[2] \in T
      <4>1. e[1] \in Docs /\ e[2] \in LinksOf(e[1]) /\ e[2] \in Paths
        BY <2>1 DEF LinkEdges, Graph
      <4>2. e[2] \in Docs => e[2] \in expanded \cup {Skill}
        BY <3>2, <4>1, <1>1 DEF ClosedUnderLinks
      <4> QED
        BY <4>1, <4>2
    <3>3. Leads({Skill}, LinkEdges) \subseteq T
      <4> HIDE DEF T
      <4> QED
        BY <3>1, <3>2, LeadsLeast DEF ClosedUnder
    <3> QED
      BY <3>3 DEF AllDocs, Reached
  <2>4. \A d \in AllDocs : Plain(d)
    BY <1>1, <2>3 DEF ClosedUnderLinks
  <2>5. \A e \in edges : e \in Docs \X Paths /\ e[1] \in AllDocs /\ e[2] \in LinksOf(e[1])
    BY <2>1 DEF Reading, LinkEdges, Graph
  <2>6. \A e \in Docs \X Paths : e[1] \in AllDocs /\ e[2] \in LinksOf(e[1]) => e \in edges
    <3> SUFFICES ASSUME NEW e \in Docs \X Paths, e[1] \in AllDocs, e[2] \in LinksOf(e[1])
                 PROVE  e \in edges
      OBVIOUS
    <3>1. <<e[1], e[2]>> \in edges
      BY <1>1, <2>3 DEF ClosedUnderLinks
    <3> QED
      BY <3>1
  <2>7. ~Looping
    <3> SUFFICES ASSUME NEW d \in AllDocs, NEW t \in LinksOf(d), d \in Reached({t}) PROVE FALSE
      BY DEF Looping
    <3> DEFINE T == Leads({t}, edges) \cap Reached({Skill})
    <3>1. <<d, t>> \in LinkEdges /\ <<d, t>> \in edges /\ t \in Paths /\ d \in Docs
      <4>1. <<d, t>> \in LinkEdges
        <5>1. d \in Docs /\ text[d].read = "ok" /\ <<d, t>> \in {d} \X LinksOf(d)
          BY <2>4 DEF AllDocs, Plain
        <5> QED
          BY <5>1 DEF LinkEdges
      <4>2. t \in Paths /\ d \in Docs
        BY <4>1, <2>1 DEF Graph
      <4> QED
        BY <4>1, <4>2, <2>6
    <3>2. t \in T /\ T \in SUBSET Paths
      BY <3>1, <2>1, LeadsFrom, LeadsClosed DEF Reached, AllDocs, ClosedUnder
    <3>3. ASSUME NEW e \in LinkEdges, e[1] \in T PROVE e[2] \in T
      <4>1. e[1] \in AllDocs /\ e[2] \in LinksOf(e[1]) /\ e \in Docs \X Paths
        BY <3>3, <2>1 DEF AllDocs, LinkEdges, Graph
      <4>2. e \in edges
        BY <4>1, <2>6
      <4>3. e[2] \in Leads({t}, edges)
        BY <3>3, <4>2, <2>1, LeadsClosed DEF ClosedUnder
      <4>4. e[2] \in Reached({Skill})
        BY <3>3, <2>1, LeadsClosed DEF Reached, ClosedUnder
      <4> QED
        BY <4>3, <4>4
    <3>4. Leads({t}, LinkEdges) \subseteq T
      <4> HIDE DEF T
      <4> QED
        BY <3>2, <3>3, LeadsLeast DEF ClosedUnder
    <3>5. d \in Leads({t}, asserted)
      BY <3>4, <2>1 DEF Reached
    <3>6. Circular(asserted)
      BY <3>1, <3>5, <2>1 DEF Circular
    <3> QED
      BY <1>1, <3>6 DEF WInv, CycleTold, ErrorsTell
  <2> QED
    BY <2>2, <2>3, <2>4, <2>5, <2>6, <2>7
<1> QED
  BY WalkInvariance, CompleteWalksAreClosed, <1>1, PTL
=============================================================================
