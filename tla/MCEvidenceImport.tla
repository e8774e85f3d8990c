-------------------------- MODULE MCEvidenceImport --------------------------
(* Instances of EvidenceImport: exports of every kind the checks tell apart. *)
EXTENDS EvidenceImport, TLC

About(v)       == [bundle |-> v, inputs |-> v]
Bare(v)        == [bundle |-> v, inputs |-> Anything]
Crossed(v, w)  == [bundle |-> v, inputs |-> w]

(* A good export, one without bound rows, one whose second record is about
   another version, one with foreign inputs, and a malformed one. *)
MixedExports == {"good", "empty", "mixed", "crossed", "bad"}
MixedRows == [e \in MixedExports |->
                CASE e = "good"    -> <<Bare("v1")>>
                  [] e = "empty"   -> <<>>
                  [] e = "mixed"   -> <<About("v1"), About("v2")>>
                  [] e = "crossed" -> <<Crossed("v1", "v2")>>
                  [] OTHER         -> Garbled]
Ask(e, asks, inside) == [export |-> e, asks |-> asks, inside |-> inside]
MixedRequests == {Ask(e, FALSE, {}) : e \in {"mixed", "crossed", "bad"}}
                 \cup {Ask("empty", TRUE, {}), Ask("good", FALSE, {})}
                 \cup {Ask("good", TRUE, p) : p \in {{}, {"store"}, {"adapter"}, {"output"}}}

Symmetry == Permutations(Importers)
=============================================================================
