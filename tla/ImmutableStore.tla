--------------------------- MODULE ImmutableStore ---------------------------
(***************************************************************************)
(* What storage.put_bytes promises to its callers, without files, links or *)
(* temporary names: a set of whole objects that only grows while the       *)
(* machine stays up, and an acknowledgement that is never given for an     *)
(* object that is not in it.  ContentStore is shown to implement this.     *)
(***************************************************************************)
CONSTANT Raw            \* the payloads that can be stored

VARIABLES objects,      \* the payloads a reader finds whole under their digest
          acked         \* the payloads some put_bytes call returned a path for

vars == <<objects, acked>>

Init == /\ objects \in SUBSET Raw
        /\ acked = {}

(* A payload becomes readable all at once. *)
Publish(r) == /\ r \notin objects
              /\ objects' = objects \cup {r}
              /\ UNCHANGED acked

(* A caller is told that a payload is stored. *)
Acknowledge(r) == /\ r \in objects
                  /\ acked' = acked \cup {r}
                  /\ UNCHANGED objects

(* A power failure may lose names that the directory had not written back. *)
Outage == /\ objects' \in SUBSET objects
          /\ acked' = acked \cap objects'

Next == \/ \E r \in Raw : Publish(r) \/ Acknowledge(r)
        \/ Outage

Spec == Init /\ [][Next]_vars
=============================================================================
