------------------------- MODULE ContentStoreProofs -------------------------
(***************************************************************************)
(* Proofs, for any number of writers, payloads and files, of the safety    *)
(* properties of ContentStore and of its refinement of ImmutableStore.     *)
(***************************************************************************)
EXTENDS ContentStore, TLAPS

(* The inductive invariant.  PublishedWhole alone is not inductive: it must *)
(* be known that a file which already carries a target name is no longer    *)
(* written (Unshared), is complete when it gets the name (Prepared) and has *)
(* reached the disk (Published).                                            *)
OneName   == \A r, s \in Raw : link[r] # NoFile /\ link[r] = link[s] => r = s
Published == \A r \in Raw : link[r] # NoFile =>
                /\ link[r] \in synced
                /\ data[link[r]].raw = Junk \/ data[link[r]] = Whole(r)
OwnTemp   == \A w \in Writers :
                /\ pc[w] = "idle" => temp[w] = NoFile
                /\ pc[w] # "idle" => /\ temp[w] \in pending
                                     /\ temp[w] \notin orphans \cup stuck
                                     /\ raw[w] \in Raw
                                     /\ \A v \in Writers : temp[v] = temp[w] => v = w
Unshared  == \A w \in Writers : pc[w] \in {"write", "fsync", "link", "compare"} =>
                \A r \in Raw : link[r] # temp[w]
Prepared  == \A w \in Writers :
                /\ pc[w] = "write" => data[temp[w]].len < Size
                /\ pc[w] \in {"fsync", "link"} => data[temp[w]] = Whole(raw[w])
                /\ pc[w] = "link" => temp[w] \in synced
                /\ pc[w] = "compare" => link[raw[w]] # NoFile
                /\ pc[w] = "unlink" /\ outcome[w] = "ok" => Stored(raw[w])
Leftovers == /\ orphans \cup stuck \subseteq pending
             /\ pending \subseteq orphans \cup stuck \cup {temp[w] : w \in Busy}
             /\ erased \cap pending = {}

IInv == /\ TypeOK
        /\ OneName
        /\ Published
        /\ OwnTemp
        /\ Unshared
        /\ Prepared
        /\ AckedStored
        /\ Leftovers
-----------------------------------------------------------------------------
LEMMA Inductive == IInv /\ [Next]_vars => IInv'
<1> SUFFICES ASSUME IInv, [Next]_vars PROVE IInv'
  OBVIOUS
<1> USE StoreAssumption DEF IInv, names, left
<1>1. ASSUME NEW w \in Writers, NEW r \in Raw, OpenTemp(w, r) PROVE IInv'
  <2>1. TypeOK'
    BY <1>1 DEF OpenTemp, TypeOK, Blank, Content, Free
  <2>2. (OneName /\ Published)'
    BY <1>1 DEF OpenTemp, OneName, Published, Free
  <2>3. OwnTemp'
    BY <1>1 DEF OpenTemp, TypeOK, OwnTemp, Leftovers, Free
  <2>4. Unshared'
    BY <1>1 DEF OpenTemp, TypeOK, Unshared, Free
  <2>5. Prepared'
    BY <1>1 DEF OpenTemp, TypeOK, OwnTemp, Prepared, Stored, Blank, Free
  <2>6. AckedStored'
    BY <1>1 DEF OpenTemp, TypeOK, AckedStored, Stored, Free
  <2>7. Leftovers'
    BY <1>1 DEF OpenTemp, TypeOK, Leftovers, Busy
  <2> QED BY <2>1, <2>2, <2>3, <2>4, <2>5, <2>6, <2>7
<1>2. ASSUME NEW w \in Writers, NEW r \in Raw, OpenFails(w, r) PROVE IInv'
  <2>1. TypeOK'
    BY <1>2 DEF OpenFails, TypeOK
  <2>2. OwnTemp'
    BY <1>2 DEF OpenFails, OwnTemp
  <2>3. Prepared'
    BY <1>2 DEF OpenFails, Prepared, Stored
  <2>4. (OneName /\ Published /\ Unshared /\ AckedStored /\ Leftovers)'
    BY <1>2 DEF OpenFails, OneName, Published, Unshared, AckedStored,
       Leftovers, Stored, Busy
  <2> QED BY <2>1, <2>2, <2>3, <2>4
<1>3. ASSUME NEW w \in Writers, Write(w) PROVE IInv'
  <2>1. TypeOK'
    <3>1. /\ temp[w] \in Inodes
          /\ data[temp[w]] \in Content
          /\ data[temp[w]].len < Size
          /\ raw[w] \in Raw
      BY <1>3 DEF Write, TypeOK, OwnTemp, Prepared
    <3>2. [raw |-> raw[w], len |-> data[temp[w]].len + 1] \in Content
      BY <3>1 DEF Content
    <3>3. data' \in [Inodes -> Content]
      BY <1>3, <3>2 DEF Write, TypeOK
    <3> QED BY <1>3, <3>3 DEF Write, TypeOK
  <2>2. Published'
    BY <1>3 DEF Write, Published, Unshared
  <2>3. (OwnTemp /\ Unshared)'
    BY <1>3 DEF Write, OwnTemp, Unshared
  <2>4. Prepared'
    <3>1. \A v \in Writers : pc[v] # "idle" /\ v # w => temp[v] # temp[w]
      BY <1>3 DEF Write, OwnTemp
    <3>2. data[temp[w]].len + 1 = Size \/ data[temp[w]].len + 1 < Size
      BY <1>3 DEF Write, TypeOK, OwnTemp, Prepared, Content
    <3> QED
      BY <1>3, <3>1, <3>2 DEF Write, TypeOK, OwnTemp, Unshared, Prepared, Stored, Whole
  <2>5. (OneName /\ AckedStored /\ Leftovers)'
    BY <1>3 DEF Write, TypeOK, OneName, Unshared, AckedStored, Leftovers,
       Stored, Busy
  <2> QED BY <2>1, <2>2, <2>3, <2>4, <2>5
<1>4. ASSUME NEW w \in Writers, Fsync(w) PROVE IInv'
  <2>1. TypeOK'
    BY <1>4 DEF Fsync, TypeOK, OwnTemp
  <2>2. Published'
    BY <1>4 DEF Fsync, Published
  <2>3. (OwnTemp /\ Unshared)'
    BY <1>4 DEF Fsync, OwnTemp, Unshared
  <2>4. Prepared'
    BY <1>4 DEF Fsync, Prepared, Stored
  <2>5. (OneName /\ AckedStored /\ Leftovers)'
    BY <1>4 DEF Fsync, OneName, AckedStored, Leftovers, Stored, Busy
  <2> QED BY <2>1, <2>2, <2>3, <2>4, <2>5
<1>5. ASSUME NEW w \in Writers, LinkTarget(w) PROVE IInv'
  <2>1. TypeOK'
    BY <1>5 DEF LinkTarget, TypeOK, OwnTemp
  <2>2. OneName'
    BY <1>5 DEF LinkTarget, TypeOK, OneName, Unshared
  <2>3. Published'
    BY <1>5 DEF LinkTarget, TypeOK, Published, Prepared
  <2>4. OwnTemp'
    BY <1>5 DEF LinkTarget, TypeOK, OwnTemp
  <2>5. Unshared'
    BY <1>5 DEF LinkTarget, TypeOK, OwnTemp, Unshared
  <2>6. Prepared'
    BY <1>5 DEF LinkTarget, TypeOK, OwnTemp, Prepared, Stored
  <2>7. AckedStored'
    BY <1>5 DEF LinkTarget, TypeOK, AckedStored, Stored
  <2>8. Leftovers'
    BY <1>5 DEF LinkTarget, TypeOK, Leftovers, Busy
  <2> QED BY <2>1, <2>2, <2>3, <2>4, <2>5, <2>6, <2>7, <2>8
<1>6. ASSUME NEW w \in Writers, CompareExisting(w) PROVE IInv'
  <2>1. TypeOK'
    BY <1>6 DEF CompareExisting, TypeOK
  <2>2. (OwnTemp /\ Unshared)'
    BY <1>6 DEF CompareExisting, OwnTemp, Unshared
  <2>3. Prepared'
    BY <1>6 DEF CompareExisting, TypeOK, Prepared, Stored
  <2>4. (OneName /\ Published /\ AckedStored /\ Leftovers)'
    BY <1>6 DEF CompareExisting, OneName, Published, AckedStored, Leftovers,
       Stored, Busy
  <2> QED BY <2>1, <2>2, <2>3, <2>4
<1>7. ASSUME NEW w \in Writers, CallFails(w) PROVE IInv'
  <2>1. TypeOK'
    BY <1>7 DEF CallFails, TypeOK
  <2>2. (OwnTemp /\ Unshared)'
    BY <1>7 DEF CallFails, OwnTemp, Unshared
  <2>3. Prepared'
    BY <1>7 DEF CallFails, TypeOK, Prepared, Stored
  <2>4. (OneName /\ Published /\ AckedStored /\ Leftovers)'
    BY <1>7 DEF CallFails, OneName, Published, AckedStored, Leftovers, Stored,
       Busy
  <2> QED BY <2>1, <2>2, <2>3, <2>4
<1>8. ASSUME NEW w \in Writers, UnlinkTemp(w) PROVE IInv'
  <2>1. TypeOK'
    BY <1>8 DEF UnlinkTemp, TypeOK, OwnTemp
  <2>2. OwnTemp'
    BY <1>8 DEF UnlinkTemp, TypeOK, OwnTemp
  <2>3. (Unshared /\ Prepared)'
    BY <1>8 DEF UnlinkTemp, Unshared, Prepared, Stored
  <2>4. AckedStored'
    BY <1>8 DEF UnlinkTemp, Prepared, AckedStored, Stored
  <2>5. Leftovers'
    BY <1>8 DEF UnlinkTemp, OwnTemp, Leftovers, Busy
  <2>6. (OneName /\ Published)'
    BY <1>8 DEF UnlinkTemp, OneName, Published
  <2> QED BY <2>1, <2>2, <2>3, <2>4, <2>5, <2>6
<1>9. ASSUME NEW w \in Writers, Kill(w) PROVE IInv'
  <2>1. TypeOK'
    BY <1>9 DEF Kill, TypeOK, OwnTemp
  <2>2. OwnTemp'
    BY <1>9 DEF Kill, TypeOK, OwnTemp
  <2>3. (Unshared /\ Prepared)'
    BY <1>9 DEF Kill, TypeOK, Unshared, Prepared, Stored
  <2>4. Leftovers'
    BY <1>9 DEF Kill, OwnTemp, Leftovers, Busy
  <2>5. (OneName /\ Published /\ AckedStored)'
    BY <1>9 DEF Kill, OneName, Published, AckedStored, Stored
  <2> QED BY <2>1, <2>2, <2>3, <2>4, <2>5
<1>10. ASSUME FlushDirectory PROVE IInv'
  <2>1. TypeOK'
    BY <1>10 DEF FlushDirectory, TypeOK, calls
  <2>2. (OneName /\ Published /\ OwnTemp /\ Unshared)'
    BY <1>10 DEF FlushDirectory, OneName, Published, OwnTemp, Unshared, calls
  <2>3. (Prepared /\ AckedStored /\ Leftovers)'
    BY <1>10 DEF FlushDirectory, Prepared, AckedStored, Leftovers, Stored,
       Busy, calls
  <2> QED BY <2>1, <2>2, <2>3
<1>11. ASSUME Outage PROVE IInv'
  <2>1. TypeOK'
    <3>1. data' \in [Inodes -> Content]
      BY <1>11 DEF Outage, TypeOK, Content
    <3> QED BY <1>11, <3>1 DEF Outage, TypeOK, OwnTemp, Busy
  <2>2. OneName'
    BY <1>11 DEF Outage, OneName
  <2>3. Published'
    BY <1>11 DEF Outage, TypeOK, Published
  <2>4. (OwnTemp /\ Unshared /\ Prepared)'
    BY <1>11 DEF Outage, OwnTemp, Unshared, Prepared
  <2>5. AckedStored'
    BY <1>11 DEF Outage, TypeOK, Published, AckedStored, Stored
  <2>6. Leftovers'
    BY <1>11 DEF Outage, OwnTemp, Leftovers, Busy
  <2> QED BY <2>1, <2>2, <2>3, <2>4, <2>5, <2>6
<1>12. ASSUME NEW w \in Writers, UnlinkFails(w) PROVE IInv'
  <2>1. TypeOK'
    BY <1>12 DEF UnlinkFails, TypeOK, OwnTemp, files
  <2>2. OwnTemp'
    BY <1>12 DEF UnlinkFails, TypeOK, OwnTemp, files
  <2>3. (Unshared /\ Prepared)'
    BY <1>12 DEF UnlinkFails, TypeOK, Unshared, Prepared, Stored, files
  <2>4. Leftovers'
    BY <1>12 DEF UnlinkFails, OwnTemp, Leftovers, Busy, files
  <2>5. (OneName /\ Published /\ AckedStored)'
    BY <1>12 DEF UnlinkFails, OneName, Published, AckedStored, Stored, files
  <2> QED BY <2>1, <2>2, <2>3, <2>4, <2>5
<1>13. CASE UNCHANGED vars
  BY <1>13 DEF vars, TypeOK, OneName, Published, OwnTemp, Unshared, Prepared,
     AckedStored, Leftovers, Stored, Busy
<1> QED
  BY <1>1, <1>2, <1>3, <1>4, <1>5, <1>6, <1>7, <1>8, <1>9, <1>10, <1>11, <1>12, <1>13
     DEF Next, Proceed

(* An initial store satisfies the invariant. *)
LEMMA InitInvariant == Init => IInv
<1> SUFFICES ASSUME Init PROVE IInv
  OBVIOUS
<1>1. TypeOK
  BY StoreAssumption DEF Init, TypeOK, Content, Blank
<1>2. OneName /\ Published
  BY DEF Init, OneName, Published
<1>3. OwnTemp /\ Unshared /\ Prepared
  BY DEF Init, OwnTemp, Unshared, Prepared
<1>4. AckedStored /\ Leftovers
  BY DEF Init, AckedStored, Leftovers
<1> QED BY <1>1, <1>2, <1>3, <1>4 DEF IInv

THEOREM Invariance == Spec => []IInv
BY InitInvariant, Inductive, PTL DEF Spec

(* Type correctness of the store, for any disk and any number of writers. *)
THEOREM TypeCorrect == Spec => []TypeOK
<1>1. IInv => TypeOK
  BY DEF IInv
<1> QED BY <1>1, Invariance, PTL

(* No reader of storage.put_bytes' directory meets a truncated payload under a
   digest name, across kills and power failures. *)
THEOREM ReadersSeeWholeObjects == Spec => []PublishedWhole
<1>1. IInv => PublishedWhole
  BY DEF IInv, Published, PublishedWhole, Stored
<1> QED BY <1>1, Invariance, PTL

(* A path is only returned for an object that is stored intact. *)
THEOREM AcknowledgedIsStored == Spec => []AckedStored
<1>1. IInv => AckedStored
  BY DEF IInv
<1> QED BY <1>1, Invariance, PTL

(* What is left of the temporary names, in a state and at a return. *)
NamesAccountedFor == pending = orphans \cup stuck \cup {temp[w] : w \in Busy}
ReturnsClean == \A w \in Writers :
                   pc[w] # "idle" /\ pc'[w] = "idle" /\ outcome'[w] = "ok" =>
                      temp[w] \notin pending'

LEMMA StepReturnsClean == IInv /\ [Next]_vars => ReturnsClean
<1> SUFFICES ASSUME IInv, [Next]_vars, NEW w \in Writers, pc[w] # "idle",
                    pc'[w] = "idle", outcome'[w] = "ok"
             PROVE  temp[w] \notin pending'
  BY DEF ReturnsClean
<1> USE DEF IInv, names, left
<1>1. ASSUME NEW v \in Writers, UnlinkTemp(v) PROVE temp[w] \notin pending'
  BY <1>1 DEF UnlinkTemp, TypeOK
<1>2. ASSUME NEW v \in Writers, UnlinkFails(v) PROVE FALSE
  BY <1>2 DEF UnlinkFails, TypeOK
<1>3. ASSUME NEW v \in Writers, NEW r \in Raw, OpenTemp(v, r) \/ OpenFails(v, r)
      PROVE  FALSE
  BY <1>3 DEF OpenTemp, OpenFails, TypeOK
<1>4. ASSUME NEW v \in Writers,
             Write(v) \/ Fsync(v) \/ LinkTarget(v) \/ CompareExisting(v) \/ CallFails(v)
      PROVE  FALSE
  BY <1>4 DEF Write, Fsync, LinkTarget, CompareExisting, CallFails, TypeOK
<1>5. ASSUME NEW v \in Writers, Kill(v) PROVE FALSE
  BY <1>5 DEF Kill, TypeOK
<1>6. ASSUME FlushDirectory \/ Outage \/ UNCHANGED vars PROVE FALSE
  BY <1>6 DEF FlushDirectory, Outage, vars, calls, TypeOK
<1> QED
  BY <1>1, <1>2, <1>3, <1>4, <1>5, <1>6 DEF Next, Proceed

(* A call that returns has removed its temporary name, and a name outlives a
   call only if its process died or its unlink failed. *)
THEOREM CallsCleanUp == Spec => NoLeftovers
<1>1. IInv => NamesAccountedFor
  BY DEF IInv, OwnTemp, Leftovers, NamesAccountedFor, Busy
<1>2. IInv /\ [Next]_vars => [ReturnsClean]_vars
  BY StepReturnsClean
<1> QED
  BY <1>1, <1>2, Invariance, PTL DEF Spec, NoLeftovers, NamesAccountedFor, ReturnsClean
-----------------------------------------------------------------------------
(* What one step may do to an object that already has its name. *)
ObjectStays == \A r \in Raw : link[r] # NoFile =>
                  /\ data'[link[r]] = data[link[r]]
                  /\ link'[r] = link[r] \/ (link'[r] = NoFile /\ r \in dirty)

LEMMA StepKeepsObjects == IInv /\ [Next]_vars => ObjectStays
<1> SUFFICES ASSUME IInv, [Next]_vars, NEW r \in Raw, link[r] # NoFile
             PROVE  /\ data'[link[r]] = data[link[r]]
                    /\ link'[r] = link[r] \/ (link'[r] = NoFile /\ r \in dirty)
  BY DEF ObjectStays
<1> USE StoreAssumption DEF IInv, names, left
<1>1. ASSUME NEW w \in Writers, NEW s \in Raw, OpenTemp(w, s)
      PROVE  data'[link[r]] = data[link[r]] /\ link'[r] = link[r]
  BY <1>1 DEF OpenTemp, Free, TypeOK
<1>2. ASSUME NEW w \in Writers, Write(w)
      PROVE  data'[link[r]] = data[link[r]] /\ link'[r] = link[r]
  BY <1>2 DEF Write, Unshared, TypeOK
<1>3. ASSUME NEW w \in Writers, LinkTarget(w)
      PROVE  data'[link[r]] = data[link[r]] /\ link'[r] = link[r]
  BY <1>3 DEF LinkTarget, TypeOK
<1>4. CASE Outage
  BY <1>4 DEF Outage, Published, TypeOK
<1>5. CASE UNCHANGED <<link, data>>
  BY <1>5
<1> QED
  BY <1>1, <1>2, <1>3, <1>4, <1>5
     DEF Next, Proceed, OpenFails, Fsync, CompareExisting, CallFails, UnlinkTemp,
         UnlinkFails, Kill, FlushDirectory, files, vars

(* Once visible, an object is never altered or replaced. *)
THEOREM ObjectsAreImmutable == Spec => NeverReplaced
<1>1. IInv /\ [Next]_vars => [ObjectStays]_vars
  BY StepKeepsObjects
<1> QED BY <1>1, Invariance, PTL DEF Spec, NeverReplaced, ObjectStays
-----------------------------------------------------------------------------
(* The refinement: linking a target publishes, returning acknowledges. *)
LEMMA StepRefines == IInv /\ IInv' /\ [Next]_vars => [Abstract!Next]_(Abstract!vars)
<1> SUFFICES ASSUME IInv, IInv', [Next]_vars
             PROVE  [Abstract!Next]_(Abstract!vars)
  OBVIOUS
<1> DEFINE objects == {r \in Raw : Stored(r)}
<1> USE StoreAssumption DEF IInv, names, left
<1>1. ASSUME NEW w \in Writers, NEW r \in Raw, OpenTemp(w, r)
      PROVE  UNCHANGED <<objects, acked>>
  BY <1>1 DEF OpenTemp, Free, TypeOK, Stored
<1>2. ASSUME NEW w \in Writers, Write(w)
      PROVE  UNCHANGED <<objects, acked>>
  BY <1>2 DEF Write, Unshared, TypeOK, Stored
<1>3. ASSUME NEW w \in Writers, LinkTarget(w)
      PROVE  Abstract!Next \/ UNCHANGED <<objects, acked>>
  <2>1. CASE link[raw[w]] = NoFile
    <3>1. raw[w] \in Raw \ objects
      BY <1>3, <2>1 DEF LinkTarget, OwnTemp, Stored
    <3>2. objects' = objects \cup {raw[w]}
      BY <1>3, <2>1, <3>1 DEF LinkTarget, TypeOK, Prepared, Stored, Whole
    <3> QED BY <1>3, <3>1, <3>2 DEF LinkTarget, Abstract!Next, Abstract!Publish
  <2>2. CASE link[raw[w]] # NoFile
    BY <1>3, <2>2 DEF LinkTarget, Stored
  <2> QED BY <2>1, <2>2
<1>4. ASSUME NEW w \in Writers, UnlinkTemp(w)
      PROVE  Abstract!Next \/ UNCHANGED <<objects, acked>>
  BY <1>4 DEF UnlinkTemp, OwnTemp, Prepared, Stored, Abstract!Next, Abstract!Acknowledge
<1>5. CASE Outage
  <2>1. PICK lost \in SUBSET dirty :
          /\ link' = [r \in Raw |-> IF r \in lost THEN NoFile ELSE link[r]]
          /\ acked' = acked \ lost
    BY <1>5 DEF Outage
  <2>2. objects' \subseteq objects
    BY <1>5, <2>1 DEF Outage, TypeOK, Published, Stored
  <2>3. acked' = acked \cap objects'
    BY <1>5, <2>1 DEF TypeOK, AckedStored, Stored
  <2> QED BY <2>2, <2>3 DEF Abstract!Next, Abstract!Outage
<1>6. CASE UNCHANGED <<link, data, acked>>
  BY <1>6 DEF Stored, Abstract!vars
<1> QED
  BY <1>1, <1>2, <1>3, <1>4, <1>5, <1>6
     DEF Next, Proceed, OpenFails, Fsync, CompareExisting, CallFails, UnlinkFails,
         Kill, FlushDirectory, files, vars, Abstract!vars

(* storage.put_bytes, kills and power failures included, implements the store
   its callers rely on. *)
THEOREM Refinement == Spec => ImplementsImmutableStore
<1>1. Init => Abstract!Init
  BY DEF Init, Abstract!Init, Stored
<1> QED
  BY <1>1, StepRefines, Invariance, PTL DEF Spec, ImplementsImmutableStore, Abstract!Spec
=============================================================================
