------------------------ MODULE EvidenceImportProofs ------------------------
(***************************************************************************)
(* Proofs about EvidenceImport for any processes, exports and requests.    *)
(***************************************************************************)
EXTENDS EvidenceImport, TLAPS

(* What has been stored at some time, and what a process in the middle of a *)
(* command has established so far.                                          *)
Ever == objects \cup lost

Stage(i) ==
    /\ pc[i] \in {"idle", "hash", "read"} => next[i] = 0
    /\ pc[i] # "idle" => request[i] \in Requests /\ "store" \notin request[i].inside
    /\ pc[i] \notin {"idle", "hash"} => seen[i] \in Versions /\ "adapter" \notin request[i].inside
    /\ pc[i] = "put" =>
          /\ Fits(Export(i), seen[i])
          /\ next[i] <= Len(Rows[Export(i)])
          /\ \A m \in 0 .. Len(Rows[Export(i)]) : m < next[i] => Item(Export(i), m) \in Ever
    /\ pc[i] \in {"report", "compare", "create", "fill"} => Items(Export(i)) \subseteq Ever
    /\ pc[i] \in {"compare", "create", "fill"} => "output" \notin request[i].inside

IInv == /\ TypeOK
        /\ WholeExportsOnly
        /\ RecordsHaveSources
        /\ ReportsAreTrue
        /\ BundleLeftAlone
        /\ \A i \in Importers : Stage(i)

LEMMA RowsLen ==
  ASSUME NEW e \in Exports, Rows[e] # Garbled
  PROVE  /\ Rows[e] \in Seq(Row)
         /\ Len(Rows[e]) \in Nat
         /\ \A n \in 1 .. Len(Rows[e]) : Rows[e][n] \in Row
<1>1. Rows[e] \in Seq(Row)
  BY ImportAssumption
<1> QED BY <1>1

LEMMA ItemObject ==
  ASSUME NEW e \in Exports, Rows[e] # Garbled, NEW n \in 0 .. Len(Rows[e])
  PROVE  Item(e, n) \in Object /\ Item(e, n).from = e
<1>1. CASE n = 0
  BY <1>1 DEF Item, Source, Object
<1>2. CASE n # 0
  <2>1. Rows[e][n] \in Row
    BY <1>2, RowsLen
  <2> QED BY <1>2, <2>1 DEF Item, Object
<1> QED BY <1>1, <1>2

(* A process that takes no part in a step keeps what it has established. *)
LEMMA StageKept ==
  ASSUME NEW i \in Importers, Stage(i), Ever \subseteq Ever',
         pc'[i] = pc[i], request'[i] = request[i], seen'[i] = seen[i], next'[i] = next[i]
  PROVE  Stage(i)'
BY DEF Stage, Export, Items, Item, Source, Fits, Matches

(* A process that has ended has established nothing. *)
LEMMA StageIdle ==
  ASSUME NEW i \in Importers, pc'[i] = "idle", next'[i] = 0
  PROVE  Stage(i)'
BY DEF Stage

(* What was reported stays true when the store only grows or loses. *)
LEMMA ReportsKept ==
  ASSUME ReportsAreTrue, Ever \subseteq Ever', file' \in {file, NoFile, Torn},
         reported' = reported
  PROVE  ReportsAreTrue'
<1>1. file' \in Exports => file' = file
  BY ImportAssumption
<1> QED BY <1>1 DEF ReportsAreTrue, Ever, Items, Item, Source

(* The end of a command, for whatever reason. *)
LEMMA ExitKeeps ==
  ASSUME IInv, NEW i \in Importers, Exit(i),
         UNCHANGED <<bundle, store, inBundle>>,
         file' \in Exports \cup {NoFile, Torn, Foreign}, reported' \subseteq Exports,
         ReportsAreTrue'
  PROVE  IInv'
<1>1. TypeOK'
  BY DEF IInv, TypeOK, Exit, store
<1>2. WholeExportsOnly' /\ RecordsHaveSources' /\ BundleLeftAlone'
  BY DEF IInv, WholeExportsOnly, RecordsHaveSources, BundleLeftAlone, store, Source, Fits, Matches
<1>3. Ever \subseteq Ever'
  BY DEF Ever, store
<1>4. ASSUME NEW j \in Importers PROVE Stage(j)'
  <2>1. CASE j = i
    BY <2>1, StageIdle DEF IInv, TypeOK, Exit
  <2>2. CASE j # i
    BY <1>3, <2>2, StageKept DEF IInv, TypeOK, Exit
  <2> QED BY <2>1, <2>2
<1> QED BY <1>1, <1>2, <1>4 DEF IInv

LEMMA RefuseKeeps ==
  ASSUME IInv, NEW i \in Importers, Refuse(i), UNCHANGED <<bundle, store, file, inBundle>>
  PROVE  IInv'
<1>1. ReportsAreTrue'
  BY ReportsKept DEF IInv, Refuse, Ever, store
<1> QED BY <1>1, ExitKeeps DEF Refuse, IInv, TypeOK

LEMMA SucceedKeeps ==
  ASSUME IInv, NEW i \in Importers, Succeed(i), UNCHANGED <<bundle, store, inBundle>>,
         file' \in {file, Export(i)},
         pc[i] \in {"report", "compare", "fill"}
  PROVE  IInv'
<1>1. Items(Export(i)) \subseteq Ever /\ Export(i) \in Exports
  BY ImportAssumption DEF IInv, Stage, TypeOK, Export, Request
<1>2. ReportsAreTrue'
  BY <1>1 DEF IInv, ReportsAreTrue, Succeed, Ever, store, Items, Item, Source
<1> QED BY <1>1, <1>2, ExitKeeps DEF Succeed, IInv, TypeOK

LEMMA StartKeeps ==
  ASSUME IInv, NEW i \in Importers, NEW r \in Requests, Start(i, r)
  PROVE  IInv'
<1>1. TypeOK'
  BY DEF IInv, TypeOK, Start, store
<1>2. WholeExportsOnly' /\ RecordsHaveSources' /\ BundleLeftAlone'
  BY DEF IInv, WholeExportsOnly, RecordsHaveSources, BundleLeftAlone, Start, store, Source, Fits, Matches
<1>3. Ever \subseteq Ever'
  BY DEF Ever, Start, store
<1>4. ReportsAreTrue'
  BY <1>3, ReportsKept DEF IInv, Start
<1>5. ASSUME NEW j \in Importers PROVE Stage(j)'
  <2>1. CASE j = i
    BY <2>1 DEF IInv, TypeOK, Start, Stage
  <2>2. CASE j # i
    BY <1>3, <2>2, StageKept DEF IInv, TypeOK, Start
  <2> QED BY <2>1, <2>2
<1> QED BY <1>1, <1>2, <1>4, <1>5 DEF IInv

LEMMA HashGoes ==
  ASSUME IInv, NEW i \in Importers, Hash(i), Goto(i, "read"), "adapter" \notin request[i].inside,
         seen' = [seen EXCEPT ![i] = bundle], UNCHANGED next
  PROVE  IInv'
<1>1. TypeOK'
  BY DEF IInv, TypeOK, Hash, Goto, store
<1>2. WholeExportsOnly' /\ RecordsHaveSources' /\ BundleLeftAlone'
  BY DEF IInv, WholeExportsOnly, RecordsHaveSources, BundleLeftAlone, Hash, store, Source, Fits, Matches
<1>3. Ever \subseteq Ever'
  BY DEF Ever, Hash, store
<1>4. ReportsAreTrue'
  BY <1>3, ReportsKept DEF IInv, Hash, Goto
<1>5. ASSUME NEW j \in Importers PROVE Stage(j)'
  <2>1. CASE j = i
    BY <2>1 DEF IInv, TypeOK, Hash, Goto, Stage
  <2>2. CASE j # i
    BY <1>3, <2>2, StageKept DEF IInv, TypeOK, Goto
  <2> QED BY <2>1, <2>2
<1> QED BY <1>1, <1>2, <1>4, <1>5 DEF IInv

LEMMA HashKeeps ==
  ASSUME IInv, NEW i \in Importers, Hash(i)
  PROVE  IInv'
<1>1. CASE "adapter" \in request[i].inside
  BY <1>1, RefuseKeeps DEF Hash
<1>2. CASE "adapter" \notin request[i].inside
  BY <1>2, HashGoes DEF Hash
<1> QED BY <1>1, <1>2

LEMMA AcceptKeeps ==
  ASSUME IInv, NEW i \in Importers, Accept(i)
  PROVE  IInv'
<1>1. Export(i)' = Export(i) /\ inBundle' = inBundle
  BY DEF IInv, Stage, Accept, Goto, Uses, Export
<1>2. next[i] = 0 /\ request[i] \in Requests
  BY DEF IInv, Stage, Accept
<1>3. Export(i) \in Exports /\ Len(Rows[Export(i)]) \in Nat
  BY <1>2, ImportAssumption, RowsLen DEF Export, Request, Accept, Fits
<1>4. TypeOK'
  BY <1>1, <1>2, <1>3 DEF IInv, TypeOK, Accept, Goto, store, Export
<1>5. WholeExportsOnly' /\ RecordsHaveSources' /\ BundleLeftAlone'
  BY <1>1 DEF IInv, WholeExportsOnly, RecordsHaveSources, BundleLeftAlone, Accept, store, Source, Fits, Matches
<1>6. Ever \subseteq Ever'
  BY DEF Ever, Accept, store
<1>7. ReportsAreTrue'
  BY <1>6, ReportsKept DEF IInv, Accept, Goto
<1>8. ASSUME NEW j \in Importers PROVE Stage(j)'
  <2>1. CASE j = i
    <3>1. Fits(Export(i), seen[i])'
      BY <1>1 DEF Accept, Fits, Matches
    <3>2. next'[i] = 0 /\ pc'[i] = "put" /\ Len(Rows[Export(i)']) \in Nat
      BY <1>1, <1>2, <1>3 DEF IInv, TypeOK, Accept, Goto
    <3>3. request'[i] = request[i] /\ seen'[i] = seen[i]
      BY DEF Accept, Goto
    <3>4. "store" \notin request[i].inside /\ "adapter" \notin request[i].inside /\ seen[i] \in Versions
      BY DEF IInv, Stage, Accept
    <3> QED BY <2>1, <1>2, <3>1, <3>2, <3>3, <3>4 DEF Stage
  <2>2. CASE j # i
    BY <1>6, <2>2, StageKept DEF IInv, TypeOK, Accept, Goto
  <2> QED BY <2>1, <2>2
<1> QED BY <1>4, <1>5, <1>7, <1>8 DEF IInv

LEMMA RejectKeeps ==
  ASSUME IInv, NEW i \in Importers, Reject(i)
  PROVE  IInv'
<1>1. inBundle' = inBundle
  BY DEF IInv, Stage, Reject, Uses
<1> QED BY <1>1, RefuseKeeps DEF Reject

LEMMA PublishKeeps ==
  ASSUME IInv, NEW i \in Importers, Publish(i)
  PROVE  IInv'
<1> DEFINE e == Export(i)
<1>1. /\ request[i] \in Requests /\ e \in Exports
      /\ Fits(e, seen[i]) /\ seen[i] \in Versions
      /\ next[i] <= Len(Rows[e])
      /\ \A m \in 0 .. Len(Rows[e]) : m < next[i] => Item(e, m) \in Ever
      /\ inBundle' = inBundle
  BY ImportAssumption DEF IInv, Stage, Publish, Request, Export, Uses
<1>2. Rows[e] # Garbled /\ Len(Rows[e]) \in Nat /\ next[i] \in 0 .. Len(Rows[e])
  BY <1>1, RowsLen DEF Fits, IInv, TypeOK
<1>3. PICK o : o = Item(e, next[i]) /\ o \in Object /\ o.from = e
  BY <1>1, <1>2, ItemObject
<1>4. objects' = objects \cup {o} /\ acked' = acked /\ lost' = lost
  BY <1>3 DEF Publish, Store!Publish
<1>5. TypeOK'
  BY <1>1, <1>3, <1>4 DEF IInv, TypeOK, Publish, local
<1>6. WholeExportsOnly'
  BY <1>1, <1>3, <1>4 DEF IInv, WholeExportsOnly, Fits, Matches
<1>7. Source(e) \in (objects \cup lost)'
  <2>1. CASE next[i] = 0
    BY <2>1, <1>3, <1>4 DEF Item
  <2>2. CASE next[i] # 0
    <3>1. 0 \in 0 .. Len(Rows[e]) /\ 0 < next[i]
      BY <2>2, <1>2
    <3>2. Item(e, 0) \in Ever
      BY <3>1, <1>1
    <3>3. Item(e, 0) = Source(e)
      BY DEF Item
    <3> QED BY <3>2, <3>3, <1>4 DEF Ever
  <2> QED BY <2>1, <2>2
<1>8. RecordsHaveSources'
  BY <1>3, <1>4, <1>7 DEF IInv, RecordsHaveSources, Source
<1>9. Ever \subseteq Ever'
  BY <1>4 DEF Ever
<1>10. ReportsAreTrue'
  BY <1>9, ReportsKept DEF IInv, Publish
<1>11. ASSUME NEW j \in Importers PROVE Stage(j)'
  BY <1>9, StageKept DEF IInv, Publish, local
<1>12. BundleLeftAlone'
  BY <1>1 DEF IInv, BundleLeftAlone
<1> QED BY <1>5, <1>6, <1>8, <1>10, <1>11, <1>12 DEF IInv

LEMMA AcknowledgeKeeps ==
  ASSUME IInv, NEW i \in Importers, Acknowledge(i)
  PROVE  IInv'
<1> DEFINE e == Export(i)
           n == next[i]
<1>1. /\ request[i] \in Requests /\ e \in Exports
      /\ Fits(e, seen[i]) /\ seen[i] \in Versions
      /\ "store" \notin request[i].inside /\ "adapter" \notin request[i].inside
      /\ n <= Len(Rows[e])
      /\ \A m \in 0 .. Len(Rows[e]) : m < n => Item(e, m) \in Ever
  BY ImportAssumption DEF IInv, Stage, Acknowledge, Request, Export
<1>2. Rows[e] # Garbled /\ Len(Rows[e]) \in Nat /\ n \in 0 .. Len(Rows[e])
  BY <1>1, RowsLen DEF Fits, IInv, TypeOK
<1>3. Item(e, n) \in objects /\ objects' = objects /\ acked' = acked \cup {Item(e, n)}
  BY DEF Acknowledge, Store!Acknowledge
<1>4. /\ request' = request /\ reported' = reported /\ seen' = seen /\ lost' = lost
      /\ file' = file /\ inBundle' = inBundle /\ bundle' = bundle
      /\ next' = [next EXCEPT ![i] = n + 1]
      /\ pc' = [pc EXCEPT ![i] = IF n = Len(Rows[e]) THEN "report" ELSE "put"]
  BY DEF Acknowledge, Goto
<1>5. TypeOK'
  <2>1. next' \in [Importers -> Nat]
    BY <1>2, <1>4 DEF IInv, TypeOK
  <2>2. ASSUME NEW j \in Importers, pc'[j] = "put"
        PROVE  next'[j] <= Len(Rows[request'[j].export])
    <3>1. CASE j = i
      BY <3>1, <2>2, <1>2, <1>4 DEF IInv, TypeOK, Export
    <3>2. CASE j # i
      BY <3>2, <2>2, <1>4 DEF IInv, TypeOK
    <3> QED BY <3>1, <3>2
  <2> QED BY <2>1, <2>2, <1>3, <1>4 DEF IInv, TypeOK
<1>6. WholeExportsOnly' /\ RecordsHaveSources' /\ BundleLeftAlone'
  BY <1>3, <1>4 DEF IInv, WholeExportsOnly, RecordsHaveSources, BundleLeftAlone, Source, Fits, Matches
<1>7. Ever \subseteq Ever'
  BY <1>3, <1>4 DEF Ever
<1>8. ReportsAreTrue'
  BY <1>4, <1>7, ReportsKept DEF IInv
<1>9. ASSUME NEW j \in Importers PROVE Stage(j)'
  <2>1. CASE j # i
    BY <2>1, <1>4, <1>7, StageKept DEF IInv, TypeOK
  <2>2. CASE j = i
    <3>1. \A m \in 0 .. Len(Rows[e]) : m < n + 1 => Item(e, m) \in Ever'
      BY <1>1, <1>2, <1>3, <1>7 DEF Ever
    <3>2. next'[i] = n + 1 /\ request'[i] = request[i] /\ seen'[i] = seen[i]
      BY <1>4 DEF IInv, TypeOK
    <3>3. Export(i)' = e
      BY <3>2 DEF Export
    <3>4. CASE n = Len(Rows[e])
      <4>1. pc'[i] = "report"
        BY <3>4, <1>4 DEF IInv, TypeOK
      <4>2. \A m \in 0 .. Len(Rows[e]) : Item(e, m) \in Ever'
        BY <3>1, <3>4, <1>2
      <4>3. Items(e) \subseteq Ever'
        BY <4>2 DEF Items
      <4>4. Items(Export(i))' \subseteq Ever'
        BY <4>3, <3>3 DEF Items, Item, Source
      <4> QED BY <2>2, <3>2, <4>1, <4>4, <1>1 DEF Stage
    <3>5. CASE n # Len(Rows[e])
      <4>1. pc'[i] = "put" /\ n + 1 <= Len(Rows[e])
        BY <3>5, <1>2, <1>4 DEF IInv, TypeOK
      <4>2. \A m \in 0 .. Len(Rows[e]) : m < n + 1 => Item(Export(i), m)' \in Ever'
        BY <3>1, <3>3 DEF Item, Source
      <4>3. Fits(Export(i), seen[i])'
        BY <3>2, <3>3, <1>1 DEF Fits, Matches
      <4>4. Len(Rows[Export(i)'] ) = Len(Rows[e])
        BY <3>3
      <4> QED BY <2>2, <3>2, <3>3, <4>1, <4>2, <4>3, <4>4, <1>1 DEF Stage
    <3> QED BY <3>4, <3>5
  <2> QED BY <2>1, <2>2
<1> QED BY <1>5, <1>6, <1>8, <1>9 DEF IInv

(* LookForOutput and the successful CreateOutput: on to the next step. *)
LEMMA GotoKeeps ==
  ASSUME IInv, NEW i \in Importers, NEW l \in {"compare", "create", "fill"}, Goto(i, l),
         pc[i] \in {"report", "create"}, "output" \notin request[i].inside,
         UNCHANGED <<bundle, store, inBundle, seen, next>>, file' \in {file, Torn}
  PROVE  IInv'
<1>1. TypeOK'
  BY DEF IInv, TypeOK, Goto, store
<1>2. WholeExportsOnly' /\ RecordsHaveSources' /\ BundleLeftAlone'
  BY DEF IInv, WholeExportsOnly, RecordsHaveSources, BundleLeftAlone, store, Source, Fits, Matches
<1>3. Ever \subseteq Ever'
  BY DEF Ever, store
<1>4. ReportsAreTrue'
  BY <1>3, ReportsKept DEF IInv, Goto
<1>5. ASSUME NEW j \in Importers PROVE Stage(j)'
  <2>1. CASE j = i
    <3>1. pc'[i] = l /\ request'[i] = request[i] /\ seen'[i] = seen[i]
      BY DEF IInv, TypeOK, Goto
    <3>2. /\ request[i] \in Requests /\ "store" \notin request[i].inside
          /\ seen[i] \in Versions /\ "adapter" \notin request[i].inside
          /\ Items(Export(i)) \subseteq Ever
      BY DEF IInv, Stage
    <3>3. Items(Export(i))' \subseteq Ever'
      BY <1>3, <3>1, <3>2 DEF Items, Item, Source, Export
    <3> QED BY <2>1, <3>1, <3>2, <3>3 DEF Stage
  <2>2. CASE j # i
    BY <1>3, <2>2, StageKept DEF IInv, TypeOK, Goto
  <2> QED BY <2>1, <2>2
<1> QED BY <1>1, <1>2, <1>4, <1>5 DEF IInv

LEMMA CreateOutputKeeps ==
  ASSUME IInv, NEW i \in Importers, CreateOutput(i)
  PROVE  IInv'
<1>1. "output" \notin request[i].inside
  BY DEF IInv, Stage, CreateOutput
<1>2. CASE file = NoFile
  BY <1>1, <1>2, GotoKeeps DEF CreateOutput, Uses
<1>3. CASE file # NoFile
  BY <1>3, RefuseKeeps DEF CreateOutput
<1> QED BY <1>2, <1>3

LEMMA OutageKeeps ==
  ASSUME IInv, Outage
  PROVE  IInv'
<1>1. /\ objects' \subseteq objects /\ acked' = acked \cap objects'
      /\ lost' = lost \cup (objects \ objects')
  BY DEF Outage, Store!Outage
<1>2. Ever \subseteq Ever' /\ objects' \cup lost' = objects \cup lost
  BY <1>1 DEF Ever
<1>3. file' \in {file, NoFile, Torn}
  BY DEF Outage
<1>4. TypeOK'
  BY <1>1, <1>3 DEF IInv, TypeOK, Outage
<1>5. WholeExportsOnly' /\ RecordsHaveSources' /\ BundleLeftAlone'
  BY <1>1, <1>2 DEF IInv, WholeExportsOnly, RecordsHaveSources, BundleLeftAlone, Outage, Source, Fits, Matches
<1>6. ReportsAreTrue'
  BY <1>2, <1>3, ReportsKept DEF IInv, Outage
<1>7. \A i \in Importers : Stage(i)'
  BY StageIdle DEF Outage
<1> QED BY <1>4, <1>5, <1>6, <1>7 DEF IInv

LEMMA EditKeeps ==
  ASSUME IInv, NEW v \in Versions, Edit(v)
  PROVE  IInv'
<1>1. Ever \subseteq Ever'
  BY DEF Ever, Edit, store
<1>2. TypeOK' /\ WholeExportsOnly' /\ RecordsHaveSources' /\ BundleLeftAlone'
  BY DEF IInv, TypeOK, WholeExportsOnly, RecordsHaveSources, BundleLeftAlone, Edit, store, local, Source, Fits, Matches
<1>3. ReportsAreTrue'
  BY <1>1, ReportsKept DEF IInv, Edit
<1>4. \A j \in Importers : Stage(j)'
  BY <1>1, StageKept DEF IInv, Edit, local
<1> QED BY <1>2, <1>3, <1>4 DEF IInv

LEMMA Inductive ==
  ASSUME IInv, [Next]_vars
  PROVE  IInv'
<1>1. ASSUME NEW i \in Importers, NEW r \in Requests, Start(i, r) PROVE IInv'
  BY <1>1, StartKeeps
<1>2. ASSUME NEW i \in Importers, Proceed(i) PROVE IInv'
  <2>1. CASE Hash(i)
    BY <2>1, HashKeeps
  <2>2. CASE Accept(i)
    BY <2>2, AcceptKeeps
  <2>3. CASE Reject(i)
    BY <2>3, RejectKeeps
  <2>4. CASE Publish(i)
    BY <2>4, PublishKeeps
  <2>5. CASE Acknowledge(i)
    BY <2>5, AcknowledgeKeeps
  <2>6. CASE PrintReport(i)
    BY <2>6, SucceedKeeps DEF PrintReport
  <2>7. CASE RefuseOutput(i)
    BY <2>7, RefuseKeeps DEF RefuseOutput
  <2>8. CASE LookForOutput(i)
    BY <2>8, GotoKeeps DEF LookForOutput
  <2>9. CASE CompareOutput(i)
    BY <2>9, SucceedKeeps, RefuseKeeps DEF CompareOutput
  <2>10. CASE CreateOutput(i)
    BY <2>10, CreateOutputKeeps
  <2>11. CASE FillOutput(i)
    BY <2>11, SucceedKeeps DEF FillOutput
  <2> QED BY <1>2, <2>1, <2>2, <2>3, <2>4, <2>5, <2>6, <2>7, <2>8, <2>9, <2>10, <2>11 DEF Proceed
<1>3. ASSUME NEW i \in Importers, Stops(i) PROVE IInv'
  BY <1>3, RefuseKeeps DEF Stops
<1>4. ASSUME NEW v \in Versions, Edit(v) PROVE IInv'
  BY <1>4, EditKeeps
<1>5. CASE Outage
  BY <1>5, OutageKeeps
<1>6. CASE UNCHANGED vars
  <2>1. Ever \subseteq Ever'
    BY <1>6 DEF Ever, vars, store
  <2>2. TypeOK' /\ WholeExportsOnly' /\ RecordsHaveSources' /\ BundleLeftAlone'
    BY <1>6 DEF IInv, TypeOK, WholeExportsOnly, RecordsHaveSources, BundleLeftAlone, vars, store, local, Source, Fits, Matches
  <2>3. ReportsAreTrue'
    BY <1>6, <2>1, ReportsKept DEF IInv, vars
  <2>4. \A j \in Importers : Stage(j)'
    BY <1>6, <2>1, StageKept DEF IInv, vars, local
  <2> QED BY <2>2, <2>3, <2>4 DEF IInv
<1> QED BY <1>1, <1>2, <1>3, <1>4, <1>5, <1>6 DEF Next

(* In every reachable state the invariant above holds. *)
THEOREM Invariance == Spec => []IInv
<1>1. Init => IInv
  <2> SUFFICES ASSUME Init PROVE IInv
    OBVIOUS
  <2>1. file \notin Exports
    BY ImportAssumption DEF Init
  <2>2. TypeOK
    BY DEF Init, TypeOK
  <2>3. WholeExportsOnly /\ RecordsHaveSources /\ ReportsAreTrue /\ BundleLeftAlone
    BY <2>1 DEF Init, WholeExportsOnly, RecordsHaveSources, ReportsAreTrue, BundleLeftAlone
  <2>4. \A i \in Importers : Stage(i)
    BY DEF Init, Stage
  <2> QED BY <2>2, <2>3, <2>4 DEF IInv
<1>2. IInv /\ [Next]_vars => IInv'
  BY Inductive
<1> QED BY <1>1, <1>2, PTL DEF Spec

(* An export that is refused leaves nothing behind in the store             *)
(* (product_commands.py:87-92).                                             *)
THEOREM RefusedExportsLeaveNothing == Spec => []WholeExportsOnly
<1>1. IInv => WholeExportsOnly
  BY DEF IInv
<1> QED BY <1>1, Invariance, PTL

(* Except for what power failures take away, the store never holds a record *)
(* without the export it was made from (product_commands.py:91-92).         *)
THEOREM SourcesComeFirst == Spec => []RecordsHaveSources
<1>1. IInv => RecordsHaveSources
  BY DEF IInv
<1> QED BY <1>1, Invariance, PTL

(* Exit status 4 and a report in the output file are only given for imports *)
(* that are complete (product_commands.py:91-94 and 147-165).               *)
THEOREM ReportsHold == Spec => []ReportsAreTrue
<1>1. IInv => ReportsAreTrue
  BY DEF IInv
<1> QED BY <1>1, Invariance, PTL

(* No process ever writes to, or runs an adapter from, the bundle           *)
(* (product_commands.py:72-76 and 154-160).                                 *)
THEOREM BundleUntouched == Spec => []BundleLeftAlone
<1>1. IInv => BundleLeftAlone
  BY DEF IInv
<1> QED BY <1>1, Invariance, PTL

(* The state always has its type, and a record that is put next is one of   *)
(* its export (product_commands.py:91-92).                                  *)
THEOREM TypeCorrect == Spec => []TypeOK
<1>1. IInv => TypeOK
  BY DEF IInv
<1> QED BY <1>1, Invariance, PTL

(* A process that is writing the report has created the file itself, and no *)
(* other process is writing.                                                *)
OneWriter == \A i \in Importers : pc[i] = "fill" =>
                /\ file = Torn
                /\ \A j \in Importers : pc[j] = "fill" => j = i

(* What one step of the command does to the file and to who writes to it.   *)
Kept == file = NoFile \/ file' = file \/ Outage
        \/ \E i \in Importers : pc[i] = "fill" /\ file = Torn /\ file' = Export(i)

(* A step after which the same file is there and nobody has begun to write. *)
LEMMA NoNewWriter ==
  ASSUME OneWriter, file' = file, \A j \in Importers : pc'[j] = "fill" => pc[j] = "fill"
  PROVE  OneWriter'
BY DEF OneWriter

LEMMA MovesOn ==
  ASSUME TypeOK, OneWriter, NEW i \in Importers, NEW l, l # "fill", file' = file,
         pc' = [pc EXCEPT ![i] = l]
  PROVE  OneWriter'
<1>1. \A j \in Importers : pc'[j] = "fill" => pc[j] = "fill"
  BY DEF TypeOK
<1> QED BY <1>1, NoNewWriter

LEMMA ProceedWrites ==
  ASSUME TypeOK, OneWriter, NEW i \in Importers, Proceed(i)
  PROVE  OneWriter' /\ Kept
<1>1. CASE Hash(i)
  <2>1. file' = file /\ (pc' = [pc EXCEPT ![i] = "read"] \/ pc' = [pc EXCEPT ![i] = "idle"])
    BY <1>1 DEF Hash, Goto, Refuse, Exit
  <2> QED BY <2>1, MovesOn DEF Kept
<1>2. CASE Accept(i)
  BY <1>2, MovesOn DEF Accept, Goto, Kept
<1>3. CASE Reject(i)
  BY <1>3, MovesOn DEF Reject, Refuse, Exit, Kept
<1>4. CASE Publish(i)
  BY <1>4, NoNewWriter DEF Publish, Kept
<1>5. CASE Acknowledge(i)
  <2>1. file' = file /\ (pc' = [pc EXCEPT ![i] = "report"] \/ pc' = [pc EXCEPT ![i] = "put"])
    BY <1>5 DEF Acknowledge, Goto
  <2> QED BY <2>1, MovesOn DEF Kept
<1>6. CASE PrintReport(i)
  BY <1>6, MovesOn DEF PrintReport, Succeed, Exit, Kept
<1>7. CASE RefuseOutput(i)
  BY <1>7, MovesOn DEF RefuseOutput, Refuse, Exit, Kept
<1>8. CASE LookForOutput(i)
  <2>1. file' = file /\ (pc' = [pc EXCEPT ![i] = "create"] \/ pc' = [pc EXCEPT ![i] = "compare"])
    BY <1>8 DEF LookForOutput, Goto
  <2> QED BY <2>1, MovesOn DEF Kept
<1>9. CASE CompareOutput(i)
  <2>1. file' = file /\ pc' = [pc EXCEPT ![i] = "idle"]
    BY <1>9 DEF CompareOutput, Succeed, Refuse, Exit
  <2> QED BY <2>1, MovesOn DEF Kept
<1>10. CASE CreateOutput(i)
  <2>1. CASE file = NoFile
    <3>1. \A j \in Importers : pc[j] # "fill"
      BY <2>1, ImportAssumption DEF OneWriter
    <3>2. file' = Torn /\ pc' = [pc EXCEPT ![i] = "fill"]
      BY <1>10, <2>1 DEF CreateOutput, Goto
    <3>3. \A j \in Importers : pc'[j] = "fill" => j = i
      BY <3>1, <3>2 DEF TypeOK
    <3> QED BY <2>1, <3>2, <3>3 DEF OneWriter, Kept
  <2>2. CASE file # NoFile
    BY <1>10, <2>2, MovesOn DEF CreateOutput, Refuse, Exit, Kept
  <2> QED BY <2>1, <2>2
<1>11. CASE FillOutput(i)
  <2>1. pc[i] = "fill" /\ file' = Export(i) /\ pc' = [pc EXCEPT ![i] = "idle"]
    BY <1>11 DEF FillOutput, Succeed, Exit
  <2>2. file = Torn /\ \A j \in Importers : pc[j] = "fill" => j = i
    BY <2>1 DEF OneWriter
  <2>3. \A j \in Importers : pc'[j] # "fill"
    BY <2>1, <2>2 DEF TypeOK
  <2> QED BY <2>1, <2>2, <2>3 DEF OneWriter, Kept
<1> QED BY <1>1, <1>2, <1>3, <1>4, <1>5, <1>6, <1>7, <1>8, <1>9, <1>10, <1>11 DEF Proceed

LEMMA NextWrites ==
  ASSUME TypeOK, OneWriter, [Next]_vars
  PROVE  OneWriter' /\ (Kept \/ UNCHANGED vars)
<1>1. ASSUME NEW i \in Importers, NEW r \in Requests, Start(i, r) PROVE OneWriter' /\ Kept
  BY <1>1, MovesOn DEF Start, Kept
<1>2. ASSUME NEW i \in Importers, Proceed(i) PROVE OneWriter' /\ Kept
  BY <1>2, ProceedWrites
<1>3. ASSUME NEW i \in Importers, Stops(i) PROVE OneWriter' /\ Kept
  BY <1>3, MovesOn DEF Stops, Refuse, Exit, Kept
<1>4. ASSUME NEW v \in Versions, Edit(v) PROVE OneWriter' /\ Kept
  BY <1>4, NoNewWriter DEF Edit, Kept
<1>5. CASE Outage
  BY <1>5 DEF Outage, OneWriter, Kept
<1>6. CASE UNCHANGED vars
  BY <1>6, NoNewWriter DEF vars
<1> QED BY <1>1, <1>2, <1>3, <1>4, <1>5, <1>6 DEF Next

(* No importer replaces an output file, and none writes to a file that      *)
(* another one has created (product_commands.py:147-173).                   *)
THEOREM OutputIsKept == Spec => OutputKept
<1>1. Init => OneWriter
  BY DEF Init, OneWriter
<1>2. TypeOK /\ OneWriter /\ [Next]_vars => OneWriter'
  BY NextWrites
<1>3. TypeOK /\ OneWriter /\ [Next]_vars =>
      [file = NoFile \/ file' = file \/ Outage
       \/ \E i \in Importers : pc[i] = "fill" /\ file = Torn /\ file' = Export(i)]_vars
  BY NextWrites DEF Kept
<1> QED BY <1>1, <1>2, <1>3, TypeCorrect, PTL DEF Spec, OutputKept
-----------------------------------------------------------------------------
(* Imports, edits of the bundle and power failures do nothing to the store  *)
(* that ImmutableStore does not promise: each step of an import is a        *)
(* publication, an acknowledgement of what is there, or nothing to it       *)
(* (product_commands.py:87-94).                                             *)
LEMMA StoreStep ==
  ASSUME IInv, [Next]_vars, ~UNCHANGED <<objects, acked>>
  PROVE  Store!Next
<1>1. ASSUME NEW i \in Importers, Publish(i) \/ Acknowledge(i) PROVE Store!Next
  <2>1. pc[i] = "put" /\ (Store!Publish(Item(Export(i), next[i])) \/ Store!Acknowledge(Item(Export(i), next[i])))
    BY <1>1 DEF Publish, Acknowledge
  <2>2. Stage(i) /\ next \in [Importers -> Nat]
    BY DEF IInv, TypeOK
  <2>3. Fits(Export(i), seen[i]) /\ next[i] <= Len(Rows[Export(i)]) /\ request[i] \in Request
    BY <2>1, <2>2, ImportAssumption DEF Stage
  <2>4. Rows[Export(i)] # Garbled /\ Export(i) \in Exports
    BY <2>3 DEF Fits, Export, Request
  <2>5. next[i] \in 0 .. Len(Rows[Export(i)])
    BY <2>2, <2>3, <2>4, RowsLen
  <2>6. Item(Export(i), next[i]) \in Object
    BY <2>4, <2>5, ItemObject
  <2> QED BY <2>1, <2>6 DEF Store!Next
<1>2. CASE Outage
  BY <1>2 DEF Outage, Store!Next
<1>3. CASE \E i \in Importers : (\E r \in Requests : Start(i, r)) \/ Stops(i)
  BY <1>3 DEF Start, Stops, store
<1>4. ASSUME NEW i \in Importers, Proceed(i), ~(Publish(i) \/ Acknowledge(i)) PROVE FALSE
  BY <1>4 DEF Proceed, Hash, Accept, Reject, PrintReport, RefuseOutput, LookForOutput, CompareOutput,
              CreateOutput, FillOutput, store
<1>5. CASE \E v \in Versions : Edit(v)
  BY <1>5 DEF Edit, store
<1>6. CASE UNCHANGED vars
  BY <1>6 DEF vars, store
<1> QED BY <1>1, <1>2, <1>3, <1>4, <1>5, <1>6 DEF Next

(* Whatever exports come in and whoever is killed: to a reader of the store the
   import subcommand is the immutable store and nothing else (storage.py:96, which
   product_commands.py calls for an export and its records). *)
THEOREM ImportUsesStore == Spec => Store!Spec
<1>1. Init => Store!Init
  BY DEF Init, Store!Init
<1>2. IInv /\ [Next]_vars => [Store!Next]_(Store!vars)
  BY StoreStep DEF Store!vars
<1> QED BY <1>1, <1>2, Invariance, PTL DEF Spec, Store!Spec
=============================================================================
