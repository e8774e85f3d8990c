----------------------- MODULE HistoryMigrationProofs -----------------------
(***************************************************************************)
(* Proofs about LegacyLedger for any number of writers and runs, and about *)
(* HistoryMigration for any number of migrations: the ledger obeys         *)
(* LegacyLedger in both, whose inductive invariant LInv carries over.      *)
(***************************************************************************)
EXTENDS HistoryMigration, TLAPS

(* The ledger. *)

(* Runs that no overlap can be blamed for must be in the ledger, and in     *)
(* what every writer at work has read.  A writer that was never met has the *)
(* ledger to itself, which is why nothing that is kept can be overwritten.  *)
Kept      == saved \ excused
KeptRead  == /\ Kept \subseteq RunsIn(file)
             /\ \A w \in Busy : Kept \subseteq RunsIn(base[w])
Met       == \A v, w \in Busy : v # w => v \in met /\ w \in met
Flushed   == /\ file # Torn /\ disk # Torn /\ synced
             /\ \A w \in Writers : pc[w] = "replace" => fresh[w]
Numbered  == \A w \in Busy : count[w] # 0

(* Runs of a writer are built in order, and the one it is at work on is in  *)
(* no ledger yet.                                                           *)
InOrder(f) == f \in Ledger =>
    \A j, k \in DOMAIN f.runs :
       j < k /\ f.runs[j].by = f.runs[k].by => f.runs[j].nr < f.runs[k].nr
Older(f)   == \A r \in RunsIn(f) :
                /\ r.nr <= count[r.by]
                /\ r.by \in Busy => r.nr < count[r.by]
Ledgers    == {file, disk} \cup {base[w] : w \in Writers}
Built      == \A f \in Ledgers : InOrder(f) /\ Older(f)

LInv == LedgerTypeOK /\ KeptRead /\ Met /\ Flushed /\ Numbered /\ Built
-----------------------------------------------------------------------------
LEMMA Shapes ==
  /\ Empty \in Ledger
  /\ \A f \in Ledger : /\ f # NoFile /\ f # Torn
                       /\ RunsIn(f) = {f.runs[k] : k \in DOMAIN f.runs}
                       /\ f.runs \in Seq(Run)
  /\ RunsIn(NoFile) = {} /\ RunsIn(Empty) = {}
<1>1. Empty \in Ledger /\ DOMAIN Empty.runs = {}
  BY DEF Empty, Ledger
<1> QED BY <1>1, LedgerAssumption DEF RunsIn, Ledger, Empty

LEMMA ExtendedLedger ==
  ASSUME LedgerTypeOK, NEW w \in Writers, pc[w] # "idle", count[w] # 0
  PROVE  /\ ThisRun(w) \in Run
         /\ Extended(w) \in Ledger
         /\ Extended(w).skill = base[w].skill
         /\ Extended(w).runs = Append(base[w].runs, ThisRun(w))
         /\ RunsIn(Extended(w)) = RunsIn(base[w]) \cup {ThisRun(w)}
<1> DEFINE r == ThisRun(w)
           s == base[w].runs
<1>1. r \in Run
  BY LedgerAssumption DEF LedgerTypeOK, ThisRun, Run
<1>2. base[w] \in Ledger /\ s \in Seq(Run)
  BY DEF LedgerTypeOK, Ledger
<1>3. Append(s, r) \in Seq(Run)
  BY <1>1, <1>2
<1>4. /\ Extended(w) \in Ledger /\ Extended(w).skill = base[w].skill
      /\ Extended(w).runs = Append(s, r)
  BY <1>2, <1>3 DEF Extended, Ledger
<1>5. {Append(s, r)[k] : k \in DOMAIN Append(s, r)} = {s[k] : k \in DOMAIN s} \cup {r}
  <2>1. DOMAIN Append(s, r) = 1 .. Len(s) + 1 /\ DOMAIN s = 1 .. Len(s) /\ Len(s) \in Nat
    BY <1>1, <1>2
  <2>2. \A k \in 1 .. Len(s) + 1 : Append(s, r)[k] = IF k = Len(s) + 1 THEN r ELSE s[k]
    BY <1>1, <1>2
  <2>3. ASSUME NEW x \in {Append(s, r)[k] : k \in DOMAIN Append(s, r)}
        PROVE  x \in {s[k] : k \in DOMAIN s} \cup {r}
    BY <2>1, <2>2
  <2>4. ASSUME NEW x \in {s[k] : k \in DOMAIN s} \cup {r}
        PROVE  x \in {Append(s, r)[k] : k \in DOMAIN Append(s, r)}
    <3>1. CASE x = r
      <4>1. Len(s) + 1 \in DOMAIN Append(s, r) /\ Append(s, r)[Len(s) + 1] = r
        BY <2>1, <2>2
      <4> QED BY <3>1, <4>1
    <3>2. CASE x # r
      BY <3>2, <2>1, <2>2
    <3> QED BY <3>1, <3>2
  <2> QED BY <2>3, <2>4
<1> QED BY <1>1, <1>2, <1>4, <1>5, Shapes

(* The run that is added is later than every other of its writer.           *)
LEMMA ExtendedInOrder ==
  ASSUME LedgerTypeOK, Built, Numbered, NEW w \in Writers, pc[w] # "idle"
  PROVE  InOrder(Extended(w))
<1>1. w \in Busy /\ count[w] # 0
  BY DEF Busy, Numbered
<1>2. /\ Extended(w).runs = Append(base[w].runs, ThisRun(w))
      /\ ThisRun(w) \in Run
  BY <1>1, ExtendedLedger
<1>3. base[w] \in Ledger /\ base[w].runs \in Seq(Run)
  BY DEF LedgerTypeOK, Ledger
<1>4. InOrder(base[w]) /\ Older(base[w])
  BY DEF Built, Ledgers
<1>5. ASSUME NEW j \in DOMAIN base[w].runs, base[w].runs[j].by = w
      PROVE  base[w].runs[j].nr < count[w]
  BY <1>1, <1>3, <1>4, <1>5, Shapes DEF Older
<1> DEFINE s == base[w].runs
           t == Append(s, ThisRun(w))
<1>6. /\ DOMAIN t = 1 .. Len(s) + 1 /\ DOMAIN s = 1 .. Len(s) /\ Len(s) \in Nat
      /\ \A k \in 1 .. Len(s) : t[k] = s[k]
      /\ t[Len(s) + 1] = ThisRun(w)
  BY <1>2, <1>3
<1>7. ThisRun(w).by = w /\ ThisRun(w).nr = count[w]
  BY DEF ThisRun
<1>8. ASSUME NEW j \in DOMAIN t, NEW k \in DOMAIN t, j < k, t[j].by = t[k].by
      PROVE  t[j].nr < t[k].nr
  <2>1. j \in DOMAIN s /\ t[j] = s[j]
    BY <1>6, <1>8
  <2>2. CASE k \in DOMAIN s
    BY <1>3, <1>4, <1>6, <1>8, <2>1, <2>2 DEF InOrder
  <2>3. CASE k \notin DOMAIN s
    <3>1. t[k] = ThisRun(w)
      BY <1>6, <1>8, <2>3
    <3> QED BY <1>5, <1>7, <1>8, <2>1, <3>1
  <2> QED BY <2>2, <2>3
<1> HIDE DEF t
<1> QED BY <1>2, <1>8 DEF InOrder, t
-----------------------------------------------------------------------------
LEMMA LoadKeeps ==
  ASSUME LInv, NEW w \in Writers, Load(w)
  PROVE  LInv'
<1> USE DEF LInv
<1>1. /\ pc[w] = "idle" /\ pc' = [pc EXCEPT ![w] = "save"]
      /\ count' = [count EXCEPT ![w] = @ + 1]
      /\ count \in [Writers -> 0 .. MaxRuns] /\ count[w] < MaxRuns
      /\ file' = file /\ disk' = disk /\ saved' = saved /\ excused' = excused
      /\ synced' = synced /\ fresh' = fresh
  BY DEF Load, LedgerTypeOK
<1>2. Busy' = Busy \cup {w} /\ w \notin Busy
  BY <1>1 DEF Busy, LedgerTypeOK
<1>3. base'[w] = (IF file = NoFile THEN Empty ELSE file) /\ base'[w] \in Ledger
      /\ \A v \in Writers \ {w} : base'[v] = base[v]
  BY Shapes DEF Load, LedgerTypeOK
<1>4. RunsIn(base'[w]) = RunsIn(file)
  BY <1>3, Shapes
<1>5. LedgerTypeOK'
  <2>1. met' \subseteq Writers
    BY DEF Load, Meet, LedgerTypeOK, Busy
  <2>2. base' \in [Writers -> Ledger]
    BY Shapes DEF Load, LedgerTypeOK
  <2>3. count' \in [Writers -> 0 .. MaxRuns]
    BY <1>1, LedgerAssumption
  <2> QED BY <1>1, <2>1, <2>2, <2>3 DEF LedgerTypeOK
<1>6. KeptRead'
  <2>1. ASSUME NEW v \in Busy' PROVE Kept' \subseteq RunsIn(base'[v])
    <3>1. CASE v = w
      BY <1>1, <1>4, <3>1 DEF KeptRead, Kept
    <3>2. CASE v # w
      <4>1. v \in Busy /\ v \in Writers
        BY <1>2, <3>2 DEF Busy
      <4> QED BY <1>1, <1>3, <3>2, <4>1 DEF KeptRead, Kept
    <3> QED BY <3>1, <3>2
  <2>2. Kept' \subseteq RunsIn(file')
    BY <1>1 DEF KeptRead, Kept
  <2> QED BY <2>1, <2>2 DEF KeptRead, RunsIn
<1>7. Met'
  BY <1>2 DEF Met, Load, Meet
<1>8. Flushed'
  BY <1>1 DEF Flushed, LedgerTypeOK
<1>9. Numbered'
  BY <1>1, <1>2, LedgerAssumption DEF Numbered, Busy
<1>10. Built'
  <2>1. ASSUME NEW f \in Ledgers PROVE InOrder(f) /\ Older(f)'
    <3>1. InOrder(f) /\ Older(f)
      BY DEF Built
    <3>2. ASSUME NEW r \in RunsIn(f)
          PROVE  r.nr <= count'[r.by] /\ (r.by \in Busy' => r.nr < count'[r.by])
      <4>1. r \in Run
        BY Shapes DEF LedgerTypeOK, Ledgers, RunsIn, Ledger
      <4>2. r.by \in Writers /\ r.nr \in Nat /\ r.nr <= count[r.by]
        BY <3>1, <4>1, LedgerAssumption DEF Run, Older
      <4>3. CASE r.by = w
        BY <1>1, <4>2, <4>3
      <4>4. CASE r.by # w
        BY <1>1, <1>2, <3>1, <4>2, <4>4 DEF Older
      <4> QED BY <4>3, <4>4
    <3> QED BY <3>1, <3>2 DEF Older, RunsIn
  <2>2. InOrder(Empty) /\ Older(Empty)'
    BY Shapes DEF InOrder, Older, Empty, RunsIn
  <2>3. Ledgers' \subseteq Ledgers \cup {Empty}
    BY <1>1, <1>3 DEF Ledgers
  <2> QED BY <2>1, <2>2, <2>3 DEF Built, InOrder
<1> QED BY <1>5, <1>6, <1>7, <1>8, <1>9, <1>10

LEMMA SaveKeeps ==
  ASSUME LInv, NEW w \in Writers, WriteTemp(w) \/ SyncTemp(w)
  PROVE  LInv'
<1> USE DEF LInv
<1>1. UNCHANGED <<file, disk, synced, base, count, saved, met, excused>>
  BY DEF WriteTemp, SyncTemp, history
<1>2. LedgerTypeOK'
  BY DEF WriteTemp, SyncTemp, history, LedgerTypeOK
<1>3. Busy' = Busy
  BY DEF WriteTemp, SyncTemp, LedgerTypeOK, Busy
<1>4. Flushed'
  BY DEF WriteTemp, SyncTemp, history, LedgerTypeOK, Flushed
<1>5. KeptRead' /\ Met' /\ Numbered'
  BY <1>1, <1>3 DEF KeptRead, Kept, RunsIn, Met, Numbered
<1>6. Built'
  BY <1>1, <1>3 DEF Built, Ledgers, InOrder, Older, RunsIn
<1> QED BY <1>2, <1>4, <1>5, <1>6

LEMMA ReplaceKeeps ==
  ASSUME LInv, NEW w \in Writers, Replace(w)
  PROVE  LInv'
<1> USE DEF LInv
<1> DEFINE r == ThisRun(w)
<1>1. /\ pc[w] = "replace" /\ w \in Busy /\ count[w] # 0 /\ fresh[w]
      /\ r.by = w /\ r.nr = count[w]
  BY DEF Replace, Busy, Numbered, Flushed, ThisRun
<1>2. /\ r \in Run /\ Extended(w) \in Ledger
      /\ RunsIn(Extended(w)) = RunsIn(base[w]) \cup {r}
  BY <1>1, ExtendedLedger
<1>3. /\ file' = Extended(w) /\ disk' = disk /\ synced' = TRUE
      /\ count' = count /\ met' = met
      /\ pc' = [pc EXCEPT ![w] = "idle"]
      /\ base' = [base EXCEPT ![w] = Empty]
      /\ fresh' = [fresh EXCEPT ![w] = FALSE]
  BY <1>1 DEF Replace, Leave, LedgerTypeOK
<1>4. Busy' = Busy \ {w} /\ Busy \subseteq Writers
  BY <1>3 DEF Busy, LedgerTypeOK
<1>5. LedgerTypeOK'
  <2>1. base' \in [Writers -> Ledger]
    BY <1>3, Shapes DEF LedgerTypeOK
  <2>2. saved' \subseteq Run /\ excused' \subseteq saved'
    BY <1>2 DEF Replace, LedgerTypeOK
  <2> QED BY <1>2, <1>3, <2>1, <2>2 DEF LedgerTypeOK
<1>6. KeptRead'
  <2>1. RunsIn(file') = RunsIn(base[w]) \cup {r}
    BY <1>2, <1>3
  <2>2. /\ Kept' \subseteq Kept \cup {r}
        /\ w \in met => r \notin Kept'
        /\ w \in met => Kept' \subseteq Kept
    BY DEF Replace, Kept
  <2>3. Kept' \subseteq RunsIn(file)'
    BY <1>1, <2>1, <2>2 DEF KeptRead, RunsIn
  <2>4. ASSUME NEW v \in Busy' PROVE Kept' \subseteq RunsIn(base[v])'
    <3>1. v \in Busy /\ v # w /\ base'[v] = base[v]
      BY <1>3, <1>4 DEF LedgerTypeOK
    <3>2. w \in met
      BY <1>1, <3>1 DEF Met
    <3> QED BY <2>2, <3>1, <3>2 DEF KeptRead, RunsIn
  <2> QED BY <2>3, <2>4 DEF KeptRead
<1>7. Met' /\ Numbered'
  BY <1>3, <1>4 DEF Met, Numbered
<1>8. Flushed'
  BY <1>2, <1>3, Shapes DEF Flushed, LedgerTypeOK
<1>9. Built'
  <2>1. ASSUME NEW f \in Ledgers PROVE InOrder(f) /\ Older(f)'
    <3>1. InOrder(f) /\ Older(f)
      BY DEF Built
    <3> QED BY <1>3, <1>4, <3>1 DEF Older, RunsIn
  <2>2. InOrder(Empty) /\ Older(Empty)'
    BY Shapes DEF InOrder, Older, Empty, RunsIn
  <2>3. InOrder(Extended(w))
    BY <1>1, ExtendedInOrder
  <2>4. ASSUME NEW q \in RunsIn(Extended(w))
        PROVE  q.nr <= count[q.by] /\ (q.by \in Busy' => q.nr < count[q.by])
    <3>1. CASE q \in RunsIn(base[w])
      BY <1>4, <2>1, <3>1 DEF Ledgers, Built, Older
    <3>2. CASE q = r
      BY <1>1, <1>4, <3>2, LedgerAssumption DEF LedgerTypeOK
    <3> QED BY <1>2, <3>1, <3>2
  <2>5. ASSUME NEW f \in Ledgers' PROVE f \in Ledgers \cup {Empty, Extended(w)}
    <3>1. CASE f \in {file', disk'}
      BY <1>3, <3>1 DEF Ledgers
    <3>2. CASE \E v \in Writers : f = base'[v]
      <4>1. PICK v \in Writers : f = base'[v]
        BY <3>2
      <4>2. base'[v] = (IF v = w THEN Empty ELSE base[v])
        BY <1>3 DEF LedgerTypeOK
      <4> QED BY <4>1, <4>2 DEF Ledgers
    <3> QED BY <3>1, <3>2 DEF Ledgers
  <2>6. ASSUME NEW f \in Ledgers' PROVE (InOrder(f) /\ Older(f))'
    <3>1. InOrder(f)
      BY <2>1, <2>2, <2>3, <2>5
    <3>2. \A q \in RunsIn(f) : q.nr <= count'[q.by] /\ (q.by \in Busy' => q.nr < count'[q.by])
      <4>1. CASE f \in Ledgers \cup {Empty}
        BY <2>1, <2>2, <4>1 DEF Older, RunsIn
      <4>2. CASE f = Extended(w)
        BY <1>3, <2>4, <4>2
      <4> QED BY <2>5, <4>1, <4>2
    <3> QED BY <3>1, <3>2 DEF InOrder, Older, RunsIn
  <2> QED BY <2>6 DEF Built
<1> QED BY <1>5, <1>6, <1>7, <1>8, <1>9

(* Writers that stop and names that change; no ledger is made.              *)
LEMMA StopKeeps ==
  ASSUME LInv, \/ \E w \in Writers : GiveUp(w)
               \/ Delete \/ FlushName \/ Outage
  PROVE  LInv'
<1> USE DEF LInv
<1>1. /\ file' \in {file, disk, NoFile} /\ disk' \in {file, disk, NoFile}
      /\ synced' = TRUE /\ count' = count /\ met' = met
  BY DEF GiveUp, Delete, FlushName, Outage, writing, history, Flushed
<1>2. Busy' \subseteq Busy
  BY DEF GiveUp, Leave, Delete, FlushName, Outage, writing, history, Busy, LedgerTypeOK
<1>3. /\ \A v \in Writers : base'[v] \in {base[v], Empty}
      /\ \A v \in Busy' : base'[v] = base[v]
  BY DEF GiveUp, Leave, Delete, FlushName, Outage, writing, history, Busy, LedgerTypeOK
<1>4. LedgerTypeOK'
  <2>1. CASE \E w \in Writers : GiveUp(w)
    BY <2>1, Shapes DEF GiveUp, Leave, history, LedgerTypeOK
  <2>2. CASE Delete \/ FlushName
    BY <2>2 DEF Delete, FlushName, writing, history, LedgerTypeOK
  <2>3. CASE Outage
    <3>1. file' \in Ledger \cup {NoFile, Torn}
      BY <1>1 DEF LedgerTypeOK
    <3>2. saved' \subseteq Run /\ excused' \subseteq saved' /\ met' \subseteq Writers
      BY <2>3 DEF Outage, LedgerTypeOK
    <3>3. /\ pc' \in [Writers -> {"idle", "save", "fsync", "replace"}]
          /\ base' \in [Writers -> Ledger] /\ fresh' \in [Writers -> BOOLEAN]
      BY <2>3, Shapes DEF Outage
    <3> QED BY <2>3, <3>1, <3>2, <3>3 DEF Outage, LedgerTypeOK
  <2> QED BY <2>1, <2>2, <2>3
<1>5. KeptRead'
  <2>1. Kept' \subseteq Kept /\ Kept' \subseteq RunsIn(file')
    BY DEF GiveUp, Delete, FlushName, Outage, writing, history, Kept, KeptRead
  <2> QED BY <1>2, <1>3, <2>1 DEF KeptRead, RunsIn
<1>6. Met' /\ Numbered'
  BY <1>1, <1>2 DEF Met, Numbered
<1>7. Flushed'
  <2>1. \A w \in Writers : pc'[w] = "replace" => fresh'[w]
    BY DEF GiveUp, Leave, Delete, FlushName, Outage, writing, history, Flushed, LedgerTypeOK
  <2> QED BY <1>1, <2>1, LedgerAssumption DEF Flushed
<1>8. Built'
  <2>1. ASSUME NEW f \in Ledgers PROVE InOrder(f) /\ Older(f)'
    BY <1>1, <1>2 DEF Built, Older, RunsIn
  <2>2. InOrder(Empty) /\ Older(Empty)' /\ InOrder(NoFile) /\ Older(NoFile)'
    BY Shapes, LedgerAssumption DEF InOrder, Older, Empty, RunsIn
  <2>3. Ledgers' \subseteq Ledgers \cup {Empty, NoFile}
    BY <1>1, <1>3 DEF Ledgers
  <2> QED BY <2>1, <2>2, <2>3 DEF Built, InOrder
<1> QED BY <1>4, <1>5, <1>6, <1>7, <1>8
-----------------------------------------------------------------------------
LEMMA InitLInv == LedgerInit => LInv
<1> SUFFICES ASSUME LedgerInit PROVE LInv
  OBVIOUS
<1>1. file \in {NoFile, Empty, [Empty EXCEPT !.skill = "other"]} /\ disk = file
  BY DEF LedgerInit
<1>2. [Empty EXCEPT !.skill = "other"] \in Ledger /\ [Empty EXCEPT !.skill = "other"].runs = <<>>
  BY Shapes DEF Ledger, Empty
<1>3. file \in Ledger \cup {NoFile} /\ (file \in Ledger => file.runs = <<>>)
  BY <1>1, <1>2, Shapes, LedgerAssumption DEF Empty
<1>4. LedgerTypeOK
  BY <1>1, <1>3, Shapes, LedgerAssumption DEF LedgerInit, LedgerTypeOK
<1>5. Busy = {}
  BY DEF LedgerInit, Busy
<1>6. KeptRead /\ Met /\ Numbered
  BY <1>5 DEF LedgerInit, KeptRead, Kept, Met, Numbered
<1>7. Flushed
  BY <1>1, <1>3, Shapes, LedgerAssumption DEF LedgerInit, Flushed
<1>8. Built
  <2>1. \A f \in Ledgers : f \in {file, Empty}
    BY <1>1 DEF LedgerInit, Ledgers
  <2>2. RunsIn(file) = {} /\ RunsIn(Empty) = {}
    BY <1>3, Shapes DEF RunsIn
  <2> QED BY <1>3, <2>1, <2>2 DEF Built, InOrder, Older, Empty
<1> QED BY <1>4, <1>6, <1>7, <1>8 DEF LInv

LEMMA Inductive == LInv /\ [LedgerNext]_ledgerVars => LInv'
<1> SUFFICES ASSUME LInv, [LedgerNext]_ledgerVars PROVE LInv'
  OBVIOUS
<1>1. ASSUME NEW w \in Writers, Load(w) PROVE LInv'
  BY <1>1, LoadKeeps
<1>2. ASSUME NEW w \in Writers, Proceed(w) PROVE LInv'
  BY <1>2, SaveKeeps, ReplaceKeeps DEF Proceed
<1>3. CASE (\E w \in Writers : GiveUp(w)) \/ Delete \/ FlushName \/ Outage
  BY <1>3, StopKeeps
<1>4. CASE UNCHANGED ledgerVars
  BY <1>4 DEF ledgerVars, writing, history, LInv, LedgerTypeOK, KeptRead, Kept,
     RunsIn, Busy, Met, Flushed, Numbered, Built, Ledgers, InOrder, Older
<1> QED BY <1>1, <1>2, <1>3, <1>4 DEF LedgerNext

THEOREM Invariance == LedgerSpec => []LInv
BY InitLInv, Inductive, PTL DEF LedgerSpec

(* The shapes of the variables are kept, a ledger never gets a run that is  *)
(* not one of its writers' among them.                                      *)
THEOREM TypeCorrect == LedgerSpec => []LedgerTypeOK
<1>1. LInv => LedgerTypeOK
  BY DEF LInv
<1> QED BY <1>1, Invariance, PTL

(* A power failure or a kill leaves a whole ledger or none, for any number  *)
(* of writers: see LedgerWhole.                                             *)
THEOREM LedgerStaysWhole == LedgerSpec => []LedgerWhole
<1>1. LInv => LedgerWhole
  BY DEF LInv, Flushed, LedgerWhole
<1> QED BY <1>1, Invariance, PTL

(* Nothing is lost that no overlapping call can be blamed for: see          *)
(* LostOnlyToOverlap.                                                       *)
THEOREM OnlyOverlapLoses == LedgerSpec => []LostOnlyToOverlap
<1>1. LInv => LostOnlyToOverlap
  BY DEF LInv, KeptRead, Kept, LostOnlyToOverlap
<1> QED BY <1>1, Invariance, PTL

(* With a single writer there is no overlap, so the runs of every call that *)
(* returned are in the ledger: what the header of history_io.py (line 8)    *)
(* promises to the single writer it is written for.                         *)
THEOREM SingleWriterLosesNothing ==
  ASSUME \A v, w \in Writers : v = w
  PROVE  LedgerSpec => [](saved \subseteq RunsIn(file))
<1> DEFINE Alone == met = {} /\ excused = {}
<1>1. LedgerInit => Alone
  BY DEF LedgerInit
<1>2. Alone /\ [LedgerNext]_ledgerVars => Alone'
  <2> SUFFICES ASSUME Alone, [LedgerNext]_ledgerVars PROVE Alone'
    OBVIOUS
  <2>1. ASSUME NEW w \in Writers, Load(w) PROVE Alone'
    BY <2>1 DEF Load, Meet, Busy
  <2>2. ASSUME NEW w \in Writers, Proceed(w) \/ GiveUp(w) PROVE Alone'
    BY <2>2 DEF Proceed, WriteTemp, SyncTemp, Replace, GiveUp, history
  <2>3. CASE Delete \/ FlushName \/ Outage
    BY <2>3 DEF Delete, FlushName, Outage, history
  <2> QED BY <2>1, <2>2, <2>3 DEF LedgerNext, ledgerVars, history
<1>3. LInv /\ Alone => saved \subseteq RunsIn(file)
  BY DEF LInv, KeptRead, Kept
<1> QED BY <1>1, <1>2, <1>3, Invariance, PTL DEF LedgerSpec

(* Runs stay in the order in which their writer built them: see RunsInOrder. *)
THEOREM OrderKept == LedgerSpec => []RunsInOrder
<1>1. LInv => RunsInOrder
  BY DEF LInv, Built, Ledgers, InOrder, RunsInOrder
<1> QED BY <1>1, Invariance, PTL
-----------------------------------------------------------------------------
(* The migration. *)

(* A command begins with the copy, and has put it when it goes on.          *)
CopyPut == \A m \in Migrators :
              /\ mpc[m] # "put" => next[m] = 0
              /\ next[m] # 0 => Source(copy[m]) \in objects

HInv == TypeOK /\ LInv /\ CopyPut /\ RecordsHaveSources

(* While runs are only added, a command that has parsed the ledger has      *)
(* parsed the beginning of what it reads later, and what it puts is so.     *)
Behind  == \A m \in Migrators :
              /\ mpc[m] = "read" => file \in Ledger /\ Extends(file, parsed[m])
              /\ mpc[m] = "put" => copy[m] \in Ledger /\ Extends(copy[m], parsed[m])
Labelled == \A o \in objects :
              \/ o.index = 0 /\ o.run = Original
              \/ /\ o.source \in Ledger /\ o.index \in DOMAIN o.source.runs
                 /\ o.run = o.source.runs[o.index]

GrownInv == HInv /\ (grown => Behind /\ Labelled)

(* With one writer nothing happens to the ledger between its load_ledger    *)
(* and its os.replace.                                                      *)
Alone   == Deletes = FALSE /\ \A v, w \in Writers : v = w
Current == \A w \in Writers : pc[w] # "idle" =>
              base[w] = (IF file = NoFile THEN Empty ELSE file)
-----------------------------------------------------------------------------
(* Every step is one of the ledger or leaves it alone: a migration only     *)
(* reads.                                                                   *)
LEMMA StepsOfLedger == [Next]_vars => [LedgerNext]_ledgerVars
<1> SUFFICES ASSUME [Next]_vars PROVE [LedgerNext]_ledgerVars
  OBVIOUS
<1>1. ASSUME NEW m \in Migrators, Migrate(m) PROVE UNCHANGED ledgerVars
  BY <1>1 DEF Migrate, StartMigration, LoadSource, ReadSource, Publish, Returned, Abandon
<1>2. CASE Use \/ PowerFails
  BY <1>2 DEF Use, PowerFails, LedgerNext
<1> QED BY <1>1, <1>2 DEF Next, vars

(* A migration changes no ledger, so the ledger is what LegacyLedger says.  *)
THEOREM MigrationOnlyReads == Spec => LedgerSpec
<1>1. Init => LedgerInit
  BY DEF Init
<1> QED BY <1>1, StepsOfLedger, PTL DEF Spec, LedgerSpec

LEMMA ItemShape ==
  ASSUME TypeOK, NEW m \in Migrators
  PROVE  /\ Item(m) \in Object /\ Item(m).source = copy[m]
         /\ next[m] = 0 => Item(m) = Source(copy[m])
         /\ next[m] # 0 => /\ Item(m).index = next[m]
                           /\ next[m] \in 1 .. Len(parsed[m].runs)
                           /\ Item(m).run = parsed[m].runs[next[m]]
<1>1. /\ copy[m] \in Ledger \cup {Torn} /\ parsed[m].runs \in Seq(Run)
      /\ next[m] \in Nat /\ next[m] <= Len(parsed[m].runs)
  BY DEF TypeOK, Ledger
<1>2. next[m] # 0 => next[m] \in 1 .. Len(parsed[m].runs) /\ parsed[m].runs[next[m]] \in Run
  BY <1>1
<1> QED BY <1>1, <1>2 DEF Item, Source, Object
-----------------------------------------------------------------------------
LEMMA HInductive == HInv /\ [Next]_vars => HInv'
<1> SUFFICES ASSUME HInv, [Next]_vars PROVE HInv'
  OBVIOUS
<1> USE DEF HInv, store
<1>1. LInv'
  BY StepsOfLedger, Inductive
<1>2. LedgerTypeOK'
  BY <1>1 DEF LInv
<1>3. file \in Ledger \cup {NoFile, Torn} /\ LedgerTypeOK
  BY DEF LInv, LedgerTypeOK
<1>3a. grown' \in BOOLEAN
  <2>1. CASE Watch
    BY <2>1, Zenon DEF Watch
  <2> QED BY <2>1 DEF Next, PowerFails, vars, TypeOK
<1>4. ASSUME NEW m \in Migrators, StartMigration(m) \/ LoadSource(m) \/ ReadSource(m)
      PROVE  HInv'
  <2>1. /\ UNCHANGED store /\ next' = next /\ migrated' = migrated
        /\ next[m] = 0
        /\ \A n \in Migrators \ {m} : /\ mpc'[n] = mpc[n] /\ parsed'[n] = parsed[n]
                                      /\ copy'[n] = copy[n]
        /\ mpc' \in [Migrators -> {"idle", "load", "read", "put"}]
        /\ parsed' \in [Migrators -> Ledger]
        /\ copy' \in [Migrators -> Ledger \cup {Torn}]
    BY <1>3, <1>4 DEF StartMigration, LoadSource, ReadSource, Goto, TypeOK, CopyPut
  <2>2. TypeOK'
    <3>1. \A n \in Migrators : next'[n] <= Len(parsed'[n].runs)
      <4>1. Len(parsed'[m].runs) \in Nat
        BY <2>1 DEF Ledger
      <4> QED BY <2>1, <4>1 DEF TypeOK
    <3> QED BY <1>2, <1>3a, <2>1, <3>1 DEF TypeOK
  <2>3. CopyPut' /\ RecordsHaveSources'
    BY <2>1 DEF CopyPut, RecordsHaveSources, Source
  <2> QED BY <1>1, <2>2, <2>3
<1>5. ASSUME NEW m \in Migrators, Publish(m) PROVE HInv'
  <2>1. /\ objects' = objects \cup {Item(m)} /\ acked' = acked /\ lost' = lost
        /\ UNCHANGED <<mpc, parsed, copy, next, migrated>>
    BY <1>5 DEF Publish, Store!Publish
  <2>2. TypeOK'
    BY <1>2, <1>3a, <2>1, ItemShape DEF TypeOK
  <2>3. CopyPut'
    BY <2>1 DEF CopyPut, Source
  <2>4. RecordsHaveSources'
    <3>1. Source(Item(m).source) \in objects'
      BY <2>1, ItemShape DEF CopyPut
    <3> QED BY <2>1, <3>1 DEF RecordsHaveSources, Source
  <2> QED BY <1>1, <2>2, <2>3, <2>4
<1>6. ASSUME NEW m \in Migrators, Returned(m) PROVE HInv'
  <2>1. Item(m) \in objects /\ objects' = objects /\ acked' = acked \cup {Item(m)}
        /\ lost' = lost
    BY <1>6 DEF Returned, Store!Acknowledge
  <2>2. RecordsHaveSources'
    BY <2>1 DEF RecordsHaveSources, Source
  <2>3. CASE next[m] = Len(parsed[m].runs)
    <3>1. Exit(m) /\ migrated' = migrated \cup {copy[m]}
      BY <1>6, <2>3 DEF Returned
    <3>2. TypeOK'
      BY <1>2, <1>3a, <2>1, <3>1, Shapes DEF Exit, Goto, TypeOK, Empty
    <3>3. CopyPut'
      BY <2>1, <3>1 DEF Exit, Goto, TypeOK, CopyPut, Source
    <3> QED BY <1>1, <2>2, <3>2, <3>3
  <2>4. CASE next[m] # Len(parsed[m].runs)
    <3>1. next' = [next EXCEPT ![m] = @ + 1] /\ UNCHANGED <<mpc, parsed, copy, migrated>>
      BY <1>6, <2>4 DEF Returned
    <3>2. next[m] \in Nat /\ Len(parsed[m].runs) \in Nat /\ next[m] <= Len(parsed[m].runs)
      BY DEF TypeOK, Ledger
    <3>3. TypeOK'
      BY <1>2, <1>3a, <2>1, <2>4, <3>1, <3>2 DEF TypeOK
    <3>4. Source(copy[m]) \in objects
      BY <2>1, ItemShape DEF CopyPut
    <3>5. CopyPut'
      BY <1>6, <2>1, <3>1, <3>4 DEF Returned, TypeOK, CopyPut, Source
    <3> QED BY <1>1, <2>2, <3>3, <3>5
  <2> QED BY <2>3, <2>4
<1>7. ASSUME NEW m \in Migrators, Abandon(m) PROVE HInv'
  <2>1. TypeOK'
    BY <1>2, <1>3a, <1>7, Shapes DEF Abandon, Exit, Goto, TypeOK, Empty
  <2>2. CopyPut' /\ RecordsHaveSources'
    BY <1>7 DEF Abandon, Exit, Goto, TypeOK, CopyPut, RecordsHaveSources, Source
  <2> QED BY <1>1, <2>1, <2>2
<1>8. CASE UNCHANGED migration
  BY <1>1, <1>2, <1>3a, <1>8 DEF migration, TypeOK, CopyPut, RecordsHaveSources, Source
<1>9. CASE PowerFails
  <2>1. /\ objects' \subseteq objects /\ acked' \subseteq objects'
        /\ lost' = lost \cup (objects \ objects') /\ UNCHANGED <<migrated, grown>>
        /\ mpc' = [m \in Migrators |-> "idle"] /\ next' = [m \in Migrators |-> 0]
        /\ parsed' = [m \in Migrators |-> Empty] /\ copy' = [m \in Migrators |-> Empty]
    BY <1>9 DEF PowerFails, Store!Outage
  <2>2. Len(Empty.runs) = 0 /\ Empty \in Ledger
    BY Shapes DEF Empty
  <2>3. TypeOK'
    BY <1>2, <1>3a, <2>1, <2>2 DEF TypeOK
  <2>4. CopyPut'
    BY <2>1 DEF CopyPut
  <2>5. RecordsHaveSources'
    BY <2>1 DEF RecordsHaveSources, Source
  <2> QED BY <1>1, <2>3, <2>4, <2>5
<1> QED BY <1>4, <1>5, <1>6, <1>7, <1>8, <1>9 DEF Next, Migrate, vars

LEMMA HInit == Init => HInv
<1> SUFFICES ASSUME Init PROVE HInv
  OBVIOUS
<1>1. LInv
  BY InitLInv DEF Init
<1>2. TypeOK
  BY <1>1, Shapes DEF LInv, Init, TypeOK, Empty
<1> QED BY <1>1, <1>2 DEF Init, HInv, CopyPut, RecordsHaveSources

(* The variables keep their shapes: see TypeOK.                             *)
THEOREM MigrationTypeCorrect == Spec => []TypeOK
<1>1. HInv => TypeOK
  BY DEF HInv
<1> QED BY <1>1, HInit, HInductive, PTL DEF Spec

(* For any number of writers and migrations, and also when the ledger is    *)
(* deleted or commands are killed meanwhile, no record is without its       *)
(* source copy unless a power failure took that: see RecordsHaveSources.    *)
THEOREM SourcesComeFirst == Spec => []RecordsHaveSources
<1>1. HInv => RecordsHaveSources
  BY DEF HInv
<1> QED BY <1>1, HInit, HInductive, PTL DEF Spec
-----------------------------------------------------------------------------
LEMMA ExtendsItself ==
  ASSUME NEW f \in Ledger
  PROVE  Extends(f, f)
BY DEF Extends, Ledger

LEMMA ExtendsFurther ==
  ASSUME NEW f \in Ledger, NEW g \in Ledger, NEW h \in Ledger,
         Extends(f, g), Extends(g, h)
  PROVE  Extends(f, h)
<1>1. /\ Len(f.runs) \in Nat /\ Len(g.runs) \in Nat /\ Len(h.runs) \in Nat
  BY DEF Ledger
<1> QED BY <1>1 DEF Extends

LEMMA GrownInductive == GrownInv /\ [Next]_vars => GrownInv'
<1> SUFFICES ASSUME GrownInv, [Next]_vars PROVE GrownInv'
  OBVIOUS
<1>1. HInv' /\ HInv /\ TypeOK
  BY HInductive DEF HInv, GrownInv
<1>2. grown' => grown
  BY DEF Next, Watch, PowerFails, vars
<1> SUFFICES ASSUME grown' PROVE Behind' /\ Labelled'
  BY <1>1 DEF GrownInv
<1>3. Behind /\ Labelled
  BY <1>2 DEF GrownInv
<1>4. ASSUME NEW m \in Migrators, StartMigration(m) \/ Abandon(m) PROVE Behind' /\ Labelled'
  BY <1>1, <1>3, <1>4 DEF StartMigration, Abandon, Exit, Goto, store, ledgerVars, TypeOK, Behind, Labelled, Extends
<1>5. ASSUME NEW m \in Migrators, LoadSource(m) PROVE Behind' /\ Labelled'
  <2>1. Extends(file, file) /\ file' = file
    BY <1>5, ExtendsItself DEF LoadSource, ledgerVars
  <2> QED BY <1>1, <1>3, <1>5, <2>1 DEF LoadSource, Goto, store, TypeOK, Behind, Labelled, Extends
<1>6. ASSUME NEW m \in Migrators, ReadSource(m) PROVE Behind' /\ Labelled'
  BY <1>1, <1>3, <1>6 DEF ReadSource, Goto, store, ledgerVars, TypeOK, Behind, Labelled, Extends
<1>7. ASSUME NEW m \in Migrators, Publish(m) PROVE Behind' /\ Labelled'
  <2>1. /\ objects' = objects \cup {Item(m)} /\ mpc[m] = "put"
        /\ UNCHANGED <<file, mpc, parsed, copy>>
    BY <1>7 DEF Publish, Store!Publish, ledgerVars
  <2>2. copy[m] \in Ledger /\ Extends(copy[m], parsed[m])
    BY <1>3, <2>1 DEF Behind
  <2>3. CASE next[m] = 0
    BY <1>3, <2>1, <2>3 DEF Behind, Labelled, Extends, Item, Source
  <2>4. CASE next[m] # 0
    <3>1. /\ Item(m).source = copy[m] /\ Item(m).index = next[m]
          /\ next[m] \in 1 .. Len(parsed[m].runs)
          /\ Item(m).run = parsed[m].runs[next[m]]
      BY <1>1, <2>4, ItemShape
    <3>2. Len(parsed[m].runs) \in Nat /\ DOMAIN copy[m].runs = 1 .. Len(copy[m].runs)
          /\ Len(copy[m].runs) \in Nat
      BY <1>1, <2>2 DEF TypeOK, Ledger
    <3>3. next[m] \in DOMAIN copy[m].runs /\ copy[m].runs[next[m]] = parsed[m].runs[next[m]]
      BY <2>2, <3>1, <3>2 DEF Extends
    <3>4. Labelled'
      BY <1>3, <2>1, <2>2, <3>1, <3>3 DEF Labelled
    <3> QED BY <1>3, <2>1, <3>4 DEF Behind, Extends
  <2> QED BY <2>3, <2>4
<1>8. ASSUME NEW m \in Migrators, Returned(m) PROVE Behind' /\ Labelled'
  <2>1. objects' = objects /\ file' = file
    BY <1>8 DEF Returned, Store!Acknowledge, ledgerVars
  <2>2. \A n \in Migrators :
            \/ mpc'[n] = "idle"
            \/ mpc'[n] = mpc[n] /\ parsed'[n] = parsed[n] /\ copy'[n] = copy[n]
    BY <1>1, <1>8 DEF Returned, Exit, Goto, TypeOK
  <2>3. Behind'
    BY <1>3, <2>1, <2>2 DEF Behind
  <2> QED BY <1>3, <2>1, <2>3 DEF Labelled
<1>9. CASE Use /\ Watch /\ UNCHANGED migration
  <2>1. ASSUME NEW m \in Migrators, mpc[m] = "read"
        PROVE  file' \in Ledger /\ Extends(file', parsed[m])
    <3>1. file \in Ledger /\ Extends(file, parsed[m]) /\ parsed[m] \in Ledger
      BY <1>1, <1>3, <2>1 DEF Behind, TypeOK
    <3>2. file' \in Ledger /\ Extends(file', file)
      BY <1>9, <3>1 DEF Watch
    <3> QED BY <3>1, <3>2, ExtendsFurther
  <2> QED BY <1>3, <1>9, <2>1 DEF migration, store, Behind, Labelled, Extends
<1>11. CASE PowerFails
  <2>1. objects' \subseteq objects /\ \A m \in Migrators : mpc'[m] = "idle"
    BY <1>11 DEF PowerFails, Store!Outage
  <2>2. Behind'
    BY <2>1 DEF Behind
  <2>3. Labelled'
    BY <1>3, <2>1 DEF Labelled
  <2> QED BY <2>2, <2>3
<1>10. CASE UNCHANGED vars
  BY <1>3, <1>10 DEF vars, ledgerVars, migration, store, Behind, Labelled, Extends
<1> QED BY <1>4, <1>5, <1>6, <1>7, <1>8, <1>9, <1>10, <1>11 DEF Next, Migrate

LEMMA GrownInit == Init => GrownInv
<1> SUFFICES ASSUME Init PROVE GrownInv
  OBVIOUS
<1>1. HInv
  BY HInit
<1> QED BY <1>1 DEF GrownInv, Init, Behind, Labelled

(* So long as runs were only added to the ledger, a record says of which    *)
(* run of its source it is, and says it truly, although the ledger is read  *)
(* twice: see LabelsAreRight.                                               *)
THEOREM LabelsHold == Spec => []LabelsAreRight
<1>1. GrownInv => LabelsAreRight
  BY DEF GrownInv, Labelled, LabelsAreRight
<1> QED BY <1>1, GrownInductive, GrownInit, PTL DEF Spec

(* Then a run of a source has one record, however often and by however many *)
(* commands it was migrated: see OneRecordPerRun.                           *)
THEOREM NothingTwice == Spec => []OneRecordPerRun
<1>1. GrownInv => OneRecordPerRun
  <2> SUFFICES ASSUME GrownInv, grown, NEW o \in objects, NEW p \in objects,
                      o.source = p.source, o.index = p.index
               PROVE  o = p
    BY DEF OneRecordPerRun
  <2>1. o \in Object /\ p \in Object
    BY DEF GrownInv, HInv, TypeOK
  <2>2. ASSUME o.source \in Ledger PROVE 0 \notin DOMAIN o.source.runs
    BY <2>2 DEF Ledger
  <2>3. o.run = p.run
    BY <2>2 DEF GrownInv, Labelled
  <2> QED BY <2>1, <2>3 DEF Object
<1> QED BY <1>1, GrownInductive, GrownInit, PTL DEF Spec
-----------------------------------------------------------------------------
(* The single writer puts its run behind those that are there.              *)
LEMMA WriterAdds ==
  ASSUME HInv, Current, Alone, Use, file \in Ledger
  PROVE  file' \in Ledger /\ Extends(file', file)
<1> USE DEF HInv, LInv
<1>1. CASE file' = file
  BY <1>1, ExtendsItself
<1>2. ASSUME NEW w \in Writers, Replace(w) PROVE file' \in Ledger /\ Extends(file', file)
  <2>1. pc[w] # "idle" /\ base[w] = file /\ count[w] # 0 /\ file' = Extended(w)
    BY <1>2, Shapes DEF Replace, Current, Numbered, Busy
  <2>2. /\ file' \in Ledger /\ file'.runs = Append(file.runs, ThisRun(w))
        /\ ThisRun(w) \in Run /\ file.runs \in Seq(Run)
    BY <2>1, ExtendedLedger, Shapes
  <2> QED BY <2>2 DEF Extends
<1>3. file' = file \/ \E w \in Writers : Replace(w)
  BY DEF Use, Alone, Load, Proceed, WriteTemp, SyncTemp, GiveUp, Delete, FlushName
<1> QED BY <1>1, <1>2, <1>3

LEMMA CurrentKept ==
  ASSUME HInv, Current, Alone, [Next]_vars
  PROVE  Current'
<1> USE DEF HInv, LInv
<1>1. ASSUME NEW m \in Migrators, Migrate(m) PROVE Current'
  BY <1>1 DEF Migrate, StartMigration, LoadSource, ReadSource, Publish, Returned,
     Abandon, ledgerVars, writing, Current
<1>2. ASSUME NEW w \in Writers, Load(w) PROVE Current'
  BY <1>2 DEF Alone, Current, Load, LedgerTypeOK
<1>3. ASSUME NEW w \in Writers, Proceed(w) PROVE Current'
  BY <1>3 DEF Alone, Current, Proceed, WriteTemp, SyncTemp, Replace, Leave, LedgerTypeOK
<1>4. ASSUME NEW w \in Writers, GiveUp(w) PROVE Current'
  BY <1>4 DEF Current, GiveUp, Leave, LedgerTypeOK
<1>5. CASE UNCHANGED vars
  BY <1>5 DEF vars, ledgerVars, writing, Current
<1>6. CASE FlushName \/ PowerFails
  BY <1>6 DEF FlushName, PowerFails, Outage, writing, Current
<1> QED BY <1>1, <1>2, <1>3, <1>4, <1>5, <1>6 DEF Next, Use, Delete, Alone

(* When one process appends and nobody deletes the ledger, runs are only    *)
(* added to it, so the condition of the two theorems above always holds.    *)
THEOREM SingleWriterOnlyAdds ==
  ASSUME Deletes = FALSE, \A v, w \in Writers : v = w
  PROVE  Spec => []grown
<1> DEFINE I == HInv /\ Current /\ grown
<1>1. Alone
  BY DEF Alone
<1>2. Init => I
  BY HInit DEF Init, LedgerInit, Current
<1>3. I /\ [Next]_vars => I'
  <2> SUFFICES ASSUME HInv, Current, grown, [Next]_vars PROVE HInv' /\ Current' /\ grown'
    OBVIOUS
  <2>1. ASSUME Use, Watch PROVE grown'
    BY <1>1, <2>1, WriterAdds DEF Watch
  <2>2. grown'
    BY <2>1 DEF Next, PowerFails, vars
  <2> QED BY <1>1, <2>2, HInductive, CurrentKept
<1> QED BY <1>2, <1>3, PTL DEF Spec
-----------------------------------------------------------------------------
(* To the store the command and everything around it is one more caller of  *)
(* put_bytes: whatever it does refines ImmutableStore, and a record or copy *)
(* is acknowledged only when it is there (history_store.py:68-81).          *)
THEOREM MigrationUsesStore == Spec => Store!Spec
<1>1. Init => Store!Init
  BY DEF Init, Store!Init
<1>2. HInv /\ [Next]_vars => [Store!Next]_(Store!vars)
  <2> SUFFICES ASSUME HInv, [Next]_vars, ~UNCHANGED <<objects, acked>> PROVE Store!Next
    BY DEF Store!vars
  <2>4. CASE PowerFails
    BY <2>4 DEF PowerFails, Store!Next
  <2> SUFFICES ASSUME ~PowerFails PROVE Store!Next
    BY <2>4
  <2>1. PICK m \in Migrators : Publish(m) \/ Returned(m)
    BY DEF Next, vars, migration, store, Migrate, StartMigration, LoadSource, ReadSource, Abandon
  <2>2. Item(m) \in Object
    BY ItemShape DEF HInv
  <2>3. Store!Publish(Item(m)) \/ Store!Acknowledge(Item(m))
    BY <2>1 DEF Publish, Returned
  <2> QED BY <2>2, <2>3 DEF Store!Next
<1> QED BY <1>1, <1>2, HInit, HInductive, PTL DEF Spec, Store!Spec
=============================================================================
