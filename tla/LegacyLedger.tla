---------------------------- MODULE LegacyLedger ----------------------------
(***************************************************************************)
(* The version-one ledger file of tracemantle.core.history_io: append_run  *)
(* reads the whole file, adds one run and replaces the file by a temporary *)
(* one that was fsynced.  Nothing is locked ("single-writer compatibility  *)
(* code", history_io.py:8), a process may be killed and power may fail,    *)
(* and the error messages tell the user to delete a ledger they dislike.   *)
(***************************************************************************)
EXTENDS Naturals, Sequences

CONSTANTS Writers,    \* processes that call append_run
          MaxRuns,    \* bound on the runs one writer records
          Deletes,    \* whether the user deletes the ledger
          NoFile,     \* there is no ledger
          Torn        \* a file that load_ledger refuses as malformed

Run    == [by : Writers, nr : 1 .. MaxRuns]
Ledger == [skill : {"this", "other"}, runs : Seq(Run)]

ASSUME LedgerAssumption == /\ MaxRuns \in Nat /\ Deletes \in BOOLEAN
                           /\ NoFile \notin Ledger /\ Torn \notin Ledger
                           /\ NoFile # Torn

VARIABLES file,       \* what the name of the ledger refers to now
          disk,       \* what it refers to after a power failure
          synced,     \* the data behind the name is on the disk
          pc, base, fresh,   \* per writer: step, ledger read, fsynced
          count,      \* runs each writer has built
          saved,      \* history: runs whose append_run returned
          met,        \* history: writers with another one at work meanwhile
          excused     \* history: runs saved by such a call

writing    == <<pc, base, fresh>>
history    == <<saved, met, excused>>
ledgerVars == <<file, disk, synced, writing, count, history>>

RunsIn(f)  == IF f \in {NoFile, Torn} THEN {} ELSE {f.runs[k] : k \in DOMAIN f.runs}
Busy       == {w \in Writers : pc[w] # "idle"}
ThisRun(w) == [by |-> w, nr |-> count[w]]
Empty      == [skill |-> "this", runs |-> <<>>]

ExtendedAnew(w) ==      \* slip: every call starts a new ledger
    [base[w] EXCEPT !.runs = <<ThisRun(w)>>]

Extended(w) == [base[w] EXCEPT !.runs = Append(@, ThisRun(w))]

LedgerTypeOK ==
    /\ file \in Ledger \cup {NoFile, Torn} /\ disk \in Ledger \cup {NoFile, Torn}
    /\ synced \in BOOLEAN
    /\ pc \in [Writers -> {"idle", "save", "fsync", "replace"}]
    /\ base \in [Writers -> Ledger]
    /\ fresh \in [Writers -> BOOLEAN]
    /\ count \in [Writers -> 0 .. MaxRuns]
    /\ saved \subseteq Run /\ excused \subseteq saved /\ met \subseteq Writers

LedgerInit ==
    /\ file \in {NoFile, Empty, [Empty EXCEPT !.skill = "other"]}
    /\ disk = file /\ synced = TRUE
    /\ pc = [w \in Writers |-> "idle"]
    /\ base = [w \in Writers |-> Empty]
    /\ fresh = [w \in Writers |-> FALSE]
    /\ count = [w \in Writers |-> 0]
    /\ saved = {} /\ met = {} /\ excused = {}
-----------------------------------------------------------------------------
(* The call is over and the process keeps nothing. *)
Leave(w) == /\ pc' = [pc EXCEPT ![w] = "idle"]
            /\ base' = [base EXCEPT ![w] = Empty]
            /\ fresh' = [fresh EXCEPT ![w] = FALSE]

(* Whoever starts while others are at work overlaps with all of them. *)
Meet(w) == met' = IF Busy = {} THEN met \ {w} ELSE met \cup Busy \cup {w}

WriteUnsynced(w) ==     \* slip: no fsync before the rename
    /\ pc[w] = "save"
    /\ pc' = [pc EXCEPT ![w] = "replace"]
    /\ UNCHANGED <<file, disk, synced, base, fresh, count, history>>
-----------------------------------------------------------------------------
(* append_run with a new entry: load_ledger, and the ledger must be one of
   this skill.  A malformed or foreign ledger is an error and stays. *)
Load(w) ==
    /\ pc[w] = "idle" /\ count[w] < MaxRuns
    /\ file = NoFile \/ (file \in Ledger /\ file.skill = "this")
    /\ base' = [base EXCEPT ![w] = IF file = NoFile THEN Empty ELSE file]
    /\ pc' = [pc EXCEPT ![w] = "save"]
    /\ count' = [count EXCEPT ![w] = @ + 1]
    /\ Meet(w)
    /\ UNCHANGED <<file, disk, synced, fresh, saved, excused>>

(* save_ledger: the temporary file is written and flushed ... *)
WriteTemp(w) ==
    /\ pc[w] = "save"
    /\ pc' = [pc EXCEPT ![w] = "fsync"]
    /\ UNCHANGED <<file, disk, synced, base, fresh, count, history>>

(* ... reaches the disk ... *)
SyncTemp(w) ==
    /\ pc[w] = "fsync"
    /\ fresh' = [fresh EXCEPT ![w] = TRUE]
    /\ pc' = [pc EXCEPT ![w] = "replace"]
    /\ UNCHANGED <<file, disk, synced, base, count, history>>

(* ... and takes the name of the ledger. *)
Replace(w) ==
    /\ pc[w] = "replace"
    /\ file' = Extended(w) /\ synced' = fresh[w]
    /\ saved' = saved \cup {ThisRun(w)}
    /\ excused' = IF w \in met THEN excused \cup {ThisRun(w)} ELSE excused
    /\ Leave(w)
    /\ UNCHANGED <<disk, count, met>>

(* An error unlinks the temporary file and raises; a kill leaves it behind,
   where nothing looks at it again. *)
GiveUp(w) ==
    /\ pc[w] # "idle" /\ Leave(w)
    /\ UNCHANGED <<file, disk, synced, count, history>>
-----------------------------------------------------------------------------
Delete ==
    /\ Deletes /\ file # NoFile
    /\ file' = NoFile /\ synced' = TRUE
    /\ saved' = {} /\ excused' = {}
    /\ UNCHANGED <<disk, writing, count, met>>

FlushName ==
    /\ disk # file /\ disk' = file
    /\ UNCHANGED <<file, synced, writing, count, history>>

(* Power fails: the name may be the old one, and data that was not fsynced
   is gone. *)
Outage ==
    /\ file' \in {disk, IF synced THEN file ELSE Torn}
    /\ disk' = file' /\ synced' = TRUE
    /\ saved' = saved \cap RunsIn(file') /\ excused' = excused \cap RunsIn(file')
    /\ pc' = [w \in Writers |-> "idle"]
    /\ base' = [w \in Writers |-> Empty]
    /\ fresh' = [w \in Writers |-> FALSE]
    /\ UNCHANGED <<count, met>>

Proceed(w) == WriteTemp(w) \/ SyncTemp(w) \/ Replace(w)

LedgerNext == \/ \E w \in Writers : Load(w) \/ Proceed(w) \/ GiveUp(w)
              \/ Delete \/ FlushName \/ Outage

LedgerSpec == LedgerInit /\ [][LedgerNext]_ledgerVars
-----------------------------------------------------------------------------
(* A reader finds a whole ledger or none, whenever a writer is killed or    *)
(* power fails: the temporary file is fsynced before it is renamed          *)
(* (history_io.py:198-207).                                                 *)
LedgerWhole == file # Torn

(* A recorded run can only disappear because another append_run was at work *)
(* during the call that recorded it: what the header of history_io.py calls *)
(* single-writer code loses nothing with a single writer, and with several  *)
(* it loses nothing that was recorded before or after them.                 *)
LostOnlyToOverlap == saved \ excused \subseteq RunsIn(file)

(* No run is recorded twice, and the runs of one writer are in order, in    *)
(* whatever way the writers overwrite each other.                           *)
RunsInOrder == file \in Ledger =>
    \A j, k \in DOMAIN file.runs :
       j < k /\ file.runs[j].by = file.runs[k].by => file.runs[j].nr < file.runs[k].nr
=============================================================================
