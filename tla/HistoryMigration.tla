-------------------------- MODULE HistoryMigration --------------------------
(***************************************************************************)
(* tracemantle migrate-history: history_store.migrate_legacy copies a      *)
(* legacy ledger into the content-addressed store while the ledger may be  *)
(* in use.  It reads the ledger twice: load_ledger parses and validates    *)
(* one content, read_bounded_bytes takes the bytes that are preserved.     *)
(* Composes LegacyLedger with ImmutableStore.                              *)
(***************************************************************************)
EXTENDS LegacyLedger

CONSTANTS Migrators,  \* processes that run the command
          Original    \* stands for the ledger's bytes among its records

VARIABLES objects, acked,     \* the store, see ImmutableStore
          lost,       \* history: objects a power failure took away
          mpc, parsed, copy, next,  \* per migrator: step, the two reads, index
          migrated,   \* history: contents whose migration returned
          grown       \* history: while the machine was up, runs were only
                      \* added to the ledger

store     == <<objects, acked, lost>>
migration == <<store, mpc, parsed, copy, next, migrated>>
vars      == <<ledgerVars, migration, grown>>

(* A source copy, or the record of run number index of a source. *)
Object == [source : Ledger \cup {Torn}, index : Nat, run : Run \cup {Original}]
Store  == INSTANCE ImmutableStore WITH Raw <- Object

Source(f)  == [source |-> f, index |-> 0, run |-> Original]

ItemSourceLast(m) ==    \* slip: the records are put before the copy
    IF next[m] = Len(parsed[m].runs) THEN Source(copy[m])
    ELSE [source |-> copy[m], index |-> next[m] + 1, run |-> parsed[m].runs[next[m] + 1]]

Item(m)    == IF next[m] = 0 THEN Source(copy[m])
              ELSE [source |-> copy[m], index |-> next[m], run |-> parsed[m].runs[next[m]]]

TypeOK == /\ LedgerTypeOK
          /\ objects \subseteq Object /\ acked \subseteq objects /\ lost \subseteq Object
          /\ mpc \in [Migrators -> {"idle", "load", "read", "put"}]
          /\ parsed \in [Migrators -> Ledger]
          /\ copy \in [Migrators -> Ledger \cup {Torn}]
          /\ next \in [Migrators -> Nat]
          /\ \A m \in Migrators : next[m] <= Len(parsed[m].runs)
          /\ migrated \subseteq Ledger \cup {Torn} /\ grown \in BOOLEAN

Init == /\ LedgerInit
        /\ objects = {} /\ acked = {} /\ lost = {}
        /\ mpc = [m \in Migrators |-> "idle"]
        /\ parsed = [m \in Migrators |-> Empty]
        /\ copy = [m \in Migrators |-> Empty]
        /\ next = [m \in Migrators |-> 0]
        /\ migrated = {} /\ grown = TRUE
-----------------------------------------------------------------------------
Goto(m, l) == mpc' = [mpc EXCEPT ![m] = l]
Exit(m)    == /\ Goto(m, "idle")
              /\ parsed' = [parsed EXCEPT ![m] = Empty]
              /\ copy' = [copy EXCEPT ![m] = Empty]
              /\ next' = [next EXCEPT ![m] = 0]

(* Slips in migrate_legacy; no specification uses them.  The first two are
   the reads in the other order, see MigrateBytesFirst. *)
BytesFirst(m) ==
    /\ mpc[m] = "load" /\ file # NoFile
    /\ copy' = [copy EXCEPT ![m] = file] /\ Goto(m, "read")
    /\ UNCHANGED <<ledgerVars, store, parsed, next, migrated>>

LedgerSecond(m) ==
    /\ mpc[m] = "read" /\ file \in Ledger
    /\ parsed' = [parsed EXCEPT ![m] = file] /\ Goto(m, "put")
    /\ UNCHANGED <<ledgerVars, store, copy, next, migrated>>

ReturnedAhead(m) ==     \* the index runs past the last run
    /\ mpc[m] = "put" /\ Store!Acknowledge(Item(m))
    /\ next' = [next EXCEPT ![m] = @ + 1]
    /\ UNCHANGED <<ledgerVars, lost, mpc, parsed, copy, migrated>>
-----------------------------------------------------------------------------
(* A store beside the ledger's skill is refused before anything is read. *)
StartMigration(m) ==
    /\ mpc[m] = "idle" /\ Goto(m, "load")
    /\ UNCHANGED <<ledgerVars, store, parsed, copy, next, migrated>>

(* load_ledger: any skill's ledger will do, a malformed or missing one not. *)
LoadSource(m) ==
    /\ mpc[m] = "load" /\ file \in Ledger
    /\ parsed' = [parsed EXCEPT ![m] = file] /\ Goto(m, "read")
    /\ UNCHANGED <<ledgerVars, store, copy, next, migrated>>

(* The same name is read again, as bytes. *)
ReadSource(m) ==
    /\ mpc[m] = "read" /\ file # NoFile
    /\ copy' = [copy EXCEPT ![m] = file] /\ Goto(m, "put")
    /\ UNCHANGED <<ledgerVars, store, parsed, next, migrated>>

(* put_bytes of the copy, then put_record of each run that was parsed. *)
Publish(m) ==
    /\ mpc[m] = "put" /\ Store!Publish(Item(m))
    /\ UNCHANGED <<ledgerVars, lost, mpc, parsed, copy, next, migrated>>

Returned(m) ==
    /\ mpc[m] = "put" /\ Store!Acknowledge(Item(m))
    /\ IF next[m] = Len(parsed[m].runs)
       THEN Exit(m) /\ migrated' = migrated \cup {copy[m]}
       ELSE next' = [next EXCEPT ![m] = @ + 1] /\ UNCHANGED <<mpc, parsed, copy, migrated>>
    /\ UNCHANGED <<ledgerVars, lost>>

(* An error ends the command with status 2; so does a kill, without a status. *)
Abandon(m) ==
    /\ mpc[m] # "idle" /\ Exit(m)
    /\ UNCHANGED <<ledgerVars, store, migrated>>

MigrateBytesFirst(m) == \/ StartMigration(m) \/ BytesFirst(m) \/ LedgerSecond(m)
                        \/ Publish(m) \/ Returned(m) \/ Abandon(m)

Migrate(m) == \/ StartMigration(m) \/ LoadSource(m) \/ ReadSource(m)
              \/ Publish(m) \/ Returned(m) \/ Abandon(m)

Use == \/ \E w \in Writers : Load(w) \/ Proceed(w) \/ GiveUp(w)
       \/ Delete \/ FlushName

(* Power fails: besides what happens to the ledger, names that the directories
   sources/ and records/ had not written back are gone, in either of them and
   in no order, as put_bytes fsyncs no directory; no process goes on. *)
PowerFails ==
    /\ Outage /\ Store!Outage
    /\ lost' = lost \cup (objects \ objects')
    /\ mpc' = [m \in Migrators |-> "idle"]
    /\ parsed' = [m \in Migrators |-> Empty]
    /\ copy' = [m \in Migrators |-> Empty]
    /\ next' = [m \in Migrators |-> 0]
    /\ UNCHANGED <<migrated, grown>>

(* The runs of g stand at the beginning of f. *)
Extends(f, g) == /\ Len(g.runs) <= Len(f.runs)
                 /\ \A k \in 1 .. Len(g.runs) : f.runs[k] = g.runs[k]
Watch == grown' = (grown /\ (file \in Ledger => file' \in Ledger /\ Extends(file', file)))

Next == \/ \E m \in Migrators : Migrate(m) /\ UNCHANGED grown
        \/ Use /\ Watch /\ UNCHANGED migration
        \/ PowerFails

Spec == Init /\ [][Next]_vars
-----------------------------------------------------------------------------
(* A record of run number n of a source copy is what stands there as run    *)
(* number n.  The two reads may differ; so long as runs were only added to  *)
(* the ledger, the second is the first with runs added, and every label is  *)
(* right (history_store.py:68-81).                                          *)
LabelsAreRight ==
    grown => \A o \in objects : o.run # Original =>
                /\ o.source \in Ledger /\ o.index \in DOMAIN o.source.runs
                /\ o.source.runs[o.index] = o.run

(* Whenever a record can be read, the copy of its source can be read too,   *)
(* also when the migration was killed or ended with an error in the middle: *)
(* only a power failure may take the copy away and leave the record, as the *)
(* two lie in directories that nobody fsyncs (history_store.py:74-80).      *)
RecordsHaveSources == \A o \in objects : Source(o.source) \in objects \cup lost

(* A migration that was repeated, or that ran twice at a time, leaves one   *)
(* record for each run of a source, under the same condition: the same      *)
(* names are reused.                                                        *)
OneRecordPerRun ==
    grown => \A o, p \in objects : o.source = p.source /\ o.index = p.index => o = p

(* docs/migration.md:32: "Migration validates the complete ledger,          *)
(* preserves its original bytes [...] and writes content-addressed          *)
(* records": what was preserved by a migration that returned is what was    *)
(* validated, so each run in it has its record.                             *)
CopyFullyMigrated ==
    \A f \in migrated : /\ f \in Ledger
                        /\ \A n \in DOMAIN f.runs :
                             \E o \in objects \cup lost : o.source = f /\ o.index = n
=============================================================================
