------------------------- MODULE MCHistoryMigration -------------------------
(* One run for the ledger and its migration.  Three writers use the ledger,   *)
(* are killed and lose power while nothing was migrated yet; Scope lets two   *)
(* of them go on, with one run each, beside two migrations, and ends what is  *)
(* looked at once power has failed and a migration was repeated after it.     *)
EXTENDS HistoryMigration, FiniteSets, TLC

Unused == objects = {} /\ lost = {} /\ \A m \in Migrators : mpc[m] = "idle"

Scope == \/ Unused
         \/ /\ \A w \in Writers : count[w] <= 1
            /\ Cardinality({w \in Writers : count[w] = 1}) <= 2
            /\ disk \notin Ledger \/ disk.runs = <<>>
            /\ lost # {} => /\ \A w \in Writers : pc[w] = "idle"
                           /\ Cardinality({m \in Migrators : mpc[m] # "idle"}) <= 1
            /\ Cardinality(lost) <= 1

Symmetry == Permutations(Writers) \cup Permutations(Migrators)
=============================================================================
