\* A ledger that three writers replace, that is deleted and survives power failures, and
\* two migrations of it while two writers append.
CONSTANTS
    Writers = {w1, w2, w3}
    MaxRuns = 2
    Deletes = TRUE
    NoFile = NoFile
    Torn = Torn
    Migrators = {m1, m2}
    Original = Original
SPECIFICATION Spec
SYMMETRY Symmetry
CONSTRAINT Scope
INVARIANTS TypeOK LedgerWhole LostOnlyToOverlap RecordsHaveSources LabelsAreRight
CHECK_DEADLOCK TRUE
