\* What the documentation says of a migration that returned.
CONSTANTS
    Writers = {w1}
    MaxRuns = 3
    Deletes = FALSE
    NoFile = NoFile
    Torn = Torn
    Migrators = {m1, m2}
    Original = Original
SPECIFICATION Spec
SYMMETRY Symmetry
INVARIANT CopyFullyMigrated
CHECK_DEADLOCK TRUE
