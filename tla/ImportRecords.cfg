\* Two imports at a time of exports of every kind, with crashes and outages.
CONSTANTS
    Importers = {i1, i2}
    Versions = {"v1", "v2"}
    Exports <- MixedExports
    Rows <- MixedRows
    Requests <- MixedRequests
    NoRequest = NoRequest
    Garbled = Garbled
    Anything = Anything
    Original = Original
    NoFile = NoFile
    Torn = Torn
    Foreign = Foreign
SPECIFICATION Spec
SYMMETRY Symmetry
PROPERTY OutputKept
INVARIANTS TypeOK WholeExportsOnly RecordsHaveSources ReportsAreTrue
CHECK_DEADLOCK TRUE
