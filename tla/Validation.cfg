CONSTANTS
    Runs = {r1, r2}
    Skills = {"a", "b"}
    Inside = {}
    Texts = {"t1", "t2", "t3"}
    Parts = {"p1", "p2"}
    Contents <- MCContents
    Fragile = {"a"}
    Broken = {"t3"}
    Found <- MCFound
    Graph <- MCGraph
    Requests <- MCRequests
    None = None
    Foreign = Foreign
    MaxRecords = 1
SPECIFICATION Spec
INVARIANTS TypeOK RecordsTellExit RegressionSeen RegressionTrue MalformedNeverPasses HistoryDoesNotJudge
SYMMETRY MCSymmetry
CHECK_DEADLOCK FALSE
