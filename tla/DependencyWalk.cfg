\* Three documents that link to each other and to defective targets in any way,
\* and four in layers, where both limits bite and depend on the order.
CONSTANTS
    Docs = {"SKILL", "a", "b", "c"}
    Skill = "SKILL"
    Leaves = {"x"}
    Gone = "gone"
    Outside = "outside"
    Texts <- EveryText
    Limit = 3
    MaxFiles = 4
SPECIFICATION Spec
INVARIANTS TypeOK CompleteMeansClosed SoundIsComplete CycleIffReported
\* The walk ends.
CHECK_DEADLOCK FALSE
