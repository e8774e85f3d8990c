\* A declared input that SKILL.md does not lead to.
CONSTANTS
    Paths <- TreePaths
    Blobs <- TreeBlobs
    Contents <- TreeContents
    Links <- TreeLinks
    Describes <- TreeDescribes
    FirstTree <- LooseFirst
    PolicyRules <- LooseRules
    Outcomes <- LooseOutcomes
    CheckIds = {"lint"}
    Ids = {"v1"}
    Values = {"named", "none", "unknown"}
    Unknown = "unknown"
    NoModel = "none"
    NoScope = NoScope
    Absent = Absent
    MaxRounds = 32
    Skew = 0
    Skill = "SKILL.md"
    Opaque = {"a1"}
    RunIds = {}
    NoRun = NoRun
    Lifetime = 2
    MaxRecords = 1
    MaxNow = 0
    MaxEdits = 1
SPECIFICATION Spec
INVARIANTS DeclaredClosureInvalidates
\* The command ends.
CHECK_DEADLOCK FALSE
