\* The release decision under four scenarios (Scope): who may authorise a record, which
\* records outlive a change of the candidate, records that contradict each other, and
\* approvals of two runs of the scheduler.
CONSTANTS
    Paths <- TreePaths
    Blobs <- TreeBlobs
    Contents <- TreeContents
    Links <- TreeLinks
    Describes <- TreeDescribes
    FirstTree <- TreeFirst
    PolicyRules <- AllRules
    Outcomes <- AllOutcomes
    Skill = "SKILL.md"
    CheckIds = {"lint", "optional"}
    Ids = {"v1", "v2"}
    Values = {"named", "none", "unknown"}
    Unknown = "unknown"
    NoModel = "none"
    NoScope = NoScope
    Absent = Absent
    Opaque = {"a1"}
    MaxRounds = 32
    Skew = 0
    RunIds = {r1, r2}
    NoRun = NoRun
    Lifetime = 2
    MaxRecords = 2
    MaxNow = 2
    MaxEdits = 2
SPECIFICATION Spec
CONSTRAINT Scope
INVARIANTS TypeOK PassIsEarned ClosureUnchanged SelfReportsIgnored FailureIsFinal
\* The command ends.
CHECK_DEADLOCK FALSE
