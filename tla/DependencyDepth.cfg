\* Chains that are longer than the walk's limit when measured from a document
\* that was met early.
CONSTANTS
    Docs = {"SKILL", "a", "b", "c"}
    Skill = "SKILL"
    Leaves = {"x"}
    Gone = "gone"
    Outside = "outside"
    Texts <- LayeredTexts
    Limit = 2
    MaxFiles = 5
SPECIFICATION Spec
INVARIANTS RoundsSuffice
CHECK_DEADLOCK FALSE
