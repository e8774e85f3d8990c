SPECIFICATION Spec
CONSTANTS
    Tiktoken = FALSE
    Dirs <- MCDirs
    Parent <- MCParent
    Stops <- MCStops
    Folder <- MCFolder
    Skills <- MCSkills
    Sorted <- MCSorted
    Walk <- MCWalk
    Hidden <- MCHidden
    MaxFiles = 2
    MaxBytes = 4
    Worlds <- MCWorlds
    Saves <- MCSaves
    Texts <- MCTexts
    MaxEdits = 1
INVARIANTS
    TypeOK
    OwnSettings
    OneMeaning
    StrictOnlyTightens
