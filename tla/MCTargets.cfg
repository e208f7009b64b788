SPECIFICATION Spec
CONSTANTS
    Dirs <- MCDirs
    Above <- MCAbove
    LastOf <- MCLastOf
    Kind <- MCKind
    Contents <- MCContents
    Graphs <- MCGraphs
    Fresh <- MCFresh
    MaxSteps = 3
INVARIANTS
    SavingIsForeseen
    CaretIsAmongItsAnswers
    RenameKeepsTheBuild
CHECK_DEADLOCK FALSE
