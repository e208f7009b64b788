SPECIFICATION Spec
CONSTANTS
    Dirs <- MCDirs
    Above <- MCAbove
    LastOf <- MCLastOf
    Kind <- MCKind
    Contents <- MCContents
    Graphs <- MCGraphs
    Fresh <- MCFresh
    MaxSteps = 3
INVARIANT RenameRewritesEveryLabel
CHECK_DEADLOCK FALSE
