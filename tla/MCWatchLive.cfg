CONSTANTS
    build = build
    other = other
    bzl = bzl
    ignore = ignore
    rc = rc
    imported = imported
    dir = dir
    a = a
    b = b
    Absent = Absent
    Files <- IndexFiles
    Labels <- MCLabels
    Texts <- LiveTexts
    Dirs <- MCDirs
    Inside <- OtherInside
    Build <- MCBuild
    Loads = {}
    RcNamed <- JustRc
    Rc = rc
    Bazelignore = ignore
    Excluded = {}
    MaxTargetFiles = 1
    MaxEdits = 0
    MaxMoves = 1
    MaxReindex = 1
    SettleTicks = 2
SPECIFICATION FairSpec
PROPERTIES
    WakesAreServed
    DropReturns
