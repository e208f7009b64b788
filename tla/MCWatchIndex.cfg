CONSTANTS
    build = build
    other = other
    bzl = bzl
    ignore = ignore
    rc = rc
    imported = imported
    dir = dir
    a = a
    b = b
    Absent = Absent
    Files <- IndexFiles
    Labels <- MCLabels
    Texts <- IndexTexts
    Dirs = {}
    Inside <- NoInside
    Build <- MCBuild
    Loads = {}
    RcNamed <- JustRc
    Rc = rc
    Bazelignore = ignore
    Excluded <- JustRc
    MaxTargetFiles = 1
    MaxEdits = 2
    MaxMoves = 0
    MaxReindex = 0
    SettleTicks = 1
SPECIFICATION Spec
INVARIANT IndexIsCurrent
