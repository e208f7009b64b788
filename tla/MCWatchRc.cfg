CONSTANTS
    build = build
    other = other
    bzl = bzl
    ignore = ignore
    rc = rc
    imported = imported
    dir = dir
    a = a
    b = b
    Absent = Absent
    Files <- RcFiles
    Labels <- MCLabels
    Texts <- RcTexts
    Dirs = {}
    Inside <- NoInside
    Build = {}
    Loads <- MCLoads
    RcNamed <- AllRc
    Rc = rc
    Bazelignore = ignore
    Excluded = {}
    MaxTargetFiles = 1
    MaxEdits = 2
    MaxMoves = 0
    MaxReindex = 0
    SettleTicks = 1
SPECIFICATION Spec
INVARIANTS
    BazelIsAsked
    ConfigurationIsCurrent
    WakeFollowsStore
