SPECIFICATION Spec
CONSTANTS
    NAMES <- MCNAMES
    MaxNumber = 99
    Root <- MCRoot
    Current <- MCCurrent
    DeepChain = 2
    Files <- MCFiles
    Paths <- MCPaths
    Link <- MCLink
    Contents <- MCContents
    Flags <- MCFlags
    MaxSteps = 3
INVARIANTS
    ViewIsWhatSavingWouldPublish
    RenameKeepsExpansions
    FindingsFollowExpansion
    ErrorsLeadToTheCause
    AnswersAgree
    OffersAreAccepted
CHECK_DEADLOCK FALSE
