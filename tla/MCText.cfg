SPECIFICATION TextSpec
CONSTANTS
    Wide <- MCWide
    Conditions <- MCConditions
    Commands <- MCCommands
    ConfigCommands <- MCConfigCommands
    Candidates <- MCCandidates
    Declared <- MCDeclared
    Texts <- MCTexts
    Typed <- MCTyped
    MaxCut = 1
    MaxVersion = 2
    MaxTail = 3
INVARIANTS BufferFollowsClient TokensAreExact StructureFollowsText CompletionsKeepTokens
CHECK_DEADLOCK FALSE
