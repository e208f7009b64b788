SPECIFICATION FairSpec
CONSTANTS
    Byte <- MCByte
    Outputs <- MCOutputs
    MaxErrors = 2
    OutRoom = 3
    ErrRoom = 1
    BufferSize = 2
    Base = 2
    MaxVarint = 3
    Declared <- MCDeclared
INVARIANT StreamIsWhole
PROPERTIES
    AnswersTheWhole
    CommandReturns
