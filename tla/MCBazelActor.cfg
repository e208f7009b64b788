CONSTANTS
    on = on
    off = off
    NoConfig = NoConfig
    Configs <- MCConfigs
    Enabled <- MCEnabled
    MaxAsks = 2
    MaxQueue = 2
    MaxEdits = 1
SPECIFICATION FairSpec
INVARIANTS
    SupersededChildIsSignalled
    InterruptHasACause
    ServedInOrder
    RestReflectsAsks
PROPERTIES
    KeepsPromise
    StopReturns
    ComesToRest
