SPECIFICATION FairSpec
CONSTANTS
    rc = rc
    imported = imported
    Uris <- MCUris
    Nobody = Nobody
    RcNamed <- JustRc
    Build <- MCBuild
    CompletedCapacity = 1
    MaxNotes = 2
    MaxStores = 2
INVARIANTS ShownIsCurrent CutLintsAreNotShown CancelledChildIsKilled RestIsComplete
PROPERTIES Settles DropReturns
CHECK_DEADLOCK FALSE
