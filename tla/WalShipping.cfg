SPECIFICATION Spec
CONSTANTS
    MaxLog = 7
    CheckpointRecords = {TRUE, FALSE}
    TornReads = FALSE
    Altering = FALSE
INVARIANTS
    TypeOK
    FollowsPrimary
    AppliedIsHead
PROPERTIES
    MonotoneView
    RestoreIsExact
    ReplicaSpec
