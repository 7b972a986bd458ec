SPECIFICATION Spec
CONSTANTS
    MaxLog = 6
    CheckpointRecords = {TRUE}
    TornReads = TRUE
    Altering = FALSE
INVARIANT FollowsPrimary
