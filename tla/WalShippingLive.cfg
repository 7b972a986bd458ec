SPECIFICATION FairSpec
CONSTANTS
    MaxLog = 5
    CheckpointRecords = {TRUE, FALSE}
    TornReads = TRUE
    Altering = TRUE
PROPERTIES
    Converges
