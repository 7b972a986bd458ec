SPECIFICATION Spec
CONSTANTS
    Bytes = {0, 1}
    PageSize = 2
    DbFiles <- MCFiles
    Blank <- MCBlank
    MaxManifests = 3
    MaxVouched = 2
INVARIANTS TypeOK TokenComplete DurableInBucket HistoryReadable
PROPERTIES SnapshotIsWhatQueriesSaw SnapshotsSpec
