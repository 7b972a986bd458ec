SPECIFICATION Spec
CONSTANTS
    Readers = {r1, r2}
    Fanout = 2
    Pages = {0, 1, 2}
    Contents = {"a", "b"}
    ContentOf <- AlikeApart
    Stripes = 2
    Batches = {}
    MaxReads = 1
    MaxPrefetches = 0
    MaxFailures = 0
    MaxPanics = 0
INVARIANTS NoLostRename
CHECK_DEADLOCK FALSE
