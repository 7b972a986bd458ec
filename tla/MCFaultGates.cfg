SPECIFICATION FairSpec
CONSTANTS
    Readers = {r1}
    Fanout = 2
    Pages = {0, 1, 2, 4}
    Contents = {"a", "b"}
    ContentOf <- AlikeBothWays
    Stripes = 2
    Batches <- NoneOrAll
    MaxReads = 2
    MaxPrefetches = 2
    MaxFailures = 1
    MaxPanics = 1
INVARIANTS TypeOK RenameFindsItsFile FetchedOnce
PROPERTIES PrefetchWarms ReadsReturn PrefetchReturns
CHECK_DEADLOCK FALSE
