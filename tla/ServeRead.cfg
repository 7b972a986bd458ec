SPECIFICATION Spec
CONSTANTS
    PageSize = 2
    DataLen = 5
    Lens = {3, 5, 7, 8}
    MaxRead = 5
    MaxI64 = 7
    MaxU64 = 15
INVARIANTS TypeOK InBounds RightBytes ReadIsExact
PROPERTIES CursorFollowsTheBytes ReadsReturn
