SPECIFICATION Spec
CONSTANTS
    Handles = {h1, h2}
    Names = {main, feature, spare}
    Contents = {blank, a}
    Blank = blank
    MaxHistory = 2
    Exclusive = TRUE
    CheckpointsFail = FALSE
SYMMETRY HandleSymmetry
INVARIANTS
    TypeOK
    NothingDangles
    RestIsDurable
    AncestryInstalled
PROPERTIES
    NeverAdopts
    IsolatedSpec
