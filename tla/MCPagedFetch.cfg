\* Lists of up to five items in pages of two: empty, partial, full, two full pages.
SPECIFICATION Spec
CONSTANTS
    Kinds = {"orders", "loans", "products"}
    CHUNK_SIZE = 2
    MaxItems = 5
INVARIANTS
    TypeOK
    CompleteList
    NoDuplicates
    MissedBounded
    ActiveAreReturned
CHECK_DEADLOCK FALSE
