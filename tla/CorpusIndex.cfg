SPECIFICATION Spec
CONSTANTS
    MaxDocs = 2
    MaxChunks = 3
    Sizes = {0, 1, 2}
    Dims = {1, 2}
    Batch = 2
    Workers = 2
    Threshold = 3
    K = 1
INVARIANTS
    CachesCurrent
    DeletedHidden
    DenseFull
    LexicalFull
    BuildReachesAll
PROPERTY ReadersReadOnly
