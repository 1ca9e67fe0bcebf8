SPECIFICATION Spec
CONSTANTS
    Record = {a, b}
    Durable = TRUE
    MaxBatch = 2
    MaxLog = 4
SYMMETRY Symmetry
INVARIANT EveryAckedReplayed
