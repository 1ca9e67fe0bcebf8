SPECIFICATION Spec
CONSTANTS
    Uri = {u}
    Anon = anon
    CheckpointAt = 3
    Faults = {"crash"}
    MaxWrites = 3
    MaxItems = 1
    MaxLog = 4
SYMMETRY Symmetry
INVARIANT NothingResurrected
