SPECIFICATION Spec
CONSTANTS
    Uri = {u, v}
    Anon = anon
    CheckpointAt = 2
    Faults = {"write", "sync", "save", "truncate", "build", "crash", "power"}
    MaxWrites = 3
    MaxItems = 2
    MaxLog = 4
SYMMETRY Symmetry
INVARIANTS
    AckedWritesSurvive
    ReplayIsExact
