SPECIFICATION Spec
CONSTANTS
    Process = {p, q}
    MaxSaves = 3
INVARIANTS
    LiveTempKept
    NeverTorn
    ReportedIsDurable
PROPERTIES
    OrphansSwept
    IsRegister
