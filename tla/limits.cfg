CONSTANTS
    MaxRlim = 7
    Values = {0, 3, 6, 7, 9}
    HardLimits = {0, 2, 3, 5, 7}
    Preferred = 5
    None = None
    LimitFaults = {"fork", "getrlimit", "setrlimit", "containment"}
SPECIFICATION Spec
INVARIANTS
    LimitsStayExact
    FilterDecides
    ProbeFailsForCause
PROPERTIES
    CeilingIsKept
