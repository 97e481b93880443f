CONSTANTS
    Members = {m1}
    Stranger = stranger
    MembersFork = {}
    NumberReuse = FALSE
    MaxChunks = 1
    Leaks <- NoneOrAll
    Faults <- HonestFaults
    ControlledSet = {FALSE, TRUE}
    IsolatedSet = {FALSE, TRUE}
    CaptureSet = {FALSE, TRUE}
SPECIFICATION Spec
INVARIANTS
    StartedMeansRan
    NotStartedMeansNotRun
    GateHolds
    LeaderIsReaped
    LeaderHasItsGrace
    ScratchIsRemoved
PROPERTIES
    ImplementsContract
