CONSTANTS
    Members = {m1, m2}
    Stranger = stranger
    MembersFork = {FALSE}
    NumberReuse = TRUE
    MaxChunks = 1
    Leaks <- NoLeaks
    Faults = {"setup", "rmdir", "stream_read", "control_read"}
    ControlledSet = {FALSE, TRUE}
    IsolatedSet = {FALSE, TRUE}
    CaptureSet = {FALSE, TRUE}
SPECIFICATION Spec
INVARIANTS
    TypeOK
    VerifiedMeansGone
    CompleteCapture
    NoStraySignal
PROPERTIES
    ReapedAfterMembers
