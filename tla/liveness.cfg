CONSTANTS
    Members = {m1}
    Stranger = stranger
    MembersFork = {}
    NumberReuse = FALSE
    MaxChunks = 1
    Leaks <- NoneOrAll
    Faults = {"kill", "setup", "exec", "pidfd"}
    ControlledSet = {FALSE, TRUE}
    IsolatedSet = {FALSE}
    CaptureSet = {TRUE}
SPECIFICATION FairSpec
PROPERTIES
    CancellationCompletes
    ExitCompletes
