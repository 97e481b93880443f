CONSTANTS
    Members = {m1}
    Stranger = stranger
    MembersFork = {}
    NumberReuse = FALSE
    MaxChunks = 1
    Leaks <- NoLeaks
    Faults = {}
    ControlledSet = {TRUE}
    IsolatedSet = {FALSE}
    CaptureSet = {TRUE}
SPECIFICATION Spec
INVARIANT MembersHaveTheirGrace
