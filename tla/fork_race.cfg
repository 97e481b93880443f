CONSTANTS
    Members = {m1, m2}
    Stranger = stranger
    MembersFork = {TRUE}
    NumberReuse = FALSE
    MaxChunks = 1
    Leaks <- NoLeaks
    Faults = {}
    ControlledSet = {TRUE}
    IsolatedSet = {FALSE}
    CaptureSet = {TRUE}
SPECIFICATION Spec
INVARIANT VerifiedMeansGone
