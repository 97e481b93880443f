CONSTANTS
    Top = 19
    Standards <- SomeStandards
    Others <- SomeOthers
    Setups <- Any
    Streams <- Paired
    None = None
    MaxReplaced = 2
    MaxOpened = 1
    MaxClosed = 1
SPECIFICATION Spec
INVARIANTS
    ExactInterpreter
    SurvivorsAreAboveLimit
    StreamsAsRequested
    FailureIsReported
CHECK_DEADLOCK FALSE
