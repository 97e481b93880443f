CONSTANTS
    Top = 19
    Standards <- SomeStandards
    Others <- SomeOthers
    Setups <- Fallback
    Streams <- Paired
    None = None
    MaxReplaced = 2
    MaxOpened = 1
    MaxClosed = 1
SPECIFICATION Spec
INVARIANT OnlyStreamsSurvive
CHECK_DEADLOCK FALSE
