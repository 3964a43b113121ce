SPECIFICATION Spec
CONSTANTS
    Hour = 2
    MaxUpdates = 2
    MaxEvents = 2
INVARIANTS
    SuccessIsExplained
    FailureIsExplained
    ReadyIsReceived
    PodIsDeleted
PROPERTIES
    CallerReturns
