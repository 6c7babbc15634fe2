SPECIFICATION Spec
CONSTANTS
    MaxLayers = 2
    MaxFences = 0
    Kinds <- FencesOnly
    AcquireFences <- Never
    Backgrounds <- Never
    Needs <- TwoLengths
    Protections <- Both
    Priorities <- RaiseOrInvalid
    ValidPriorities <- TwoPriorities
    PrioOutcomes <- OkOrFail
    Faults <- CacheFaults
INVARIANT TransitBufferSuitsFrame
INVARIANT NoTransitBufferLeak
INVARIANT PriorityAgreement
