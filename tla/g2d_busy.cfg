SPECIFICATION Spec
CONSTANTS
    MaxLayers = 2
    MaxFences = 0
    Kinds <- FencesOnly
    AcquireFences <- Never
    Backgrounds <- Never
    Needs <- OneLength
    Protections <- Never
    Priorities <- TwoPriorities
    ValidPriorities <- TwoPriorities
    PrioOutcomes <- OkOrBusy
    Faults <- BusyFaults
INVARIANT PriorityAgreement
