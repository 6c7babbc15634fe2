SPECIFICATION Spec
CONSTANTS
    MaxLayers = 2
    MaxFences = 0
    Kinds <- FencesOnly
    AcquireFences <- Never
    Backgrounds <- Never
    Needs <- OneLength
    Protections <- Never
    Priorities <- DefaultOnly
    ValidPriorities <- DefaultOnly
    PrioOutcomes <- ReliableDriver
    Faults <- AllocFaults
INVARIANT NoPartialSubmission
