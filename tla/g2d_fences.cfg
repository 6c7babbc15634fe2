SPECIFICATION Spec
CONSTANTS
    MaxLayers = 2
    MaxFences = 3
    Kinds <- AllKinds
    AcquireFences <- Both
    Backgrounds <- Both
    Needs <- OneLength
    Protections <- Never
    Priorities <- DefaultOnly
    ValidPriorities <- DefaultOnly
    PrioOutcomes <- ReliableDriver
    Faults <- SubmitFaults
INVARIANT TypeOK
INVARIANT DescriptorHoldsJob
PROPERTY ReleaseFencesAsRequested
PROPERTY ImplementsContract
