SPECIFICATION Spec
CONSTANTS
    MaxLayers = 1
    MaxFences = 0
    Kinds <- AllKinds
    AcquireFences <- Never
    Backgrounds <- Never
    Needs <- OneLength
    Protections <- Never
    Priorities <- DefaultOnly
    ValidPriorities <- DefaultOnly
    PrioOutcomes <- ReliableDriver
    Faults <- NoFaults
INVARIANT BlockingExecuteBlocks
