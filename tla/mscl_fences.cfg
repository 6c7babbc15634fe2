SPECIFICATION Spec
CONSTANTS
    Modes <- OneMode
    Rects <- OneRect
    Transforms <- Upright
    Protections <- Both
    AcquireFences <- Both
    Kinds <- AllKinds
    MaxFences = 3
    FrameRates <- OneRate
    Faults <- BufferFaults
INVARIANT TypeOK
INVARIANT FrameProcessedAsConfigured
INVARIANT NoReleaseFenceLeak
PROPERTY QueuedFrameCompletes
PROPERTY QueuesMarkedTogether
PROPERTY ImplementsContract
