SPECIFICATION Spec
CONSTANTS
    Modes <- OneMode
    Rects <- OneRect
    Transforms <- UprightOrTurned
    Protections <- Never
    AcquireFences <- Never
    Kinds <- FencesOnly
    MaxFences = 0
    FrameRates <- NoRates
    Faults <- FlipFaults
INVARIANT FrameProcessedAsConfigured
