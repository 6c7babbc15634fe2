SPECIFICATION Spec
CONSTANTS
    Modes <- TwoModes
    Rects <- WholeOrPart
    Transforms <- UprightOrTurned
    Protections <- Never
    AcquireFences <- Never
    Kinds <- FencesOnly
    MaxFences = 0
    FrameRates <- NoRates
    Faults <- ConfigFaults
INVARIANT FrameProcessedAsConfigured
INVARIANT EngineRecovers
