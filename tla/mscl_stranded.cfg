SPECIFICATION Spec
CONSTANTS
    Modes <- OneMode
    Rects <- OneRect
    Transforms <- Upright
    Protections <- Never
    AcquireFences <- Never
    Kinds <- FencesOnly
    MaxFences = 0
    FrameRates <- NoRates
    Faults <- QueueFaults
INVARIANT EngineRecovers
