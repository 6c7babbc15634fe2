SPECIFICATION Spec
CONSTANTS
    DefaultCompositor = "fimg2d_9810"
    DefaultScaler = "mscl_9810"
    DefaultBlter = "fimg2d_9810_blter"
    Names <- AllNames
    ImageSizes <- SomeImageSizes
    TargetSizes <- SomeTargetSizes
    Requests <- SomeRequests
    PerfMaxFrames = 2
    DummyLayers = 1
    MaxFences = 2
INVARIANT TypeOK
INVARIANT CapabilityFitsBackend
INVARIANT PrescaleInOnePass
INVARIANT EstimateCoversTraffic
INVARIANT CommandsReturned
PROPERTY DummyImplementsContract
