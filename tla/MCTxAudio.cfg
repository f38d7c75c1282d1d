SPECIFICATION FairSpec
CONSTANTS
    Sizes = {1, 3}
    OuterCapacity = 2
    SinkCapacity = 2
    ChunkSize = 2
    DeviceBuffer = 2
    CancelPaths = {"wait"}
    SettleTimesOut = TRUE
    MayFail = TRUE
    MaxJobs = 2
INVARIANTS Lossless PlayedIsHonest HeldBehindDrop
PROPERTIES NoStaleTail CancelSettles EverySubmissionPlays
CHECK_DEADLOCK FALSE
