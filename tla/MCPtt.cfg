SPECIFICATION FairSpec
CONSTANTS
    MaxTx = 2
    Grace = 1
    ReleaseAttempts = 5
    TasksMayDie = TRUE
    GuardianMayDie = TRUE
    MaxJobs = 2
    MaxAborts = 1
    MaxFaults = 2
INVARIANTS NoClippedAudio KeyedBoundedIfObeyed GuardianArmed StoppedMeansReleased
PROPERTIES EventuallyReleased
CHECK_DEADLOCK FALSE
