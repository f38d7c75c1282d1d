SPECIFICATION Spec
CONSTANTS
    MaxTx = 2
    Grace = 1
    ReleaseAttempts = 5
    TasksMayDie = FALSE
    GuardianMayDie = FALSE
    MaxJobs = 1
    MaxAborts = 0
    MaxFaults = 1
INVARIANTS KeyedBounded
CHECK_DEADLOCK FALSE
