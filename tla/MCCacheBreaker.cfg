SPECIFICATION BreakerFairSpec
CONSTANTS
    Tasks = {t1, t2, t3}
    FailureThreshold = 2
    Cooldown = 2
    MaxFailures = 4
INVARIANTS
    BreakerTypeOK
    OneProbePerTask
PROPERTIES
    Recovers
