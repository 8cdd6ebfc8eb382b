\* an instance restarts: the health check sends it the configuration
SPECIFICATION Spec
CHECK_DEADLOCK FALSE
CONSTANTS
    i1 = i1
    i2 = i2
    Order <- Two
    Faults = {"restart"}
    Tested = TRUE
    SlowBackup = FALSE
    MaxPass = 1
    MaxFaults = 1
INVARIANT HealthyListed
