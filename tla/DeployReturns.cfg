\* the instance goes down and restarts
SPECIFICATION Spec
CHECK_DEADLOCK FALSE
CONSTANTS
    i1 = i1
    i2 = i2
    Order <- One
    Faults = {"down", "restart", "upload", "gen"}
    Tested = TRUE
    SlowBackup = FALSE
    MaxPass = 2
    MaxFaults = 2
PROPERTY HealthyAgain
