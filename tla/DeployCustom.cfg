\* custom configs that nginx refuses
SPECIFICATION Spec
CHECK_DEADLOCK FALSE
CONSTANTS
    i1 = i1
    i2 = i2
    Order <- One
    Faults = {"bad_custom"}
    Tested = TRUE
    SlowBackup = FALSE
    MaxPass = 3
    MaxFaults = 0
INVARIANT SnapshotWorks
