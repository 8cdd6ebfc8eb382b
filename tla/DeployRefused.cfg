\* generated configurations that nginx refuses; the backup ends before the next change
SPECIFICATION Spec
CHECK_DEADLOCK FALSE
CONSTANTS
    i1 = i1
    i2 = i2
    Order <- Two
    Faults = {"bad_confs", "copy", "db"}
    Tested = TRUE
    SlowBackup = FALSE
    MaxPass = 3
    MaxFaults = 0
INVARIANTS TypeOK SnapshotWorks FailoverRestores HealthyListed
