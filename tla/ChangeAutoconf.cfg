\* the autoconf controller alone: saves and flags are separate transactions
SPECIFICATION Spec
CHECK_DEADLOCK FALSE
CONSTANTS
    p1 = p1
    p2 = p2
    Plugins = {p1, p2}
    Waiters = {}
    Autoconf = {ac}
    ApiWriters = {}
    JobWrites <- NoJobWrites
    PortPlugins = {}
    Events = {}
    Boot = FALSE
    MaxWrites = 3
    MaxRestarts = 0
INVARIANTS TypeOK QuiescentIsLive JobsFollowChanges
PROPERTY Converges
