\* REST API requests save without waiting for the scheduler
SPECIFICATION Spec
CHECK_DEADLOCK FALSE
CONSTANTS
    p1 = p1
    p2 = p2
    Plugins = {p1}
    Waiters = {}
    Autoconf = {}
    ApiWriters = {api}
    JobWrites <- NoJobWrites
    PortPlugins = {}
    Events = {}
    Boot = FALSE
    MaxWrites = 2
    MaxRestarts = 0
INVARIANT QuiescentIsLive
