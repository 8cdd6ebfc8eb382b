\* every writer and every event, beside a running scheduler that may be restarted
SPECIFICATION Spec
CHECK_DEADLOCK FALSE
CONSTANTS
    p1 = p1
    p2 = p2
    Plugins = {p1}
    Waiters = {u1}
    Autoconf = {ac}
    ApiWriters = {api}
    JobWrites <- DownloadJobs
    PortPlugins = {p1}
    Events = {"ui_timeout", "save_error", "generator", "hup"}
    Boot = FALSE
    MaxWrites = 2
    MaxRestarts = 1
 
PROPERTIES FlagsLowered 
