SPECIFICATION CountSpec
CONSTANTS
    Instances = {i1, i2}
    Busy = i1
    Services = {s}
    Global = global
    CacheTTL = 2
    RedisModes = {TRUE, FALSE}
    KeptBans = {3}
    MaxFaults = 1
    Scope <- MCScope
    Mode <- MCMode
    Threshold = 2
    CountTime = 2
    BanTime <- MCBanTime
    Whitelisted = {"yes", "no"}
    MaxRequests <- MCMaxRequests
    OrderTimes = {2}
    MaxOrders = 1
INVARIANTS CountTypeOK LoopsInBounds UnbansPropagate NoOvercount BansJustified
PROPERTIES Fades
