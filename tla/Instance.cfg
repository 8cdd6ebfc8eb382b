\* uploads of one kind that may overlap; requests that are counted
SPECIFICATION InstanceSpec
CHECK_DEADLOCK FALSE
CONSTANTS
    u1 = u1
    u2 = u2
    f = f
    g = g
    r1 = r1
    r2 = r2
    r3 = r3
    r4 = r4
    w1 = w1
    w2 = w2
    Uploads = {u1, u2}
    Original = original
    Absent = absent
    Files = {f, g}
    Holds <- MCHolds
    Chunks = 2
    MaxFaults = 1
    MaxKills = 1
    Requests = {r1, r2, r3, r4}
    Workers = {w1, w2}
    RateMax = 2
    GlobalMax = 2
    Delay = 1
    Fine = 2
    MaxClock = 4
    MaxMishaps = 1
SYMMETRY Alike
INVARIANTS TypeOK LimitTypeOK RateHeld GlobalHeld
PROPERTIES Installed NothingLost LimitedFairly
