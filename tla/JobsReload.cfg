\* periodic jobs only, all of them successful, and no delivery fails
SPECIFICATION Spec
CONSTANTS
    blacklist = blacklist
    greylist = greylist
    mmdb = mmdb
    asn = asn
    p1 = p1
    p2 = p2
    p3 = p3
    Jobs <- TwoJobs
    PluginOf <- TwoPlugins
    Async = {}
    Outcomes <- Updates
    Sends = {TRUE}
    MaxDue = 1
    MaxOnce = 0
PROPERTY CacheReaches
