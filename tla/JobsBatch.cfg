\* two plugins, an async job, every exit code, deliveries that fail
SPECIFICATION Spec
CONSTANTS
    blacklist = blacklist
    greylist = greylist
    mmdb = mmdb
    asn = asn
    p1 = p1
    p2 = p2
    p3 = p3
    Jobs <- ThreeJobs
    PluginOf <- ThreePlugins
    Async = {mmdb}
    Outcomes <- Downloads
    Sends = {TRUE, FALSE}
    MaxDue = 1
    MaxOnce = 1
INVARIANT TypeOK
INVARIANT BatchVerdict
PROPERTY BatchServed
