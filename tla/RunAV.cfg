\* an upload scanned; two processes that log; a configuration and a block list read by
\* the library
SPECIFICATION AllSpec
CHECK_DEADLOCK FALSE
CONSTANTS
    c1 = c1
    c2 = c2
    Names <- FileNames
    Kinds = {"ok", "found", "empty", "noaccess"}
    MaxReports = 2
    OutputSize = 12
    LineSize = 4
    Procs = {c1, c2}
    NumParams = 1
    ConfNames <- RpcNames
    Globals <- RpcNames
    Part <- RpcPart
    Values = {"v1", "v2"}
    MaxParams = 2
    MaxLines = 3
    Ips <- Addresses
    Containing <- AddressPart
    MaxIps = 4
INVARIANTS TypeOK Accounting AnswerFollowsReports ConfOwnValue SweepKeeps EntriesWhole
PROPERTIES Answers LogEnds
