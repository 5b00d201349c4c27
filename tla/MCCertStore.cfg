SPECIFICATION FairSpec
CONSTANTS
    p = p
    q = q
    d = d
    j1 = j1
    j2 = j2
    j3 = j3
    Processes = {p, q}
    Jobs = {j1, j2, j3}
    ProcessOf <- TwoProcesses
    Disks = {d}
    DiskOf <- OneDisk
    PathOf <- MCPathOf
    OtherPaths <- MCOtherPaths
    MaxToken = 1
    MaxPairs = 3
    MaxFailures = 1
    None = None
INVARIANTS LocksExclude OneCertificate ExportedTogether
PROPERTIES WaitersGoOn ListIsExact
CHECK_DEADLOCK FALSE
