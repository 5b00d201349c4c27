SPECIFICATION Spec
CONSTANTS
    p = p
    q = q
    d = d
    j1 = j1
    j2 = j2
    j3 = j3
    Processes = {p, q}
    Jobs = {j1, j2}
    ProcessOf <- TwoServers
    Disks = {d}
    DiskOf <- OneDisk
    PathOf <- MCPathOf
    OtherPaths <- MCOtherPaths
    MaxToken = 1
    MaxPairs = 1
    MaxFailures = 0
    None = None
INVARIANTS RotationOnlyReissues
CHECK_DEADLOCK FALSE
