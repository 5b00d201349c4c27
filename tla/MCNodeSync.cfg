SPECIFICATION FairSpec
CONSTANTS
    Tunnels = {t1, t2}
    Keys = {k1, k2}
    x1 = x1
    x2 = x2
    Txts <- MCTxts
    TxtTables <- MCTxtTables
    Capacities = {1, 2}
    None = None
INVARIANTS TypeOK DeviceFollowsPeers VersionIsApplied
PROPERTIES RoutesFollowPeers UnchangedPeersStay NodeConverges
CHECK_DEADLOCK FALSE
