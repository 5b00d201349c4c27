SPECIFICATION FairSpec
CONSTANTS
    t1 = t1
    t2 = t2
    Tunnels = {t1, t2}
    Domain <- MCDomain
    Files <- MCFiles
    LocalRoutes <- MCLocalRoutes
    Hosts <- MCHosts
    Names <- MCNames
    NoHost = NoHost
    NoTunnel = NoTunnel
    NoBackend = NoBackend
    Local = Local
INVARIANTS OwnTunnelOnly RightBackend BackendReads NoSocketLeft ChallengesFollowRoutes
PROPERTIES HandlersEnd
CHECK_DEADLOCK FALSE
