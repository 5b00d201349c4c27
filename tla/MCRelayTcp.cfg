SPECIFICATION Spec
CONSTANTS
    t1 = t1
    t2 = t2
    Tunnels = {t1, t2}
    Domain <- MCDomain
    Files <- TcpFiles
    LocalRoutes <- MCLocalRoutes
    Hosts <- MCHosts
    Names <- MCNames
    NoHost = NoHost
    NoTunnel = NoTunnel
    NoBackend = NoBackend
    Local = Local
INVARIANTS RightBackend
CHECK_DEADLOCK FALSE
