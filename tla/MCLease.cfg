SPECIFICATION FairSpec
CONSTANTS
    Instances = {a, b}
    Keys = {k1, k2, k3, k4}
    MaxToken = 1
    MaxLate = 0
    NoLease = NoLease
    NoCall = NoCall
    NoKey = NoKey
INVARIANTS TypeOK RefusalsAreTrue KeyAgreement
PROPERTIES StableOperator TunnelGetsOperated RevokedAgentExits RevokedRowFades
CHECK_DEADLOCK FALSE
