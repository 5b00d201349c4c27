SPECIFICATION Spec
CONSTANTS
    Instances = {a, b}
    Keys = {k1, k2, k3, k4, k5}
    MaxToken = 1
    MaxLate = 1
    NoLease = NoLease
    NoCall = NoCall
    NoKey = NoKey
INVARIANTS KeyAgreement
CHECK_DEADLOCK FALSE
