CONSTANTS
    u1 = u1
    u2 = u2
    d1 = d1
    Users <- MCUsers
    Addrs <- MCAddrs
    HandleIds = {1, 2, 3}
    MaxOps = 3
    MaxRestarts = 1
    ReuseHandles = FALSE
SYMMETRY UserSymmetry
SPECIFICATION Spec
INVARIANT TypeOK
INVARIANT ConfirmedTracked
