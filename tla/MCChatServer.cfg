CONSTANTS
    Conns = {c1, c2, c3}
    MaxClients = 2
    MaxSent = 1
    Nobody = Nobody
SPECIFICATION Spec
SYMMETRY ConnSymmetry
INVARIANTS CountIsListed DescriptorsAreOwned OneOrder
PROPERTY BroadcastReachesAll
CHECK_DEADLOCK FALSE
