SPECIFICATION FairSpec
CONSTANTS
    Task = {b1, b2}
    Id = {k1, k2}
    Address = {a1, a2}
INVARIANTS
    TypeOK
    GoodHostsAreTold
    NoneIsToldTwice
PROPERTIES
    KnownPeersAreTold
    EveryBroadcastEnds
CHECK_DEADLOCK FALSE
