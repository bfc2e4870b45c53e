SPECIFICATION FairSpec
CONSTANTS
    c1 = c1
    c2 = c2
    k1 = k1
    k2 = k2
    PublicKey = {k1, k2, k3}
    ServerKey = k3
    WasmBytes = {}
    MaxU64 = 3
    MaxU32 = 255
    None = None
    Starter = {s1, s2}
    Conn = {c1, c2}
    AddedPeer = {k2}
    Roles <- MCRoles
    PeerKey <- MCPeerKey
    ClientMessage <- MCClientMessage
    StrayLength <- MCStrayLength
    ServerMessage <- MCServerMessage
    Hash = {"hash"}
    ValidShifted = {k1, k3}
    SeventhWord <- MCSeventhWord
INVARIANTS
    TypeOK
    OneServer
    OnlyDoubleFramesAreRead
PROPERTIES
    FailedServerIsFinal
    OnlyAcknowledgementsRegister
    OnlyHugeLengthsPanic
    EverySyncEnds
CHECK_DEADLOCK FALSE
