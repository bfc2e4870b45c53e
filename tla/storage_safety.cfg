SPECIFICATION Spec
CONSTANTS
    alice = alice
    PublicKey = {alice}
    WasmBytes = {w1}
    MaxU64 = 12
    None = None
    HeightDigits = 2
    Client = {c1, c2}
    Block <- MCBlock
    Transaction <- MCTransaction
    Account <- MCAccount
    State <- MCState
    Batch <- MCBatch
    CKey = {k1}
    CValue = {v1}
    InitPayload = {p1}
    MaxWrites = 4
INVARIANTS
    TypeOK
    HeightIndexIsBacked
    LatestIsHighest
    InitPayloadHasCode
