SPECIFICATION Spec
CONSTANTS
    alice = alice
    bob = bob
    PublicKey = {alice, bob}
    WasmBytes = {}
    MaxU64 = 3
    None = None
    Thread = {t1, t2}
    Producing = {t1}
    NoThread = NoThread
    Tx <- MCTx
    StoredNonce <- MCStoredNonce
    RelockPanics = FALSE
    MaxCalls = 4
INVARIANT NoLockOrderDeadlock
CHECK_DEADLOCK FALSE
