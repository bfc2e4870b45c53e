SPECIFICATION FairSpec
CONSTANTS
    alice = alice
    bob = bob
    PublicKey = {alice, bob}
    WasmBytes = {}
    MaxU64 = 3
    None = None
    Thread = {t1, t2, t3}
    Producing = {t1, t2}
    NoThread = NoThread
    Tx <- MCTx
    StoredNonce <- MCStoredNonce
    RelockPanics = TRUE
    MaxCalls = 4
INVARIANTS
    TypeOK
    GuardsMatchOwners
    NoBlockIsEverProduced
    MempoolIsAdmissible
    WaitChainsAreShort
PROPERTIES
    
    PoisonFreezes
    EveryCallReturns
    PoisonedCallsReturn
CHECK_DEADLOCK FALSE
