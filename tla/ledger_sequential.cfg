SPECIFICATION Spec
CONSTANTS
    alice = alice
    bob = bob
    carol = carol
    code = code
    PublicKey = {alice, bob, carol}
    WasmBytes = {code}
    MaxU64 = 3
    None = None
    HeightDigits = 1
    Pending <- MCPending
    Seed <- MCSeed
    Build = {"debug"}
    MaxAttempts = 1
INVARIANT TransactionsAreSequential
