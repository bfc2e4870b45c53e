SPECIFICATION FairSpec
CONSTANTS
    alice = alice
    wasm = wasm
    other = other
    PublicKey = {alice}
    WasmBytes = {wasm}
    MaxU64 = 3
    None = None
    HeightDigits = 1
    Process = {p1, p2}
    NoProcess = NoProcess
    Dir = {data, other}
    DataDir = data
    KeyFile <- MCKeyFile
    Command <- MCCommand
    Seed <- MCSeed
INVARIANTS
    TypeOK
    InitializedAtMostOnce
    AnswersComeFromTheSeed
PROPERTIES
    EveryCommandEnds
CHECK_DEADLOCK FALSE
