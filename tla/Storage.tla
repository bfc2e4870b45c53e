------------------------------ MODULE Storage ------------------------------
(***************************************************************************)
(* A SledStorage shared by concurrent clients (src/storage.rs: the trait   *)
(* is Send + Sync and SledStorage is Clone), and by the contract engine of *)
(* src/contracts.rs that writes through it.  Each sled operation is        *)
(* atomic; put_block and deploy_contract are two of them, so other clients *)
(* act and the process may die in between.  No method flushes: sled writes *)
(* its log to disk in the background (Flush), in order, and what a crash   *)
(* leaves is the database as of the last flush.                            *)
(***************************************************************************)
EXTENDS StorageApi

CONSTANTS
    Client,       \* the threads that hold a handle on the storage
    Block,        \* the blocks they store
    Transaction,  \* the transactions they store or index
    Account,      \* the account states they write
    State,        \* the chain states they write
    Batch,        \* the batches they apply
    CKey, CValue, \* keys and values clients write to contract storage
    InitPayload,  \* the init payloads contracts are deployed with
    MaxWrites     \* how many writes are made in all

ASSUME MaxWritesAssumption == MaxWrites \in Nat

ASSUME CKeyAssumption == InitPayloadKey \notin CKey

\* a block is stored under its own hash, which SHA-256 makes unique to it
ASSUME BlockAssumption ==
    /\ \A a, b \in Block : a.hash = b.hash => a = b
    /\ \A b \in Block : b.index \in U64 /\ None \notin {b, serialize(b)}

VARIABLES
    db,           \* the trees, as every client sees them
    durable,      \* the trees, as a restart would find them
    second,       \* per client, the second write of a call under way
    writes        \* how many writes have been made

vars == <<db, durable, second, writes>>

Contract == {contract_id(d[1], d[2]) : d \in PublicKey \X WasmBytes}

HeightWrite(b) == [op |-> "height", block |-> b]
InitWrite(cid, payload) == [op |-> "init", cid |-> cid, payload |-> payload]

-----------------------------------------------------------------------------
Init ==
    /\ db = EmptyDb
    /\ durable = EmptyDb
    /\ second = [c \in Client |-> None]
    /\ writes = 0

\* one write by a client that is not in the middle of a call
Write(c, new_db) ==
    /\ second[c] = None
    /\ writes < MaxWrites
    /\ db' = new_db
    /\ writes' = writes + 1
    /\ UNCHANGED durable

\* fault: the height index is written first
PutBlockHash_HeightFirst(c, b) ==
    /\ Write(c, put_block_height(db, b))
    /\ second' = [second EXCEPT ![c] = HeightWrite(b)]

\* put_block, first insert
PutBlockHash(c, b) ==
    /\ Write(c, put_block_hash(db, b))
    /\ second' = [second EXCEPT ![c] = HeightWrite(b)]

\* fault: the payload is written in place of the code
DeployCode_PayloadFirst(c, pk, wasm, payload) ==
    LET cid == contract_id(pk, wasm)
    IN  /\ Write(c, IF payload = None THEN put_contract_code(db, cid, wasm)
                    ELSE contract_storage_write(db, cid, InitPayloadKey, payload))
        /\ second' = [second EXCEPT ![c] =
                         IF payload = None THEN None ELSE InitWrite(cid, payload)]

\* deploy_contract up to put_contract_code; an init payload follows
DeployCode(c, pk, wasm, payload) ==
    LET cid == contract_id(pk, wasm)
    IN  /\ Write(c, put_contract_code(db, cid, wasm))
        /\ second' = [second EXCEPT ![c] =
                         IF payload = None THEN None ELSE InitWrite(cid, payload)]

FinishCall(c, op, new_db) ==
    /\ second[c] # None /\ second[c].op = op
    /\ db' = new_db
    /\ second' = [second EXCEPT ![c] = None]
    /\ UNCHANGED <<durable, writes>>

\* put_block, second insert
PutBlockHeight(c) == FinishCall(c, "height", put_block_height(db, second[c].block))

\* deploy_contract's contract_storage_write
DeployInit(c) ==
    FinishCall(c, "init", contract_storage_write(db, second[c].cid, InitPayloadKey,
                                                 second[c].payload))

\* the `?` of the second write: the call returns an error half done
SecondWriteFails(c) ==
    /\ second[c] # None
    /\ second' = [second EXCEPT ![c] = None]
    /\ UNCHANGED <<db, durable, writes>>

PutTransaction(c, tx) ==
    Write(c, put_transaction(db, tx)) /\ UNCHANGED second

RemovePendingTransaction(c, tx) ==
    Write(c, remove_pending_transaction(db, tx.hash)) /\ UNCHANGED second

IndexTransaction(c, b) ==
    /\ \E i \in DOMAIN b.transactions :
          Write(c, index_transaction(db, b.transactions[i].hash, b.hash, i))
    /\ UNCHANGED second

PutAccount(c, pk, account) ==
    Write(c, put_account(db, pk, account)) /\ UNCHANGED second

DeleteAccount(c, pk) ==
    Write(c, delete_account(db, pk)) /\ UNCHANGED second

PutChainState(c, state) ==
    Write(c, put_chain_state(db, state)) /\ UNCHANGED second

ContractStorageWrite(c, cid, key, value) ==
    Write(c, contract_storage_write(db, cid, key, value)) /\ UNCHANGED second

ContractStorageRemove(c, cid, key) ==
    Write(c, contract_storage_remove(db, cid, key)) /\ UNCHANGED second

ApplyBatch(c, batch) ==
    Write(c, apply_batch(db, batch)) /\ UNCHANGED second

\* sled's background flush
Flush ==
    /\ durable # db
    /\ durable' = db
    /\ UNCHANGED <<db, second, writes>>

\* the process dies and SledStorage::new opens the database again
Restart ==
    /\ db' = durable
    /\ second' = [c \in Client |-> None]
    /\ UNCHANGED <<durable, writes>>

ClientStep(c) ==
    \/ \E b \in Block : PutBlockHash(c, b) \/ IndexTransaction(c, b)
    \/ PutBlockHeight(c)
    \/ DeployInit(c)
    \/ SecondWriteFails(c)
    \/ \E tx \in Transaction : PutTransaction(c, tx) \/ RemovePendingTransaction(c, tx)
    \/ \E pk \in PublicKey :
          \/ \E account \in Account : PutAccount(c, pk, account)
          \/ DeleteAccount(c, pk)
          \/ \E wasm \in WasmBytes, payload \in InitPayload \cup {None} :
                DeployCode(c, pk, wasm, payload)
    \/ \E cid \in Contract, key \in CKey :
          \/ \E value \in CValue : ContractStorageWrite(c, cid, key, value)
          \/ ContractStorageRemove(c, cid, key)
    \/ \E state \in State : PutChainState(c, state)
    \/ \E batch \in Batch : ApplyBatch(c, batch)

Next == (\E c \in Client : ClientStep(c)) \/ Flush \/ Restart

Spec == Init /\ [][Next]_vars

-----------------------------------------------------------------------------
(* Properties.                                                             *)

StoredBlocks == {serialize(b) : b \in Block}

SecondWrite == [op : {"height"}, block : Block] \cup
               [op : {"init"}, cid : Contract, payload : InitPayload]

\* The block tree holds encoded blocks only, under the two kinds of keys
\* put_block builds, and so does the tree a restart would find.
TypeOK ==
    /\ \A d \in {db, durable} :
          /\ DOMAIN d = TreeNames
          /\ \A k \in DOMAIN d["blocks"] : d["blocks"][k] \in StoredBlocks
    /\ second \in [Client -> SecondWrite \cup {None}]
    /\ writes \in 0 .. MaxWrites

BackedByHash(d) ==
    \A k \in HeightKeys(d) :
        LET b == deserialize(d["blocks"][k])
        IN  /\ Raw(b.hash) \in DOMAIN d["blocks"]
            /\ d["blocks"][Raw(b.hash)] = d["blocks"][k]

\* A block found by its height is found, the same, by its hash: put_block
\* writes the hash entry first, so neither a crash between its two inserts,
\* nor its failure half way, nor another client's put_block at the same height
\* leaves the height index pointing at a block that is not there.
HeightIndexIsBacked == BackedByHash(db) /\ BackedByHash(durable)

StoredHeights(d) == {deserialize(d["blocks"][k]).index : k \in HeightKeys(d)}

\* get_latest_block, a reverse scan in byte order over decimal keys, finds the
\* block with the numerically greatest height that was stored, across a change
\* in the number of digits, or fails to decode exactly that block.  When the scan
\* itself fails no block is answered for the latest, and no height but 0.
LatestIsHighest ==
    \A top \in StoredHeights(db) :
        (\A h \in StoredHeights(db) : h <= top) =>
            /\ get_latest_block(db, FALSE) = get_block_by_height(db, top)
            /\ \A failed \in BOOLEAN :
                  get_latest_block(db, failed) # SerializationError =>
                      get_chain_height(db, failed) = IF failed THEN 0 ELSE top

\* A contract's init payload is never found without the code its id is the
\* digest of: deploy_contract stores the code first, so neither a crash nor an
\* error between its two writes, nor a second deployment of the same contract,
\* leaves a payload for code that is not there.
InitPayloadHasCode ==
    \A d \in {db, durable} : \A k \in DOMAIN d["contract_storage"] :
        k[3] = InitPayloadKey => get_contract_code(d, k[2]) = IdentifiedCode(k[2])

\* A transaction that was stored and indexed is what the block's transactions
\* are read back as (storage.rs:52).
StoredTransactionsReadBack ==
    \A tx \in Transaction :
        Raw(tx.hash) \in DOMAIN db["transactions"] =>
            get_transaction(db, tx.hash) = tx
=============================================================================
