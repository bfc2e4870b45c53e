------------------------------- MODULE Ledger -------------------------------
(***************************************************************************)
(* The ledger of src/ledger.rs on top of SledStorage, with the block       *)
(* producer of src/consensus.rs and the contract engine of                 *)
(* src/contracts.rs it calls.  One caller at a time, the one that holds    *)
(* the chain-state mutex, validates a block and applies it, as             *)
(* Runtime::produce_block does; an action is the code between two writes   *)
(* to the database, so that the process may die between any two of them.   *)
(*                                                                         *)
(* The program that embeds the ledger seeds the database before it starts  *)
(* the runtime and stores a block once apply_block has returned Ok, since  *)
(* apply_block itself never calls put_block.                               *)
(***************************************************************************)
EXTENDS Genesis

CONSTANTS
    Pending,         \* the lists of transactions blocks are made from
    Seed,            \* the databases the runtime may be started on
    Build,           \* the builds: "debug" panics on overflow, "release" wraps
    MaxAttempts      \* how many blocks are put forward

ASSUME BuildAssumption == Build \subseteq {"debug", "release"}
ASSUME AttemptsAssumption == MaxAttempts \in Nat

VARIABLES
    db,                   \* the trees of the running database
    durable,              \* the trees a restart would find
    chain_state,          \* the ChainState in memory; Down when there is none
    pc,                   \* where the caller is
    block,                \* the block being, or last, applied
    i,                    \* the transaction at hand
    accounts_to_update,   \* apply_block's map
    batch,                \* apply_block's StorageBatch
    result,               \* how the last call ended
    attempts,             \* how many blocks have been put forward
    build                 \* the build that runs

vars == <<db, durable, chain_state, pc, block, i, accounts_to_update, batch,
          result, attempts, build>>

applying == <<block, i, accounts_to_update, batch>>

\* what chain_state holds while no process runs
Down == [down |-> TRUE]

-----------------------------------------------------------------------------
(* What blocks are made from, and what the embedding program seeds: blocks *)
(* stored under their hashes, a chain state that names a block at the      *)
(* height it says and is far from the largest u64, contract accounts with  *)
(* their code, and nothing in the default tree, where only apply_batch     *)
(* writes.                                                                 *)

IsTransaction(t) ==
    /\ t.sender \in PublicKey
    /\ t.recipient.type = "Wallet" =>
          /\ t.recipient.pk \in PublicKey
          /\ t.recipient = WalletAddress(t.recipient.pk)

ASSUME PendingAssumption ==
    \A txs \in Pending : /\ Len(txs) \in Nat /\ DOMAIN txs = 1 .. Len(txs)
                         /\ \A n \in DOMAIN txs : IsTransaction(txs[n])

IsBlock(b) ==
    b.index \in Nat /\ b = MakeBlock(b.index, b.timestamp, b.prev_hash, b.transactions)

BlocksAreHashed(d) ==
    \A k \in DOMAIN d["blocks"] : k[1] = "raw" =>
        LET b == deserialize(d["blocks"][k])
        IN  IsBlock(b) /\ k = Raw(b.hash) /\ d["blocks"][k] = serialize(b)

\* a chain state that can still take n blocks
IsChainState(s, n) ==
    /\ s = ChainState(s.latest_block_hash, s.latest_block_index)
    /\ s.latest_block_index \in Nat
    /\ HashedIndex(s.latest_block_hash) = s.latest_block_index
    /\ s.latest_block_index + n < MaxU64

IsAccount(a) ==
    IF a.type = "Wallet" THEN a = Wallet(a.balance, a.nonce)
    ELSE a = ContractAccount(a.code_hash, a.nonce)

HasCode(d, a) ==
    a.type = "Contract" => get_contract_code(d, a.code_hash) = IdentifiedCode(a.code_hash)

WellFormed(d) ==
    /\ DOMAIN d = TreeNames
    /\ BlocksAreHashed(d)
    /\ get_chain_state(d) # None => IsChainState(get_chain_state(d), MaxAttempts)
    /\ \A pk \in PublicKey : get_account(d, pk) # None =>
          IsAccount(get_account(d, pk)) /\ HasCode(d, get_account(d, pk))

ASSUME SeedAssumption == \A s \in Seed : WellFormed(s) /\ s["default"] = EmptyTree

-----------------------------------------------------------------------------
(* Starting: Runtime::new and initialize_chain.                            *)

Init ==
    /\ db \in Seed
    /\ durable = db
    /\ chain_state = Down
    /\ pc = "down"
    /\ block = None
    /\ i = 0
    /\ accounts_to_update = << >>
    /\ batch = << >>
    /\ result = "none"
    /\ attempts = 0
    /\ build \in Build

\* the chain state is there after initialize_chain
Boot ==
    /\ pc = "down"
    /\ db' = initialize_chain(db)
    /\ get_chain_state(db') # None
    /\ chain_state' = get_chain_state(db')
    /\ pc' = "idle"
    /\ result' = "ok"
    /\ UNCHANGED <<durable, applying, attempts>>

\* fault: the missing chain state is not noticed
BootFails_Unnoticed ==
    /\ pc = "down"
    /\ db' = initialize_chain(db)
    /\ get_chain_state(db') = None
    /\ pc' = "idle"
    /\ result' = "ok"
    /\ UNCHANGED <<durable, chain_state, applying, attempts>>

\* ChainInitializationError: it is not
BootFails ==
    /\ pc = "down"
    /\ db' = initialize_chain(db)
    /\ get_chain_state(db') = None
    /\ result' = "ChainInitializationError"
    /\ UNCHANGED <<durable, chain_state, pc, applying, attempts>>

-----------------------------------------------------------------------------
(* Blocks put forward: the one the consensus engine generates, and blocks  *)
(* made elsewhere, as validate_block has to expect them.                   *)

generate_block(pending, prev) ==
    MakeBlock(AddU64(prev.index, 1), AddU64(prev.timestamp, 1), prev.hash, pending)

\* a block for the next height, and the ones that differ from it in one field
Foreign(txs) ==
    LET n == chain_state.latest_block_index
        good == MakeBlock(n + 1, n + 1, chain_state.latest_block_hash, txs)
    IN  { good,
          MakeBlock(n + 1, n, chain_state.latest_block_hash, txs),
          MakeBlock(n, n + 1, chain_state.latest_block_hash, txs),
          MakeBlock(n + 1, n + 1, ZeroHash, txs),
          [good EXCEPT !.hash = ZeroHash] }

Proposed(txs) ==
    LET prev == get_block(db, chain_state.latest_block_hash)
    IN  Foreign(txs) \cup
        (IF prev \in {None, SerializationError} \/ txs = << >> THEN {}
         ELSE {generate_block(txs, prev)})

TimestampOk(b) ==
    \/ b.index = 0
    \/ LET prev == get_block(db, b.prev_hash)
       IN  prev \notin {None, SerializationError} /\ b.timestamp > prev.timestamp

\* fault: the parent is not looked up
validate_block_NoParent(b) ==
    /\ b.index = AddU64(chain_state.latest_block_index, 1)
    /\ b.prev_hash = chain_state.latest_block_hash
    /\ b.hash = block_calculate_hash(b)
    /\ \A n \in DOMAIN b.transactions : verify_signature(b.transactions[n])

validate_block(b) ==
    /\ b.index = AddU64(chain_state.latest_block_index, 1)
    /\ b.prev_hash = chain_state.latest_block_hash
    /\ b.hash = block_calculate_hash(b)
    /\ TimestampOk(b)
    /\ \A n \in DOMAIN b.transactions : verify_signature(b.transactions[n])

PutForward ==
    /\ pc = "idle"
    /\ attempts < MaxAttempts
    /\ attempts' = attempts + 1
    /\ UNCHANGED <<db, durable, chain_state>>

ValidateFails(b) ==
    /\ PutForward
    /\ ~validate_block(b)
    /\ result' = "BlockValidation"
    /\ UNCHANGED <<pc, applying>>

ValidateOk(b) ==
    /\ PutForward
    /\ validate_block(b)
    /\ pc' = "txs"
    /\ block' = b
    /\ i' = 1
    /\ accounts_to_update' = << >>
    /\ batch' = << >>
    /\ UNCHANGED result

-----------------------------------------------------------------------------
(* The loop of apply_block.  Accounts are read from storage, not from      *)
(* accounts_to_update.                                                     *)

tx == block.transactions[i]

AtTx == pc = "txs" /\ i <= Len(block.transactions)

sender_account == get_account(db, tx.sender)
recipient_account == get_account(db, tx.recipient.pk)

\* account found, nonce checked (release builds wrap the + 1)
NonceOk ==
    /\ sender_account # None
    /\ tx.nonce = AddU64(sender_account.nonce, 1)

Debitable ==
    /\ sender_account.type = "Wallet"
    /\ sender_account.balance >= tx.payload.amount

Creditable ==
    /\ tx.recipient.type = "Wallet"
    /\ recipient_account # None => recipient_account.type = "Wallet"

CreditOverflows ==
    recipient_account # None /\ Overflows(recipient_account.balance, tx.payload.amount)

\* sender_account.nonce() + 1 and *balance += amount, where overflow panics
Panics ==
    /\ build = "debug"
    /\ sender_account # None
    /\ \/ Overflows(sender_account.nonce, 1)
       \/ /\ NonceOk
          /\ tx.payload.type = "Transfer" /\ Debitable /\ Creditable
          /\ CreditOverflows

Accepts ==
    /\ NonceOk
    /\ tx.payload.type = "Transfer" => Debitable /\ Creditable
    /\ tx.payload.type = "ContractCall" => tx.recipient.type = "Contract"

numbered_sender == set_nonce(sender_account, tx.nonce)

credited_recipient ==
    IF recipient_account = None THEN Wallet(tx.payload.amount, 0)
    ELSE [recipient_account EXCEPT !.balance = AddU64(@, tx.payload.amount)]

deployed == contract_id(tx.sender, tx.payload.wasm)

update(pk, account) == tree_insert(accounts_to_update, pk, account)

NextTx ==
    /\ batch' = tree_insert(batch, Raw(tx.hash), Deleted)
    /\ i' = i + 1
    /\ UNCHANGED <<durable, chain_state, pc, block, result, attempts>>

\* fault: the recipient is credited without the sender being debited
ApplyTransfer_NoDebit ==
    /\ AtTx /\ Accepts /\ ~Panics
    /\ tx.payload.type = "Transfer"
    /\ accounts_to_update' =
          tree_insert(update(tx.sender, numbered_sender), tx.recipient.pk,
                      credited_recipient)
    /\ NextTx
    /\ UNCHANGED db

\* fault: the recipient is written first, so that a payment to oneself is debited
ApplyTransfer_CreditFirst ==
    /\ AtTx /\ Accepts /\ ~Panics
    /\ tx.payload.type = "Transfer"
    /\ accounts_to_update' =
          tree_insert(update(tx.recipient.pk, credited_recipient), tx.sender,
                      [numbered_sender EXCEPT !.balance = @ - tx.payload.amount])
    /\ NextTx
    /\ UNCHANGED db

ApplyTransfer ==
    /\ AtTx /\ Accepts /\ ~Panics
    /\ tx.payload.type = "Transfer"
    /\ accounts_to_update' =
          tree_insert(
              update(tx.sender, [numbered_sender EXCEPT !.balance = @ - tx.payload.amount]),
              tx.recipient.pk, credited_recipient)
    /\ NextTx
    /\ UNCHANGED db

\* fault: the code is left for later, as a write of the batch would be
ApplyDeploy_NoCode ==
    /\ AtTx /\ Accepts /\ ~Panics
    /\ tx.payload.type = "ContractDeploy"
    /\ accounts_to_update' = update(tx.sender, ContractAccount(deployed, tx.nonce))
    /\ NextTx
    /\ UNCHANGED db

\* put_contract_code writes at once; the sender's account becomes the contract
ApplyDeploy ==
    /\ AtTx /\ Accepts /\ ~Panics
    /\ tx.payload.type = "ContractDeploy"
    /\ db' = put_contract_code(db, deployed, tx.payload.wasm)
    /\ accounts_to_update' = update(tx.sender, ContractAccount(deployed, tx.nonce))
    /\ NextTx

\* call_contract is a stub that changes nothing; Data only counts the nonce
ApplyCallOrData ==
    /\ AtTx /\ Accepts /\ ~Panics
    /\ tx.payload.type \in {"ContractCall", "Data"}
    /\ accounts_to_update' = update(tx.sender, numbered_sender)
    /\ NextTx
    /\ UNCHANGED db

\* apply_block returns an error: the batch is dropped
Fail(error) ==
    /\ pc' = "idle"
    /\ result' = error
    /\ UNCHANGED <<db, durable, chain_state, applying, attempts>>

RejectTx == AtTx /\ ~Accepts /\ ~Panics /\ Fail("TransactionError")

\* the chain-state mutex is poisoned: only a restart helps
PanicTx ==
    /\ AtTx
    /\ Panics
    /\ pc' = "poisoned"
    /\ result' = "panic"
    /\ UNCHANGED <<db, durable, chain_state, applying, attempts>>

-----------------------------------------------------------------------------
(* The rest of apply_block: the batch, the chain state, the index and the  *)
(* commit.                                                                 *)

AccountPuts ==
    [k \in {Encoded(pk) : pk \in DOMAIN accounts_to_update} |->
        serialize(accounts_to_update[k[2]])]

new_chain_state == ChainState(block.hash, block.index)

AllPuts ==
    tree_insert(batch_of(batch, AccountPuts), EncodedGlobalCurrent,
                serialize(new_chain_state))

\* fault: the account updates are written at once, outside the batch
UpdateChainState_WritesAccounts ==
    /\ pc = "txs" /\ i > Len(block.transactions)
    /\ db' = apply_batch(db, AccountPuts)
    /\ batch' = AllPuts
    /\ chain_state' = new_chain_state
    /\ pc' = "index"
    /\ i' = 1
    /\ UNCHANGED <<durable, block, accounts_to_update, result, attempts>>

\* fault: the index is left for later
UpdateChainState_SkipsIndex ==
    /\ pc = "txs" /\ i > Len(block.transactions)
    /\ batch' = AllPuts
    /\ chain_state' = new_chain_state
    /\ pc' = "index"
    /\ i' = Len(block.transactions) + 1
    /\ UNCHANGED <<db, durable, block, accounts_to_update, result, attempts>>

UpdateChainState ==
    /\ pc = "txs" /\ i > Len(block.transactions)
    /\ batch' = AllPuts
    /\ chain_state' = new_chain_state
    /\ pc' = "index"
    /\ i' = 1
    /\ UNCHANGED <<db, durable, block, accounts_to_update, result, attempts>>

\* index_transaction writes at once
IndexTx ==
    /\ pc = "index" /\ i <= Len(block.transactions)
    /\ db' = index_transaction(db, tx.hash, block.hash, i - 1)
    /\ i' = i + 1
    /\ UNCHANGED <<durable, chain_state, pc, block, accounts_to_update, batch,
                   result, attempts>>

Commit ==
    /\ pc = "index" /\ i > Len(block.transactions)
    /\ db' = apply_batch(db, batch)
    /\ pc' = "idle"
    /\ result' = "ok"
    /\ UNCHANGED <<durable, chain_state, applying, attempts>>

\* the `?` of a storage call
StorageFails == (AtTx \/ pc = "index") /\ Fail("StorageError")

-----------------------------------------------------------------------------
(* The embedding program, the disk and the machine.                        *)

\* put_block of a block that was applied: two inserts
StoreBlockHash ==
    /\ pc = "idle" /\ result = "ok" /\ block # None
    /\ db' = put_block_hash(db, block)
    /\ pc' = "storing"
    /\ UNCHANGED <<durable, chain_state, applying, result, attempts>>

StoreBlockHeight ==
    /\ pc = "storing"
    /\ db' = put_block_height(db, block)
    /\ pc' = "idle"
    /\ UNCHANGED <<durable, chain_state, applying, result, attempts>>

\* sled's background flush
Flush ==
    /\ durable # db
    /\ durable' = db
    /\ UNCHANGED <<db, chain_state, pc, applying, result, attempts>>

Crash ==
    /\ pc # "down"
    /\ db' = durable
    /\ chain_state' = Down
    /\ pc' = "down"
    /\ block' = None
    /\ i' = 0
    /\ accounts_to_update' = << >>
    /\ batch' = << >>
    /\ result' = "none"
    /\ UNCHANGED <<durable, attempts>>

-----------------------------------------------------------------------------
apply_block ==
    \/ ApplyTransfer
    \/ ApplyDeploy
    \/ ApplyCallOrData
    \/ RejectTx
    \/ PanicTx
    \/ UpdateChainState
    \/ IndexTx
    \/ Commit
    \/ StorageFails

Next ==
    /\ \/ Boot
       \/ BootFails
       \/ \E txs \in Pending :
             pc = "idle" /\ \E b \in Proposed(txs) : ValidateOk(b) \/ ValidateFails(b)
       \/ apply_block
       \/ StoreBlockHash
       \/ StoreBlockHeight
       \/ Flush
       \/ Crash
    /\ UNCHANGED build

Spec == Init /\ [][Next]_vars

-----------------------------------------------------------------------------
(* Properties.                                                             *)

\* The ChainState of the last committed batch, as the default tree holds it.
committed(d) ==
    LET bytes == tree_get(d["default"], EncodedGlobalCurrent)
    IN  IF bytes = None THEN None ELSE deserialize(bytes)

\* The caller is at a known line, holds a chain state exactly while the
\* runtime is up, and the loop index stays within the block or one past it.
TypeOK ==
    /\ DOMAIN db = TreeNames /\ DOMAIN durable = TreeNames
    /\ pc \in {"down", "idle", "txs", "index", "storing", "poisoned"}
    /\ chain_state = Down <=> pc = "down"
    /\ pc \in {"txs", "index"} => i \in 1 .. Len(block.transactions) + 1
    /\ attempts \in 0 .. MaxAttempts

IndexedIn(d, hash) ==
    \A n \in DOMAIN HashedTransactions(hash) :
        TxIndexKey(hash, HashedTransactions(hash)[n].hash, n - 1)
            \in DOMAIN d["tx_by_block"]

\* A block that is committed has every one of its transactions in the
\* tx_by_block index, in the running database and in the one a crash would
\* leave: index_transaction runs, outside the batch, before apply_batch.
CommittedIsIndexed ==
    \A d \in {db, durable} :
        committed(d) # None => IndexedIn(d, committed(d).latest_block_hash)

CommittedAccounts(d) ==
    {deserialize(d["default"][Encoded(pk)]) :
        pk \in {p \in PublicKey : Encoded(p) \in DOMAIN d["default"]}}

\* A contract account that is committed has its code, in the running database
\* and in the one a crash would leave: deploy_contract writes the code outside
\* the batch, before the block is known to succeed.  A block that fails leaves
\* code without an account, never an account without code.
CommittedContractHasCode ==
    \A d \in {db, durable} : \A account \in CommittedAccounts(d) : HasCode(d, account)

\* A committed block other than genesis extends a block that is stored and
\* readable, one height below it.  apply_block advances the chain state in
\* memory even when it then fails, so a later block may name a parent that was
\* never committed; the parent lookup of the timestamp check stops it.
CommittedExtendsStored ==
    \A d \in {db, durable} :
        committed(d) # None /\ committed(d).latest_block_index > 0 =>
            LET parent == get_block(d, HashedPrevHash(committed(d).latest_block_hash))
            IN  /\ parent \notin {None, SerializationError}
                /\ parent.index + 1 = committed(d).latest_block_index

\* A block with transactions ends its chain: no block on top of it is ever
\* committed, not even after a restart, because validate_block must read the
\* parent's timestamp and get_block cannot decode a block that holds a
\* PublicKey.
ParentsAreEmpty ==
    committed(db) # None /\ committed(db).latest_block_index > 0 =>
        HashedTransactions(HashedPrevHash(committed(db).latest_block_hash)) = << >>

\* What a batch has committed is what the getters return.  The ledger's design
\* has apply_block "commit the new ChainState and any updated Account data to
\* Storage", and Runtime::new reads the chain state back after
\* initialize_chain; apply_batch writes the default tree, so the first batch,
\* the one of genesis, is already lost to get_chain_state.
CommittedIsRead ==
    /\ committed(db) # None => get_chain_state(db) = committed(db)
    /\ \A pk \in PublicKey :
          Encoded(pk) \in DOMAIN db["default"] =>
              get_account(db, pk) = deserialize(db["default"][Encoded(pk)])

\* Nothing the ledger commits is ever seen by get_chain_state or get_account:
\* apply_batch writes the default tree, the getters read trees of their own.
\* Whatever blocks are applied, the next start and the next block find the
\* chain state and the accounts the database was seeded with.
CommittedIsNeverRead ==
    [][ /\ get_chain_state(db') = get_chain_state(db)
        /\ \A pk \in PublicKey : get_account(db', pk) = get_account(db, pk) ]_vars

\* The durable effect of the ledger is AtomicLedger: whatever the interleaving
\* of writes, failures, flushes and crashes, the default tree changes by whole
\* blocks, and only in the chain state and the accounts a block touches.
Atomic == INSTANCE AtomicLedger WITH
              current <- db["default"], saved <- durable["default"]

RefinesAtomicLedger == Atomic!Spec
=============================================================================
