----------------------------- MODULE StorageApi -----------------------------
(***************************************************************************)
(* SledStorage of src/storage.rs: what each method of the Storage trait    *)
(* does to the database.  The database is a record of trees, a tree a      *)
(* function from keys to encoded values; a method that writes maps one     *)
(* database to the next, a method that reads maps it to a result.          *)
(*                                                                         *)
(* Keys are kept apart the way their bytes are: the getters use raw keys,  *)
(* the ledger's batches bincode-encoded ones, and apply_batch writes the   *)
(* database's default tree, which no getter reads.                         *)
(***************************************************************************)
EXTENDS Types, FiniteSets

CONSTANT HeightDigits    \* the 20 of "height:{:0>20}"

Pow10[n \in Nat] == IF n = 0 THEN 1 ELSE 10 * Pow10[n - 1]

ASSUME DigitsAssumption == HeightDigits \in Nat /\ MaxU64 < Pow10[HeightDigits]

-----------------------------------------------------------------------------
(* sled (external): ordered maps, with batches that map a key to its last  *)
(* write.                                                                  *)

EmptyTree == << >>
Deleted == [deleted |-> TRUE]

tree_get(tree, key) == IF key \in DOMAIN tree THEN tree[key] ELSE None

tree_insert(tree, key, value) ==
    [k \in DOMAIN tree \cup {key} |-> IF k = key THEN value ELSE tree[k]]

tree_remove(tree, key) == [k \in DOMAIN tree \ {key} |-> tree[k]]

\* a batch is itself a map, so a later operation on a key replaces an earlier
batch_of(batch, writes) ==
    [k \in DOMAIN batch \cup DOMAIN writes |->
        IF k \in DOMAIN writes THEN writes[k] ELSE batch[k]]

tree_apply_batch(tree, batch) ==
    LET kept == {k \in DOMAIN tree \cup DOMAIN batch :
                    k \in DOMAIN batch => batch[k] # Deleted}
    IN  [k \in kept |-> IF k \in DOMAIN batch THEN batch[k] ELSE tree[k]]

-----------------------------------------------------------------------------
(* bincode (external).  PublicKey writes its length before its 32 bytes    *)
(* and reads 32 bytes without one, so what holds a PublicKey does not      *)
(* decode: a transaction never, a block only when it has no transactions.  *)

SerializationError == [error |-> "SerializationError"]

serialize(value) == [bincode |-> value]
deserialize(bytes) == bytes.bincode
deserialize_transaction(bytes) == SerializationError

\* fault: PublicKey is read as it is written
deserialize_block_Symmetric(bytes) == bytes.bincode

deserialize_block(bytes) ==
    IF bytes.bincode.transactions = << >> THEN bytes.bincode ELSE SerializationError

-----------------------------------------------------------------------------
(* Keys.                                                                   *)

Raw(bytes) == <<"raw", bytes>>              \* 32 bytes as they are
Encoded(bytes) == <<"bincode", bytes>>      \* bincode of a &str or a PublicKey

GlobalCurrent == <<"str", "global:current">>
EncodedGlobalCurrent == <<"bincode_str", "global:current">>

\* fault: the height is formatted without padding
HeightKey_Unpadded(h) ==
    LET width == CHOOSE w \in 1 .. HeightDigits :
                    h < Pow10[w] /\ (w = 1 \/ h >= Pow10[w - 1])
    IN  <<"height", [i \in 1 .. width |-> (h \div Pow10[width - i]) % 10]>>

\* format!("height:{:0>20}", h): the decimal digits, padded with zeros
HeightKey(h) ==
    <<"height", [i \in 1 .. HeightDigits |-> (h \div Pow10[HeightDigits - i]) % 10]>>

TxIndexKey(block_hash, tx_hash, i) == <<"block_tx", block_hash, tx_hash, i>>
StateKey(cid, key) == <<"state", cid, key>>
InitPayloadKey == "init_payload"

\* deploy_contract: a contract's id is a digest of its deployer and its code
contract_id(deployer, wasm) == Sha256(<<"contract", deployer, wasm>>)
IdentifiedCode(cid) == cid.sha256[3]

\* sled orders keys byte by byte, a prefix before what it is a prefix of
KeyLess(k, l) ==
    \/ \E i \in DOMAIN k[2] \cap DOMAIN l[2] :
          /\ k[2][i] < l[2][i]
          /\ \A j \in 1 .. i - 1 : k[2][j] = l[2][j]
    \/ /\ Len(k[2]) < Len(l[2])
       /\ \A j \in DOMAIN k[2] : k[2][j] = l[2][j]

-----------------------------------------------------------------------------
(* The trees SledStorage::new opens.                                       *)

TreeNames == {"blocks", "transactions", "mempool", "accounts", "contract_code",
              "contract_storage", "chain_state", "tx_by_block", "default"}

EmptyDb == [name \in TreeNames |-> EmptyTree]

-----------------------------------------------------------------------------
(* Blocks.  put_block makes two inserts.                                   *)

put_block_hash(db, b) ==
    [db EXCEPT !["blocks"] = tree_insert(@, Raw(b.hash), serialize(b))]

\* fault: the height entry holds the block's hash only
put_block_height_StoresHash(db, b) ==
    [db EXCEPT !["blocks"] = tree_insert(@, HeightKey(b.index), serialize(b.hash))]

put_block_height(db, b) ==
    [db EXCEPT !["blocks"] = tree_insert(@, HeightKey(b.index), serialize(b))]

read_block(bytes) == IF bytes = None THEN None ELSE deserialize_block(bytes)

get_block(db, hash) == read_block(tree_get(db["blocks"], Raw(hash)))

get_block_by_height(db, height) ==
    read_block(tree_get(db["blocks"], HeightKey(height)))

HeightKeys(db) == {k \in DOMAIN db["blocks"] : k[1] = "height"}

\* scan_prefix("height:").rev().next(): an I/O error (failed) is answered like an
\* empty index
get_latest_block(db, failed) ==
    IF failed \/ HeightKeys(db) = {} THEN None
    ELSE LET last == CHOOSE k \in HeightKeys(db) :
                        \A l \in HeightKeys(db) \ {k} : KeyLess(l, k)
         IN  deserialize_block(db["blocks"][last])

get_chain_height(db, failed) ==
    LET b == get_latest_block(db, failed)
    IN  IF b = None THEN 0 ELSE IF b = SerializationError THEN b ELSE b.index

-----------------------------------------------------------------------------
(* Transactions, the pending set and the index by block.  Nothing writes a *)
(* "pending:" key; remove_pending_transaction removes a raw hash key.      *)

put_transaction(db, tx) ==
    [db EXCEPT !["transactions"] = tree_insert(@, Raw(tx.hash), serialize(tx))]

read_transaction(bytes) ==
    IF bytes = None THEN None ELSE deserialize_transaction(bytes)

get_transaction(db, hash) == read_transaction(tree_get(db["transactions"], Raw(hash)))

remove_pending_transaction(db, hash) ==
    [db EXCEPT !["mempool"] = tree_remove(@, Raw(hash))]

index_transaction(db, tx_hash, block_hash, i) ==
    [db EXCEPT !["tx_by_block"] =
        tree_insert(@, TxIndexKey(block_hash, tx_hash, i), tx_hash)]

\* the list in the code; here the set of what it holds
get_transactions_by_block(db, block_hash) ==
    LET keys == {k \in DOMAIN db["tx_by_block"] : k[2] = block_hash}
        read == {get_transaction(db, db["tx_by_block"][k]) : k \in keys} \ {None}
    IN  IF SerializationError \in read THEN SerializationError ELSE read

-----------------------------------------------------------------------------
(* Accounts, the chain state, contracts, and the batch of a block.         *)

put_account(db, pk, account) ==
    [db EXCEPT !["accounts"] = tree_insert(@, Raw(pk), serialize(account))]

get_account(db, pk) ==
    LET bytes == tree_get(db["accounts"], Raw(pk))
    IN  IF bytes = None THEN None ELSE deserialize(bytes)

delete_account(db, pk) == [db EXCEPT !["accounts"] = tree_remove(@, Raw(pk))]

put_chain_state(db, state) ==
    [db EXCEPT !["chain_state"] = tree_insert(@, GlobalCurrent, serialize(state))]

get_chain_state(db) ==
    LET bytes == tree_get(db["chain_state"], GlobalCurrent)
    IN  IF bytes = None THEN None ELSE deserialize(bytes)

put_contract_code(db, cid, wasm) ==
    [db EXCEPT !["contract_code"] = tree_insert(@, Raw(cid), wasm)]

get_contract_code(db, cid) == tree_get(db["contract_code"], Raw(cid))

contract_storage_write(db, cid, key, value) ==
    [db EXCEPT !["contract_storage"] = tree_insert(@, StateKey(cid, key), value)]

contract_storage_read(db, cid, key) == tree_get(db["contract_storage"], StateKey(cid, key))

contract_storage_remove(db, cid, key) ==
    [db EXCEPT !["contract_storage"] = tree_remove(@, StateKey(cid, key))]

apply_batch(db, batch) == [db EXCEPT !["default"] = tree_apply_batch(@, batch)]
=============================================================================
