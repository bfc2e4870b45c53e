------------------------------- MODULE Types -------------------------------
(***************************************************************************)
(* The data structures of src/types.rs: addresses, accounts, transactions, *)
(* blocks and the chain state, with the hashing and signing operations the *)
(* other components rely on.  Byte strings (keys, WASM modules, payloads)  *)
(* are opaque values; 64-bit integers keep their width through MaxU64.     *)
(***************************************************************************)
EXTENDS Integers, Sequences

CONSTANTS
    PublicKey,    \* the ed25519 public keys, each of which owns one account
    WasmBytes,    \* the WASM modules a ContractDeploy may carry
    MaxU64,       \* the largest u64: 2^64 - 1 in the code, small in a model
    None          \* Option::None

ASSUME MaxU64Assumption == MaxU64 \in Nat

U64 == 0 .. MaxU64

AddU64(a, b) == (a + b) % (MaxU64 + 1)    \* release builds wrap
Overflows(a, b) == a + b > MaxU64         \* debug builds panic

-----------------------------------------------------------------------------
(* The cryptography comes from external crates.  SHA-256 is taken to be    *)
(* injective; a signature records its key and the message it covers.       *)

Sha256(bytes) == [sha256 |-> bytes]
ZeroHash == [sha256 |-> <<"zero">>]           \* [0; 32]: no digest equals it

ed25519_sign(key, message) == [key |-> key, message |-> message]
NoSignature == [key |-> "zero", message |-> ZeroHash]    \* Signature [0; 64]

-----------------------------------------------------------------------------
(* Addresses, payloads and accounts.                                       *)

WalletAddress(pk) == [pk |-> pk, type |-> "Wallet"]
ContractAddress(cid) == [type |-> "Contract", cid |-> cid]

TransferPayload(amount) == [type |-> "Transfer", amount |-> amount]
DeployPayload(wasm) == [type |-> "ContractDeploy", wasm |-> wasm]
CallPayload == [type |-> "ContractCall"]  \* method and arguments have no effect
DataPayload == [type |-> "Data"]          \* nor has the data

Wallet(balance, nonce) ==
    [type |-> "Wallet", balance |-> balance, nonce |-> nonce]

ContractAccount(code_hash, nonce) ==
    [type |-> "Contract", code_hash |-> code_hash, nonce |-> nonce]

set_nonce(account, n) == [account EXCEPT !.nonce = n]

-----------------------------------------------------------------------------
(* Transactions.  calculate_hash leaves out gas_limit and priority; one    *)
(* field, gas_limit, stands for both.  timestamp and metadata, which only  *)
(* make hashes differ, are folded into the payload.                        *)

tx_calculate_hash(tx) ==
    Sha256(<<"tx", tx.sender, tx.nonce, tx.recipient, tx.payload>>)

UnsignedTransaction(sender, nonce, recipient, payload, gas_limit) ==
    [ hash |-> ZeroHash, payload |-> payload, nonce |-> nonce, sender |-> sender,
      recipient |-> recipient, gas_limit |-> gas_limit, signature |-> NoSignature ]

sign(tx, key) ==
    LET h == tx_calculate_hash(tx)
    IN  [tx EXCEPT !.hash = h, !.signature = ed25519_sign(key, h)]

verify_signature(tx) ==
    /\ tx.hash = tx_calculate_hash(tx)
    /\ tx.signature = ed25519_sign(tx.sender, tx.hash)

-----------------------------------------------------------------------------
(* Blocks.  nonce is always 0 and metadata always None in this code.       *)

block_calculate_hash(b) ==
    Sha256(<<"block", b.index, b.timestamp, b.prev_hash, b.transactions>>)

\* what a block's hash commits to (SHA-256 is injective here)
HashedIndex(hash) == hash.sha256[2]
HashedPrevHash(hash) == hash.sha256[4]
HashedTransactions(hash) == hash.sha256[5]

WithHash(b) == [b EXCEPT !.hash = block_calculate_hash(b)]

MakeBlock(index, timestamp, prev_hash, transactions) ==
    WithHash([ index |-> index, timestamp |-> timestamp,
               prev_hash |-> prev_hash, hash |-> ZeroHash,
               transactions |-> transactions ])

ChainState(hash, index) ==
    [latest_block_hash |-> hash, latest_block_index |-> index]
=============================================================================
