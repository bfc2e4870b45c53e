---------------------------- MODULE AtomicLedger ----------------------------
(***************************************************************************)
(* What apply_batch promises the ledger (docs: atomic block commit): the   *)
(* committed state changes by whole blocks only.  A step commits one block *)
(* -- its chain state together with the accounts it touches and with       *)
(* nothing else -- or moves between what is current and what is on disk.   *)
(***************************************************************************)
EXTENDS StorageApi

VARIABLES
    current,    \* the committed state: encoded keys to encoded values
    saved       \* the committed state a crash would leave

state == <<current, saved>>

tip(s) == s[EncodedGlobalCurrent].bincode

\* accounts a transaction may change
Touched(t) ==
    {t.sender} \cup {pk \in PublicKey : /\ t.payload.type = "Transfer"
                                       /\ t.recipient = WalletAddress(pk)}

TouchedKeys(txs) == {Encoded(pk) : pk \in UNION {Touched(txs[n]) : n \in DOMAIN txs}}

Initial == current = EmptyTree /\ saved = EmptyTree

\* the genesis block, stored by initialize_chain beside its chain state
Genesis ==
    /\ EncodedGlobalCurrent \in DOMAIN current'
    /\ tip(current').latest_block_index = 0
    /\ LET hash == tip(current').latest_block_hash
           written == {EncodedGlobalCurrent, Raw(hash)}
       IN  /\ HashedTransactions(hash) = << >>
           /\ DOMAIN current' = DOMAIN current \cup written
           /\ \A k \in DOMAIN current \ written : current'[k] = current[k]
    /\ UNCHANGED saved

\* one block: the chain state names it, every account it touches is written,
\* every other entry is left as it was
CommitBlock ==
    /\ EncodedGlobalCurrent \in DOMAIN current'
    /\ tip(current').latest_block_index > 0
    /\ LET txs == HashedTransactions(tip(current').latest_block_hash)
           keys == TouchedKeys(txs)
       IN  /\ \A n \in DOMAIN txs : verify_signature(txs[n])
           /\ DOMAIN current' = DOMAIN current \cup keys \cup {EncodedGlobalCurrent}
           /\ \A k \in DOMAIN current \ (keys \cup {EncodedGlobalCurrent}) :
                 current'[k] = current[k]
    /\ UNCHANGED saved

Save == saved' = current /\ UNCHANGED current

Lose == current' = saved /\ UNCHANGED saved

Step == Genesis \/ CommitBlock \/ Save \/ Lose

Spec == Initial /\ [][Step]_state
=============================================================================
