------------------------- MODULE SequentialLedger -------------------------
(***************************************************************************)
(* What a block means when its transactions are applied one after the      *)
(* other, each to the accounts the ones before it have left, under the     *)
(* rules of apply_block.  The code reads every account from storage        *)
(* instead; on which blocks that makes no difference is stated here.       *)
(***************************************************************************)
EXTENDS Ledger

StoredAccounts ==
    [pk \in {p \in PublicKey : get_account(db, p) # None} |-> get_account(db, pk)]

-----------------------------------------------------------------------------
(* One transaction, on a map from keys to accounts.                        *)

Pays(accounts, t) ==
    /\ t.recipient.type = "Wallet"
    /\ accounts[t.sender].type = "Wallet"
    /\ accounts[t.sender].balance >= t.payload.amount
    /\ t.recipient.pk \in DOMAIN accounts => accounts[t.recipient.pk].type = "Wallet"

Admits(accounts, t) ==
    /\ t.sender \in DOMAIN accounts
    /\ t.nonce = AddU64(accounts[t.sender].nonce, 1)
    /\ t.payload.type = "Transfer" => Pays(accounts, t)
    /\ t.payload.type = "ContractCall" => t.recipient.type = "Contract"

Numbered(accounts, t) ==
    tree_insert(accounts, t.sender, set_nonce(accounts[t.sender], t.nonce))

Debited(accounts, t) ==
    tree_insert(accounts, t.sender,
                [set_nonce(accounts[t.sender], t.nonce) EXCEPT !.balance = @ - t.payload.amount])

Credited(accounts, t) ==
    LET to == t.recipient.pk
    IN  tree_insert(accounts, to,
                    IF to \in DOMAIN accounts
                    THEN [accounts[to] EXCEPT !.balance = AddU64(@, t.payload.amount)]
                    ELSE Wallet(t.payload.amount, 0))

\* a sum of the transaction is past the largest u64
Exceeds(accounts, t) ==
    /\ t.sender \in DOMAIN accounts
    /\ \/ Overflows(accounts[t.sender].nonce, 1)
       \/ /\ Admits(accounts, t) /\ t.payload.type = "Transfer"
          /\ t.recipient.pk \in DOMAIN accounts
          /\ Overflows(Debited(accounts, t)[t.recipient.pk].balance, t.payload.amount)

ApplyOne(s, t) ==
    IF s.outcome # "ok" THEN s
    ELSE [ outcome |-> IF Admits(s.accounts, t) THEN "ok" ELSE "refused",
           sums |-> IF Exceeds(s.accounts, t) THEN "wrapped" ELSE s.sums,
           accounts |-> CASE ~Admits(s.accounts, t) -> s.accounts
                          [] t.payload.type = "Transfer" -> Credited(Debited(s.accounts, t), t)
                          [] OTHER -> Numbered(s.accounts, t) ]

-----------------------------------------------------------------------------
(* A block.                                                                *)

\* the accounts, and whether all is well, after each of the transactions
Sequentially(txs) ==
    LET after[n \in 0 .. Len(txs)] ==
            IF n = 0 THEN [outcome |-> "ok", sums |-> "fit", accounts |-> StoredAccounts]
            ELSE ApplyOne(after[n - 1], txs[n])
    IN  after

Computed == batch_of(StoredAccounts, accounts_to_update)

MatchesReference(txs) ==
    LET after == Sequentially(txs)
        end == after[Len(txs)]
    IN  /\ pc = "index" =>
              /\ end.outcome = "ok" /\ end.accounts = Computed
              /\ end.sums = "wrapped" => build = "release"
        /\ pc = "poisoned" => build = "debug" /\ after[i].sums = "wrapped"
        /\ pc = "idle" /\ result = "TransactionError" => end.outcome # "ok"

\* no account appears in two transactions, or twice in one, and no contract
\* is deployed
ConflictFree(txs) ==
    /\ \A n \in DOMAIN txs :
          /\ txs[n].payload.type # "ContractDeploy"
          /\ txs[n].payload.type = "Transfer" => txs[n].recipient # WalletAddress(txs[n].sender)
    /\ \A n, m \in DOMAIN txs : n # m => Atomic!Touched(txs[n]) \cap Atomic!Touched(txs[m]) = {}

\* On a block in which no account occurs twice, apply_block accepts exactly
\* what the one-after-the-other semantics accepts, and computes the same
\* balances and nonces, although it reads every account from storage.  A sum
\* past the largest u64, of a balance or a nonce, panics in a debug build and is
\* the only thing that does; in a release build, and there only, it wraps.
ConflictFreeIsSequential ==
    block # None =>
        (ConflictFree(block.transactions) => MatchesReference(block.transactions))

-----------------------------------------------------------------------------
(* A block of any transactions, as the code computes it.                   *)

\* what a transaction makes of its accounts when it is all a block holds: a
\* recipient is credited on top of its stored balance, the sender's own included
AppliedAlone(t) ==
    CASE t.payload.type = "Transfer" ->
            tree_insert(Debited(StoredAccounts, t), t.recipient.pk,
                        Credited(StoredAccounts, t)[t.recipient.pk])
      [] t.payload.type = "ContractDeploy" ->
            tree_insert(StoredAccounts, t.sender,
                        ContractAccount(contract_id(t.sender, t.payload.wasm), t.nonce))
      [] OTHER -> Numbered(StoredAccounts, t)

\* transaction m is the last of the first n that touches the account
LastToTouch(txs, m, n, pk) ==
    /\ pk \in Atomic!Touched(txs[m])
    /\ \A l \in m + 1 .. n : pk \notin Atomic!Touched(txs[l])

WrittenBy(txs, n) ==
    \A m \in 1 .. n :
        /\ Admits(StoredAccounts, txs[m])
        /\ \A pk \in PublicKey :
              LastToTouch(txs, m, n, pk) => accounts_to_update[pk] = AppliedAlone(txs[m])[pk]

\* What the stale reads of apply_block amount to, on every block: each
\* transaction is judged and computed alone, from the stored accounts, and of
\* the transactions that touch an account the last one decides what it becomes.
\* Two transactions of one sender thus carry the same nonce and spend the same
\* balance, and who pays himself is credited without being debited.
LastWriterWins ==
    block # None =>
        LET txs == block.transactions
        IN  /\ pc = "txs" => WrittenBy(txs, i - 1)
            /\ pc = "index" => WrittenBy(txs, Len(txs))
            /\ pc = "idle" /\ result = "TransactionError" =>
                  \E n \in DOMAIN txs : ~Admits(StoredAccounts, txs[n])

\* apply_block processes the transactions of a block one after the other
\* (Ledger_State_Transition, section on the state transition).
TransactionsAreSequential ==
    block # None =>
        ((\A n \in DOMAIN block.transactions :
             block.transactions[n].payload.type # "ContractDeploy") =>
            MatchesReference(block.transactions))
=============================================================================
