-------------------------- MODULE SequentialProofs --------------------------
(***************************************************************************)
(* On a block in which no account occurs twice, apply_block, which reads   *)
(* every account from storage, does what applying the transactions one     *)
(* after the other does: for any accounts, and blocks of any length.       *)
(***************************************************************************)
EXTENDS SequentialLedger, LedgerProofs

-----------------------------------------------------------------------------
(* The reference semantics, one transaction at a time.                     *)

Start(accounts) == [outcome |-> "ok", sums |-> "fit", accounts |-> accounts]

\* g lists what the first n transactions leave
AppliedUpTo(g, accounts, txs, n) ==
    g = [m \in 0 .. n |-> IF m = 0 THEN Start(accounts) ELSE ApplyOne(g[m - 1], txs[m])]

LEMMA AppliedExists ==
    ASSUME NEW accounts, NEW txs, NEW n \in Nat
    PROVE  \E g : AppliedUpTo(g, accounts, txs, n)
<1> DEFINE T == {k \in Nat : ~ \E g : AppliedUpTo(g, accounts, txs, k)}
<1> SUFFICES ASSUME T # {} PROVE FALSE
  OBVIOUS
<1>1. PICK k \in T : \A m \in T : k <= m
  <2> T \in SUBSET Nat
    OBVIOUS
  <2> HIDE DEF T
  <2> QED
    BY LeastNumber
<1>2. k # 0
  <2> DEFINE g == [m \in 0 .. 0 |-> Start(accounts)]
  <2>1. AppliedUpTo(g, accounts, txs, 0)
    BY DEF AppliedUpTo
  <2> QED
    BY <2>1
<1>3. k - 1 \in Nat /\ k - 1 \notin T
  BY <1>1, <1>2
<1>4. PICK g : AppliedUpTo(g, accounts, txs, k - 1)
  BY <1>3
<1> DEFINE h == [m \in 0 .. k |-> IF m = k THEN ApplyOne(g[k - 1], txs[k]) ELSE g[m]]
           x == [m \in 0 .. k |-> IF m = 0 THEN Start(accounts) ELSE ApplyOne(h[m - 1], txs[m])]
<1>5. \A m \in 0 .. k - 1 :
         g[m] = IF m = 0 THEN Start(accounts) ELSE ApplyOne(g[m - 1], txs[m])
  BY <1>4 DEF AppliedUpTo
<1>6. \A m \in 0 .. k : h[m] = x[m]
  <2> SUFFICES ASSUME NEW m \in 0 .. k PROVE h[m] = x[m]
    OBVIOUS
  <2>1. CASE m = k
    BY <2>1, <1>1, <1>2, <1>3
  <2>2. CASE m # k
    <3>1. m \in 0 .. k - 1
      BY <2>2, <1>3
    <3>2. h[m] = g[m]
      BY <3>1, <2>2
    <3>3. m # 0 => h[m - 1] = g[m - 1]
      BY <3>1, <1>3
    <3> QED
      BY <3>1, <3>2, <3>3, <1>5
  <2> QED
    BY <2>1, <2>2
<1>7. h = x
  BY <1>6
<1>8. AppliedUpTo(h, accounts, txs, k)
  BY <1>7 DEF AppliedUpTo
<1> QED
  BY <1>1, <1>8

\* What the recursive definition of Sequentially defines.
LEMMA Reference ==
    ASSUME NEW txs, Len(txs) \in Nat
    PROVE  /\ Sequentially(txs)[0] = Start(StoredAccounts)
           /\ \A n \in 1 .. Len(txs) :
                 Sequentially(txs)[n] = ApplyOne(Sequentially(txs)[n - 1], txs[n])
<1> DEFINE after == Sequentially(txs)
<1>1. after = CHOOSE g : AppliedUpTo(g, StoredAccounts, txs, Len(txs))
  BY DEF Sequentially, AppliedUpTo, Start
<1>2. AppliedUpTo(after, StoredAccounts, txs, Len(txs))
  BY <1>1, AppliedExists
<1> HIDE DEF after
<1>3. /\ after[0] = Start(StoredAccounts)
      /\ \A n \in 1 .. Len(txs) : after[n] = ApplyOne(after[n - 1], txs[n])
  BY <1>2 DEF AppliedUpTo
<1> QED
  BY <1>3 DEF after

\* A block that is refused stays refused.
LEMMA RefusedForGood ==
    ASSUME NEW txs, Len(txs) \in Nat, NEW n \in 0 .. Len(txs),
           Sequentially(txs)[n].outcome # "ok"
    PROVE  Sequentially(txs)[Len(txs)].outcome # "ok"
<1> DEFINE after == Sequentially(txs)
           T == {k \in n .. Len(txs) : after[k].outcome = "ok"}
<1> SUFFICES ASSUME Len(txs) \in T PROVE FALSE
  OBVIOUS
<1>1. PICK k \in T : \A m \in T : k <= m
  <2> T \in SUBSET Nat /\ T # {}
    OBVIOUS
  <2> HIDE DEF T
  <2> QED
    BY LeastNumber
<1>2. k # n
  BY <1>1
<1>3. k \in 1 .. Len(txs) /\ k - 1 \in n .. Len(txs) /\ k - 1 \notin T
  BY <1>1, <1>2
<1>4. after[k - 1].outcome # "ok"
  BY <1>3
<1>5. after[k] = ApplyOne(after[k - 1], txs[k])
  BY <1>3, Reference
<1>6. after[k] = after[k - 1]
  BY <1>4, <1>5 DEF ApplyOne
<1> QED
  BY <1>1, <1>4, <1>6

-----------------------------------------------------------------------------
(* What apply_block has computed, as one map.                              *)

\* accounts read from storage until a transaction touches them
IsOverlay(new, stored, updates) ==
    /\ DOMAIN new = DOMAIN stored \cup DOMAIN updates
    /\ \A k \in DOMAIN updates : new[k] = updates[k]
    /\ \A k \in DOMAIN stored : k \notin DOMAIN updates => new[k] = stored[k]

LEMMA Overlay ==
    ASSUME NEW stored, NEW updates
    PROVE  IsOverlay(batch_of(stored, updates), stored, updates)
BY DEF IsOverlay, batch_of

\* An update of the map apply_block keeps is an update of the accounts computed.
LEMMA UpdateOverlay ==
    ASSUME NEW stored, NEW updates, NEW pk, NEW account
    PROVE  batch_of(stored, tree_insert(updates, pk, account)) =
              tree_insert(batch_of(stored, updates), pk, account)
<1> DEFINE x == batch_of(stored, tree_insert(updates, pk, account))
           y == tree_insert(batch_of(stored, updates), pk, account)
           keys == DOMAIN stored \cup DOMAIN updates \cup {pk}
<1>1. x = [k \in keys |-> x[k]] /\ y = [k \in keys |-> y[k]]
  BY DEF batch_of, tree_insert
<1>2. ASSUME NEW k \in keys PROVE x[k] = y[k]
  <2>1. CASE k = pk
    BY <2>1 DEF batch_of, tree_insert
  <2>2. CASE k # pk
    BY <2>2 DEF batch_of, tree_insert
  <2> QED
    BY <2>1, <2>2
<1> HIDE DEF x, y
<1>3. x = y
  BY <1>1, <1>2
<1> QED
  BY <1>3 DEF x, y

LEMMA NoUpdates == batch_of(StoredAccounts, << >>) = StoredAccounts
BY DEF batch_of, StoredAccounts

\* An account that is not yet updated is the one storage holds.
LEMMA Untouched ==
    ASSUME NEW pk \in PublicKey, pk \notin DOMAIN accounts_to_update
    PROVE  /\ pk \in DOMAIN Computed <=> get_account(db, pk) # None
           /\ get_account(db, pk) # None => Computed[pk] = get_account(db, pk)
<1>1. IsOverlay(Computed, StoredAccounts, accounts_to_update)
  BY Overlay DEF Computed
<1>2. /\ pk \in DOMAIN StoredAccounts <=> get_account(db, pk) # None
      /\ get_account(db, pk) # None => StoredAccounts[pk] = get_account(db, pk)
  BY DEF StoredAccounts
<1> QED
  BY <1>1, <1>2 DEF IsOverlay

-----------------------------------------------------------------------------
(* The transaction at hand.                                                *)

\* Its accounts are not among those the transactions before it have updated.
LEMMA FreshAccounts ==
    ASSUME IInv, AtTx, ConflictFree(block.transactions)
    PROVE  /\ i \in 1 .. Len(block.transactions) /\ Len(block.transactions) \in Nat
           /\ tx.payload.type # "ContractDeploy"
           /\ tx.sender \in PublicKey /\ tx.sender \notin DOMAIN accounts_to_update
           /\ tx.payload.type = "Transfer" /\ tx.recipient.type = "Wallet" =>
                 /\ tx.recipient.pk \in PublicKey /\ tx.recipient.pk # tx.sender
                 /\ tx.recipient.pk \notin DOMAIN accounts_to_update
<1> DEFINE txs == block.transactions
<1>1. BlockInHand /\ AccountsInHand(i - 1) /\ i \in 1 .. Len(txs) + 1 /\ i <= Len(txs)
  BY DEF IInv, InHand, TypeOK, AtTx
<1>2. /\ Len(txs) \in Nat /\ DOMAIN txs = 1 .. Len(txs)
      /\ \A n \in DOMAIN txs : IsTransaction(txs[n])
  BY <1>1, Transactions
<1>3. i \in 1 .. Len(txs) /\ i \in DOMAIN txs
  BY <1>1, <1>2
<1>4. IsTransaction(tx)
  BY <1>2, <1>3 DEF tx
<1>5. /\ tx.payload.type # "ContractDeploy"
      /\ tx.payload.type = "Transfer" => tx.recipient # WalletAddress(tx.sender)
      /\ \A m \in DOMAIN txs : m # i => TouchedBy(m) \cap Atomic!Touched(tx) = {}
  BY <1>3 DEF ConflictFree, TouchedBy, tx
<1>6. \A pk \in Atomic!Touched(tx) : pk \notin DOMAIN accounts_to_update
  <2> SUFFICES ASSUME NEW pk \in Atomic!Touched(tx), pk \in DOMAIN accounts_to_update
               PROVE  FALSE
    OBVIOUS
  <2>1. PICK m \in 1 .. i - 1 : pk \in TouchedBy(m)
    BY <1>1 DEF AccountsInHand
  <2>2. m \in DOMAIN txs /\ m # i
    BY <1>2, <1>3
  <2> QED
    BY <2>1, <2>2, <1>5
<1>7. tx.sender \in Atomic!Touched(tx)
  BY DEF Atomic!Touched
<1>8. ASSUME tx.payload.type = "Transfer", tx.recipient.type = "Wallet"
      PROVE  /\ tx.recipient.pk \in PublicKey /\ tx.recipient.pk # tx.sender
             /\ tx.recipient.pk \in Atomic!Touched(tx)
  <2>1. tx.recipient.pk \in PublicKey /\ tx.recipient = WalletAddress(tx.recipient.pk)
    BY <1>4, <1>8 DEF IsTransaction
  <2>2. Atomic!WalletAddress(tx.recipient.pk) = WalletAddress(tx.recipient.pk)
    BY DEF Atomic!WalletAddress, WalletAddress
  <2>3. tx.recipient.pk \in Atomic!Touched(tx)
    BY <1>8, <2>1, <2>2 DEF Atomic!Touched
  <2> QED
    BY <1>5, <1>8, <2>1, <2>3
<1> QED
  BY <1>2, <1>3, <1>4, <1>5, <1>6, <1>7, <1>8 DEF IsTransaction

\* what apply_block sees of the accounts of the transaction is what is computed
Sees ==
    /\ tx.sender \in DOMAIN Computed <=> sender_account # None
    /\ sender_account # None => Computed[tx.sender] = sender_account
    /\ tx.payload.type = "Transfer" /\ tx.recipient.type = "Wallet" =>
          /\ tx.recipient.pk # tx.sender
          /\ tx.recipient.pk \in DOMAIN Computed <=> recipient_account # None
          /\ recipient_account # None => Computed[tx.recipient.pk] = recipient_account

LEMMA SeesTheAccounts ==
    ASSUME IInv, AtTx, ConflictFree(block.transactions)
    PROVE  Sees
BY FreshAccounts, Untouched DEF Sees, sender_account, recipient_account

\* The verdict is the same.
LEMMA SameVerdict ==
    ASSUME Sees
    PROVE  Admits(Computed, tx) <=> Accepts
<1>1. NonceOk <=> /\ tx.sender \in DOMAIN Computed
                  /\ tx.nonce = AddU64(Computed[tx.sender].nonce, 1)
  BY DEF Sees, NonceOk
<1>2. ASSUME NonceOk, tx.payload.type = "Transfer"
      PROVE  Pays(Computed, tx) <=> Debitable /\ Creditable
  BY <1>2 DEF Sees, NonceOk, Pays, Debitable, Creditable
<1> QED
  BY <1>1, <1>2 DEF Admits, Accepts

\* A sum overflows in the one exactly where it does in the other.
LEMMA SameSums ==
    ASSUME Sees
    PROVE  Panics <=> build = "debug" /\ Exceeds(Computed, tx)
<1>1. ASSUME Accepts, tx.payload.type = "Transfer", recipient_account # None
      PROVE  /\ tx.recipient.pk \in DOMAIN Computed
             /\ Debited(Computed, tx)[tx.recipient.pk] = recipient_account
  <2>1. tx.recipient.type = "Wallet"
    BY <1>1 DEF Accepts, Creditable
  <2>2. /\ tx.recipient.pk # tx.sender /\ tx.recipient.pk \in DOMAIN Computed
        /\ Computed[tx.recipient.pk] = recipient_account
    BY <1>1, <2>1 DEF Sees
  <2>3. Debited(Computed, tx)[tx.recipient.pk] = Computed[tx.recipient.pk]
    BY <2>2 DEF Debited, tree_insert
  <2> QED
    BY <2>2, <2>3
<1>2. ASSUME Accepts, tx.payload.type = "Transfer", tx.recipient.pk \in DOMAIN Computed
      PROVE  recipient_account # None
  <2>1. tx.recipient.type = "Wallet"
    BY <1>2 DEF Accepts, Creditable
  <2> QED
    BY <1>2, <2>1 DEF Sees
<1>3. tx.payload.type = "Transfer" => (Accepts <=> NonceOk /\ Debitable /\ Creditable)
  BY DEF Accepts
<1>4. Admits(Computed, tx) <=> Accepts
  BY SameVerdict
<1>5. /\ tx.sender \in DOMAIN Computed <=> sender_account # None
      /\ sender_account # None => Computed[tx.sender] = sender_account
  BY DEF Sees
<1>6. ASSUME tx.payload.type = "Transfer"
      PROVE  NonceOk /\ Debitable /\ Creditable /\ CreditOverflows <=>
                /\ Admits(Computed, tx) /\ tx.recipient.pk \in DOMAIN Computed
                /\ Overflows(Debited(Computed, tx)[tx.recipient.pk].balance, tx.payload.amount)
  BY <1>1, <1>2, <1>3, <1>4, <1>6 DEF CreditOverflows
<1> QED
  BY <1>5, <1>6 DEF Panics, Exceeds

\* What apply_block computes for a transaction it accepts is the same.
LEMMA SameEffect ==
    ASSUME Sees, ApplyTransfer \/ ApplyCallOrData, StoredAccounts' = StoredAccounts
    PROVE  Computed' = IF tx.payload.type = "Transfer"
                       THEN Credited(Debited(Computed, tx), tx)
                       ELSE Numbered(Computed, tx)
<1>0. Accepts /\ Computed[tx.sender] = sender_account
  BY DEF ApplyTransfer, ApplyCallOrData, Accepts, NonceOk, Sees
<1>1. Computed' = batch_of(StoredAccounts, accounts_to_update')
  BY DEF Computed
<1>2. CASE ApplyCallOrData
  <2>1. /\ tx.payload.type # "Transfer"
        /\ accounts_to_update' = tree_insert(accounts_to_update, tx.sender, numbered_sender)
    BY <1>2 DEF ApplyCallOrData, update
  <2>2. Computed' = tree_insert(Computed, tx.sender, numbered_sender)
    BY <1>1, <2>1, UpdateOverlay DEF Computed
  <2> QED
    BY <2>1, <2>2, <1>0 DEF Numbered, numbered_sender
<1>3. CASE ApplyTransfer
  <2> DEFINE debited == [numbered_sender EXCEPT !.balance = @ - tx.payload.amount]
             to == tx.recipient.pk
  <2>1. /\ tx.payload.type = "Transfer"
        /\ accounts_to_update' = tree_insert(tree_insert(accounts_to_update, tx.sender, debited),
                                             to, credited_recipient)
    BY <1>3 DEF ApplyTransfer, update
  <2>2. Debited(Computed, tx) = tree_insert(Computed, tx.sender, debited)
    BY <1>0 DEF Debited, numbered_sender
  <2> HIDE DEF debited
  <2>3. Computed' = tree_insert(tree_insert(Computed, tx.sender, debited), to, credited_recipient)
    BY <1>1, <2>1, UpdateOverlay DEF Computed
  <2>4. /\ to # tx.sender
        /\ to \in DOMAIN Computed <=> recipient_account # None
        /\ recipient_account # None => Computed[to] = recipient_account
    BY <1>0, <2>1 DEF Sees, Accepts, Creditable
  <2>5. /\ to \in DOMAIN Debited(Computed, tx) <=> recipient_account # None
        /\ recipient_account # None => Debited(Computed, tx)[to] = recipient_account
    BY <2>2, <2>4 DEF tree_insert
  <2>6. Credited(Debited(Computed, tx), tx) =
           tree_insert(Debited(Computed, tx), to, credited_recipient)
    <3>1. CASE recipient_account = None
      BY <3>1, <2>5 DEF Credited, credited_recipient
    <3>2. CASE recipient_account # None
      BY <3>2, <2>5 DEF Credited, credited_recipient
    <3> QED
      BY <3>1, <3>2
  <2> QED
    BY <2>1, <2>2, <2>3, <2>6
<1> QED
  BY <1>2, <1>3

-----------------------------------------------------------------------------
(* What is inductive: the loop has computed what the reference leaves.     *)

After == Sequentially(block.transactions)

Agrees(n) ==
    /\ After[n].outcome = "ok" /\ After[n].accounts = Computed
    /\ After[n].sums = "wrapped" => build = "release"

SequentialSoFar ==
    /\ pc = "txs" => Agrees(i - 1)
    /\ pc = "index" => Agrees(Len(block.transactions))
    /\ pc = "poisoned" => build = "debug" /\ After[i].sums = "wrapped"
    /\ pc = "idle" /\ result = "TransactionError" =>
          After[Len(block.transactions)].outcome # "ok"

InOrder ==
    /\ build \in {"debug", "release"}
    /\ pc = "storing" => result = "ok"
    /\ block # None => (ConflictFree(block.transactions) => SequentialSoFar)

LEMMA AtStart == Len(block.transactions) \in Nat => After[0] = Start(StoredAccounts)
BY Reference DEF After

\* The accounts a block starts from are the same throughout.
LEMMA StoredAccountsKept ==
    ASSUME IInv, [Next]_vars
    PROVE  /\ StoredAccounts' = StoredAccounts
           /\ block' = block => After' = After
<1>1. \A pk \in PublicKey : get_account(db', pk) = get_account(db, pk)
  BY GettersKept
<1>2. StoredAccounts' = StoredAccounts
  BY <1>1 DEF StoredAccounts
<1>3. block' = block => After' = After
  BY <1>2 DEF After, Sequentially
<1> QED
  BY <1>2, <1>3

\* The loop goes on: one more transaction, in both.
LEMMA LoopAgrees ==
    ASSUME IInv, [Next]_vars, AtTx, ConflictFree(block.transactions), Agrees(i - 1),
           build \in {"debug", "release"}, ApplyTransfer \/ ApplyCallOrData
    PROVE  /\ pc' = "txs" /\ block' = block /\ Agrees(i - 1)'
<1>1. Sees /\ i \in 1 .. Len(block.transactions) /\ Len(block.transactions) \in Nat
  BY SeesTheAccounts, FreshAccounts
<1>2. /\ Accepts /\ ~Panics
      /\ pc' = "txs" /\ block' = block /\ i' = i + 1
  BY DEF ApplyTransfer, ApplyCallOrData, NextTx, AtTx
<1>3. StoredAccounts' = StoredAccounts /\ After' = After /\ build' = build
  BY <1>2, StoredAccountsKept DEF Next, vars
<1>4. Admits(Computed, tx) /\ (Exceeds(Computed, tx) => build = "release")
  BY <1>1, <1>2, SameVerdict, SameSums
<1>5. After[i] = ApplyOne(After[i - 1], tx)
  BY <1>1, Reference DEF After, tx
<1>6. /\ After[i].outcome = "ok"
      /\ After[i].sums = "wrapped" => build = "release"
      /\ After[i].accounts = IF tx.payload.type = "Transfer"
                             THEN Credited(Debited(Computed, tx), tx)
                             ELSE Numbered(Computed, tx)
  BY <1>4, <1>5 DEF ApplyOne, Agrees
<1>7. After[i].accounts = Computed'
  BY <1>1, <1>3, <1>6, SameEffect
<1>8. i' - 1 = i
  BY <1>1, <1>2
<1> QED
  BY <1>2, <1>3, <1>6, <1>7, <1>8 DEF Agrees

LEMMA AppliedInOrder ==
    ASSUME IInv, [Next]_vars, InOrder, ApplyTransfer \/ ApplyCallOrData
    PROVE  InOrder'
<1>1. AtTx /\ pc = "txs" /\ pc' = "txs" /\ block' = block /\ build' = build
  BY DEF ApplyTransfer, ApplyCallOrData, AtTx, NextTx, Next, vars
<1>2. ASSUME block # None, ConflictFree(block.transactions)
      PROVE  Agrees(i - 1)'
  BY <1>1, <1>2, LoopAgrees DEF InOrder, SequentialSoFar
<1> QED
  BY <1>1, <1>2 DEF InOrder, SequentialSoFar

LEMMA StoppedInOrder ==
    ASSUME IInv, [Next]_vars, InOrder, RejectTx \/ PanicTx
    PROVE  InOrder'
<1> DEFINE txs == block.transactions
<1>1. /\ AtTx /\ pc = "txs" /\ block' = block /\ build' = build /\ i' = i
      /\ pc' \in {"idle", "poisoned"}
  BY DEF RejectTx, PanicTx, Fail, applying, AtTx, Next, vars
<1>2. After' = After
  BY <1>1, StoredAccountsKept
<1>3. ASSUME block # None, ConflictFree(txs)
      PROVE  SequentialSoFar'
  <2>1. Agrees(i - 1)
    BY <1>1, <1>3 DEF InOrder, SequentialSoFar
  <2>2. Sees /\ i \in 1 .. Len(txs) /\ Len(txs) \in Nat
    BY <1>1, <1>3, SeesTheAccounts, FreshAccounts
  <2>3. After[i] = ApplyOne(After[i - 1], tx)
    BY <2>2, Reference DEF After, tx
  <2>4. /\ Admits(Computed, tx) <=> Accepts
        /\ Panics <=> build = "debug" /\ Exceeds(Computed, tx)
    BY <2>2, SameVerdict, SameSums
  <2>5. CASE PanicTx
    <3>1. pc' = "poisoned" /\ Panics
      BY <2>5 DEF PanicTx
    <3>2. After[i].sums = "wrapped"
      BY <3>1, <2>1, <2>3, <2>4 DEF ApplyOne, Agrees
    <3> QED
      BY <3>1, <3>2, <2>4, <1>1, <1>2 DEF SequentialSoFar
  <2>6. CASE RejectTx
    <3>1. pc' = "idle" /\ ~Accepts
      BY <2>6 DEF RejectTx, Fail
    <3>2. After[i].outcome # "ok"
      BY <3>1, <2>1, <2>3, <2>4 DEF ApplyOne, Agrees
    <3>3. After[Len(txs)].outcome # "ok"
      BY <3>2, <2>2, RefusedForGood DEF After
    <3> QED
      BY <3>1, <3>3, <1>1, <1>2 DEF SequentialSoFar
  <2> QED
    BY <2>5, <2>6
<1> QED
  BY <1>1, <1>3 DEF InOrder

LEMMA ValidatedInOrder ==
    ASSUME IInv, [Next]_vars, InOrder, NEW txs \in Pending, NEW b \in Proposed(txs),
           ValidateOk(b)
    PROVE  InOrder'
<1>1. /\ pc' = "txs" /\ block' = b /\ i' = 1 /\ accounts_to_update' = << >>
      /\ build' = build
  BY DEF ValidateOk, Next, vars, PutForward
<1>2. IInv'
  BY ValidateOkStep
<1>3. BlockInHand'
  BY <1>1, <1>2 DEF IInv, InHand
<1>4. Len(block'.transactions) \in Nat
  BY <1>3, PendingAssumption DEF BlockInHand
<1>5. StoredAccounts' = StoredAccounts
  BY StoredAccountsKept
<1>6. After'[0] = Start(StoredAccounts)
  <2>1. (Len(block.transactions) \in Nat => After[0] = Start(StoredAccounts))'
    BY AtStart, PTL
  <2> QED
    BY <2>1, <1>4, <1>5
<1>7. Computed' = StoredAccounts
  BY <1>1, <1>5, NoUpdates DEF Computed
<1>8. Agrees(i - 1)'
  <2>1. i' - 1 = 0
    BY <1>1
  <2> QED
    BY <2>1, <1>6, <1>7 DEF Agrees, Start
<1> QED
  BY <1>1, <1>8 DEF InOrder, SequentialSoFar

LEMMA BatchedInOrder ==
    ASSUME IInv, [Next]_vars, InOrder, UpdateChainState
    PROVE  InOrder'
<1>1. /\ pc = "txs" /\ pc' = "index" /\ i > Len(block.transactions)
      /\ block' = block /\ build' = build /\ accounts_to_update' = accounts_to_update
      /\ i \in 1 .. Len(block.transactions) + 1 /\ BlockInHand
  BY DEF UpdateChainState, Next, vars, IInv, InHand, TypeOK
<1>2. i - 1 = Len(block.transactions)
  BY <1>1, Transactions
<1>3. After' = After /\ Computed' = Computed
  BY <1>1, StoredAccountsKept DEF Computed
<1> QED
  BY <1>1, <1>2, <1>3 DEF InOrder, SequentialSoFar, Agrees

\* The steps that neither read a block's accounts nor compute them.
LEMMA OthersInOrder ==
    ASSUME IInv, [Next]_vars, InOrder, build' = build, block' = block,
           accounts_to_update' = accounts_to_update,
           pc' = "txs" => pc = "txs" /\ i' = i,
           pc' = "index" => pc = "index",
           pc' = "poisoned" => pc = "poisoned" /\ i' = i,
           pc' = "storing" => result' = "ok",
           pc' = "idle" => result' # "TransactionError" \/ (pc = "idle" /\ result' = result)
    PROVE  InOrder'
<1>1. After' = After /\ Computed' = Computed
  BY StoredAccountsKept DEF Computed
<1> QED
  BY <1>1 DEF InOrder, SequentialSoFar, Agrees

LEMMA DeployInOrder ==
    ASSUME IInv, [Next]_vars, InOrder, ApplyDeploy
    PROVE  InOrder'
<1>1. /\ AtTx /\ tx.payload.type = "ContractDeploy" /\ block' = block /\ build' = build
      /\ pc' = "txs"
  BY DEF ApplyDeploy, AtTx, NextTx, Next, vars
<1>2. ~ConflictFree(block.transactions)
  BY <1>1, FreshAccounts
<1> QED
  BY <1>1, <1>2 DEF InOrder

\* The loop of apply_block has computed, after each transaction, what applying
\* the transactions so far one after the other leaves.
THEOREM LoopIsSequential == Spec => []InOrder
<1>1. Init => InOrder
  BY BuildAssumption DEF Init, InOrder
<1>2. IInv /\ InOrder /\ [Next]_vars => InOrder'
  <2> SUFFICES ASSUME IInv, InOrder, [Next]_vars PROVE InOrder'
    OBVIOUS
  <2>0. build' = build
    BY DEF Next, vars
  <2>1. ASSUME NEW txs \in Pending, NEW b \in Proposed(txs), ValidateOk(b)
        PROVE  InOrder'
    BY <2>1, ValidatedInOrder
  <2>2. ASSUME NEW b, ValidateFails(b)
        PROVE  InOrder'
    BY <2>0, <2>2, OthersInOrder DEF ValidateFails, PutForward, applying
  <2>3. CASE Boot \/ BootFails
    BY <2>0, <2>3, OthersInOrder DEF Boot, BootFails, applying
  <2>4. CASE IndexTx \/ Commit \/ StorageFails
    BY <2>0, <2>4, OthersInOrder DEF IndexTx, Commit, StorageFails, Fail, applying
  <2>5. CASE StoreBlockHash \/ StoreBlockHeight
    BY <2>0, <2>5, OthersInOrder DEF StoreBlockHash, StoreBlockHeight, applying, InOrder
  <2>6. CASE Flush \/ UNCHANGED vars
    BY <2>0, <2>6, OthersInOrder DEF Flush, vars, applying, InOrder
  <2>7. CASE Crash
    BY <2>0, <2>7 DEF Crash, InOrder
  <2> QED
    BY <2>1, <2>2, <2>3, <2>4, <2>5, <2>6, <2>7, AppliedInOrder, StoppedInOrder,
       BatchedInOrder, DeployInOrder DEF Next, apply_block
<1> QED
  BY <1>1, <1>2, Invariance, PTL DEF Spec

\* On a block in which no account occurs twice, apply_block accepts what the
\* one-after-the-other semantics accepts and computes the same balances and
\* nonces, and a sum past the largest u64 is the only thing that panics it.
THEOREM Sequential == Spec => []ConflictFreeIsSequential
<1>1. InOrder => ConflictFreeIsSequential
  BY DEF InOrder, SequentialSoFar, Agrees, After, ConflictFreeIsSequential, MatchesReference
<1> QED
  BY <1>1, LoopIsSequential, PTL

-----------------------------------------------------------------------------
(* Any block: each transaction on the stored accounts, the last one wins.  *)

\* what apply_block reads of the transaction at hand is what storage holds
ReadsStored ==
    /\ tx.sender \in DOMAIN StoredAccounts <=> sender_account # None
    /\ sender_account # None => StoredAccounts[tx.sender] = sender_account
    /\ tx.payload.type = "Transfer" /\ tx.recipient.type = "Wallet" =>
          /\ tx.recipient.pk \in DOMAIN StoredAccounts <=> recipient_account # None
          /\ recipient_account # None => StoredAccounts[tx.recipient.pk] = recipient_account

LEMMA ReadsTheStored ==
    ASSUME IInv, AtTx
    PROVE  /\ ReadsStored /\ IsTransaction(tx)
           /\ i \in 1 .. Len(block.transactions) /\ i \in DOMAIN block.transactions
           /\ Len(block.transactions) \in Nat
<1>1. BlockInHand /\ i \in 1 .. Len(block.transactions) + 1 /\ i <= Len(block.transactions)
  BY DEF IInv, InHand, TypeOK, AtTx
<1>2. /\ i \in 1 .. Len(block.transactions) /\ i \in DOMAIN block.transactions
      /\ Len(block.transactions) \in Nat /\ IsTransaction(tx)
  BY <1>1, Transactions DEF tx
<1>3. ASSUME NEW pk \in PublicKey
      PROVE  /\ pk \in DOMAIN StoredAccounts <=> get_account(db, pk) # None
             /\ get_account(db, pk) # None => StoredAccounts[pk] = get_account(db, pk)
  BY DEF StoredAccounts
<1>4. /\ tx.sender \in PublicKey
      /\ tx.recipient.type = "Wallet" => tx.recipient.pk \in PublicKey
  BY <1>2 DEF IsTransaction
<1>5. ReadsStored
  BY <1>3, <1>4 DEF ReadsStored, sender_account, recipient_account
<1> QED
  BY <1>2, <1>5

LEMMA StoredVerdict ==
    ASSUME ReadsStored
    PROVE  Admits(StoredAccounts, tx) <=> Accepts
<1>1. NonceOk <=> /\ tx.sender \in DOMAIN StoredAccounts
                  /\ tx.nonce = AddU64(StoredAccounts[tx.sender].nonce, 1)
  BY DEF ReadsStored, NonceOk
<1>2. ASSUME NonceOk, tx.payload.type = "Transfer"
      PROVE  Pays(StoredAccounts, tx) <=> Debitable /\ Creditable
  BY <1>2 DEF ReadsStored, NonceOk, Pays, Debitable, Creditable
<1> QED
  BY <1>1, <1>2 DEF Admits, Accepts

\* The accounts a transaction touches are its sender and, of a payment, its
\* recipient.
LEMMA TouchedAccounts ==
    ASSUME IsTransaction(tx), Accepts
    PROVE  Atomic!Touched(tx) = IF tx.payload.type = "Transfer"
                                THEN {tx.sender, tx.recipient.pk} ELSE {tx.sender}
<1>1. CASE tx.payload.type = "Transfer"
  <2>1. tx.recipient.pk \in PublicKey /\ tx.recipient = WalletAddress(tx.recipient.pk)
    BY <1>1 DEF IsTransaction, Accepts, Creditable
  <2>2. \A pk : Atomic!WalletAddress(pk) = [pk |-> pk, type |-> "Wallet"]
    BY DEF Atomic!WalletAddress
  <2>3. tx.recipient = [pk |-> tx.recipient.pk, type |-> "Wallet"]
    BY <2>1 DEF WalletAddress
  <2>4. \A pk \in PublicKey : tx.recipient = Atomic!WalletAddress(pk) <=> pk = tx.recipient.pk
    BY <2>2, <2>3
  <2> QED
    BY <1>1, <2>1, <2>4 DEF Atomic!Touched
<1>2. CASE tx.payload.type # "Transfer"
  BY <1>2 DEF Atomic!Touched
<1> QED
  BY <1>1, <1>2

\* What a transaction writes: its own accounts, as it computes them alone.
LEMMA WritesItsOwn ==
    ASSUME IInv, ApplyTransfer \/ ApplyDeploy \/ ApplyCallOrData
    PROVE  /\ \A pk \in Atomic!Touched(tx) :
                 accounts_to_update'[pk] = AppliedAlone(tx)[pk]
           /\ \A pk \in DOMAIN accounts_to_update \ Atomic!Touched(tx) :
                 accounts_to_update'[pk] = accounts_to_update[pk]
<1>1. AtTx /\ Accepts
  BY DEF ApplyTransfer, ApplyDeploy, ApplyCallOrData
<1>2. ReadsStored /\ IsTransaction(tx)
  BY <1>1, ReadsTheStored
<1>3. StoredAccounts[tx.sender] = sender_account
  BY <1>1, <1>2 DEF ReadsStored, Accepts, NonceOk
<1>4. CASE ApplyTransfer
  <2> DEFINE to == tx.recipient.pk
             debited == [numbered_sender EXCEPT !.balance = @ - tx.payload.amount]
             stored == StoredAccounts
  <2>1. /\ tx.payload.type = "Transfer"
        /\ accounts_to_update' = tree_insert(tree_insert(accounts_to_update, tx.sender, debited),
                                             to, credited_recipient)
    BY <1>4 DEF ApplyTransfer, update
  <2>2. Atomic!Touched(tx) = {tx.sender, to}
    BY <1>1, <1>2, <2>1, TouchedAccounts
  <2>3. /\ to \in DOMAIN stored <=> recipient_account # None
        /\ recipient_account # None => stored[to] = recipient_account
    BY <1>1, <1>2, <2>1 DEF ReadsStored, Accepts, Creditable
  <2>4. Credited(stored, tx)[to] = credited_recipient
    <3>1. CASE recipient_account = None
      BY <3>1, <2>3 DEF Credited, credited_recipient, tree_insert
    <3>2. CASE recipient_account # None
      BY <3>2, <2>3 DEF Credited, credited_recipient, tree_insert
    <3> QED
      BY <3>1, <3>2
  <2>5. Debited(stored, tx) = tree_insert(stored, tx.sender, debited)
    BY <1>3 DEF Debited, numbered_sender
  <2>6. AppliedAlone(tx) = tree_insert(tree_insert(stored, tx.sender, debited), to,
                                       credited_recipient)
    BY <2>1, <2>4, <2>5 DEF AppliedAlone
  <2> HIDE DEF debited, stored, to
  <2> QED
    BY <2>1, <2>2, <2>6 DEF tree_insert
<1>5. CASE ApplyDeploy
  <2>1. /\ tx.payload.type = "ContractDeploy"
        /\ accounts_to_update' = tree_insert(accounts_to_update, tx.sender,
                                             ContractAccount(deployed, tx.nonce))
    BY <1>5 DEF ApplyDeploy, update
  <2>2. AppliedAlone(tx) = tree_insert(StoredAccounts, tx.sender,
                                       ContractAccount(deployed, tx.nonce))
    BY <2>1 DEF AppliedAlone, deployed
  <2>3. Atomic!Touched(tx) = {tx.sender}
    BY <1>1, <1>2, <2>1, TouchedAccounts
  <2> QED
    BY <2>1, <2>2, <2>3 DEF tree_insert
<1>6. CASE ApplyCallOrData
  <2>1. /\ tx.payload.type \in {"ContractCall", "Data"}
        /\ accounts_to_update' = tree_insert(accounts_to_update, tx.sender, numbered_sender)
    BY <1>6 DEF ApplyCallOrData, update
  <2>2. AppliedAlone(tx) = tree_insert(StoredAccounts, tx.sender, numbered_sender)
    BY <1>3, <2>1 DEF AppliedAlone, Numbered, numbered_sender
  <2>3. Atomic!Touched(tx) = {tx.sender}
    BY <1>1, <1>2, <2>1, TouchedAccounts
  <2> QED
    BY <2>1, <2>2, <2>3 DEF tree_insert
<1> QED
  BY <1>4, <1>5, <1>6

\* One more transaction: the accounts it touches are its own from now on.
LEMMA LoopWrites ==
    ASSUME IInv, [Next]_vars, LastWriterWins,
           ApplyTransfer \/ ApplyDeploy \/ ApplyCallOrData
    PROVE  LastWriterWins'
<1> DEFINE txs == block.transactions
<1>1. /\ AtTx /\ Accepts /\ pc = "txs" /\ pc' = "txs" /\ block' = block /\ i' = i + 1
  BY DEF ApplyTransfer, ApplyDeploy, ApplyCallOrData, AtTx, NextTx
<1>2. /\ ReadsStored /\ i \in 1 .. Len(txs) /\ i' - 1 = i
      /\ tx = txs[i] /\ AccountsInHand(i - 1)
  BY <1>1, ReadsTheStored DEF tx, IInv, InHand
<1>3. StoredAccounts' = StoredAccounts
  BY StoredAccountsKept
<1>4. ASSUME block # None, NEW m \in 1 .. i
      PROVE  /\ Admits(StoredAccounts, txs[m])
             /\ \A pk \in PublicKey : LastToTouch(txs, m, i, pk) =>
                   accounts_to_update'[pk] = AppliedAlone(txs[m])[pk]
  <2>1. CASE m = i
    <3>1. Admits(StoredAccounts, tx)
      BY <1>1, <1>2, StoredVerdict
    <3>2. \A pk \in Atomic!Touched(tx) : accounts_to_update'[pk] = AppliedAlone(tx)[pk]
      BY WritesItsOwn
    <3> QED
      BY <2>1, <1>2, <3>1, <3>2 DEF LastToTouch
  <2>2. CASE m # i
    <3>1. m \in 1 .. i - 1 /\ WrittenBy(txs, i - 1)
      BY <1>1, <1>2, <1>4, <2>2 DEF LastWriterWins
    <3>2. Admits(StoredAccounts, txs[m])
      BY <3>1 DEF WrittenBy
    <3>3. ASSUME NEW pk \in PublicKey, LastToTouch(txs, m, i, pk)
          PROVE  accounts_to_update'[pk] = AppliedAlone(txs[m])[pk]
      <4>1. pk \in Atomic!Touched(txs[m]) /\ pk \notin Atomic!Touched(tx)
        BY <1>2, <3>1, <3>3 DEF LastToTouch
      <4>2. LastToTouch(txs, m, i - 1, pk)
        BY <1>2, <3>1, <3>3 DEF LastToTouch
      <4>3. accounts_to_update[pk] = AppliedAlone(txs[m])[pk]
        BY <3>1, <4>2 DEF WrittenBy
      <4>4. pk \in DOMAIN accounts_to_update
        BY <1>2, <3>1, <4>1 DEF AccountsInHand, TouchedBy
      <4>5. accounts_to_update'[pk] = accounts_to_update[pk]
        BY <4>1, <4>4, WritesItsOwn
      <4> QED
        BY <4>3, <4>5
    <3> QED
      BY <3>2, <3>3
  <2> QED
    BY <2>1, <2>2
<1>5. \A t : AppliedAlone(t)' = AppliedAlone(t)
  BY <1>3 DEF AppliedAlone, Debited, Credited, Numbered
<1>6. block # None => WrittenBy(txs, i - 1)'
  BY <1>1, <1>2, <1>3, <1>4, <1>5 DEF WrittenBy
<1> QED
  BY <1>1, <1>6 DEF LastWriterWins

\* The steps that leave the accounts computed so far as they are.
LEMMA OthersWrite ==
    ASSUME IInv, [Next]_vars, LastWriterWins, block' = block,
           accounts_to_update' = accounts_to_update,
           pc' = "txs" => pc = "txs" /\ i' = i,
           pc' = "index" => pc = "index",
           pc' = "idle" => result' # "TransactionError" \/ (pc = "idle" /\ result' = result)
    PROVE  LastWriterWins'
<1>1. StoredAccounts' = StoredAccounts
  BY StoredAccountsKept
<1>2. \A t : AppliedAlone(t)' = AppliedAlone(t)
  BY <1>1 DEF AppliedAlone, Debited, Credited, Numbered
<1>3. \A txs, n : WrittenBy(txs, n)' <=> WrittenBy(txs, n)
  BY <1>1, <1>2 DEF WrittenBy
<1> QED
  BY <1>1, <1>3 DEF LastWriterWins

\* What the stale reads of apply_block amount to, on blocks of any length: each
\* transaction is judged and computed from the stored accounts alone, and the
\* last one that touches an account decides what it becomes.
THEOREM StaleReads == Spec => []LastWriterWins
<1>1. Init => LastWriterWins
  BY DEF Init, LastWriterWins
<1>2. IInv /\ InOrder /\ LastWriterWins /\ [Next]_vars => LastWriterWins'
  <2> SUFFICES ASSUME IInv, InOrder, LastWriterWins, [Next]_vars PROVE LastWriterWins'
    OBVIOUS
  <2>1. ASSUME NEW b, ValidateOk(b)
        PROVE  LastWriterWins'
    BY <2>1 DEF ValidateOk, LastWriterWins, WrittenBy
  <2>2. ASSUME NEW b, ValidateFails(b)
        PROVE  LastWriterWins'
    BY <2>2, OthersWrite DEF ValidateFails, PutForward, applying
  <2>3. CASE Boot \/ BootFails
    BY <2>3, OthersWrite DEF Boot, BootFails, applying
  <2>4. CASE IndexTx \/ Commit \/ StorageFails \/ PanicTx
    BY <2>4, OthersWrite DEF IndexTx, Commit, StorageFails, PanicTx, Fail, applying
  <2>5. CASE StoreBlockHash \/ StoreBlockHeight
    BY <2>5, OthersWrite DEF StoreBlockHash, StoreBlockHeight, applying, InOrder
  <2>6. CASE Flush \/ UNCHANGED vars
    BY <2>6, OthersWrite DEF Flush, vars, applying
  <2>7. CASE Crash
    BY <2>7 DEF Crash, LastWriterWins
  <2>8. CASE RejectTx
    <3>1. /\ AtTx /\ ~Accepts /\ pc' = "idle" /\ block' = block
      BY <2>8 DEF RejectTx, Fail, applying
    <3>2. ~Admits(StoredAccounts, tx) /\ i \in DOMAIN block.transactions
      BY <3>1, ReadsTheStored, StoredVerdict
    <3>3. StoredAccounts' = StoredAccounts
      BY StoredAccountsKept
    <3> QED
      BY <3>1, <3>2, <3>3 DEF LastWriterWins, tx
  <2>9. CASE UpdateChainState
    <3>1. /\ pc = "txs" /\ pc' = "index" /\ i > Len(block.transactions) /\ block' = block
          /\ accounts_to_update' = accounts_to_update
          /\ i \in 1 .. Len(block.transactions) + 1 /\ BlockInHand
      BY <2>9 DEF UpdateChainState, IInv, InHand, TypeOK
    <3>2. i - 1 = Len(block.transactions)
      BY <3>1, Transactions
    <3>3. StoredAccounts' = StoredAccounts
      BY StoredAccountsKept
    <3>4. \A t : AppliedAlone(t)' = AppliedAlone(t)
      BY <3>3 DEF AppliedAlone, Debited, Credited, Numbered
    <3>5. \A txs, n : WrittenBy(txs, n)' <=> WrittenBy(txs, n)
      BY <3>1, <3>3, <3>4 DEF WrittenBy
    <3> QED
      BY <3>1, <3>2, <3>5 DEF LastWriterWins
  <2> QED
    BY <2>1, <2>2, <2>3, <2>4, <2>5, <2>6, <2>7, <2>8, <2>9, LoopWrites DEF Next, apply_block
<1> QED
  BY <1>1, <1>2, Invariance, LoopIsSequential, PTL DEF Spec
=============================================================================
