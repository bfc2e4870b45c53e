---------------------------- MODULE LedgerProofs ----------------------------
(***************************************************************************)
(* What apply_block leaves in the database, for any accounts, transactions *)
(* and blocks: whichever transaction fails, whichever write is the last    *)
(* one a crash lets through.  The theorems at the end say that committed   *)
(* state is indexed, has its code, extends a stored block and is never     *)
(* read, and that the ledger implements AtomicLedger.                      *)
(***************************************************************************)
EXTENDS Ledger, StorageApiProofs

-----------------------------------------------------------------------------
(* What is inductive: what a database holds, and what apply_block has in   *)
(* hand between its writes.                                                *)

Readable(d, hash) == get_block(d, hash) \notin {None, SerializationError}

\* the block named by a hash extends a stored block with no transactions
Extends(d, prev_hash, index) ==
    /\ Readable(d, prev_hash)
    /\ get_block(d, prev_hash).index + 1 = index
    /\ HashedTransactions(prev_hash) = << >>

DatabaseOK(d) ==
    /\ WellFormed(d)
    /\ \A k \in DOMAIN d["default"] : k[1] = "raw" => k = Raw(genesis_block.hash)
    /\ \A pk \in PublicKey : Encoded(pk) \in DOMAIN d["default"] =>
          HasCode(d, deserialize(d["default"][Encoded(pk)]))
    /\ committed(d) # None =>
          LET c == committed(d)
          IN  /\ IndexedIn(d, c.latest_block_hash)
              /\ c.latest_block_index > 0 =>
                    Extends(d, HashedPrevHash(c.latest_block_hash), c.latest_block_index)

\* no action writes the trees the getters read
SeededTreesAreKept ==
    db["chain_state"] = durable["chain_state"] /\ db["accounts"] = durable["accounts"]

Remaining == MaxAttempts - attempts

\* the block being applied, or last applied, was validated
BlockInHand ==
    /\ IsBlock(block) /\ block.transactions \in Pending
    /\ block.index > 0 /\ block.index + Remaining < MaxU64
    /\ \A n \in DOMAIN block.transactions : verify_signature(block.transactions[n])

TouchedBy(n) == Atomic!Touched(block.transactions[n])

\* the loop has run up to transaction n
AccountsInHand(n) ==
    /\ DOMAIN accounts_to_update = UNION {TouchedBy(m) : m \in 1 .. n}
    /\ \A pk \in DOMAIN accounts_to_update : HasCode(db, accounts_to_update[pk])

IsRemoval(k) == batch[k] = Deleted /\ \E n \in DOMAIN block.transactions :
                                        k = Raw(block.transactions[n].hash)

IsAccountPut(k) == \E pk \in DOMAIN accounts_to_update :
                      k = Encoded(pk) /\ batch[k] = serialize(accounts_to_update[pk])

\* the batch is whole: the chain state, every account, and removals
BatchInHand ==
    /\ EncodedGlobalCurrent \in DOMAIN batch
    /\ batch[EncodedGlobalCurrent] = serialize(new_chain_state)
    /\ \A pk \in DOMAIN accounts_to_update : Encoded(pk) \in DOMAIN batch
    /\ \A k \in DOMAIN batch \ {EncodedGlobalCurrent} : IsRemoval(k) \/ IsAccountPut(k)

IndexInHand ==
    \A n \in 1 .. i - 1 :
        TxIndexKey(block.hash, block.transactions[n].hash, n - 1) \in DOMAIN db["tx_by_block"]

InHand ==
    /\ pc # "down" => IsChainState(chain_state, Remaining)
    /\ pc \in {"txs", "index", "storing"} \/ block # None => BlockInHand
    /\ pc \in {"txs", "index"} => Extends(db, block.prev_hash, block.index)
    /\ pc = "txs" => AccountsInHand(i - 1) /\ \A k \in DOMAIN batch : IsRemoval(k)
    /\ pc = "index" =>
          AccountsInHand(Len(block.transactions)) /\ BatchInHand /\ IndexInHand

IInv == TypeOK /\ DatabaseOK(db) /\ DatabaseOK(durable) /\ SeededTreesAreKept /\ InHand

-----------------------------------------------------------------------------
(* Blocks and hashes.                                                      *)

\* MakeBlock builds a record of five fields, whose hash commits to the others.
LEMMA Made ==
    ASSUME NEW index, NEW timestamp, NEW prev_hash, NEW txs
    PROVE  MakeBlock(index, timestamp, prev_hash, txs) =
              [ index |-> index, timestamp |-> timestamp, prev_hash |-> prev_hash,
                hash |-> Sha256(<<"block", index, timestamp, prev_hash, txs>>),
                transactions |-> txs ]
BY DEF MakeBlock, WithHash, block_calculate_hash

LEMMA OwnHash ==
    ASSUME NEW b, IsBlock(b)
    PROVE  b.hash = Sha256(<<"block", b.index, b.timestamp, b.prev_hash, b.transactions>>)
BY Made DEF IsBlock

\* What the hash of a block commits to.
LEMMA HashCommits ==
    ASSUME NEW b, IsBlock(b)
    PROVE  /\ HashedIndex(b.hash) = b.index
           /\ b.hash.sha256[3] = b.timestamp
           /\ HashedPrevHash(b.hash) = b.prev_hash
           /\ HashedTransactions(b.hash) = b.transactions
<1>1. b.hash = Sha256(<<"block", b.index, b.timestamp, b.prev_hash, b.transactions>>)
  BY OwnHash
<1> QED
  BY <1>1 DEF Sha256, HashedIndex, HashedPrevHash, HashedTransactions

\* A block is determined by its hash.
LEMMA HashIsUnique ==
    ASSUME NEW a, NEW b, IsBlock(a), IsBlock(b), a.hash = b.hash
    PROVE  a = b
<1>1. /\ a.index = b.index /\ a.timestamp = b.timestamp
      /\ a.prev_hash = b.prev_hash /\ a.transactions = b.transactions
  BY HashCommits, Zenon
<1> QED
  BY <1>1, Zenon DEF IsBlock

\* No transaction hash is a block hash.
LEMMA HashesDiffer ==
    ASSUME NEW t, NEW b, verify_signature(t), IsBlock(b)
    PROVE  t.hash # b.hash
<1>1. b.hash = Sha256(<<"block", b.index, b.timestamp, b.prev_hash, b.transactions>>)
  BY OwnHash
<1>2. t.hash = Sha256(<<"tx", t.sender, t.nonce, t.recipient, t.payload>>)
  BY DEF verify_signature, tx_calculate_hash
<1>3. \A x, y : Sha256(x) = Sha256(y) => x = y
  BY DEF Sha256
<1>4. <<"tx", t.sender, t.nonce, t.recipient, t.payload>>[1] #
      <<"block", b.index, b.timestamp, b.prev_hash, b.transactions>>[1]
  OBVIOUS
<1> QED
  BY <1>1, <1>2, <1>3, <1>4, Zenon

LEMMA GenesisBlock ==
    /\ IsBlock(genesis_block)
    /\ genesis_block.index = 0
    /\ genesis_block.transactions = << >>
BY Made DEF genesis_block, IsBlock

-----------------------------------------------------------------------------
(* Databases that grow.                                                    *)

\* what every write but apply_batch keeps of the database
Grows(d, e) ==
    /\ DOMAIN e = TreeNames
    /\ e["chain_state"] = d["chain_state"] /\ e["accounts"] = d["accounts"]
    /\ BlocksAreHashed(e)
    /\ \A h : Readable(d, h) => get_block(e, h) = get_block(d, h)
    /\ \A x : get_contract_code(d, x) = IdentifiedCode(x) =>
                  get_contract_code(e, x) = IdentifiedCode(x)
    /\ DOMAIN d["tx_by_block"] \subseteq DOMAIN e["tx_by_block"]

\* What is known of a database stays known of one that has grown.
LEMMA GrowthKeeps ==
    ASSUME NEW d, NEW e, Grows(d, e)
    PROVE  /\ get_chain_state(e) = get_chain_state(d)
           /\ \A pk : get_account(e, pk) = get_account(d, pk)
           /\ \A a : HasCode(d, a) => HasCode(e, a)
           /\ \A h, n : Extends(d, h, n) => Extends(e, h, n)
           /\ \A h : IndexedIn(d, h) => IndexedIn(e, h)
           /\ WellFormed(d) => WellFormed(e)
<1>1. get_chain_state(e) = get_chain_state(d)
  BY DEF Grows, get_chain_state
<1>2. \A pk : get_account(e, pk) = get_account(d, pk)
  BY DEF Grows, get_account
<1>3. \A a : HasCode(d, a) => HasCode(e, a)
  BY DEF Grows, HasCode
<1>4. \A h, n : Extends(d, h, n) => Extends(e, h, n)
  BY DEF Grows, Extends, Readable
<1>5. \A h : IndexedIn(d, h) => IndexedIn(e, h)
  BY DEF Grows, IndexedIn
<1>6. WellFormed(d) => WellFormed(e)
  BY <1>1, <1>2, <1>3, Zenon DEF WellFormed, Grows
<1> QED
  BY <1>1, <1>2, <1>3, <1>4, <1>5, <1>6

\* A write outside the default tree keeps the whole database in order.
LEMMA GrownDatabase ==
    ASSUME NEW d, NEW e, DatabaseOK(d), Grows(d, e), e["default"] = d["default"]
    PROVE  DatabaseOK(e)
<1>1. WellFormed(e)
  BY GrowthKeeps DEF DatabaseOK
<1>2. committed(e) = committed(d)
  BY DEF committed
<1>3. \A k \in DOMAIN e["default"] : k[1] = "raw" => k = Raw(genesis_block.hash)
  BY DEF DatabaseOK
<1>4. \A pk \in PublicKey : Encoded(pk) \in DOMAIN e["default"] =>
         HasCode(e, deserialize(e["default"][Encoded(pk)]))
  <2>1. \A pk \in PublicKey : Encoded(pk) \in DOMAIN d["default"] =>
           HasCode(d, deserialize(d["default"][Encoded(pk)]))
    BY DEF DatabaseOK
  <2> QED
    BY <2>1, GrowthKeeps
<1>5. ASSUME committed(e) # None
      PROVE  /\ IndexedIn(e, committed(e).latest_block_hash)
             /\ committed(e).latest_block_index > 0 =>
                   Extends(e, HashedPrevHash(committed(e).latest_block_hash),
                           committed(e).latest_block_index)
  <2>1. /\ IndexedIn(d, committed(d).latest_block_hash)
        /\ committed(d).latest_block_index > 0 =>
              Extends(d, HashedPrevHash(committed(d).latest_block_hash),
                      committed(d).latest_block_index)
    BY <1>2, <1>5 DEF DatabaseOK
  <2> QED
    BY <1>2, <2>1, GrowthKeeps
<1> QED
  BY <1>1, <1>3, <1>4, <1>5, Zenon DEF DatabaseOK

-----------------------------------------------------------------------------
(* The writes, one at a time.                                              *)

\* what get_block gives, in terms of the tree
LEMMA ReadBlock ==
    ASSUME NEW d, NEW h, Readable(d, h)
    PROVE  /\ Raw(h) \in DOMAIN d["blocks"]
           /\ get_block(d, h) = deserialize(d["blocks"][Raw(h)])
           /\ get_block(d, h).transactions = << >>
<1> DEFINE bytes == tree_get(d["blocks"], Raw(h))
<1>1. get_block(d, h) = IF bytes = None THEN None ELSE deserialize_block(bytes)
  BY DEF get_block, read_block
<1>2. bytes # None /\ get_block(d, h) = deserialize_block(bytes)
  BY <1>1 DEF Readable
<1>3. Raw(h) \in DOMAIN d["blocks"] /\ bytes = d["blocks"][Raw(h)]
  BY <1>2 DEF tree_get
<1> HIDE DEF bytes
<1>4. deserialize_block(bytes) # SerializationError
  BY <1>2 DEF Readable
<1>5. bytes.bincode.transactions = << >> /\ deserialize_block(bytes) = bytes.bincode
  BY <1>4 DEF deserialize_block
<1> QED
  BY <1>2, <1>3, <1>5 DEF deserialize

\* A readable block is stored under its own hash, at the height the hash
\* commits to, and has no transactions.
LEMMA StoredBlock ==
    ASSUME NEW d, BlocksAreHashed(d), NEW h, Readable(d, h)
    PROVE  LET b == get_block(d, h)
           IN  IsBlock(b) /\ b.hash = h /\ b.transactions = << >>
<1>1. /\ Raw(h) \in DOMAIN d["blocks"]
      /\ get_block(d, h) = deserialize(d["blocks"][Raw(h)])
      /\ get_block(d, h).transactions = << >>
  BY ReadBlock
<1>2. Raw(h)[1] = "raw"
  BY Keys
<1>3. IsBlock(get_block(d, h)) /\ Raw(h) = Raw(get_block(d, h).hash)
  BY <1>1, <1>2 DEF BlocksAreHashed
<1> QED
  BY <1>1, <1>3, Keys

\* the other trees are left as they are
SameBut(d, e, name) ==
    DOMAIN e = TreeNames /\ \A n \in TreeNames \ {name} : e[n] = d[n]

\* put_block's first insert
LEMMA StoringHash ==
    ASSUME NEW d, WellFormed(d), NEW b, IsBlock(b)
    PROVE  LET e == put_block_hash(d, b)
           IN  Grows(d, e) /\ e["default"] = d["default"]
<1> DEFINE e == put_block_hash(d, b)
           t == d["blocks"]
           u == tree_insert(t, Raw(b.hash), serialize(b))
<1>0. DOMAIN d = TreeNames /\ BlocksAreHashed(d)
  BY DEF WellFormed
<1>1. e["blocks"] = u /\ SameBut(d, e, "blocks")
  BY <1>0 DEF put_block_hash, TreeNames, SameBut
<1>2. IsInserted(u, t, Raw(b.hash), serialize(b))
  BY Inserted, Zenon
<1> HIDE DEF e, u
<1>3. BlocksAreHashed(e)
  <2> SUFFICES ASSUME NEW k \in DOMAIN u, k[1] = "raw"
               PROVE  /\ IsBlock(deserialize(u[k])) /\ k = Raw(deserialize(u[k]).hash)
                      /\ u[k] = serialize(deserialize(u[k]))
    BY <1>1 DEF BlocksAreHashed
  <2>1. CASE k = Raw(b.hash)
    BY <2>1, <1>2, Decoded DEF IsInserted
  <2>2. CASE k # Raw(b.hash)
    <3>1. k \in DOMAIN t /\ u[k] = t[k]
      BY <2>2, <1>2 DEF IsInserted
    <3> QED
      BY <3>1, <1>0 DEF BlocksAreHashed
  <2> QED
    BY <2>1, <2>2
<1>4. ASSUME NEW h, Readable(d, h)
      PROVE  get_block(e, h) = get_block(d, h)
  <2>1. tree_get(u, Raw(h)) = tree_get(t, Raw(h))
    <3>1. CASE Raw(h) # Raw(b.hash)
      BY <3>1, <1>2 DEF IsInserted
    <3>2. CASE Raw(h) = Raw(b.hash)
      <4>1. /\ Raw(h) \in DOMAIN t
            /\ IsBlock(deserialize(t[Raw(h)])) /\ Raw(h) = Raw(deserialize(t[Raw(h)]).hash)
            /\ t[Raw(h)] = serialize(deserialize(t[Raw(h)]))
        BY <1>0, <1>4, ReadBlock, Keys DEF BlocksAreHashed
      <4>2. deserialize(t[Raw(h)]).hash = b.hash
        BY <4>1, <3>2, Keys
      <4>3. deserialize(t[Raw(h)]) = b
        BY <4>1, <4>2, HashIsUnique
      <4>4. t[Raw(h)] = serialize(b)
        BY <4>1, <4>3
      <4> QED
        BY <4>1, <4>4, <3>2, <1>2 DEF IsInserted, tree_get
    <3> QED
      BY <3>1, <3>2
  <2> QED
    BY <2>1, <1>1 DEF get_block
<1>5. Grows(d, e)
  BY <1>1, <1>3, <1>4 DEF Grows, SameBut, TreeNames, get_contract_code
<1>6. e["default"] = d["default"]
  BY <1>1 DEF SameBut, TreeNames
<1> QED
  BY <1>5, <1>6 DEF e

\* put_block's second insert
LEMMA StoringHeight ==
    ASSUME NEW d, WellFormed(d), NEW b
    PROVE  LET e == put_block_height(d, b)
           IN  Grows(d, e) /\ e["default"] = d["default"]
<1> DEFINE e == put_block_height(d, b)
           t == d["blocks"]
           u == tree_insert(t, HeightKey(b.index), serialize(b))
<1>0. DOMAIN d = TreeNames /\ BlocksAreHashed(d)
  BY DEF WellFormed
<1>1. e["blocks"] = u /\ SameBut(d, e, "blocks")
  BY <1>0 DEF put_block_height, TreeNames, SameBut
<1>2. IsInserted(u, t, HeightKey(b.index), serialize(b))
  BY Inserted, Zenon
<1>3. HeightKey(b.index)[1] = "height"
  BY Keys
<1> HIDE DEF e, u
<1>4. BlocksAreHashed(e)
  <2> SUFFICES ASSUME NEW k \in DOMAIN u, k[1] = "raw"
               PROVE  /\ IsBlock(deserialize(u[k])) /\ k = Raw(deserialize(u[k]).hash)
                      /\ u[k] = serialize(deserialize(u[k]))
    BY <1>1 DEF BlocksAreHashed
  <2>1. k # HeightKey(b.index)
    BY <1>3
  <2>2. k \in DOMAIN t /\ u[k] = t[k]
    BY <2>1, <1>2 DEF IsInserted
  <2> QED
    BY <2>2, <1>0 DEF BlocksAreHashed
<1>5. \A h : get_block(e, h) = get_block(d, h)
  <2> SUFFICES ASSUME NEW h
               PROVE  tree_get(u, Raw(h)) = tree_get(t, Raw(h))
    BY <1>1 DEF get_block
  <2>1. Raw(h)[1] = "raw"
    BY Keys
  <2>2. Raw(h) # HeightKey(b.index)
    BY <2>1, <1>3
  <2> QED
    BY <2>2, <1>2 DEF IsInserted
<1>6. Grows(d, e)
  BY <1>1, <1>4, <1>5 DEF Grows, SameBut, TreeNames, get_contract_code
<1>7. e["default"] = d["default"]
  BY <1>1 DEF SameBut, TreeNames
<1> QED
  BY <1>6, <1>7 DEF e

\* deploy_contract's put_contract_code: the code is there afterwards, and code
\* that was there stays, since an id is the digest of the code it names.
LEMMA StoringCode ==
    ASSUME NEW d, WellFormed(d), NEW pk, NEW wasm
    PROVE  LET cid == contract_id(pk, wasm)
               e == put_contract_code(d, cid, wasm)
           IN  /\ Grows(d, e) /\ e["default"] = d["default"]
               /\ get_contract_code(e, cid) = IdentifiedCode(cid)
<1> DEFINE cid == contract_id(pk, wasm)
           e == put_contract_code(d, cid, wasm)
           t == d["contract_code"]
           u == tree_insert(t, Raw(cid), wasm)
<1>0. DOMAIN d = TreeNames /\ BlocksAreHashed(d)
  BY DEF WellFormed
<1>1. e["contract_code"] = u /\ SameBut(d, e, "contract_code")
  BY <1>0 DEF put_contract_code, TreeNames, SameBut
<1>2. IsInserted(u, t, Raw(cid), wasm)
  BY Inserted, Zenon
<1>3. IdentifiedCode(cid) = wasm
  BY Identified
<1> HIDE DEF cid, e, u
<1>4. get_contract_code(e, cid) = IdentifiedCode(cid)
  BY <1>1, <1>2, <1>3 DEF IsInserted, get_contract_code
<1>5. ASSUME NEW x, get_contract_code(d, x) = IdentifiedCode(x)
      PROVE  get_contract_code(e, x) = IdentifiedCode(x)
  <2>1. CASE x = cid
    BY <2>1, <1>4
  <2>2. CASE x # cid
    BY <2>2, <1>5, <1>1, <1>2, Keys DEF IsInserted, get_contract_code
  <2> QED
    BY <2>1, <2>2
<1>6. BlocksAreHashed(e) /\ \A h : get_block(e, h) = get_block(d, h)
  BY <1>0, <1>1 DEF SameBut, TreeNames, BlocksAreHashed, get_block
<1>7. Grows(d, e)
  BY <1>1, <1>5, <1>6 DEF Grows, SameBut, TreeNames
<1>8. e["default"] = d["default"]
  BY <1>1 DEF SameBut, TreeNames
<1> QED
  BY <1>4, <1>7, <1>8 DEF e, cid

\* index_transaction
LEMMA StoringIndex ==
    ASSUME NEW d, WellFormed(d), NEW tx_hash, NEW block_hash, NEW n
    PROVE  LET e == index_transaction(d, tx_hash, block_hash, n)
           IN  /\ Grows(d, e) /\ e["default"] = d["default"]
               /\ TxIndexKey(block_hash, tx_hash, n) \in DOMAIN e["tx_by_block"]
<1> DEFINE key == TxIndexKey(block_hash, tx_hash, n)
           e == index_transaction(d, tx_hash, block_hash, n)
           t == d["tx_by_block"]
           u == tree_insert(t, key, tx_hash)
<1>0. DOMAIN d = TreeNames /\ BlocksAreHashed(d)
  BY DEF WellFormed
<1>1. e["tx_by_block"] = u /\ SameBut(d, e, "tx_by_block")
  BY <1>0 DEF index_transaction, TreeNames, SameBut
<1>2. DOMAIN u = DOMAIN t \cup {key}
  BY DEF tree_insert
<1> HIDE DEF key, e, u
<1>3. BlocksAreHashed(e) /\ \A h : get_block(e, h) = get_block(d, h)
  BY <1>0, <1>1 DEF SameBut, TreeNames, BlocksAreHashed, get_block
<1>4. \A x : get_contract_code(e, x) = get_contract_code(d, x)
  BY <1>1 DEF SameBut, TreeNames, get_contract_code
<1>5. Grows(d, e)
  BY <1>1, <1>2, <1>3, <1>4 DEF Grows, SameBut, TreeNames
<1>6. e["default"] = d["default"] /\ key \in DOMAIN e["tx_by_block"]
  BY <1>1, <1>2 DEF SameBut, TreeNames
<1> QED
  BY <1>5, <1>6 DEF e, key

\* apply_batch: everything but the default tree is as it was
LEMMA ApplyingBatch ==
    ASSUME NEW d, WellFormed(d), NEW puts
    PROVE  LET e == apply_batch(d, puts)
           IN  /\ Grows(d, e)
               /\ e["tx_by_block"] = d["tx_by_block"]
               /\ \A x : get_contract_code(e, x) = get_contract_code(d, x)
               /\ IsApplied(e["default"], d["default"], puts)
<1> DEFINE e == apply_batch(d, puts)
<1>0. DOMAIN d = TreeNames /\ BlocksAreHashed(d)
  BY DEF WellFormed
<1>1. /\ DOMAIN e = TreeNames
      /\ e["default"] = tree_apply_batch(d["default"], puts)
      /\ \A name \in TreeNames \ {"default"} : e[name] = d[name]
  BY <1>0, BatchStaysInDefault
<1>2. IsApplied(e["default"], d["default"], puts)
  BY <1>1, Applied
<1> HIDE DEF e
<1>3. BlocksAreHashed(e) /\ \A h : get_block(e, h) = get_block(d, h)
  BY <1>0, <1>1 DEF TreeNames, BlocksAreHashed, get_block
<1>4. \A x : get_contract_code(e, x) = get_contract_code(d, x)
  BY <1>1 DEF TreeNames, get_contract_code
<1>5. Grows(d, e) /\ e["tx_by_block"] = d["tx_by_block"]
  BY <1>1, <1>3, <1>4 DEF Grows, TreeNames
<1> QED
  BY <1>2, <1>4, <1>5 DEF e

-----------------------------------------------------------------------------
(* The two batches: genesis and a block.                                   *)

LEMMA GenesisBatch ==
    /\ DOMAIN genesis_batch = {Raw(genesis_block.hash), EncodedGlobalCurrent}
    /\ genesis_batch[EncodedGlobalCurrent] = serialize(ChainState(genesis_block.hash, 0))
    /\ \A k \in DOMAIN genesis_batch : genesis_batch[k] # Deleted
BY NotDeleted DEF genesis_batch

\* committed, on a default tree whose chain state is s
LEMMA CommittedState ==
    ASSUME NEW d, NEW s, EncodedGlobalCurrent \in DOMAIN d["default"],
           d["default"][EncodedGlobalCurrent] = serialize(s), committed(d) # None
    PROVE  committed(d) = s
<1>1. tree_get(d["default"], EncodedGlobalCurrent) = serialize(s)
  BY DEF tree_get
<1> QED
  BY <1>1, Decoded DEF committed

\* initialize_chain's batch leaves the database in order.
LEMMA ApplyingGenesis ==
    ASSUME NEW d, DatabaseOK(d)
    PROVE  DatabaseOK(apply_batch(d, genesis_batch))
<1> DEFINE e == apply_batch(d, genesis_batch)
           t == d["default"]
           u == e["default"]
           g == genesis_block.hash
<1>0. WellFormed(d)
  BY DEF DatabaseOK
<1>1. Grows(d, e) /\ IsApplied(u, t, genesis_batch)
  BY <1>0, ApplyingBatch
<1> HIDE DEF e, g
<1>2. /\ DOMAIN u = DOMAIN t \cup {Raw(g), EncodedGlobalCurrent}
      /\ u[EncodedGlobalCurrent] = serialize(ChainState(g, 0))
      /\ \A k \in DOMAIN t \ {Raw(g), EncodedGlobalCurrent} : u[k] = t[k]
  BY <1>1, GenesisBatch DEF IsApplied, g
<1>3. WellFormed(e)
  BY <1>0, <1>1, GrowthKeeps
<1>4. \A k \in DOMAIN u : k[1] = "raw" => k = Raw(g)
  BY <1>2, Keys DEF DatabaseOK, g
<1>5. ASSUME NEW pk \in PublicKey, Encoded(pk) \in DOMAIN u
      PROVE  HasCode(e, deserialize(u[Encoded(pk)]))
  <2>1. Encoded(pk)[1] = "bincode" /\ Raw(g)[1] = "raw"
        /\ EncodedGlobalCurrent[1] = "bincode_str"
    BY Keys
  <2>2. Encoded(pk) # Raw(g) /\ Encoded(pk) # EncodedGlobalCurrent
    BY <2>1
  <2>3. Encoded(pk) \in DOMAIN t /\ u[Encoded(pk)] = t[Encoded(pk)]
    BY <1>2, <1>5, <2>2
  <2> QED
    BY <2>3, <1>1, GrowthKeeps DEF DatabaseOK
<1>6. ASSUME committed(e) # None
      PROVE  /\ IndexedIn(e, committed(e).latest_block_hash)
             /\ ~(committed(e).latest_block_index > 0)
  <2>1. committed(e) = ChainState(g, 0)
    BY <1>2, <1>6, CommittedState
  <2>2. committed(e).latest_block_hash = g /\ committed(e).latest_block_index = 0
    BY <2>1 DEF ChainState
  <2>3. HashedTransactions(g) = << >>
    BY GenesisBlock, HashCommits DEF g
  <2>4. DOMAIN HashedTransactions(g) = {}
    BY <2>3
  <2> QED
    BY <2>2, <2>4 DEF IndexedIn
<1> QED
  BY <1>3, <1>4, <1>5, <1>6, Zenon DEF DatabaseOK, e, g

\* What the batch of a block writes to the default tree: the chain state, the
\* accounts touched, and, since no transaction hash is there, nothing else.
LEMMA BlockBatch ==
    ASSUME DatabaseOK(db), BlockInHand, BatchInHand, NEW u, IsApplied(u, db["default"], batch)
    PROVE  LET t == db["default"]
               keys == {Encoded(pk) : pk \in DOMAIN accounts_to_update}
           IN  /\ DOMAIN u = DOMAIN t \cup keys \cup {EncodedGlobalCurrent}
               /\ u[EncodedGlobalCurrent] = serialize(new_chain_state)
               /\ \A pk \in DOMAIN accounts_to_update :
                     u[Encoded(pk)] = serialize(accounts_to_update[pk])
               /\ \A k \in DOMAIN t \ (keys \cup {EncodedGlobalCurrent}) : u[k] = t[k]
<1> DEFINE t == db["default"]
           keys == {Encoded(pk) : pk \in DOMAIN accounts_to_update}
<1>1. \A k \in DOMAIN batch :
         \/ k = EncodedGlobalCurrent
         \/ IsRemoval(k)
         \/ k \in keys /\ IsAccountPut(k)
  BY DEF BatchInHand, IsAccountPut
<1>2. ASSUME NEW k \in DOMAIN batch, IsRemoval(k)
      PROVE  k[1] = "raw" /\ k \notin DOMAIN t
  <2>1. PICK n \in DOMAIN block.transactions : k = Raw(block.transactions[n].hash)
    BY <1>2 DEF IsRemoval
  <2>2. block.transactions[n].hash # genesis_block.hash
    <3>1. verify_signature(block.transactions[n])
      BY DEF BlockInHand
    <3> QED
      BY <3>1, GenesisBlock, HashesDiffer, Zenon
  <2>3. k[1] = "raw" /\ k # Raw(genesis_block.hash)
    BY <2>1, <2>2, Keys
  <2> QED
    BY <2>3 DEF DatabaseOK
<1>3. /\ EncodedGlobalCurrent[1] = "bincode_str"
      /\ \A pk : Encoded(pk)[1] = "bincode"
      /\ \A x, y : Encoded(x) = Encoded(y) => x = y
  BY Keys
<1>4. ASSUME NEW pk \in DOMAIN accounts_to_update
      PROVE  Encoded(pk) \in DOMAIN batch /\ batch[Encoded(pk)] = serialize(accounts_to_update[pk])
  <2>1. Encoded(pk) \in DOMAIN batch
    BY DEF BatchInHand
  <2>2. Encoded(pk) # EncodedGlobalCurrent
    BY <1>3
  <2>3. ~IsRemoval(Encoded(pk))
    BY <1>2, <1>3, <2>1
  <2>4. IsAccountPut(Encoded(pk))
    BY <1>1, <2>1, <2>2, <2>3
  <2> QED
    BY <2>1, <2>4, <1>3 DEF IsAccountPut
<1>5. /\ EncodedGlobalCurrent \in DOMAIN batch
      /\ batch[EncodedGlobalCurrent] = serialize(new_chain_state)
  BY DEF BatchInHand
<1>6. \A k \in DOMAIN batch : batch[k] = Deleted <=> k \notin keys \cup {EncodedGlobalCurrent}
  <2> SUFFICES ASSUME NEW k \in DOMAIN batch
               PROVE  batch[k] = Deleted <=> k \notin keys \cup {EncodedGlobalCurrent}
    OBVIOUS
  <2>1. CASE k = EncodedGlobalCurrent
    BY <2>1, <1>5, NotDeleted
  <2>2. CASE k \in keys
    BY <2>2, <1>4, NotDeleted
  <2>3. CASE k \notin keys \cup {EncodedGlobalCurrent}
    BY <2>3, <1>1 DEF IsRemoval
  <2> QED
    BY <2>1, <2>2, <2>3
<1>7. keys \subseteq DOMAIN batch
  BY <1>4
<1>8. \A k \in DOMAIN batch : k \notin keys \cup {EncodedGlobalCurrent} => k \notin DOMAIN t
  BY <1>1, <1>2
<1>k. ASSUME NEW pk \in DOMAIN accounts_to_update
      PROVE  Encoded(pk) \in keys
  OBVIOUS
<1> HIDE DEF keys
<1>9. DOMAIN u = DOMAIN t \cup keys \cup {EncodedGlobalCurrent}
  BY <1>5, <1>6, <1>7, <1>8 DEF IsApplied
<1>10. u[EncodedGlobalCurrent] = serialize(new_chain_state)
  BY <1>5, NotDeleted DEF IsApplied
<1>11. \A pk \in DOMAIN accounts_to_update :
          u[Encoded(pk)] = serialize(accounts_to_update[pk])
  BY <1>4, NotDeleted DEF IsApplied
<1>12. \A k \in DOMAIN t \ (keys \cup {EncodedGlobalCurrent}) : u[k] = t[k]
  BY <1>8 DEF IsApplied
<1> QED
  BY <1>9, <1>10, <1>11, <1>12 DEF keys

\* The commit of a block leaves the database in order.
LEMMA ApplyingBlock ==
    ASSUME IInv, pc = "index", i > Len(block.transactions)
    PROVE  DatabaseOK(apply_batch(db, batch))
<1> DEFINE e == apply_batch(db, batch)
           t == db["default"]
           u == e["default"]
           keys == {Encoded(pk) : pk \in DOMAIN accounts_to_update}
<1>0. /\ DatabaseOK(db) /\ WellFormed(db)
      /\ BlockInHand /\ BatchInHand /\ IndexInHand
      /\ \A pk \in DOMAIN accounts_to_update : HasCode(db, accounts_to_update[pk])
      /\ Extends(db, block.prev_hash, block.index)
      /\ i \in 1 .. Len(block.transactions) + 1
  BY DEF IInv, TypeOK, InHand, AccountsInHand, DatabaseOK
<1>1. Grows(db, e) /\ IsApplied(u, t, batch) /\ e["tx_by_block"] = db["tx_by_block"]
  BY <1>0, ApplyingBatch
<1> HIDE DEF e
<1>2. /\ DOMAIN u = DOMAIN t \cup keys \cup {EncodedGlobalCurrent}
      /\ u[EncodedGlobalCurrent] = serialize(new_chain_state)
      /\ \A pk \in DOMAIN accounts_to_update :
            u[Encoded(pk)] = serialize(accounts_to_update[pk])
      /\ \A k \in DOMAIN t \ (keys \cup {EncodedGlobalCurrent}) : u[k] = t[k]
  BY <1>0, <1>1, BlockBatch
<1>3. WellFormed(e)
  BY <1>0, <1>1, GrowthKeeps
<1>4. ASSUME NEW k \in DOMAIN u, k[1] = "raw"
      PROVE  k = Raw(genesis_block.hash)
  <2>1. k # EncodedGlobalCurrent /\ k \notin keys
    BY <1>4, Keys
  <2> QED
    BY <2>1, <1>0, <1>2, <1>4 DEF DatabaseOK
<1>5. ASSUME NEW pk \in PublicKey, Encoded(pk) \in DOMAIN u
      PROVE  HasCode(e, deserialize(u[Encoded(pk)]))
  <2>1. CASE pk \in DOMAIN accounts_to_update
    <3>1. deserialize(u[Encoded(pk)]) = accounts_to_update[pk]
      BY <2>1, <1>2, Decoded
    <3> QED
      BY <2>1, <3>1, <1>0, <1>1, GrowthKeeps
  <2>2. CASE pk \notin DOMAIN accounts_to_update
    <3>1. Encoded(pk) # EncodedGlobalCurrent /\ Encoded(pk) \notin keys
      BY <2>2, Keys
    <3>2. Encoded(pk) \in DOMAIN t /\ u[Encoded(pk)] = t[Encoded(pk)]
      BY <1>2, <1>5, <3>1
    <3> QED
      BY <3>2, <1>0, <1>1, GrowthKeeps DEF DatabaseOK
  <2> QED
    BY <2>1, <2>2
<1>6. ASSUME committed(e) # None
      PROVE  /\ IndexedIn(e, committed(e).latest_block_hash)
             /\ committed(e).latest_block_index > 0 =>
                   Extends(e, HashedPrevHash(committed(e).latest_block_hash),
                           committed(e).latest_block_index)
  <2>1. committed(e) = new_chain_state
    BY <1>2, <1>6, CommittedState
  <2>2. /\ committed(e).latest_block_hash = block.hash
        /\ committed(e).latest_block_index = block.index
    BY <2>1 DEF new_chain_state, ChainState
  <2>3. /\ HashedTransactions(block.hash) = block.transactions
        /\ HashedPrevHash(block.hash) = block.prev_hash
    BY <1>0, HashCommits DEF BlockInHand
  <2>4. /\ Len(block.transactions) \in Nat
        /\ DOMAIN block.transactions = 1 .. Len(block.transactions)
    BY <1>0, PendingAssumption DEF BlockInHand
  <2>5. DOMAIN block.transactions = 1 .. i - 1
    BY <2>4, <1>0
  <2>6. IndexedIn(db, block.hash)
    BY <2>3, <2>5, <1>0 DEF IndexedIn, IndexInHand
  <2>7. IndexedIn(e, block.hash) /\ Extends(e, block.prev_hash, block.index)
    BY <2>6, <1>0, <1>1, GrowthKeeps
  <2> QED
    BY <2>2, <2>3, <2>7
<1> QED
  BY <1>3, <1>4, <1>5, <1>6, Zenon DEF DatabaseOK, e

-----------------------------------------------------------------------------
(* Blocks put forward.                                                     *)

\* A block that is put forward and has the hash it should have is a block over
\* the pending transactions.
LEMMA ProposedShape ==
    ASSUME NEW txs, NEW b \in Proposed(txs), b.hash = block_calculate_hash(b)
    PROVE  /\ b = MakeBlock(b.index, b.timestamp, b.prev_hash, b.transactions)
           /\ b.transactions = txs
<1>1. \E x, y, p : \/ b = MakeBlock(x, y, p, txs)
                   \/ b = [MakeBlock(x, y, p, txs) EXCEPT !.hash = ZeroHash]
  BY DEF Proposed, Foreign, generate_block
<1>2. PICK x, y, p : \/ b = MakeBlock(x, y, p, txs)
                     \/ b = [MakeBlock(x, y, p, txs) EXCEPT !.hash = ZeroHash]
  BY <1>1
<1>3. /\ b.index = x /\ b.timestamp = y /\ b.prev_hash = p /\ b.transactions = txs
      /\ b = [index |-> x, timestamp |-> y, prev_hash |-> p, hash |-> b.hash,
              transactions |-> txs]
  <2> DEFINE H == Sha256(<<"block", x, y, p, txs>>)
             m == [ index |-> x, timestamp |-> y, prev_hash |-> p, hash |-> H,
                    transactions |-> txs ]
  <2>1. MakeBlock(x, y, p, txs) = m
    BY Made, Zenon
  <2>2. b = m \/ b = [m EXCEPT !.hash = ZeroHash]
    BY <1>2, <2>1
  <2> HIDE DEF H
  <2>3. CASE b = m
    BY <2>3
  <2>4. CASE b = [m EXCEPT !.hash = ZeroHash]
    BY <2>4
  <2> QED
    BY <2>2, <2>3, <2>4
<1>4. b.hash = Sha256(<<"block", x, y, p, txs>>)
  BY <1>3 DEF block_calculate_hash
<1> QED
  BY <1>3, <1>4, Made

\* A height below the largest u64 does not wrap.
LEMMA NoWrap ==
    ASSUME NEW n \in Nat, n < MaxU64
    PROVE  AddU64(n, 1) = n + 1
BY MaxU64Assumption DEF AddU64

\* A block that passes validate_block is the next height's, and extends a
\* stored block without transactions.
LEMMA Validated ==
    ASSUME WellFormed(db), NEW left \in Nat, left > 0, IsChainState(chain_state, left),
           NEW txs \in Pending, NEW b \in Proposed(txs), validate_block(b)
    PROVE  /\ IsBlock(b) /\ b.transactions = txs
           /\ b.index > 0 /\ b.index + (left - 1) < MaxU64
           /\ \A n \in DOMAIN b.transactions : verify_signature(b.transactions[n])
           /\ Extends(db, b.prev_hash, b.index)
<1> DEFINE n == chain_state.latest_block_index
           h == chain_state.latest_block_hash
<1>1. n \in Nat /\ n + left < MaxU64 /\ HashedIndex(h) = n
  BY DEF IsChainState
<1>2. b.index = n + 1
  BY <1>1, NoWrap, MaxU64Assumption DEF validate_block
<1>3. b = MakeBlock(b.index, b.timestamp, b.prev_hash, b.transactions) /\ b.transactions = txs
  BY ProposedShape DEF validate_block
<1>4. IsBlock(b)
  BY <1>1, <1>2, <1>3 DEF IsBlock
<1>5. b.index > 0 /\ b.index + (left - 1) < MaxU64
  BY <1>1, <1>2, MaxU64Assumption
<1>6. b.prev_hash = h /\ Readable(db, h)
  BY <1>5 DEF validate_block, TimestampOk, Readable
<1> DEFINE prev == get_block(db, h)
<1>7. IsBlock(prev) /\ prev.hash = h /\ prev.transactions = << >>
  BY <1>6, StoredBlock DEF WellFormed
<1>8. prev.index = n /\ HashedTransactions(h) = << >>
  BY <1>1, <1>7, HashCommits
<1>9. Extends(db, b.prev_hash, b.index)
  BY <1>2, <1>6, <1>8 DEF Extends
<1> QED
  BY <1>3, <1>4, <1>5, <1>9 DEF validate_block

-----------------------------------------------------------------------------
(* The batch apply_block builds.                                           *)

\* The chain state, every account and the removals: AllPuts is a whole batch.
LEMMA WholeBatch ==
    ASSUME NEW new, new = AllPuts, \A k \in DOMAIN batch : IsRemoval(k)
    PROVE  /\ EncodedGlobalCurrent \in DOMAIN new
           /\ new[EncodedGlobalCurrent] = serialize(new_chain_state)
           /\ \A pk \in DOMAIN accounts_to_update : Encoded(pk) \in DOMAIN new
           /\ \A k \in DOMAIN new \ {EncodedGlobalCurrent} :
                 \/ new[k] = Deleted /\ \E n \in DOMAIN block.transactions :
                                          k = Raw(block.transactions[n].hash)
                 \/ \E pk \in DOMAIN accounts_to_update :
                       k = Encoded(pk) /\ new[k] = serialize(accounts_to_update[pk])
<1> DEFINE puts == batch_of(batch, AccountPuts)
           keys == {Encoded(pk) : pk \in DOMAIN accounts_to_update}
<1>1. IsInserted(new, puts, EncodedGlobalCurrent, serialize(new_chain_state))
  BY Inserted, Zenon DEF AllPuts
<1>2. /\ DOMAIN AccountPuts = keys
      /\ \A k \in keys : AccountPuts[k] = serialize(accounts_to_update[k[2]])
  BY DEF AccountPuts
<1>3. /\ DOMAIN puts = DOMAIN batch \cup keys
      /\ \A k \in keys : puts[k] = serialize(accounts_to_update[k[2]])
      /\ \A k \in DOMAIN batch \ keys : puts[k] = batch[k]
  BY <1>2 DEF batch_of
<1> HIDE DEF puts
<1>4. ASSUME NEW k \in DOMAIN new \ {EncodedGlobalCurrent}
      PROVE  \/ new[k] = Deleted /\ \E n \in DOMAIN block.transactions :
                                       k = Raw(block.transactions[n].hash)
             \/ \E pk \in DOMAIN accounts_to_update :
                    k = Encoded(pk) /\ new[k] = serialize(accounts_to_update[pk])
  <2>1. k \in DOMAIN puts /\ new[k] = puts[k]
    BY <1>1, <1>4 DEF IsInserted
  <2>2. CASE k \in keys
    <3>1. PICK pk \in DOMAIN accounts_to_update : k = Encoded(pk)
      BY <2>2
    <3>2. k[2] = pk
      BY <3>1, Keys
    <3>3. new[k] = serialize(accounts_to_update[pk])
      BY <2>1, <2>2, <3>2, <1>3
    <3> QED
      BY <3>1, <3>3
  <2>3. CASE k \notin keys
    <3>1. k \in DOMAIN batch /\ new[k] = batch[k]
      BY <2>1, <2>3, <1>3
    <3> QED
      BY <3>1 DEF IsRemoval
  <2> QED
    BY <2>2, <2>3
<1>5. /\ EncodedGlobalCurrent \in DOMAIN new
      /\ new[EncodedGlobalCurrent] = serialize(new_chain_state)
      /\ \A pk \in DOMAIN accounts_to_update : Encoded(pk) \in DOMAIN new
  BY <1>1, <1>3 DEF IsInserted
<1> QED
  BY <1>4, <1>5

-----------------------------------------------------------------------------
(* Steps that have much in common.                                         *)

\* the transactions of a block in hand
LEMMA Transactions ==
    ASSUME BlockInHand
    PROVE  /\ Len(block.transactions) \in Nat
           /\ DOMAIN block.transactions = 1 .. Len(block.transactions)
           /\ \A n \in DOMAIN block.transactions : IsTransaction(block.transactions[n])
BY PendingAssumption DEF BlockInHand

\* apply_block returns, with whatever result: the caller rests between calls.
LEMMA Resting ==
    ASSUME IInv, pc # "down", pc' \in {"idle", "poisoned", "storing"},
           durable' = durable, chain_state' = chain_state, block' = block,
           attempts' = attempts, pc' = "storing" => BlockInHand,
           DatabaseOK(db'), db'["chain_state"] = db["chain_state"],
           db'["accounts"] = db["accounts"]
    PROVE  IInv'
<1>1. TypeOK'
  BY DEF IInv, TypeOK, DatabaseOK, WellFormed
<1>2. DatabaseOK(db)' /\ DatabaseOK(durable)'
  BY Zenon DEF IInv
<1>3. SeededTreesAreKept'
  BY DEF IInv, SeededTreesAreKept
<1>4. InHand'
  <2>1. IsChainState(chain_state, Remaining)'
    <3>1. IsChainState(chain_state, Remaining)
      BY DEF IInv, InHand
    <3>2. Remaining' = Remaining
      BY DEF Remaining
    <3> QED
      BY <3>1, <3>2
  <2>2. pc' = "storing" \/ block' # None => BlockInHand'
    <3>1. pc' = "storing" \/ block' # None => BlockInHand
      BY DEF IInv, InHand
    <3> QED
      BY <3>1 DEF BlockInHand, Remaining
  <2> QED
    BY <2>1, <2>2 DEF InHand
<1> QED
  BY <1>1, <1>2, <1>3, <1>4 DEF IInv

\* apply_block goes on to the next transaction: the accounts of this one have
\* joined the ones to update.
LEMMA Looping ==
    ASSUME IInv, AtTx, NextTx, Grows(db, db'), db'["default"] = db["default"],
           DOMAIN accounts_to_update' = DOMAIN accounts_to_update \cup Atomic!Touched(tx),
           \A pk \in DOMAIN accounts_to_update' : HasCode(db', accounts_to_update'[pk])
    PROVE  IInv'
<1>0. /\ pc = "txs" /\ pc' = "txs" /\ i <= Len(block.transactions) /\ i' = i + 1
      /\ durable' = durable /\ chain_state' = chain_state /\ block' = block
      /\ attempts' = attempts /\ batch' = tree_insert(batch, Raw(tx.hash), Deleted)
  BY DEF AtTx, NextTx
<1>1. /\ DatabaseOK(db) /\ BlockInHand /\ Extends(db, block.prev_hash, block.index)
      /\ AccountsInHand(i - 1) /\ \A k \in DOMAIN batch : IsRemoval(k)
      /\ i \in 1 .. Len(block.transactions) + 1
      /\ IsChainState(chain_state, Remaining)
  BY <1>0 DEF IInv, InHand, TypeOK
<1>2. /\ Len(block.transactions) \in Nat
      /\ DOMAIN block.transactions = 1 .. Len(block.transactions)
      /\ i \in DOMAIN block.transactions
  BY <1>0, <1>1, Transactions
<1>3. DatabaseOK(db')
  BY <1>1, GrownDatabase
<1>4. TypeOK'
  BY <1>0, <1>1, <1>2, <1>3 DEF IInv, TypeOK, DatabaseOK, WellFormed
<1>5. SeededTreesAreKept'
  BY <1>0 DEF IInv, SeededTreesAreKept, Grows
<1>6. BlockInHand' /\ IsChainState(chain_state, Remaining)'
  <2>1. Remaining' = Remaining
    BY <1>0 DEF Remaining
  <2> QED
    BY <2>1, <1>0, <1>1 DEF BlockInHand
<1>7. Extends(db', block'.prev_hash, block'.index)
  BY <1>0, <1>1, GrowthKeeps
<1>8. AccountsInHand(i - 1)'
  <2>1. i' - 1 = i /\ 1 .. i = (1 .. i - 1) \cup {i}
    BY <1>0, <1>1, <1>2
  <2>2. UNION {TouchedBy(m) : m \in 1 .. i} =
           (UNION {TouchedBy(m) : m \in 1 .. i - 1}) \cup Atomic!Touched(tx)
    <3>1. TouchedBy(i) = Atomic!Touched(tx)
      BY DEF TouchedBy, tx
    <3> QED
      BY <2>1, <3>1
  <2>3. \A m : TouchedBy(m)' = TouchedBy(m)
    BY <1>0 DEF TouchedBy
  <2>4. DOMAIN accounts_to_update = UNION {TouchedBy(m) : m \in 1 .. i - 1}
    BY <1>1 DEF AccountsInHand
  <2>5. DOMAIN accounts_to_update' = UNION {TouchedBy(m) : m \in 1 .. i}
    BY <2>2, <2>4
  <2>6. DOMAIN accounts_to_update' = UNION {TouchedBy(m)' : m \in 1 .. i' - 1}
    BY <2>1, <2>3, <2>5
  <2> QED
    BY <2>6 DEF AccountsInHand
<1>9. \A k \in DOMAIN batch' : IsRemoval(k)'
  <2> SUFFICES ASSUME NEW k \in DOMAIN batch'
               PROVE  batch'[k] = Deleted /\ \E n \in DOMAIN block.transactions :
                                              k = Raw(block.transactions[n].hash)
    BY <1>0 DEF IsRemoval
  <2>1. IsInserted(batch', batch, Raw(tx.hash), Deleted)
    BY <1>0, Inserted, Zenon
  <2>2. CASE k = Raw(tx.hash)
    BY <2>1, <2>2, <1>2 DEF IsInserted, tx
  <2>3. CASE k # Raw(tx.hash)
    BY <2>1, <2>3, <1>1 DEF IsInserted, IsRemoval
  <2> QED
    BY <2>2, <2>3
<1>10. InHand'
  BY <1>0, <1>6, <1>7, <1>8, <1>9 DEF InHand
<1> QED
  BY <1>0, <1>3, <1>4, <1>5, <1>10 DEF IInv

-----------------------------------------------------------------------------
(* Every step of the ledger keeps the invariant.                           *)

\* initialize_chain gives a chain that is there back as it is, and writes the
\* genesis batch otherwise; what it writes it does not find again.
LEMMA Initialized ==
    ASSUME NEW d, WellFormed(d)
    PROVE  LET e == initialize_chain(d)
           IN  /\ get_chain_state(e) = get_chain_state(d)
               /\ get_chain_state(d) # None => e = d
               /\ get_chain_state(d) = None => e = apply_batch(d, genesis_batch)
<1>1. get_chain_state(apply_batch(d, genesis_batch)) = get_chain_state(d)
  BY ApplyingBatch, GrowthKeeps
<1> QED
  BY <1>1 DEF initialize_chain

LEMMA StaysUp ==
    ASSUME NEW s, NEW n, IsChainState(s, n)
    PROVE  s # Down
<1>1. DOMAIN s = {"latest_block_hash", "latest_block_index"}
  BY DEF IsChainState, ChainState
<1> QED
  BY <1>1 DEF Down

LEMMA BootStep == ASSUME IInv, Boot PROVE IInv'
<1>1. DatabaseOK(db) /\ WellFormed(db)
  BY DEF IInv, DatabaseOK
<1>2. /\ pc = "down" /\ pc' = "idle" /\ durable' = durable /\ block' = block
      /\ attempts' = attempts /\ db' = db /\ chain_state' = get_chain_state(db)
      /\ get_chain_state(db) # None
  BY <1>1, Initialized DEF Boot, applying
<1>3. IsChainState(chain_state', MaxAttempts)
  BY <1>1, <1>2 DEF WellFormed
<1>4. attempts \in 0 .. MaxAttempts /\ MaxAttempts \in Nat
  BY AttemptsAssumption DEF IInv, TypeOK
<1>5. IsChainState(chain_state, Remaining)'
  BY <1>2, <1>3, <1>4, MaxU64Assumption DEF IsChainState, Remaining
<1>6. TypeOK'
  BY <1>2, <1>3, StaysUp DEF IInv, TypeOK
<1>7. block' # None => BlockInHand'
  <2>1. block' # None => BlockInHand
    BY <1>2 DEF IInv, InHand
  <2> QED
    BY <1>2, <2>1 DEF BlockInHand, Remaining
<1>8. InHand'
  BY <1>2, <1>5, <1>7 DEF InHand
<1>9. DatabaseOK(db)' /\ DatabaseOK(durable)' /\ SeededTreesAreKept'
  BY <1>2 DEF IInv, SeededTreesAreKept
<1> QED
  BY <1>6, <1>8, <1>9 DEF IInv

LEMMA BootFailsStep == ASSUME IInv, BootFails PROVE IInv'
<1>1. DatabaseOK(db) /\ WellFormed(db)
  BY DEF IInv, DatabaseOK
<1>2. /\ pc = "down" /\ UNCHANGED <<pc, durable, block, attempts, chain_state>>
      /\ db' = apply_batch(db, genesis_batch)
  BY <1>1, Initialized DEF BootFails, applying
<1>3. DatabaseOK(db') /\ Grows(db, db')
  BY <1>1, <1>2, ApplyingGenesis, ApplyingBatch
<1>4. TypeOK'
  BY <1>2, <1>3 DEF IInv, TypeOK, Grows
<1>5. SeededTreesAreKept'
  BY <1>2, <1>3 DEF IInv, SeededTreesAreKept, Grows
<1>6. block' # None => BlockInHand'
  <2>1. block' # None => BlockInHand
    BY <1>2 DEF IInv, InHand
  <2> QED
    BY <1>2, <2>1 DEF BlockInHand, Remaining
<1>7. InHand'
  BY <1>2, <1>6 DEF InHand
<1> QED
  BY <1>2, <1>3, <1>4, <1>5, <1>7, Zenon DEF IInv

\* one block fewer is left, and what is known of the chain state still holds
LEMMA Attempted ==
    ASSUME IInv, PutForward
    PROVE  /\ Remaining \in Nat /\ Remaining > 0 /\ Remaining' = Remaining - 1
           /\ IsChainState(chain_state, Remaining)
           /\ IsChainState(chain_state, Remaining)'
           /\ DatabaseOK(db) /\ DatabaseOK(db)' /\ DatabaseOK(durable)'
           /\ SeededTreesAreKept'
           /\ attempts' \in 0 .. MaxAttempts
<1>1. /\ attempts \in 0 .. MaxAttempts /\ MaxAttempts \in Nat /\ attempts < MaxAttempts
      /\ attempts' = attempts + 1 /\ db' = db /\ durable' = durable
      /\ chain_state' = chain_state /\ pc = "idle"
  BY AttemptsAssumption DEF IInv, TypeOK, PutForward
<1>2. Remaining \in Nat /\ Remaining > 0 /\ Remaining' = Remaining - 1
  BY <1>1 DEF Remaining
<1>3. IsChainState(chain_state, Remaining)
  BY <1>1 DEF IInv, InHand
<1>4. IsChainState(chain_state', Remaining')
  BY <1>1, <1>2, <1>3, MaxU64Assumption DEF IsChainState
<1>5. DatabaseOK(db) /\ DatabaseOK(db)' /\ DatabaseOK(durable)' /\ SeededTreesAreKept'
  BY <1>1 DEF IInv, SeededTreesAreKept
<1> QED
  BY <1>1, <1>2, <1>3, <1>4, <1>5

LEMMA ValidateFailsStep == ASSUME IInv, NEW b, ValidateFails(b) PROVE IInv'
<1>0. /\ PutForward /\ pc = "idle" /\ pc' = "idle" /\ block' = block
      /\ db' = db /\ durable' = durable /\ chain_state' = chain_state
  BY DEF ValidateFails, PutForward, applying
<1>1. /\ Remaining \in Nat /\ Remaining' = Remaining - 1
      /\ IsChainState(chain_state, Remaining)'
      /\ DatabaseOK(db)' /\ DatabaseOK(durable)' /\ SeededTreesAreKept'
      /\ attempts' \in 0 .. MaxAttempts
  BY <1>0, Attempted
<1>2. TypeOK'
  BY <1>0, <1>1 DEF IInv, TypeOK
<1>3. block' # None => BlockInHand'
  <2>1. block' # None => BlockInHand
    BY <1>0 DEF IInv, InHand
  <2>2. BlockInHand => block.index \in Nat
    BY DEF BlockInHand, IsBlock
  <2>3. BlockInHand => block.index + Remaining' < MaxU64
    BY <1>1, <2>2, MaxU64Assumption DEF BlockInHand
  <2> QED
    BY <1>0, <2>1, <2>3 DEF BlockInHand
<1>4. InHand'
  BY <1>0, <1>1, <1>3 DEF InHand
<1> QED
  BY <1>1, <1>2, <1>4 DEF IInv

LEMMA ValidateOkStep ==
    ASSUME IInv, NEW txs \in Pending, NEW b \in Proposed(txs), ValidateOk(b)
    PROVE  IInv'
<1>0. /\ PutForward /\ validate_block(b) /\ pc = "idle" /\ pc' = "txs" /\ block' = b
      /\ i' = 1 /\ accounts_to_update' = << >> /\ batch' = << >>
      /\ db' = db /\ durable' = durable /\ chain_state' = chain_state
  BY DEF ValidateOk, PutForward
<1>1. /\ Remaining \in Nat /\ Remaining > 0 /\ Remaining' = Remaining - 1
      /\ IsChainState(chain_state, Remaining)
      /\ IsChainState(chain_state, Remaining)'
      /\ DatabaseOK(db) /\ DatabaseOK(db)' /\ DatabaseOK(durable)' /\ SeededTreesAreKept'
      /\ attempts' \in 0 .. MaxAttempts
  BY <1>0, Attempted
<1>2. WellFormed(db)
  BY <1>1 DEF DatabaseOK
<1>3. /\ IsBlock(b) /\ b.transactions = txs
      /\ b.index > 0 /\ b.index + (Remaining - 1) < MaxU64
      /\ \A n \in DOMAIN b.transactions : verify_signature(b.transactions[n])
      /\ Extends(db, b.prev_hash, b.index)
  BY <1>0, <1>1, <1>2, Validated
<1>4. BlockInHand'
  BY <1>0, <1>1, <1>3 DEF BlockInHand
<1>5. Len(txs) \in Nat
  BY PendingAssumption
<1>6. TypeOK'
  <2>1. 1 \in 1 .. Len(b.transactions) + 1
    BY <1>3, <1>5
  <2>2. chain_state' # Down
    BY <1>1, StaysUp
  <2> QED
    BY <1>0, <1>1, <2>1, <2>2 DEF IInv, TypeOK
<1>7. AccountsInHand(i - 1)' /\ \A k \in DOMAIN batch' : IsRemoval(k)'
  <2>1. DOMAIN accounts_to_update' = {} /\ DOMAIN batch' = {} /\ 1 .. i' - 1 = {}
    BY <1>0
  <2>2. UNION {TouchedBy(m)' : m \in 1 .. i' - 1} = {}
    BY <2>1
  <2> QED
    BY <2>1, <2>2 DEF AccountsInHand
<1>8. Extends(db', block'.prev_hash, block'.index)
  BY <1>0, <1>3
<1>9. InHand'
  BY <1>0, <1>1, <1>4, <1>7, <1>8 DEF InHand
<1> QED
  BY <1>1, <1>6, <1>9 DEF IInv

\* A new nonce or balance does not make a contract of an account, nor change
\* the code of one.
LEMMA AccountUpdates ==
    ASSUME NEW d, NEW a, IsAccount(a), HasCode(d, a), NEW n
    PROVE  /\ HasCode(d, set_nonce(a, n))
           /\ a.type = "Wallet" => \A x : /\ [a EXCEPT !.balance = x].type = "Wallet"
                                          /\ [set_nonce(a, n) EXCEPT !.balance = x].type = "Wallet"
<1>1. CASE a.type = "Wallet"
  <2>1. a = [type |-> "Wallet", balance |-> a.balance, nonce |-> a.nonce]
    BY <1>1 DEF IsAccount, Wallet
  <2>2. set_nonce(a, n) = [type |-> "Wallet", balance |-> a.balance, nonce |-> n]
    BY <2>1 DEF set_nonce
  <2> QED
    BY <2>1, <2>2 DEF HasCode
<1>2. CASE a.type # "Wallet"
  <2>1. a = [type |-> "Contract", code_hash |-> a.code_hash, nonce |-> a.nonce]
    BY <1>2 DEF IsAccount, ContractAccount
  <2>2. set_nonce(a, n) = [type |-> "Contract", code_hash |-> a.code_hash, nonce |-> n]
    BY <2>1 DEF set_nonce
  <2>3. set_nonce(a, n).type = a.type /\ set_nonce(a, n).code_hash = a.code_hash
    BY <2>1, <2>2
  <2> QED
    BY <1>2, <2>3 DEF HasCode
<1> QED
  BY <1>1, <1>2

\* what the loop knows of the transaction at hand
LEMMA AtHand ==
    ASSUME IInv, AtTx, Accepts
    PROVE  /\ IsTransaction(tx)
           /\ WellFormed(db)
           /\ IsAccount(sender_account) /\ HasCode(db, sender_account)
           /\ \A pk \in DOMAIN accounts_to_update : HasCode(db, accounts_to_update[pk])
<1>1. /\ BlockInHand /\ pc = "txs" /\ i <= Len(block.transactions)
      /\ i \in 1 .. Len(block.transactions) + 1
      /\ WellFormed(db) /\ AccountsInHand(i - 1)
  BY DEF IInv, InHand, TypeOK, AtTx, DatabaseOK
<1>2. IsTransaction(tx)
  BY <1>1, Transactions DEF tx
<1>3. tx.sender \in PublicKey /\ get_account(db, tx.sender) # None
  BY <1>2 DEF IsTransaction, Accepts, NonceOk, sender_account
<1>4. IsAccount(sender_account) /\ HasCode(db, sender_account)
  BY <1>1, <1>3 DEF WellFormed, sender_account
<1> QED
  BY <1>1, <1>2, <1>4 DEF AccountsInHand

LEMMA Unmoved ==
    ASSUME NEW d, WellFormed(d)
    PROVE  Grows(d, d)
BY DEF Grows, WellFormed

LEMMA TransferStep == ASSUME IInv, ApplyTransfer PROVE IInv'
<1> DEFINE debited == [numbered_sender EXCEPT !.balance = @ - tx.payload.amount]
           half == update(tx.sender, debited)
           to == tx.recipient.pk
<1>0. /\ AtTx /\ Accepts /\ NextTx /\ tx.payload.type = "Transfer" /\ db' = db
      /\ accounts_to_update' = tree_insert(half, to, credited_recipient)
  BY DEF ApplyTransfer
<1>1. /\ IsTransaction(tx) /\ WellFormed(db)
      /\ IsAccount(sender_account) /\ HasCode(db, sender_account)
      /\ \A pk \in DOMAIN accounts_to_update : HasCode(db, accounts_to_update[pk])
  BY <1>0, AtHand
<1>2. Debitable /\ Creditable
  BY <1>0 DEF Accepts
<1>3. to \in PublicKey /\ tx.recipient = WalletAddress(to)
  BY <1>1, <1>2 DEF Creditable, IsTransaction
<1>4. debited.type = "Wallet"
  BY <1>1, <1>2, AccountUpdates DEF Debitable, numbered_sender
<1>5. credited_recipient.type = "Wallet"
  <2>1. CASE recipient_account = None
    BY <2>1 DEF credited_recipient, Wallet
  <2>2. CASE recipient_account # None
    <3>1. IsAccount(recipient_account) /\ HasCode(db, recipient_account)
      BY <2>2, <1>1, <1>3 DEF WellFormed, recipient_account
    <3>2. recipient_account.type = "Wallet"
      BY <2>2, <1>2 DEF Creditable
    <3> QED
      BY <2>2, <3>1, <3>2, AccountUpdates DEF credited_recipient
  <2> QED
    BY <2>1, <2>2
<1>6. /\ IsInserted(half, accounts_to_update, tx.sender, debited)
      /\ IsInserted(accounts_to_update', half, to, credited_recipient)
  BY <1>0, Inserted, Zenon DEF update
<1>7. HasCode(db, debited) /\ HasCode(db, credited_recipient)
  BY <1>4, <1>5 DEF HasCode
<1>8. Atomic!Touched(tx) = {tx.sender, to}
  <2>1. \A pk : tx.recipient = WalletAddress(pk) => pk = to
    BY <1>3 DEF WalletAddress
  <2> QED
    BY <1>0, <1>3, <2>1 DEF Atomic!Touched, Atomic!WalletAddress, WalletAddress
<1> HIDE DEF debited, half, to
<1>9. DOMAIN accounts_to_update' = DOMAIN accounts_to_update \cup Atomic!Touched(tx)
  BY <1>6, <1>8 DEF IsInserted
<1>10. \A pk \in DOMAIN half : HasCode(db, half[pk])
  BY <1>1, <1>6, <1>7 DEF IsInserted
<1>11. \A pk \in DOMAIN accounts_to_update' : HasCode(db, accounts_to_update'[pk])
  BY <1>6, <1>7, <1>10 DEF IsInserted
<1>12. Grows(db, db') /\ db'["default"] = db["default"]
  BY <1>0, <1>1, Unmoved
<1> QED
  BY <1>0, <1>9, <1>11, <1>12, Looping

LEMMA DeployStep == ASSUME IInv, ApplyDeploy PROVE IInv'
<1> DEFINE account == ContractAccount(deployed, tx.nonce)
<1>0. /\ AtTx /\ Accepts /\ NextTx /\ tx.payload.type = "ContractDeploy"
      /\ db' = put_contract_code(db, deployed, tx.payload.wasm)
      /\ accounts_to_update' = tree_insert(accounts_to_update, tx.sender, account)
  BY DEF ApplyDeploy, update
<1>1. /\ WellFormed(db)
      /\ \A pk \in DOMAIN accounts_to_update : HasCode(db, accounts_to_update[pk])
  BY <1>0, AtHand
<1>2. /\ Grows(db, db') /\ db'["default"] = db["default"]
      /\ get_contract_code(db', deployed) = IdentifiedCode(deployed)
  BY <1>0, <1>1, StoringCode DEF deployed
<1>3. HasCode(db', account)
  BY <1>2 DEF HasCode, ContractAccount
<1>4. IsInserted(accounts_to_update', accounts_to_update, tx.sender, account)
  BY <1>0, Inserted, Zenon
<1>5. Atomic!Touched(tx) = {tx.sender}
  BY <1>0 DEF Atomic!Touched
<1> HIDE DEF account
<1>6. DOMAIN accounts_to_update' = DOMAIN accounts_to_update \cup Atomic!Touched(tx)
  BY <1>4, <1>5 DEF IsInserted
<1>7. \A pk \in DOMAIN accounts_to_update : HasCode(db', accounts_to_update[pk])
  BY <1>1, <1>2, GrowthKeeps
<1>8. \A pk \in DOMAIN accounts_to_update' : HasCode(db', accounts_to_update'[pk])
  BY <1>3, <1>4, <1>7 DEF IsInserted
<1> QED
  BY <1>0, <1>2, <1>6, <1>8, Looping

LEMMA CallOrDataStep == ASSUME IInv, ApplyCallOrData PROVE IInv'
<1>0. /\ AtTx /\ Accepts /\ NextTx /\ tx.payload.type # "Transfer" /\ db' = db
      /\ accounts_to_update' = tree_insert(accounts_to_update, tx.sender, numbered_sender)
  BY DEF ApplyCallOrData, update
<1>1. /\ WellFormed(db) /\ IsAccount(sender_account) /\ HasCode(db, sender_account)
      /\ \A pk \in DOMAIN accounts_to_update : HasCode(db, accounts_to_update[pk])
  BY <1>0, AtHand
<1>2. HasCode(db, numbered_sender)
  BY <1>1, AccountUpdates DEF numbered_sender
<1>3. IsInserted(accounts_to_update', accounts_to_update, tx.sender, numbered_sender)
  BY <1>0, Inserted, Zenon
<1>4. Atomic!Touched(tx) = {tx.sender}
  BY <1>0 DEF Atomic!Touched
<1>5. DOMAIN accounts_to_update' = DOMAIN accounts_to_update \cup Atomic!Touched(tx)
  BY <1>3, <1>4 DEF IsInserted
<1>6. \A pk \in DOMAIN accounts_to_update' : HasCode(db, accounts_to_update'[pk])
  BY <1>1, <1>2, <1>3 DEF IsInserted
<1>7. Grows(db, db') /\ db'["default"] = db["default"]
  BY <1>0, <1>1, Unmoved
<1> QED
  BY <1>0, <1>5, <1>6, <1>7, Looping

LEMMA FailStep ==
    ASSUME IInv, RejectTx \/ PanicTx \/ StorageFails
    PROVE  IInv'
<1>1. /\ pc # "down" /\ pc' \in {"idle", "poisoned"} /\ db' = db /\ durable' = durable
      /\ chain_state' = chain_state /\ block' = block /\ attempts' = attempts
  BY DEF RejectTx, PanicTx, StorageFails, AtTx, Fail, applying
<1>2. DatabaseOK(db)
  BY DEF IInv
<1> QED
  BY <1>1, <1>2, Resting

LEMMA UpdateChainStateStep == ASSUME IInv, UpdateChainState PROVE IInv'
<1>0. /\ pc = "txs" /\ pc' = "index" /\ i > Len(block.transactions) /\ i' = 1
      /\ batch' = AllPuts /\ chain_state' = new_chain_state
      /\ UNCHANGED <<db, durable, block, accounts_to_update, attempts>>
  BY DEF UpdateChainState
<1>1. /\ DatabaseOK(db) /\ DatabaseOK(durable) /\ SeededTreesAreKept
      /\ BlockInHand /\ Extends(db, block.prev_hash, block.index)
      /\ AccountsInHand(i - 1) /\ \A k \in DOMAIN batch : IsRemoval(k)
      /\ i \in 1 .. Len(block.transactions) + 1
  BY <1>0 DEF IInv, InHand, TypeOK
<1>2. /\ Len(block.transactions) \in Nat
      /\ DOMAIN block.transactions = 1 .. Len(block.transactions)
  BY <1>1, Transactions
<1>3. IsChainState(new_chain_state, Remaining)
  <2>1. HashedIndex(block.hash) = block.index /\ block.index \in Nat
    BY <1>1, HashCommits DEF BlockInHand, IsBlock
  <2> QED
    BY <1>1, <2>1 DEF IsChainState, new_chain_state, ChainState, BlockInHand
<1>4. IsChainState(chain_state, Remaining)'
  <2>1. Remaining' = Remaining
    BY <1>0 DEF Remaining
  <2> QED
    BY <1>0, <1>3, <2>1
<1>5. TypeOK'
  <2>1. chain_state' # Down
    BY <1>0, <1>3, StaysUp
  <2>2. 1 \in 1 .. Len(block.transactions) + 1
    BY <1>2
  <2> QED
    BY <1>0, <2>1, <2>2 DEF IInv, TypeOK
<1>6. BlockInHand'
  BY <1>0, <1>1 DEF BlockInHand, Remaining
<1>7. AccountsInHand(Len(block.transactions))'
  <2>1. i - 1 = Len(block.transactions)
    BY <1>0, <1>1, <1>2
  <2>2. AccountsInHand(Len(block.transactions))
    BY <1>1, <2>1
  <2> QED
    BY <1>0, <2>2 DEF AccountsInHand, TouchedBy
<1>8. BatchInHand'
  <2>1. new_chain_state' = new_chain_state
    BY <1>0 DEF new_chain_state
  <2> QED
    BY <1>0, <1>1, <2>1, WholeBatch DEF BatchInHand, IsRemoval, IsAccountPut
<1>9. IndexInHand'
  BY <1>0 DEF IndexInHand
<1>10. InHand'
  BY <1>0, <1>1, <1>4, <1>6, <1>7, <1>8, <1>9 DEF InHand
<1>11. DatabaseOK(db)' /\ DatabaseOK(durable)' /\ SeededTreesAreKept'
  BY <1>0, <1>1 DEF SeededTreesAreKept
<1> QED
  BY <1>5, <1>10, <1>11 DEF IInv

LEMMA IndexStep == ASSUME IInv, IndexTx PROVE IInv'
<1>0. /\ pc = "index" /\ pc' = "index" /\ i <= Len(block.transactions) /\ i' = i + 1
      /\ db' = index_transaction(db, tx.hash, block.hash, i - 1)
      /\ UNCHANGED <<durable, chain_state, block, accounts_to_update, batch, attempts>>
  BY DEF IndexTx
<1>1. /\ DatabaseOK(db) /\ WellFormed(db) /\ DatabaseOK(durable) /\ SeededTreesAreKept
      /\ BlockInHand /\ Extends(db, block.prev_hash, block.index)
      /\ AccountsInHand(Len(block.transactions)) /\ BatchInHand /\ IndexInHand
      /\ i \in 1 .. Len(block.transactions) + 1
      /\ IsChainState(chain_state, Remaining)
  BY <1>0 DEF IInv, InHand, TypeOK, DatabaseOK
<1>2. Len(block.transactions) \in Nat
  BY <1>1, Transactions
<1>3. /\ Grows(db, db') /\ db'["default"] = db["default"]
      /\ TxIndexKey(block.hash, tx.hash, i - 1) \in DOMAIN db'["tx_by_block"]
  BY <1>0, <1>1, StoringIndex
<1>4. DatabaseOK(db')
  BY <1>1, <1>3, GrownDatabase
<1>5. TypeOK'
  BY <1>0, <1>1, <1>2, <1>3 DEF IInv, TypeOK, Grows
<1>6. SeededTreesAreKept'
  BY <1>0, <1>1, <1>3 DEF SeededTreesAreKept, Grows
<1>7. BlockInHand' /\ IsChainState(chain_state, Remaining)'
  <2>1. Remaining' = Remaining
    BY <1>0 DEF Remaining
  <2> QED
    BY <2>1, <1>0, <1>1 DEF BlockInHand
<1>8. Extends(db', block'.prev_hash, block'.index)
  BY <1>0, <1>1, <1>3, GrowthKeeps
<1>9. AccountsInHand(Len(block.transactions))'
  <2>1. \A pk \in DOMAIN accounts_to_update : HasCode(db', accounts_to_update[pk])
    BY <1>1, <1>3, GrowthKeeps DEF AccountsInHand
  <2> QED
    BY <1>0, <1>1, <2>1 DEF AccountsInHand, TouchedBy
<1>10. BatchInHand'
  <2>1. new_chain_state' = new_chain_state
    BY <1>0 DEF new_chain_state
  <2> QED
    BY <1>0, <1>1, <2>1 DEF BatchInHand, IsRemoval, IsAccountPut
<1>11. IndexInHand'
  <2> SUFFICES ASSUME NEW n \in 1 .. i
               PROVE  TxIndexKey(block.hash, block.transactions[n].hash, n - 1)
                         \in DOMAIN db'["tx_by_block"]
    BY <1>0, <1>1, <1>2 DEF IndexInHand
  <2>1. CASE n = i
    BY <2>1, <1>3 DEF tx
  <2>2. CASE n # i
    <3>1. n \in 1 .. i - 1
      BY <2>2, <1>1, <1>2
    <3> QED
      BY <3>1, <1>1, <1>3 DEF IndexInHand, Grows
  <2> QED
    BY <2>1, <2>2
<1>12. InHand'
  BY <1>0, <1>7, <1>8, <1>9, <1>10, <1>11 DEF InHand
<1>13. DatabaseOK(durable)'
  BY <1>0, <1>1
<1> QED
  BY <1>4, <1>5, <1>6, <1>12, <1>13 DEF IInv

LEMMA CommitStep == ASSUME IInv, Commit PROVE IInv'
<1>1. /\ pc = "index" /\ pc' = "idle" /\ i > Len(block.transactions)
      /\ db' = apply_batch(db, batch) /\ durable' = durable
      /\ chain_state' = chain_state /\ block' = block /\ attempts' = attempts
  BY DEF Commit, applying
<1>2. DatabaseOK(db') /\ WellFormed(db)
  BY <1>1, ApplyingBlock DEF IInv, DatabaseOK
<1>3. Grows(db, db')
  BY <1>1, <1>2, ApplyingBatch
<1> QED
  BY <1>1, <1>2, <1>3, Resting DEF Grows

LEMMA StoreStep ==
    ASSUME IInv, StoreBlockHash \/ StoreBlockHeight
    PROVE  IInv'
<1>1. /\ pc \in {"idle", "storing"} /\ pc' \in {"idle", "storing"}
      /\ pc = "storing" \/ block # None
      /\ db' = put_block_hash(db, block) \/ db' = put_block_height(db, block)
      /\ durable' = durable /\ chain_state' = chain_state /\ block' = block
      /\ attempts' = attempts
  BY DEF StoreBlockHash, StoreBlockHeight, applying
<1>2. DatabaseOK(db) /\ WellFormed(db) /\ BlockInHand
  BY <1>1 DEF IInv, InHand, DatabaseOK
<1>3. IsBlock(block)
  BY <1>2 DEF BlockInHand
<1>4. Grows(db, db') /\ db'["default"] = db["default"]
  BY <1>1, <1>2, <1>3, StoringHash, StoringHeight
<1>5. DatabaseOK(db')
  BY <1>2, <1>4, GrownDatabase
<1> QED
  BY <1>1, <1>2, <1>4, <1>5, Resting DEF Grows

LEMMA FlushStep == ASSUME IInv, Flush PROVE IInv'
<1>1. /\ durable' = db /\ UNCHANGED <<db, chain_state, pc, applying, attempts>>
  BY DEF Flush
<1>2. TypeOK'
  BY <1>1 DEF IInv, TypeOK, applying
<1>3. DatabaseOK(db)' /\ DatabaseOK(durable)' /\ SeededTreesAreKept'
  BY <1>1 DEF IInv, SeededTreesAreKept
<1>4. InHand'
  BY <1>1 DEF IInv, InHand, applying, BlockInHand, AccountsInHand, BatchInHand, IndexInHand,
              IsRemoval, IsAccountPut, TouchedBy, new_chain_state, Remaining
<1> QED
  BY <1>2, <1>3, <1>4 DEF IInv

LEMMA CrashStep == ASSUME IInv, Crash PROVE IInv'
<1>1. /\ db' = durable /\ durable' = durable /\ chain_state' = Down /\ pc' = "down"
      /\ block' = None /\ attempts' = attempts
  BY DEF Crash
<1>2. TypeOK'
  BY <1>1 DEF IInv, TypeOK
<1>3. DatabaseOK(db)' /\ DatabaseOK(durable)' /\ SeededTreesAreKept'
  BY <1>1 DEF IInv, SeededTreesAreKept
<1>4. InHand'
  BY <1>1 DEF InHand
<1> QED
  BY <1>2, <1>3, <1>4 DEF IInv

LEMMA StutterStep == ASSUME IInv, UNCHANGED vars PROVE IInv'
<1>2. TypeOK'
  BY DEF IInv, TypeOK, vars
<1>3. DatabaseOK(db)' /\ DatabaseOK(durable)' /\ SeededTreesAreKept'
  BY DEF IInv, SeededTreesAreKept, vars
<1>4. InHand'
  BY DEF IInv, InHand, vars, BlockInHand, AccountsInHand, BatchInHand, IndexInHand,
         IsRemoval, IsAccountPut, TouchedBy, new_chain_state, Remaining
<1> QED
  BY <1>2, <1>3, <1>4 DEF IInv

-----------------------------------------------------------------------------
(* The theorems.                                                           *)

\* The invariant holds of every state the ledger reaches: whichever block is
\* put forward, wherever apply_block fails, and wherever the process dies.
THEOREM Invariance == Spec => []IInv
<1>1. Init => IInv
  <2> SUFFICES ASSUME Init PROVE IInv
    OBVIOUS
  <2>1. /\ WellFormed(db) /\ db["default"] = << >> /\ durable = db
        /\ chain_state = Down /\ pc = "down" /\ block = None /\ attempts = 0
    BY SeedAssumption DEF Init, EmptyTree
  <2>2. DatabaseOK(db)
    <3>1. DOMAIN db["default"] = {}
      BY <2>1
    <3>2. committed(db) = None
      BY <3>1 DEF committed, tree_get
    <3> QED
      BY <2>1, <3>1, <3>2 DEF DatabaseOK
  <2>3. TypeOK
    BY <2>1, AttemptsAssumption DEF TypeOK, WellFormed
  <2>4. InHand
    BY <2>1 DEF InHand
  <2> QED
    BY <2>1, <2>2, <2>3, <2>4 DEF IInv, SeededTreesAreKept
<1>2. IInv /\ [Next]_vars => IInv'
  <2> SUFFICES ASSUME IInv, [Next]_vars PROVE IInv'
    OBVIOUS
  <2>1. ASSUME NEW txs \in Pending, NEW b \in Proposed(txs), ValidateOk(b) \/ ValidateFails(b)
        PROVE  IInv'
    BY <2>1, ValidateOkStep, ValidateFailsStep
  <2>2. CASE apply_block
    BY <2>2, TransferStep, DeployStep, CallOrDataStep, FailStep, UpdateChainStateStep,
       IndexStep, CommitStep DEF apply_block
  <2> QED
    BY <2>1, <2>2, BootStep, BootFailsStep, StoreStep, FlushStep, CrashStep, StutterStep
       DEF Next
<1> QED
  BY <1>1, <1>2, PTL DEF Spec

\* Type correctness.
THEOREM TypeCorrect == Spec => []TypeOK
<1>1. IInv => TypeOK
  BY DEF IInv
<1> QED
  BY <1>1, Invariance, PTL

\* A committed block has all its transactions in the index, after a crash too:
\* index_transaction runs before apply_batch.
THEOREM Indexed == Spec => []CommittedIsIndexed
<1>1. IInv => CommittedIsIndexed
  BY DEF IInv, DatabaseOK, CommittedIsIndexed
<1> QED
  BY <1>1, Invariance, PTL

\* A committed contract account has its code, after a crash too.
THEOREM ContractsHaveCode == Spec => []CommittedContractHasCode
<1>1. IInv => CommittedContractHasCode
  <2> SUFFICES ASSUME IInv, NEW d \in {db, durable}, NEW account \in CommittedAccounts(d)
               PROVE  HasCode(d, account)
    BY DEF CommittedContractHasCode
  <2>1. DatabaseOK(d)
    BY DEF IInv
  <2>2. PICK pk \in PublicKey : /\ Encoded(pk) \in DOMAIN d["default"]
                                /\ account = deserialize(d["default"][Encoded(pk)])
    BY DEF CommittedAccounts
  <2> QED
    BY <2>1, <2>2 DEF DatabaseOK
<1> QED
  BY <1>1, Invariance, PTL

\* A committed block other than genesis extends a stored, readable block.
THEOREM ExtendsStored == Spec => []CommittedExtendsStored
<1>1. IInv => CommittedExtendsStored
  BY DEF IInv, DatabaseOK, CommittedExtendsStored, Extends, Readable
<1> QED
  BY <1>1, Invariance, PTL

\* No block is ever committed on top of one that has transactions.
THEOREM ParentsHaveNoTransactions == Spec => []ParentsAreEmpty
<1>1. IInv => ParentsAreEmpty
  BY DEF IInv, DatabaseOK, ParentsAreEmpty, Extends
<1> QED
  BY <1>1, Invariance, PTL

-----------------------------------------------------------------------------
(* What a step does to the database.                                       *)

\* A step leaves the default tree alone, or is the genesis batch, a block's
\* commit, a flush or a crash; only a crash does not grow the database.
LEMMA StepKinds ==
    ASSUME IInv, [Next]_vars
    PROVE  \/ Grows(db, db') /\ db'["default"] = db["default"] /\ durable' = durable
           \/ db' = apply_batch(db, genesis_batch) /\ durable' = durable
           \/ Commit
           \/ Flush
           \/ Crash
<1>0. WellFormed(db)
  BY DEF IInv, DatabaseOK
<1>1. db' = db => Grows(db, db') /\ db'["default"] = db["default"]
  BY <1>0, Unmoved
<1>2. CASE Boot \/ BootFails
  <2>1. durable' = durable /\ db' = initialize_chain(db)
    BY <1>2 DEF Boot, BootFails
  <2>2. db' = db \/ db' = apply_batch(db, genesis_batch)
    BY <2>1 DEF initialize_chain
  <2> QED
    BY <2>1, <2>2, <1>1
<1>3. ASSUME NEW b, ValidateOk(b) \/ ValidateFails(b)
      PROVE  db' = db /\ durable' = durable
  BY <1>3 DEF ValidateOk, ValidateFails, PutForward
<1>4. CASE ApplyTransfer \/ ApplyCallOrData \/ RejectTx \/ PanicTx \/ UpdateChainState
           \/ StorageFails
  <2>1. db' = db /\ durable' = durable
    BY <1>4 DEF ApplyTransfer, ApplyCallOrData, RejectTx, PanicTx, UpdateChainState,
                StorageFails, NextTx, Fail
  <2> QED
    BY <2>1, <1>1
<1>5. CASE ApplyDeploy
  <2>1. durable' = durable /\ db' = put_contract_code(db, deployed, tx.payload.wasm)
    BY <1>5 DEF ApplyDeploy, NextTx
  <2> QED
    BY <2>1, <1>0, StoringCode DEF deployed
<1>6. CASE IndexTx
  <2>1. durable' = durable /\ db' = index_transaction(db, tx.hash, block.hash, i - 1)
    BY <1>6 DEF IndexTx
  <2> QED
    BY <2>1, <1>0, StoringIndex
<1>7. CASE StoreBlockHash \/ StoreBlockHeight
  <2>1. /\ durable' = durable
        /\ pc = "storing" \/ block # None
        /\ db' = put_block_hash(db, block) \/ db' = put_block_height(db, block)
    BY <1>7 DEF StoreBlockHash, StoreBlockHeight
  <2>2. IsBlock(block)
    BY <2>1 DEF IInv, InHand, BlockInHand
  <2> QED
    BY <2>1, <2>2, <1>0, StoringHash, StoringHeight
<1>8. CASE UNCHANGED vars
  BY <1>8, <1>1 DEF vars
<1> QED
  BY <1>1, <1>2, <1>3, <1>4, <1>5, <1>6, <1>7, <1>8 DEF Next, apply_block

\* No step changes what the getters of the chain state and the accounts read.
LEMMA GettersKept ==
    ASSUME IInv, [Next]_vars
    PROVE  /\ get_chain_state(db') = get_chain_state(db)
           /\ \A pk \in PublicKey : get_account(db', pk) = get_account(db, pk)
<1>0. WellFormed(db) /\ SeededTreesAreKept
  BY DEF IInv, DatabaseOK
<1>1. CASE Grows(db, db')
  BY <1>1, GrowthKeeps
<1>2. CASE db' = apply_batch(db, genesis_batch) \/ Commit
  <2>1. db' = apply_batch(db, genesis_batch) \/ db' = apply_batch(db, batch)
    BY <1>2 DEF Commit
  <2>2. Grows(db, db')
    BY <2>1, <1>0, ApplyingBatch
  <2> QED
    BY <2>2, GrowthKeeps
<1>3. CASE Flush
  BY <1>3 DEF Flush
<1>4. CASE Crash
  BY <1>0, <1>4 DEF Crash, SeededTreesAreKept, get_chain_state, get_account
<1> QED
  BY <1>1, <1>2, <1>3, <1>4, StepKinds

\* The getters never see what is committed: no step, a crash included, changes
\* the chain state or an account that the next start or the next block reads.
THEOREM NeverRead == Spec => CommittedIsNeverRead
<1>1. IInv /\ [Next]_vars =>
         [ /\ get_chain_state(db') = get_chain_state(db)
           /\ \A pk \in PublicKey : get_account(db', pk) = get_account(db, pk) ]_vars
  BY GettersKept
<1> QED
  BY <1>1, Invariance, PTL DEF Spec, CommittedIsNeverRead

-----------------------------------------------------------------------------
(* The refinement.                                                         *)

\* AtomicLedger's own copies of the operators of Types and StorageApi.
LEMMA SameOperators ==
    /\ Atomic!EmptyTree = EmptyTree
    /\ Atomic!EncodedGlobalCurrent = EncodedGlobalCurrent
    /\ \A x : Atomic!Raw(x) = Raw(x)
    /\ \A x : Atomic!Encoded(x) = Encoded(x)
    /\ \A x : Atomic!HashedTransactions(x) = HashedTransactions(x)
    /\ \A t : Atomic!verify_signature(t) = verify_signature(t)
<1>1. /\ Atomic!EmptyTree = EmptyTree
      /\ Atomic!EncodedGlobalCurrent = EncodedGlobalCurrent
      /\ \A x : Atomic!Raw(x) = Raw(x)
      /\ \A x : Atomic!Encoded(x) = Encoded(x)
      /\ \A x : Atomic!HashedTransactions(x) = HashedTransactions(x)
  BY Zenon DEF Atomic!EmptyTree, EmptyTree, Atomic!EncodedGlobalCurrent, EncodedGlobalCurrent,
     Atomic!Raw, Raw, Atomic!Encoded, Encoded, Atomic!HashedTransactions, HashedTransactions
<1>2. \A t : Atomic!verify_signature(t) = verify_signature(t)
  BY Zenon DEF Atomic!verify_signature, verify_signature, Atomic!tx_calculate_hash,
     tx_calculate_hash, Atomic!Sha256, Sha256, Atomic!ed25519_sign, ed25519_sign
<1> QED
  BY <1>1, <1>2

\* the chain state a default tree holds
LEMMA Tip ==
    ASSUME NEW u, NEW s, u[EncodedGlobalCurrent] = serialize(s)
    PROVE  Atomic!tip(u) = s
BY SameOperators DEF Atomic!tip, serialize

\* The genesis batch is the abstract genesis step.
LEMMA GenesisIsGenesis ==
    ASSUME WellFormed(db), db' = apply_batch(db, genesis_batch), durable' = durable
    PROVE  Atomic!Genesis
<1> DEFINE t == db["default"]
           u == db'["default"]
           g == genesis_block.hash
           written == {EncodedGlobalCurrent, Raw(g)}
<1>1. IsApplied(u, t, genesis_batch)
  BY ApplyingBatch
<1> HIDE DEF g
<1>2. /\ DOMAIN u = DOMAIN t \cup written
      /\ u[EncodedGlobalCurrent] = serialize(ChainState(g, 0))
      /\ \A k \in DOMAIN t \ written : u[k] = t[k]
  BY <1>1, GenesisBatch DEF IsApplied, g
<1>3. Atomic!tip(u) = ChainState(g, 0)
  BY <1>2, Tip
<1>4. Atomic!tip(u).latest_block_index = 0 /\ Atomic!tip(u).latest_block_hash = g
  BY <1>3 DEF ChainState
<1>5. Atomic!HashedTransactions(g) = << >>
  BY GenesisBlock, HashCommits, SameOperators DEF g
<1>6. written = {Atomic!EncodedGlobalCurrent, Atomic!Raw(Atomic!tip(u).latest_block_hash)}
  BY <1>4, SameOperators
<1>7. Atomic!EncodedGlobalCurrent \in DOMAIN u
  BY <1>2, SameOperators
<1> HIDE DEF written
<1> QED
  BY <1>2, <1>4, <1>5, <1>6, <1>7 DEF Atomic!Genesis

\* The commit of a block is the abstract commit: its accounts, its chain state
\* and nothing else.
LEMMA CommitIsCommit ==
    ASSUME IInv, Commit
    PROVE  Atomic!CommitBlock
<1> DEFINE t == db["default"]
           u == db'["default"]
           txs == block.transactions
           keys == {Encoded(pk) : pk \in DOMAIN accounts_to_update}
<1>0. /\ DatabaseOK(db) /\ WellFormed(db) /\ BlockInHand /\ BatchInHand
      /\ AccountsInHand(Len(txs))
      /\ db' = apply_batch(db, batch) /\ durable' = durable
  BY DEF IInv, InHand, DatabaseOK, Commit
<1>1. IsApplied(u, t, batch)
  BY <1>0, ApplyingBatch
<1>2. /\ DOMAIN u = DOMAIN t \cup keys \cup {EncodedGlobalCurrent}
      /\ u[EncodedGlobalCurrent] = serialize(new_chain_state)
      /\ \A k \in DOMAIN t \ (keys \cup {EncodedGlobalCurrent}) : u[k] = t[k]
  BY <1>0, <1>1, BlockBatch
<1>3. Atomic!tip(u) = new_chain_state
  BY <1>2, Tip
<1>4. /\ Atomic!tip(u).latest_block_index = block.index
      /\ Atomic!tip(u).latest_block_hash = block.hash
  BY <1>3 DEF new_chain_state, ChainState
<1>5. Atomic!HashedTransactions(Atomic!tip(u).latest_block_hash) = txs
  BY <1>0, <1>4, HashCommits, SameOperators DEF BlockInHand
<1>6. block.index > 0 /\ \A n \in DOMAIN txs : Atomic!verify_signature(txs[n])
  BY <1>0, SameOperators DEF BlockInHand
<1>7. Atomic!TouchedKeys(txs) = keys
  <2>1. DOMAIN txs = 1 .. Len(txs)
    BY <1>0, Transactions
  <2>2. DOMAIN accounts_to_update = UNION {Atomic!Touched(txs[n]) : n \in DOMAIN txs}
    BY <1>0, <2>1 DEF AccountsInHand, TouchedBy
  <2>3. Atomic!TouchedKeys(txs) = {Atomic!Encoded(pk) : pk \in DOMAIN accounts_to_update}
    BY <2>2 DEF Atomic!TouchedKeys
  <2> QED
    BY <2>3, SameOperators
<1>8. Atomic!EncodedGlobalCurrent = EncodedGlobalCurrent
  BY SameOperators
<1> HIDE DEF keys
<1> QED
  BY <1>0, <1>2, <1>4, <1>5, <1>6, <1>7, <1>8 DEF Atomic!CommitBlock

\* The ledger implements AtomicLedger: however its writes, failures, flushes and
\* crashes interleave, the default tree changes by whole blocks only.
THEOREM Refinement == Spec => RefinesAtomicLedger
<1>1. Init => Atomic!Initial
  <2> SUFFICES ASSUME Init PROVE Atomic!Initial
    OBVIOUS
  <2>1. db["default"] = EmptyTree /\ durable["default"] = EmptyTree
    BY SeedAssumption DEF Init
  <2> QED
    BY <2>1, SameOperators DEF Atomic!Initial
<1>2. IInv /\ [Next]_vars => [Atomic!Step]_(Atomic!state)
  <2> SUFFICES ASSUME IInv, [Next]_vars
               PROVE  Atomic!Step \/ UNCHANGED Atomic!state
    OBVIOUS
  <2>0. WellFormed(db)
    BY DEF IInv, DatabaseOK
  <2>1. CASE db'["default"] = db["default"] /\ durable' = durable
    BY <2>1 DEF Atomic!state
  <2>2. CASE db' = apply_batch(db, genesis_batch) /\ durable' = durable
    BY <2>0, <2>2, GenesisIsGenesis DEF Atomic!Step
  <2>3. CASE Commit
    BY <2>3, CommitIsCommit DEF Atomic!Step
  <2>4. CASE Flush
    BY <2>4 DEF Flush, Atomic!Step, Atomic!Save
  <2>5. CASE Crash
    BY <2>5 DEF Crash, Atomic!Step, Atomic!Lose
  <2> QED
    BY <2>1, <2>2, <2>3, <2>4, <2>5, StepKinds
<1> QED
  BY <1>1, <1>2, Invariance, PTL DEF Spec, RefinesAtomicLedger, Atomic!Spec
=============================================================================
