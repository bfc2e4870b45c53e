--------------------------- MODULE StorageProofs ---------------------------
(***************************************************************************)
(* What two-write calls leave behind, for any number of clients, blocks    *)
(* and contracts: whatever another client does between the two writes,     *)
(* whichever of them is lost in a crash, and wherever the call gives up.   *)
(***************************************************************************)
EXTENDS Storage, StorageApiProofs

-----------------------------------------------------------------------------
(* The inductive invariant.                                                *)

HoldsBlock(d, b) ==
    /\ Raw(b.hash) \in DOMAIN d["blocks"]
    /\ d["blocks"][Raw(b.hash)] = serialize(b)

\* The first write of every call under way is in the trees: the block a height
\* entry is still to point at, the code an init payload is still to follow.
FirstWriteIsThere ==
    \A c \in Client : second[c] # None =>
        CASE second[c].op = "height" ->
                HoldsBlock(db, second[c].block)
          [] second[c].op = "init" ->
                get_contract_code(db, second[c].cid) = IdentifiedCode(second[c].cid)

\* A block is found under the key of its own height only.
KeyedByHeight(d) == \A k \in HeightKeys(d) : k = HeightKey(deserialize(d["blocks"][k]).index)

\* What is inductive: the two properties of the trees need the one of the
\* calls under way.
IInv ==
    /\ TypeOK /\ FirstWriteIsThere /\ HeightIndexIsBacked /\ InitPayloadHasCode
    /\ KeyedByHeight(db) /\ KeyedByHeight(durable)

-----------------------------------------------------------------------------
(* The three trees the properties read, one database at a time.            *)

BlocksTyped(d) ==
    /\ DOMAIN d = TreeNames
    /\ \A k \in DOMAIN d["blocks"] : d["blocks"][k] \in StoredBlocks

PayloadHasCode(d) ==
    \A k \in DOMAIN d["contract_storage"] :
        k[3] = InitPayloadKey => get_contract_code(d, k[2]) = IdentifiedCode(k[2])

\* the first write of the call whose second is w, in database d
WrittenFirst(d, w) ==
    /\ w.op = "height" => HoldsBlock(d, w.block)
    /\ w.op = "init" => get_contract_code(d, w.cid) = IdentifiedCode(w.cid)

DbOK(d) == BlocksTyped(d) /\ BackedByHash(d) /\ KeyedByHeight(d) /\ PayloadHasCode(d)

\* what d holds for calls under way, e holds too
Keeps(d, e) == \A w \in SecondWrite : WrittenFirst(d, w) => WrittenFirst(e, w)

\* the invariant, database by database
Parts ==
    /\ DbOK(db) /\ DbOK(durable)
    /\ second \in [Client -> SecondWrite \cup {None}]
    /\ writes \in 0 .. MaxWrites
    /\ \A c \in Client : second[c] # None => WrittenFirst(db, second[c])

LEMMA InvariantByDatabase == IInv <=> Parts
<1>1. TypeOK <=> /\ BlocksTyped(db) /\ BlocksTyped(durable)
                 /\ second \in [Client -> SecondWrite \cup {None}]
                 /\ writes \in 0 .. MaxWrites
  BY DEF TypeOK, BlocksTyped
<1>2. InitPayloadHasCode <=> PayloadHasCode(db) /\ PayloadHasCode(durable)
  BY DEF InitPayloadHasCode, PayloadHasCode
<1>3. ASSUME second \in [Client -> SecondWrite \cup {None}]
      PROVE  FirstWriteIsThere <=>
                \A c \in Client : second[c] # None => WrittenFirst(db, second[c])
  <2>1. \A c \in Client : second[c] # None => second[c].op \in {"height", "init"}
    BY <1>3 DEF SecondWrite
  <2> QED
    BY <2>1 DEF FirstWriteIsThere, WrittenFirst
<1> QED
  BY <1>1, <1>2, <1>3 DEF IInv, Parts, DbOK, HeightIndexIsBacked

LEMMA InvariantAfterwards == IInv' <=> Parts'
BY InvariantByDatabase, PTL

\* A method that leaves the three trees alone keeps everything.
LEMMA OtherTrees ==
    ASSUME NEW d, NEW e, DbOK(d), DOMAIN e = DOMAIN d,
           e["blocks"] = d["blocks"],
           e["contract_code"] = d["contract_code"],
           e["contract_storage"] = d["contract_storage"]
    PROVE  DbOK(e) /\ Keeps(d, e)
<1>1. BlocksTyped(e)
  BY DEF DbOK, BlocksTyped
<1>2. BackedByHash(e) /\ KeyedByHeight(e)
  BY DEF DbOK, BackedByHash, KeyedByHeight, HeightKeys
<1>3. PayloadHasCode(e)
  BY DEF DbOK, PayloadHasCode, get_contract_code
<1>4. Keeps(d, e)
  BY DEF Keeps, WrittenFirst, HoldsBlock, get_contract_code
<1> QED
  BY <1>1, <1>2, <1>3, <1>4 DEF DbOK

\* put_block's first insert: the block's own entry may be written again, with
\* the same bytes; no other block has the hash.
LEMMA HashEntry ==
    ASSUME NEW d, DbOK(d), NEW b \in Block
    PROVE  LET e == put_block_hash(d, b)
           IN  DbOK(e) /\ Keeps(d, e) /\ WrittenFirst(e, HeightWrite(b))
<1> DEFINE e == put_block_hash(d, b)
           t == d["blocks"]
           u == tree_insert(t, Raw(b.hash), serialize(b))
<1>0. BlocksTyped(d) /\ BackedByHash(d) /\ KeyedByHeight(d) /\ PayloadHasCode(d)
  BY DEF DbOK
<1>1. /\ DOMAIN e = TreeNames
      /\ e["blocks"] = u
      /\ e["contract_code"] = d["contract_code"]
      /\ e["contract_storage"] = d["contract_storage"]
  BY <1>0 DEF put_block_hash, BlocksTyped, TreeNames
<1>a. IsInserted(u, t, Raw(b.hash), serialize(b))
  BY Inserted, Zenon
<1> HIDE DEF u
<1>2. /\ DOMAIN u = DOMAIN t \cup {Raw(b.hash)}
      /\ u[Raw(b.hash)] = serialize(b)
      /\ \A k \in DOMAIN t : k # Raw(b.hash) => u[k] = t[k]
  BY <1>a DEF IsInserted
<1> HIDE DEF e, u
<1>3. BlocksTyped(e)
  BY <1>0, <1>1, <1>2 DEF BlocksTyped, StoredBlocks
<1>4. BackedByHash(e)
  <2> SUFFICES ASSUME NEW k \in HeightKeys(e)
               PROVE  /\ Raw(deserialize(u[k]).hash) \in DOMAIN u
                      /\ u[Raw(deserialize(u[k]).hash)] = u[k]
    BY <1>1 DEF BackedByHash
  <2>1. k \in DOMAIN t /\ k \in HeightKeys(d) /\ k # Raw(b.hash) /\ u[k] = t[k]
    BY <1>1, <1>2, Keys DEF HeightKeys
  <2>2. PICK a \in Block : t[k] = serialize(a)
    BY <1>0, <2>1 DEF BlocksTyped, StoredBlocks
  <2>3. Raw(a.hash) \in DOMAIN t /\ t[Raw(a.hash)] = t[k]
    BY <1>0, <2>1, <2>2, Decoded DEF BackedByHash
  <2>4. CASE a.hash = b.hash
    <3>1. a = b
      BY <2>4, BlockAssumption
    <3> QED
      BY <3>1, <1>2, <2>1, <2>2, Decoded
  <2>5. CASE a.hash # b.hash
    <3>1. Raw(a.hash) # Raw(b.hash)
      BY <2>5, Keys
    <3> QED
      BY <3>1, <1>2, <2>1, <2>2, <2>3, Decoded
  <2> QED
    BY <2>4, <2>5
<1>5. PayloadHasCode(e)
  BY <1>0, <1>1 DEF PayloadHasCode, get_contract_code
<1>6. Keeps(d, e)
  <2> SUFFICES ASSUME NEW w \in SecondWrite, WrittenFirst(d, w)
               PROVE  WrittenFirst(e, w)
    BY DEF Keeps
  <2>1. w.op = "init" => get_contract_code(e, w.cid) = IdentifiedCode(w.cid)
    BY <1>1 DEF WrittenFirst, get_contract_code
  <2>2. ASSUME w.op = "height"
        PROVE  HoldsBlock(e, w.block)
    <3>1. w.block \in Block /\ HoldsBlock(d, w.block)
      BY <2>2 DEF SecondWrite, WrittenFirst
    <3>2. CASE w.block.hash = b.hash
      BY <3>1, <3>2, <1>1, <1>2, BlockAssumption DEF HoldsBlock
    <3>3. CASE w.block.hash # b.hash
      BY <3>1, <3>3, <1>1, <1>2, Keys DEF HoldsBlock
    <3> QED
      BY <3>2, <3>3
  <2> QED
    BY <1>1, <2>1, <2>2 DEF WrittenFirst
<1>7. WrittenFirst(e, HeightWrite(b))
  BY <1>1, <1>2 DEF WrittenFirst, HeightWrite, HoldsBlock
<1>8. KeyedByHeight(e)
  <2> SUFFICES ASSUME NEW k \in HeightKeys(e) PROVE k = HeightKey(deserialize(u[k]).index)
    BY <1>1 DEF KeyedByHeight
  <2>1. k \in HeightKeys(d) /\ u[k] = t[k]
    BY <1>1, <1>2, Keys DEF HeightKeys
  <2> QED
    BY <1>0, <2>1 DEF KeyedByHeight
<1> QED
  BY <1>3, <1>4, <1>5, <1>6, <1>7, <1>8 DEF DbOK, e

\* put_block's second insert: the entry that may be replaced is a height's, so
\* every hash entry stays, and the block's own is already there.
LEMMA HeightEntry ==
    ASSUME NEW d, DbOK(d), NEW b \in Block,
           HoldsBlock(d, b)
    PROVE  LET e == put_block_height(d, b)
           IN  DbOK(e) /\ Keeps(d, e)
<1> DEFINE e == put_block_height(d, b)
           t == d["blocks"]
           u == tree_insert(t, HeightKey(b.index), serialize(b))
<1>0. BlocksTyped(d) /\ BackedByHash(d) /\ KeyedByHeight(d) /\ PayloadHasCode(d)
  BY DEF DbOK
<1>1. /\ DOMAIN e = TreeNames
      /\ e["blocks"] = u
      /\ e["contract_code"] = d["contract_code"]
      /\ e["contract_storage"] = d["contract_storage"]
  BY <1>0 DEF put_block_height, BlocksTyped, TreeNames
<1>a. IsInserted(u, t, HeightKey(b.index), serialize(b))
  BY Inserted, Zenon
<1> HIDE DEF u
<1>2. /\ DOMAIN u = DOMAIN t \cup {HeightKey(b.index)}
      /\ u[HeightKey(b.index)] = serialize(b)
      /\ \A k \in DOMAIN t : k # HeightKey(b.index) => u[k] = t[k]
  BY <1>a DEF IsInserted
<1> HIDE DEF e, u
<1>3. BlocksTyped(e)
  BY <1>0, <1>1, <1>2 DEF BlocksTyped, StoredBlocks
<1>4. \A x : Raw(x) # HeightKey(b.index)
  <2>1. \A x : Raw(x)[1] # HeightKey(b.index)[1]
    BY Keys
  <2> QED
    BY <2>1, Zenon
<1>5. BackedByHash(e)
  <2> SUFFICES ASSUME NEW k \in HeightKeys(e)
               PROVE  /\ Raw(deserialize(u[k]).hash) \in DOMAIN u
                      /\ u[Raw(deserialize(u[k]).hash)] = u[k]
    BY <1>1 DEF BackedByHash
  <2>1. CASE k = HeightKey(b.index)
    <3>1. Raw(b.hash) \in DOMAIN t /\ t[Raw(b.hash)] = serialize(b)
      BY DEF HoldsBlock
    <3> QED
      BY <2>1, <3>1, <1>2, <1>4, Decoded
  <2>2. CASE k # HeightKey(b.index)
    <3>1. k \in HeightKeys(d) /\ u[k] = t[k]
      BY <1>1, <1>2, <2>2 DEF HeightKeys
    <3>2. /\ Raw(deserialize(t[k]).hash) \in DOMAIN t
          /\ t[Raw(deserialize(t[k]).hash)] = t[k]
      BY <1>0, <3>1 DEF BackedByHash
    <3> QED
      BY <3>1, <3>2, <1>2, <1>4
  <2> QED
    BY <2>1, <2>2
<1>6. PayloadHasCode(e)
  BY <1>0, <1>1 DEF PayloadHasCode, get_contract_code
<1>7. Keeps(d, e)
  BY <1>1, <1>2, <1>4 DEF Keeps, WrittenFirst, HoldsBlock, get_contract_code
<1>8. KeyedByHeight(e)
  <2> SUFFICES ASSUME NEW k \in HeightKeys(e) PROVE k = HeightKey(deserialize(u[k]).index)
    BY <1>1 DEF KeyedByHeight
  <2>1. CASE k = HeightKey(b.index)
    BY <2>1, <1>2, Decoded
  <2>2. CASE k # HeightKey(b.index)
    <3>1. k \in HeightKeys(d) /\ u[k] = t[k]
      BY <1>1, <1>2, <2>2 DEF HeightKeys
    <3> QED
      BY <1>0, <3>1 DEF KeyedByHeight
  <2> QED
    BY <2>1, <2>2
<1> QED
  BY <1>3, <1>5, <1>6, <1>7, <1>8 DEF DbOK, e

\* deploy_contract's first write: a contract's code is only ever written again
\* with the same bytes, since its id is their digest.
LEMMA CodeEntry ==
    ASSUME NEW d, DbOK(d), NEW pk \in PublicKey, NEW wasm \in WasmBytes, NEW payload
    PROVE  LET cid == contract_id(pk, wasm)
               e == put_contract_code(d, cid, wasm)
           IN  DbOK(e) /\ Keeps(d, e) /\ WrittenFirst(e, InitWrite(cid, payload))
<1> DEFINE cid == contract_id(pk, wasm)
           e == put_contract_code(d, cid, wasm)
           t == d["contract_code"]
           u == tree_insert(t, Raw(cid), wasm)
<1>0. BlocksTyped(d) /\ BackedByHash(d) /\ KeyedByHeight(d) /\ PayloadHasCode(d)
  BY DEF DbOK
<1>1. /\ DOMAIN e = TreeNames
      /\ e["contract_code"] = u
      /\ e["blocks"] = d["blocks"]
      /\ e["contract_storage"] = d["contract_storage"]
  BY <1>0 DEF put_contract_code, BlocksTyped, TreeNames
<1>a. IsInserted(u, t, Raw(cid), wasm)
  BY Inserted, Zenon
<1> HIDE DEF u
<1>2. /\ tree_get(u, Raw(cid)) = wasm
      /\ \A k : k # Raw(cid) => tree_get(u, k) = tree_get(t, k)
  BY <1>a DEF IsInserted
<1>3. IdentifiedCode(cid) = wasm
  BY Identified
<1> HIDE DEF cid, e, u
<1>4. \A x : get_contract_code(d, x) = IdentifiedCode(x) =>
                 get_contract_code(e, x) = IdentifiedCode(x)
  <2> SUFFICES ASSUME NEW x, get_contract_code(d, x) = IdentifiedCode(x)
               PROVE  get_contract_code(e, x) = IdentifiedCode(x)
    OBVIOUS
  <2>1. CASE x = cid
    BY <2>1, <1>1, <1>2, <1>3 DEF get_contract_code
  <2>2. CASE x # cid
    BY <2>2, <1>1, <1>2, Keys DEF get_contract_code
  <2> QED
    BY <2>1, <2>2
<1>5. BlocksTyped(e) /\ BackedByHash(e) /\ KeyedByHeight(e)
  BY <1>0, <1>1 DEF BlocksTyped, BackedByHash, KeyedByHeight, HeightKeys
<1>6. PayloadHasCode(e)
  BY <1>0, <1>1, <1>4 DEF PayloadHasCode
<1>7. Keeps(d, e)
  BY <1>1, <1>4 DEF Keeps, WrittenFirst, HoldsBlock
<1>8. WrittenFirst(e, InitWrite(cid, payload))
  BY <1>1, <1>2, <1>3 DEF WrittenFirst, InitWrite, get_contract_code
<1> QED
  BY <1>5, <1>6, <1>7, <1>8 DEF DbOK, e, cid

\* contract_storage_write: an init payload needs its code, another key nothing.
LEMMA StorageEntry ==
    ASSUME NEW d, DbOK(d), NEW cid, NEW key, NEW value,
           key = InitPayloadKey => get_contract_code(d, cid) = IdentifiedCode(cid)
    PROVE  LET e == contract_storage_write(d, cid, key, value)
           IN  DbOK(e) /\ Keeps(d, e)
<1> DEFINE e == contract_storage_write(d, cid, key, value)
           t == d["contract_storage"]
           u == tree_insert(t, StateKey(cid, key), value)
<1>0. BlocksTyped(d) /\ BackedByHash(d) /\ KeyedByHeight(d) /\ PayloadHasCode(d)
  BY DEF DbOK
<1>1. /\ DOMAIN e = TreeNames
      /\ e["contract_storage"] = u
      /\ e["blocks"] = d["blocks"]
      /\ e["contract_code"] = d["contract_code"]
  BY <1>0 DEF contract_storage_write, BlocksTyped, TreeNames
<1>a. IsInserted(u, t, StateKey(cid, key), value)
  BY Inserted, Zenon
<1> HIDE DEF u
<1>2. DOMAIN u = DOMAIN t \cup {StateKey(cid, key)}
  BY <1>a DEF IsInserted
<1> HIDE DEF e, u
<1>3. BlocksTyped(e) /\ BackedByHash(e) /\ KeyedByHeight(e)
  BY <1>0, <1>1 DEF BlocksTyped, BackedByHash, KeyedByHeight, HeightKeys
<1>4. \A x : get_contract_code(e, x) = get_contract_code(d, x)
  BY <1>1 DEF get_contract_code
<1>5. PayloadHasCode(e)
  <2> SUFFICES ASSUME NEW k \in DOMAIN u, k[3] = InitPayloadKey
               PROVE  get_contract_code(d, k[2]) = IdentifiedCode(k[2])
    BY <1>1, <1>4 DEF PayloadHasCode
  <2>1. CASE k \in DOMAIN t
    BY <2>1, <1>0 DEF PayloadHasCode
  <2>2. CASE k = StateKey(cid, key)
    BY <2>2, Keys
  <2> QED
    BY <1>2, <2>1, <2>2
<1>6. Keeps(d, e)
  BY <1>1, <1>4 DEF Keeps, WrittenFirst, HoldsBlock
<1> QED
  BY <1>3, <1>5, <1>6 DEF DbOK, e

\* contract_storage_remove leaves a smaller tree.
LEMMA StorageEntryRemoved ==
    ASSUME NEW d, DbOK(d), NEW cid, NEW key
    PROVE  LET e == contract_storage_remove(d, cid, key)
           IN  DbOK(e) /\ Keeps(d, e)
<1> DEFINE e == contract_storage_remove(d, cid, key)
           t == d["contract_storage"]
<1>0. BlocksTyped(d) /\ BackedByHash(d) /\ KeyedByHeight(d) /\ PayloadHasCode(d)
  BY DEF DbOK
<1>1. /\ DOMAIN e = TreeNames
      /\ e["contract_storage"] = tree_remove(t, StateKey(cid, key))
      /\ e["blocks"] = d["blocks"]
      /\ e["contract_code"] = d["contract_code"]
  BY <1>0 DEF contract_storage_remove, BlocksTyped, TreeNames
<1>2. DOMAIN e["contract_storage"] \subseteq DOMAIN t
  BY <1>1 DEF tree_remove
<1> HIDE DEF e
<1>3. BlocksTyped(e) /\ BackedByHash(e) /\ KeyedByHeight(e)
  BY <1>0, <1>1 DEF BlocksTyped, BackedByHash, KeyedByHeight, HeightKeys
<1>4. \A x : get_contract_code(e, x) = get_contract_code(d, x)
  BY <1>1 DEF get_contract_code
<1>5. PayloadHasCode(e)
  BY <1>0, <1>2, <1>4 DEF PayloadHasCode
<1>6. Keeps(d, e)
  BY <1>1, <1>4 DEF Keeps, WrittenFirst, HoldsBlock
<1> QED
  BY <1>3, <1>5, <1>6 DEF DbOK, e

-----------------------------------------------------------------------------
(* The invariant.                                                          *)

\* the part of the invariant a step that writes d to the trees and w to one
\* client's second write has to show
LEMMA WritingStep ==
    ASSUME IInv, NEW c \in Client, NEW e, NEW w \in SecondWrite \cup {None},
           db' = e, second' = [second EXCEPT ![c] = w], durable' = durable,
           writes' \in 0 .. MaxWrites,
           DbOK(e), Keeps(db, e), w # None => WrittenFirst(e, w)
    PROVE  IInv'
<1>1. /\ DbOK(db) /\ DbOK(durable)
      /\ second \in [Client -> SecondWrite \cup {None}]
      /\ \A x \in Client : second[x] # None => WrittenFirst(db, second[x])
  BY InvariantByDatabase DEF Parts
<1>2. DbOK(db') /\ DbOK(durable')
  BY <1>1, Zenon
<1>3. second' \in [Client -> SecondWrite \cup {None}]
  BY <1>1
<1>4. \A x \in Client : second'[x] # None => WrittenFirst(db', second'[x])
  <2> SUFFICES ASSUME NEW x \in Client, second'[x] # None
               PROVE  WrittenFirst(e, second'[x])
    BY Zenon
  <2>1. CASE x = c
    BY <2>1, <1>1
  <2>2. CASE x # c
    BY <2>2, <1>1 DEF Keeps
  <2> QED
    BY <2>1, <2>2
<1> QED
  <2>1. Parts'
    BY <1>2, <1>3, <1>4 DEF Parts
  <2> QED
    BY <2>1, InvariantAfterwards

\* The first write of every call under way is in the trees, a height entry has
\* its block and an init payload its code, whatever order the writes of the
\* clients come in and wherever a crash or an error cuts a call short.
THEOREM Invariance == Spec => []IInv
<1>1. Init => IInv
  <2> SUFFICES ASSUME Init PROVE IInv
    OBVIOUS
  <2>1. DbOK(EmptyDb)
    <3>1. DOMAIN EmptyDb = TreeNames /\ \A n \in TreeNames : EmptyDb[n] = << >>
      BY DEF EmptyDb, EmptyTree
    <3>2. \A n \in {"blocks", "contract_storage"} : DOMAIN EmptyDb[n] = {}
      BY <3>1 DEF TreeNames
    <3> QED
      BY <3>1, <3>2 DEF DbOK, BlocksTyped, BackedByHash, KeyedByHeight, HeightKeys, PayloadHasCode
  <2>2. DbOK(db) /\ DbOK(durable)
    BY <2>1, Zenon DEF Init
  <2>3. /\ second \in [Client -> SecondWrite \cup {None}]
        /\ \A c \in Client : second[c] = None
        /\ writes \in 0 .. MaxWrites
    BY MaxWritesAssumption DEF Init
  <2> QED
    BY <2>2, <2>3, InvariantByDatabase DEF Parts
<1>2. IInv /\ [Next]_vars => IInv'
  <2> SUFFICES ASSUME IInv, [Next]_vars
               PROVE  IInv'
    OBVIOUS
  <2>0. /\ DbOK(db) /\ DbOK(durable)
        /\ second \in [Client -> SecondWrite \cup {None}]
        /\ writes \in 0 .. MaxWrites
        /\ \A c \in Client : second[c] # None => WrittenFirst(db, second[c])
    BY InvariantByDatabase DEF Parts
  <2> DEFINE Same(e) == /\ DOMAIN e = DOMAIN db
                        /\ e["blocks"] = db["blocks"]
                        /\ e["contract_code"] = db["contract_code"]
                        /\ e["contract_storage"] = db["contract_storage"]
  <2>typed. DOMAIN db = TreeNames
    BY <2>0 DEF DbOK, BlocksTyped
  \* a write that starts no call of two writes
  <2>w. ASSUME NEW c \in Client, NEW e, Write(c, e), UNCHANGED second,
               DbOK(e), Keeps(db, e)
        PROVE  IInv'
    <3>1. writes' \in 0 .. MaxWrites
      BY <2>w, <2>0, MaxWritesAssumption DEF Write
    <3>2. second' = [second EXCEPT ![c] = None]
      BY <2>w, <2>0 DEF Write
    <3>3. db' = e /\ durable' = durable
      BY <2>w DEF Write
    <3> QED
      BY <2>w, <3>1, <3>2, <3>3, WritingStep, Zenon
  <2>s. ASSUME NEW c \in Client, NEW e, Write(c, e), UNCHANGED second, Same(e)
        PROVE  IInv'
    BY <2>s, <2>w, <2>0, OtherTrees
  <2>1. ASSUME NEW c \in Client, NEW b \in Block, PutBlockHash(c, b)
        PROVE  IInv'
    <3> DEFINE e == put_block_hash(db, b)
    <3>1. DbOK(e) /\ Keeps(db, e) /\ WrittenFirst(e, HeightWrite(b))
      BY <2>0, HashEntry
    <3>2. HeightWrite(b) \in SecondWrite \cup {None}
      BY DEF HeightWrite, SecondWrite
    <3>3. writes' \in 0 .. MaxWrites
      BY <2>1, <2>0, MaxWritesAssumption DEF PutBlockHash, Write
    <3>4. /\ db' = e /\ durable' = durable
          /\ second' = [second EXCEPT ![c] = HeightWrite(b)]
      BY <2>1 DEF PutBlockHash, Write
    <3> HIDE DEF e
    <3> QED
      BY <3>1, <3>2, <3>3, <3>4, WritingStep, Zenon
  <2>2. ASSUME NEW c \in Client, PutBlockHeight(c)
        PROVE  IInv'
    <3> DEFINE b == second[c].block
               e == put_block_height(db, b)
    <3>1. second[c] # None /\ second[c].op = "height" /\ second[c] \in SecondWrite
      BY <2>2, <2>0 DEF PutBlockHeight, FinishCall
    <3>2. b \in Block
      BY <3>1 DEF SecondWrite
    <3>3. HoldsBlock(db, b)
      BY <3>1, <2>0 DEF WrittenFirst
    <3>4. DbOK(e) /\ Keeps(db, e)
      BY <2>0, <3>2, <3>3, HeightEntry
    <3>5. /\ db' = e /\ durable' = durable /\ writes' \in 0 .. MaxWrites
          /\ second' = [second EXCEPT ![c] = None]
      BY <2>0, <2>2 DEF PutBlockHeight, FinishCall
    <3> HIDE DEF e
    <3> QED
      BY <3>4, <3>5, WritingStep, Zenon
  <2>3. ASSUME NEW c \in Client, DeployInit(c)
        PROVE  IInv'
    <3> DEFINE cid == second[c].cid
               e == contract_storage_write(db, cid, InitPayloadKey, second[c].payload)
    <3>1. second[c] # None /\ second[c].op = "init"
      BY <2>3 DEF DeployInit, FinishCall
    <3>2. get_contract_code(db, cid) = IdentifiedCode(cid)
      BY <3>1, <2>0 DEF WrittenFirst
    <3>3. DbOK(e) /\ Keeps(db, e)
      BY <2>0, <3>2, StorageEntry
    <3>4. /\ db' = e /\ durable' = durable /\ writes' \in 0 .. MaxWrites
          /\ second' = [second EXCEPT ![c] = None]
      BY <2>0, <2>3 DEF DeployInit, FinishCall
    <3> HIDE DEF e
    <3> QED
      BY <3>3, <3>4, WritingStep, Zenon
  <2>4. ASSUME NEW c \in Client, SecondWriteFails(c)
        PROVE  IInv'
    <3>1. /\ db' = db /\ durable' = durable /\ writes' \in 0 .. MaxWrites
          /\ second' = [second EXCEPT ![c] = None]
      BY <2>0, <2>4 DEF SecondWriteFails
    <3>2. Keeps(db, db)
      BY DEF Keeps
    <3> QED
      BY <2>0, <3>1, <3>2, WritingStep, Zenon
  <2>5. ASSUME NEW c \in Client, NEW pk \in PublicKey, NEW wasm \in WasmBytes,
               NEW payload \in InitPayload \cup {None}, DeployCode(c, pk, wasm, payload)
        PROVE  IInv'
    <3> DEFINE cid == contract_id(pk, wasm)
               e == put_contract_code(db, cid, wasm)
               w == IF payload = None THEN None ELSE InitWrite(cid, payload)
    <3>1. DbOK(e) /\ Keeps(db, e) /\ WrittenFirst(e, InitWrite(cid, payload))
      BY <2>0, CodeEntry
    <3>2. cid \in Contract
      <4>1. <<pk, wasm>> \in PublicKey \X WasmBytes
        OBVIOUS
      <4> QED
        BY <4>1 DEF Contract
    <3>3. /\ db' = e /\ durable' = durable
          /\ second' = [second EXCEPT ![c] = w]
      BY <2>5 DEF DeployCode, Write
    <3>4. writes' \in 0 .. MaxWrites
      BY <2>5, <2>0, MaxWritesAssumption DEF DeployCode, Write
    <3> HIDE DEF e, cid
    <3>5. w \in SecondWrite \cup {None}
      BY <3>2 DEF InitWrite, SecondWrite
    <3>6. w # None => WrittenFirst(e, w)
      BY <3>1
    <3> HIDE DEF w
    <3> QED
      BY <3>1, <3>3, <3>4, <3>5, <3>6, WritingStep, Zenon
  <2>6. ASSUME NEW c \in Client, NEW b \in Block, IndexTransaction(c, b)
        PROVE  IInv'
    <3>1. PICK i \in DOMAIN b.transactions :
             Write(c, index_transaction(db, b.transactions[i].hash, b.hash, i))
      BY <2>6 DEF IndexTransaction
    <3>2. Same(index_transaction(db, b.transactions[i].hash, b.hash, i))
      BY <2>typed DEF index_transaction, TreeNames
    <3> QED
      BY <2>6, <3>1, <3>2, <2>s DEF IndexTransaction
  <2>7. ASSUME NEW c \in Client, NEW tx \in Transaction,
               PutTransaction(c, tx) \/ RemovePendingTransaction(c, tx)
        PROVE  IInv'
    <3>1. Same(put_transaction(db, tx)) /\ Same(remove_pending_transaction(db, tx.hash))
      BY <2>typed DEF put_transaction, remove_pending_transaction, TreeNames
    <3> QED
      BY <2>7, <3>1, <2>s DEF PutTransaction, RemovePendingTransaction
  <2>8. ASSUME NEW c \in Client, NEW pk \in PublicKey, NEW account \in Account,
               PutAccount(c, pk, account)
        PROVE  IInv'
    <3>1. Same(put_account(db, pk, account))
      BY <2>typed DEF put_account, TreeNames
    <3> QED
      BY <2>8, <3>1, <2>s DEF PutAccount
  <2>9. ASSUME NEW c \in Client, NEW pk \in PublicKey, DeleteAccount(c, pk)
        PROVE  IInv'
    <3>1. Same(delete_account(db, pk))
      BY <2>typed DEF delete_account, TreeNames
    <3> QED
      BY <2>9, <3>1, <2>s DEF DeleteAccount
  <2>10. ASSUME NEW c \in Client, NEW state \in State, PutChainState(c, state)
         PROVE  IInv'
    <3>1. Same(put_chain_state(db, state))
      BY <2>typed DEF put_chain_state, TreeNames
    <3> QED
      BY <2>10, <3>1, <2>s DEF PutChainState
  <2>11. ASSUME NEW c \in Client, NEW batch \in Batch, ApplyBatch(c, batch)
         PROVE  IInv'
    <3>1. Same(apply_batch(db, batch))
      BY <2>typed DEF apply_batch, TreeNames
    <3> QED
      BY <2>11, <3>1, <2>s DEF ApplyBatch
  <2>12. ASSUME NEW c \in Client, NEW cid \in Contract, NEW key \in CKey,
                NEW value \in CValue, ContractStorageWrite(c, cid, key, value)
         PROVE  IInv'
    <3> DEFINE e == contract_storage_write(db, cid, key, value)
    <3>1. DbOK(e) /\ Keeps(db, e)
      BY <2>0, CKeyAssumption, StorageEntry
    <3>2. Write(c, e) /\ UNCHANGED second
      BY <2>12 DEF ContractStorageWrite
    <3> HIDE DEF e
    <3> QED
      BY <3>1, <3>2, <2>w
  <2>13. ASSUME NEW c \in Client, NEW cid \in Contract, NEW key \in CKey,
                ContractStorageRemove(c, cid, key)
         PROVE  IInv'
    <3> DEFINE e == contract_storage_remove(db, cid, key)
    <3>1. DbOK(e) /\ Keeps(db, e)
      BY <2>0, StorageEntryRemoved
    <3>2. Write(c, e) /\ UNCHANGED second
      BY <2>13 DEF ContractStorageRemove
    <3> HIDE DEF e
    <3> QED
      BY <3>1, <3>2, <2>w
  <2>14. CASE Flush
    <3>1. db' = db /\ durable' = db /\ second' = second /\ writes' = writes
      BY <2>14 DEF Flush
    <3>2. Parts'
      BY <2>0, <3>1, Zenon DEF Parts
    <3> QED
      BY <3>2, InvariantAfterwards
  <2>15. CASE Restart
    <3>1. db' = durable /\ durable' = durable /\ writes' = writes
      BY <2>15 DEF Restart
    <3>2. /\ second' \in [Client -> SecondWrite \cup {None}]
          /\ \A c \in Client : second'[c] = None
      BY <2>15 DEF Restart
    <3>3. DbOK(db') /\ DbOK(durable')
      BY <2>0, <3>1, Zenon
    <3>4. Parts'
      BY <2>0, <3>1, <3>2, <3>3 DEF Parts
    <3> QED
      BY <3>4, InvariantAfterwards
  <2>16. CASE UNCHANGED vars
    <3>1. Parts'
      BY <2>0, <2>16, Zenon DEF vars, Parts
    <3> QED
      BY <3>1, InvariantAfterwards
  <2> HIDE DEF Same
  <2>17. ASSUME NEW c \in Client, ClientStep(c)
         PROVE  IInv'
    BY <2>17, <2>1, <2>2, <2>3, <2>4, <2>5, <2>6, <2>7, <2>8, <2>9, <2>10, <2>11,
       <2>12, <2>13 DEF ClientStep
  <2> QED
    BY <2>14, <2>15, <2>16, <2>17 DEF Next
<1> QED
  BY <1>1, <1>2, PTL DEF Spec

\* Type correctness.
THEOREM TypeCorrect == Spec => []TypeOK
<1>1. IInv => TypeOK
  BY DEF IInv
<1> QED
  BY <1>1, Invariance, PTL

\* A block found by its height is found, the same, by its hash.
THEOREM HeightIndex == Spec => []HeightIndexIsBacked
<1>1. IInv => HeightIndexIsBacked
  BY DEF IInv
<1> QED
  BY <1>1, Invariance, PTL

\* An init payload is never found without the code its contract's id digests.
THEOREM InitPayloads == Spec => []InitPayloadHasCode
<1>1. IInv => InitPayloadHasCode
  BY DEF IInv
<1> QED
  BY <1>1, Invariance, PTL

\* The last key of the height index is the key of the greatest height.
LEMMA LastKey ==
    ASSUME NEW d, BlocksTyped(d), KeyedByHeight(d), NEW top \in StoredHeights(d),
           \A h \in StoredHeights(d) : h <= top
    PROVE  /\ HeightKey(top) \in HeightKeys(d)
           /\ HeightKey(top) = CHOOSE k \in HeightKeys(d) :
                                  \A l \in HeightKeys(d) \ {k} : KeyLess(l, k)
           /\ \E b \in Block : b.index = top /\ d["blocks"][HeightKey(top)] = serialize(b)
<1> DEFINE IsLast(k) == \A l \in HeightKeys(d) \ {k} : KeyLess(l, k)
           key == HeightKey(top)
<1>1. ASSUME NEW k \in HeightKeys(d)
      PROVE  \E b \in Block : /\ d["blocks"][k] = serialize(b) /\ k = HeightKey(b.index)
                              /\ b.index \in U64 /\ b.index \in StoredHeights(d)
  <2>1. PICK b \in Block : d["blocks"][k] = serialize(b)
    BY DEF BlocksTyped, StoredBlocks, HeightKeys
  <2>2. deserialize(d["blocks"][k]) = b
    BY <2>1, Decoded
  <2>3. b.index \in U64
    BY BlockAssumption
  <2>4. k = HeightKey(b.index) /\ b.index \in StoredHeights(d)
    BY <2>2 DEF KeyedByHeight, StoredHeights
  <2> QED
    BY <2>1, <2>3, <2>4
<1>2. PICK k0 \in HeightKeys(d) : top = deserialize(d["blocks"][k0]).index
  BY DEF StoredHeights
<1>3. PICK b0 \in Block : /\ d["blocks"][k0] = serialize(b0) /\ k0 = HeightKey(b0.index)
                          /\ b0.index \in U64
  BY <1>1
<1>4. b0.index = top /\ k0 = key /\ top \in U64
  BY <1>2, <1>3, Decoded
<1>5. ASSUME NEW l \in HeightKeys(d), l # key
      PROVE  KeyLess(l, key) /\ ~ KeyLess(key, l)
  <2>1. PICK b \in Block : l = HeightKey(b.index) /\ b.index \in U64 /\ b.index \in StoredHeights(d)
    BY <1>1
  <2>2. b.index < top
    BY <1>4, <1>5, <2>1, MaxU64Assumption DEF U64
  <2> QED
    BY <1>4, <2>1, <2>2, KeyOrder
<1> HIDE DEF key
<1>6. IsLast(key) /\ key \in HeightKeys(d)
  BY <1>4, <1>5
<1>7. ASSUME NEW k \in HeightKeys(d), IsLast(k) PROVE k = key
  BY <1>5, <1>6, <1>7
<1> HIDE DEF IsLast
<1>8. key = CHOOSE k \in HeightKeys(d) : IsLast(k)
  BY <1>6, <1>7
<1> QED
  BY <1>3, <1>4, <1>6, <1>8 DEF IsLast, key

\* get_latest_block finds the block at the greatest height stored, or fails to
\* decode exactly that one, for heights and keys of any number of digits.
THEOREM LatestBlock == Spec => []LatestIsHighest
<1>1. IInv => LatestIsHighest
  <2> SUFFICES ASSUME IInv, NEW top \in StoredHeights(db),
                      \A h \in StoredHeights(db) : h <= top
               PROVE  /\ get_latest_block(db, FALSE) = get_block_by_height(db, top)
                      /\ \A failed \in BOOLEAN :
                            get_latest_block(db, failed) # SerializationError =>
                                get_chain_height(db, failed) = IF failed THEN 0 ELSE top
    BY DEF LatestIsHighest
  <2> DEFINE key == HeightKey(top)
             bytes == db["blocks"][key]
  <2>1. BlocksTyped(db) /\ KeyedByHeight(db)
    BY InvariantByDatabase DEF Parts, DbOK
  <2>2. /\ key \in HeightKeys(db)
        /\ key = CHOOSE k \in HeightKeys(db) : \A l \in HeightKeys(db) \ {k} : KeyLess(l, k)
        /\ \E b \in Block : b.index = top /\ bytes = serialize(b)
    BY <2>1, LastKey
  <2>3. PICK b \in Block : b.index = top /\ bytes = serialize(b)
    BY <2>2
  <2>4. key \in DOMAIN db["blocks"] /\ HeightKeys(db) # {}
    BY <2>2 DEF HeightKeys
  <2>5. b # None /\ bytes # None
    BY <2>3, BlockAssumption
  <2>6. get_latest_block(db, FALSE) = deserialize_block(bytes)
    BY <2>2, <2>4, Zenon DEF get_latest_block
  <2>7. get_block_by_height(db, top) = deserialize_block(bytes)
    BY <2>4, <2>5, Zenon DEF get_block_by_height, tree_get, read_block
  <2>8. deserialize_block(bytes) \in {b, SerializationError}
    BY <2>3, Decoded DEF deserialize_block, deserialize
  <2>9. ASSUME get_latest_block(db, FALSE) # SerializationError
        PROVE  get_chain_height(db, FALSE) = top
    BY <2>3, <2>5, <2>6, <2>8, <2>9 DEF get_chain_height
  <2>10. get_chain_height(db, TRUE) = 0
    BY DEF get_chain_height, get_latest_block
  <2>11. ASSUME NEW failed \in BOOLEAN, get_latest_block(db, failed) # SerializationError
         PROVE  get_chain_height(db, failed) = IF failed THEN 0 ELSE top
    <3>1. CASE failed = TRUE
      BY <2>10, <3>1, Zenon
    <3>2. CASE failed = FALSE
      BY <2>9, <2>11, <3>2, Zenon
    <3> QED
      BY <3>1, <3>2, Zenon
  <2> QED
    BY <2>6, <2>7, <2>11
<1> QED
  BY <1>1, Invariance, PTL
=============================================================================
