# BaaLS in TLA+

A verification project for BaaLS, an embeddable blockchain library in Rust
(`src/`). It models the runtime, the ledger, the storage layer, the sync layer
and the command line, checks them with TLC on small instances, and proves their
safety, and part of their liveness, for every instance with TLAPS: any number of
threads, clients, connections, tasks and processes, any blocks, accounts, messages
and directories. Line numbers refer to the files under `src/src/`.

## 1. Inventory

| Component | State it keeps | Operations | Interacts with |
|---|---|---|---|
| `Runtime` (runtime.rs) | mempool and `ChainState`, each in a `std::sync::Mutex` | `new`, `submit_transaction`, `produce_block`, `get_chain_state` | calls ledger, consensus and storage; called from any thread |
| `Ledger` (ledger.rs) | none of its own: the caller's `&mut ChainState`, the database | `initialize_chain`, `validate_block`, `apply_block` | reads and writes storage; calls the contract engine |
| `SledStorage` (storage.rs) | eight named sled trees and the default tree | puts, gets, removes, `apply_batch` | shared by everyone (`Send + Sync`, `Clone`) |
| PoA consensus (consensus.rs) | a key | `generate_block`, `validate_block`, `sign_block` | called by the runtime |
| Contract engine (contracts.rs) | a storage handle | `deploy_contract`, `call_contract`, `query_contract` | writes code to storage during `apply_block` |
| `CustomSync` (sync.rs) | `is_running`, `known_peers`, one task per connection | `start_server`, `handle_connection`, `add_peer`, `sync_with_peer`, `discover_peers`, `broadcast_block` | TCP, frames of its own |
| Types (types.rs) | values | hashing, signing, the encoding of `PublicKey` | everywhere |
| Command line (main.rs) | none of its own: a sled directory | wallet, transaction, query and dev commands, a process each | builds a `Runtime` on the directory; other processes |
| `NoopSync` (sync.rs) | none | constants | - |

What is hard in this code, and the properties that answer it (the full list is
`hazards` in PROJECT.json):

* **Locks.** `produce_block` takes both mutexes in the order opposite to
  `submit_transaction`, and takes `chain_state` a second time while it holds it.
  Correct means: no guard leaks on an error path, every call returns, and the
  mempool holds exactly the submissions that passed the checks.
* **Partial failure.** `apply_block` writes contract code and the transaction
  index directly, advances the chain state in memory, and only then commits its
  batch. A crash or an I/O error may fall between any two of those. Correct
  means: what is committed is whole, indexed, and extends a block that exists.
* **Stale reads.** Accounts are read from storage inside the loop that updates
  them; `apply_batch` writes the default tree, which no getter reads.
* **Order of keys.** `get_latest_block` relies on the byte order of
  zero-padded decimal keys; `put_block` is two inserts.
* **Encoding.** `PublicKey` is written with a length and read without one, so a
  transaction, a block that holds one, and a handshake do not decode to what was
  written.
* **Network.** Concurrent `start_server` calls, frames cut by the network, reads
  without a timeout, two ends that both speak first, a length that overflows, a
  broadcast to peers that fail and move meanwhile.
* **Processes.** Every command opens the same directory; sled lets one process in.
  A command may be killed after it has initialised the chain and before that is
  flushed.

## 2. Modules

| Module | Models | State and actions |
|---|---|---|
| `Types` | types.rs | records for accounts, transactions, blocks; what each hash covers; ideal SHA-256 and ed25519; u64 arithmetic modulo `MaxU64 + 1` |
| `StorageApi` | the methods of the `Storage` trait on `SledStorage` | constant operators from a database (tree name to map from key bytes to value bytes) to a database |
| `Storage` | storage shared by concurrent clients, and `deploy_contract` | `db`, `durable`; one action per sled operation, so `put_block` and a `deploy_contract` with an init payload are two; `Flush`, `Restart` |
| `Genesis` | the genesis block and `initialize_chain` | operators on a database, used by `Ledger` and `Cli` |
| `Ledger` | `Runtime::new`, `validate_block`, `apply_block`, `generate_block`, with `deploy_contract` | one caller; an action is the code between two database writes; `Crash`, `Flush`, `StorageFails` anywhere |
| `AtomicLedger` | what an atomic block commit promises | abstract specification that `Ledger` refines |
| `SequentialLedger` | what a block means when its transactions are applied one after the other | a reference semantics, transaction by transaction, to compare `apply_block` with |
| `Runtime` | `submit_transaction`, `produce_block`, `get_chain_state` | two mutexes with owners and poisoning; program counters named after lines; an action is the code between two `lock()` calls |
| `Codec` | `NetworkMessage`, `MessageFrame` and how `PublicKey` is encoded | byte streams as sequences of 32-bit words; `to_bytes`, `from_bytes` with its overflow |
| `Sync` | `start_server`, `handle_connection`, `add_peer`, `sync_with_peer`, `receive_message` | a pair of streams per connection; at each end this code or another program |
| `Broadcast` | `discover_peers`, `broadcast_block` and the task of runtime.rs 248-262 that runs them | one snapshot and one index per task; hosts that are good, silent or flaky |
| `Cli` | main.rs, with `Runtime::new` and the getters | processes, directories and their owners; `Flush`, `Kill` |
| `RuntimeProofs`, `StorageProofs`, `LedgerProofs`, `SyncProofs`, `BroadcastProofs`, `CliProofs` | - | the inductive invariant of each module, and the theorems |
| `SequentialProofs` | - | the loop of `apply_block` against the reference semantics |
| `StorageApiProofs` | - | lemmas about trees, keys, the order of heights and batches, for the proofs of the modules built on `StorageApi`; induction on numbers |
| `MCRuntime`, `MCStorage`, `MCLedger`, `MCSync`, `MCCli` | - | instances |

Composition: `Storage`, `Ledger` and `Cli` are built on `StorageApi`, the last two
also on `Genesis`; `Sync` is built on `Codec`. `Ledger` is what runs behind the
chain-state mutex of `Runtime`, and `Broadcast` what runs after it; the runtime
never reaches either (section 4), so they are driven as an embedding program may
drive them.

How the models correspond to the code:

* *Runtime.* `pc[t] = "submit155"` means that thread `t` is about to execute the
  `lock()` of line 155. A lock is granted only when it is free; `lock()` on a
  mutex the thread owns itself is unspecified by the standard library except
  that it does not return, so the constant `RelockPanics` chooses between waiting
  for ever and a panic, which poisons the mutex. `prev_readable` says whether
  `storage.get_block` finds the latest block. The chain state itself is not a
  variable: no reachable step of the runtime changes it.
* *Storage.* Each sled call is atomic and sled makes the log durable in order,
  in the background. A restart finds the database as of the last flush. The scan of
  `get_latest_block` may fail, which the code answers like an empty index.
* *Ledger.* Database access is that of `StorageApi`. The program that embeds the
  library seeds accounts and chain state through the trait and stores an applied
  block with `put_block`: `apply_block` never does. `Proposed` holds the block
  the consensus engine generates, a foreign well-formed one, and four that
  differ from it in one field. While the runtime is down there is no chain state
  in memory, and `chain_state` is `Down`.
* *Sync.* `read_exact` waits for the whole frame; the single `read()` of
  `handle_connection` returns any non-empty prefix of what has been sent. A
  connection has a role: `sync` is `sync_with_peer` to a server of this code,
  `incoming` another program to `handle_connection`, `outgoing` `sync_with_peer`
  to another program, which may answer correctly, wrongly or never. What other
  programs say is drawn from `ClientMessage`, `ServerMessage` and `StrayLength`:
  messages of the protocol, framed once or twice, with the key of a handshake
  written as this crate writes it (`layout = "prefixed"`, a length and 32 bytes,
  types.rs:70) or as it reads it (`"raw"`, 32 bytes, types.rs:79), and lengths with
  nothing behind. Of a prefixed key the reader takes the length and the first 24
  bytes for the key and the next word, `SeventhWord`, for the version. A panic of
  `from_bytes` ends the task it happens in, a handler or the caller of
  `sync_with_peer`.
* *Broadcast.* A snapshot is the known peers in any order, as a `HashMap` yields
  them. `told` counts what reached an address; a failed send may have delivered.
* *Cli.* A process is at the open of its directory, in `Runtime::new`, or about
  to answer. `seed` keeps what a directory held at first: nothing, or what an
  embedding program stored there. An `Embedding` process holds `./data` as long as
  it likes.

Definitions named `X_Something`, marked "fault", are altered forms of `X` used
for mutation testing: each property is violated when one of them takes the
place of `X`. They are part of no specification.

## 3. Runs

`tlc -config <run>.cfg <module>`; the bounds are in the cfg files.

### Runs that pass

| Run | Properties | What it shows |
|---|---|---|
| `runtime` | `TypeOK`, `GuardsMatchOwners`, `NoBlockIsEverProduced`, `MempoolIsAdmissible`, `WaitChainsAreShort`, `AcceptedExactlyOnce`, `PoisonFreezes`, `EveryCallReturns`, `PoisonedCallsReturn` | every interleaving of three threads and four calls, with panics (89k states): a call that does not return is held up by one of two deadlocks and by nothing else |
| `storage_safety` | `TypeOK`, `HeightIndexIsBacked`, `LatestIsHighest`, `InitPayloadHasCode` | two clients, four writes, errors, flushes and restarts anywhere (194k states) |
| `ledger` | `TypeOK`, `ConflictFreeIsSequential`, `LastWriterWins`, `CommittedIsIndexed`, `CommittedContractHasCode`, `CommittedExtendsStored`, `ParentsAreEmpty`, `RefinesAtomicLedger` | two blocks in a row, well-formed or not, on an empty and on a seeded database, in both builds, with failures, flushes and crashes between any two writes (237k states) |
| `sync` | `TypeOK`, `OneServer`, `OnlyDoubleFramesAreRead`, `FailedServerIsFinal`, `OnlyAcknowledgementsRegister`, `OnlyHugeLengthsPanic`, `EverySyncEnds` | two `start_server` calls and two connections, the first opened by `sync_with_peer` and the second accepted by `handle_connection`, each with this code or another program at the other end, keys written with and without a length, frames cut anywhere, lengths at the limit (165k states) |
| `broadcast` | `TypeOK`, `GoodHostsAreTold`, `NoneIsToldTwice`, `KnownPeersAreTold`, `EveryBroadcastEnds` | two broadcasts while peers are added and moved, over every assignment of host kinds (248k states) |
| `cli` | `TypeOK`, `InitializedAtMostOnce`, `AnswersComeFromTheSeed`, `EveryCommandEnds` | two processes that run any of 18 command lines one after another on two directories, killed anywhere (92k states) |

Several of these state facts about the code as it is that its authors may not
expect: no block is ever produced (`NoBlockIsEverProduced`, beside
`runtime_self_deadlock`), a block with transactions ends its chain
(`ParentsAreEmpty`, beside `storage_read_back`), `sync_with_peer` never gets past
its handshake with a server of this code (`OnlyDoubleFramesAreRead`), and no
sequence of commands makes an empty directory usable (`AnswersComeFromTheSeed`,
beside `ledger_committed_reads`). They are kept as properties because they mark what
other components may rely on, and a repair of the code will make each of them fail
visibly.

### Runs that show a disagreement

Each states what the repository says and is violated by what the code does;
`findings` in PROJECT.json quotes the line.

| Run | Property | Counterexample |
|---|---|---|
| `runtime_self_deadlock` | `NoSelfDeadlock` | one submission, then `produce_block`: line 232 locks what line 217 holds |
| `runtime_lock_order` | `NoLockOrderDeadlock` | a producer at 217 and a submitter at 180 wait for each other, which the comment of line 229 means to avoid |
| `storage_read_back` | `StoredTransactionsReadBack` | `put_transaction`, then `get_transaction` fails to decode |
| `ledger_sequential` | `TransactionsAreSequential` | two transactions on one account in one block |
| `ledger_committed_reads` | `CommittedIsRead` | `Runtime::new` on an empty directory: `initialize_chain` commits genesis to the default tree (storage.rs:367), `get_chain_state` reads another, and the call fails although its doc (runtime.rs:66) says that it creates genesis if needed. That the same holds of every later batch is theorem `NeverRead` |
| `sync_handshake` | `AcknowledgersAreAdded` | an acknowledgement with a key as this crate writes it arrives whole, and is refused or read as one of somebody else |

Other differences met on the way, visible in the models but without a run of
their own: the code of a contract stays stored when its block is refused
(ledger.rs:248); the chain state in memory stays advanced when the commit fails
(300); transactions stay indexed under a block that was not committed (310);
deploying a contract replaces the deployer's wallet (256); a sender without an
account is admitted by `submit_transaction` and refused by `apply_block` (171);
a peer is told of a block once for each id that lives at its address
(sync.rs:347); a transaction that is submitted twice is twice in the mempool
(runtime.rs:184), although docs/BaaLS_Transaction_Mempool.md:155 promises duplicate
detection; `calculate_hash` leaves out `gas_limit` and `priority` (types.rs:335),
although its doc (types.rs:329) says that all fields but hash and signature are
covered; the commands that are to send a transaction (main.rs:58-94) create it
unsigned, with nonce 0, print it and send nothing (202-317); when the scan of
`get_latest_block` fails, the caller is told that there is no block
(storage.rs:194).

### Bounds, and why they are enough

* *Runtime:* a deadlock involves two mutexes, hence at most two threads; the
  third shows that bystanders are not part of one, and the proofs lift the bound.
  Four calls let a thread fill the mempool, two produce and one submit again. The
  four transactions pass, fail the nonce check, come from an unknown account, and
  fail the signature check.
* *Storage:* four writes are two whole `put_block` or `deploy_contract` calls that
  interleave and more. Heights 9, 9, 10 and 11 give a collision and a change in
  the number of digits; `HeightDigits` stands for the 20 of the code's padding.
* *Ledger:* `MaxU64 = 3`, with a balance one below it, makes the credit overflow
  reachable; in a debug build it panics, in a release build it wraps, and `build`
  is either from the start. Two transactions per block are the least with which
  one can interfere with another, two blocks the least with which one can fail
  and the next build on it. Transactions that can interfere are put in one block
  in all pairs, the rest alone (`MCPending`).
* *Sync:* two starters race; two connections share nothing but the server and
  `known_peers`. `MaxU32 = 255` is above the length of every frame the runs build,
  and the stray lengths lie on both sides of the overflow. `MaxReplies = 2` frames
  answer the two requests of `sync_with_peer`. `ValidShifted` are the keys whose
  bytes, read eight bytes too early, are again a curve point: of three keys one is
  not, one is followed by a word that reads 1 and one by another. An outgoing and an
  incoming connection have no state in common and are not combined (`MCRoles`).
* *Broadcast:* two peers at two addresses can share one, differ, and swap while a
  snapshot is in use; broadcasts share nothing but the map.
* *Cli:* two processes race for a directory; commands run for ever, one after
  another, so no number of them is left out. Two directories show that `start`
  elsewhere does not help.

`CHECK_DEADLOCK FALSE` appears where the model stops because calls, connections
or broadcasts are used up (`runtime*`, `sync`, `broadcast`), because the code
deadlocks, which the runtime's properties state in their own terms, and in `cli`,
where the system may rest. The storage and ledger runs check for deadlock.

### Fairness

* `Runtime!FairSpec`: weak fairness of each thread's steps inside a call. The
  operating system schedules runnable threads; nobody is obliged to call. Weak
  fairness does not promise a lock that is freed and retaken for ever, but calls
  are finite in number, so no stronger assumption is made.
* `Sync!FairSpec`: weak fairness of each client's and each handler's steps, since
  tokio polls every task whose socket is ready. Connecting, failing and the
  answers of other programs are not fair: `EverySyncEnds` is about servers of this
  code only, because a silent one keeps `receive_message` waiting (sync.rs:259).
* `Broadcast!FairSpec`: weak fairness of each task. A connect ends after two
  seconds at the latest, and an announcement is 48 bytes, which a new socket's
  buffer takes at once. `add_peer` is not fair.
* `Cli!FairSpec`: weak fairness of each run of `main`. Starting a command, killing
  one, flushing and the end of an embedding program are not fair.

### Assumptions about what is not in the repository

SHA-256 is injective and a signature verifies only for the signed message and
key. bincode decodes what it encoded, except where `PublicKey` is read from
other bytes than were written (types.rs:64-82): a transaction is taken never to
decode, because eight bytes too many shift every later field. A handshake read that way
decodes to whatever `ValidShifted` and `SeventhWord` say of its key. sled's
operations are atomic, its log is recovered up to the last flush, and a directory
that is open in another process is refused at once.

## 4. Proofs

`tlapm <module>.tla`. Every safety property of the passing runs is a theorem, for
every value of the constants. Of the liveness properties, two are theorems, three are
in part and one, `KnownPeersAreTold`, is model-checked only; the theorems have as a hypothesis that nobody is blocked (`OnlyLocksBlock` in
`Runtime`, `NeverBlocked` in `Sync`, `Broadcast` and `Cli`), a conjunct of the property
itself that speaks of `ENABLED` and that TLC checks on every reachable state.

| Module | Theorems: `Spec => []P` for an invariant `P`, `Spec => A` for an action property `A`, `FairSpec /\ []E => L` for a liveness property `L`, where `E` says that nobody is blocked |
|---|---|
| `RuntimeProofs` | `TypeCorrect` (`TypeOK`), `GuardsNeverLeak` (`GuardsMatchOwners`), `ProductionIsStuck` (`NoBlockIsEverProduced`), `Admission` (`MempoolIsAdmissible`), `WaitsAreShort` (`WaitChainsAreShort`), `PoisonIsFinal` (`PoisonFreezes`), `SubmissionIsExact` (`AcceptedExactlyOnce`), `ChainStateIsReleased` (the part of `EveryCallReturns` about the lines that hold the chain state), `PoisonReleasesCallers` (the part of `PoisonedCallsReturn` about the `lock()` calls on the chain state) |
| `StorageProofs` | `TypeCorrect` (`TypeOK`), `HeightIndex` (`HeightIndexIsBacked`), `InitPayloads` (`InitPayloadHasCode`), `LatestBlock` (`LatestIsHighest`) |
| `LedgerProofs` | `TypeCorrect` (`TypeOK`), `Indexed` (`CommittedIsIndexed`), `ContractsHaveCode` (`CommittedContractHasCode`), `ExtendsStored` (`CommittedExtendsStored`), `ParentsHaveNoTransactions` (`ParentsAreEmpty`), `NeverRead` (`CommittedIsNeverRead`, the general form of what `ledger_committed_reads` shows), `Refinement` (`RefinesAtomicLedger`) |
| `SequentialProofs` | `Sequential` (`ConflictFreeIsSequential`), `LoopIsSequential` (its inductive form), `StaleReads` (`LastWriterWins`) |
| `SyncProofs` | `TypeCorrect` (`TypeOK`), `SingleServer` (`OneServer`), `FramingIsDoubled` (`OnlyDoubleFramesAreRead`), `ServerFailureIsFinal` (`FailedServerIsFinal`), `AcknowledgersRegister` (`OnlyAcknowledgementsRegister`), `PanicsAreContained` (`OnlyHugeLengthsPanic`), `SyncsEnd` (`EverySyncEnds`) |
| `BroadcastProofs` | `TypeCorrect` (`TypeOK`), `Delivery` (`GoodHostsAreTold`), `AtMostOnce` (`NoneIsToldTwice`), `NoPeerHoldsUp` (the step of `EveryBroadcastEnds` from one peer to the next) |
| `CliProofs` | `TypeCorrect` (`TypeOK`), `GenesisAtMostOnce` (`InitializedAtMostOnce`), `AnswersAreTheSeeds` (`AnswersComeFromTheSeed`), `CommandsEnd` (`EveryCommandEnds`) |

Each module has an inductive invariant `IInv`, defined at its beginning, and a
theorem `Invariance == Spec => []IInv` that combines the initial states with one
lemma or step per action. TLC checked each `IInv` on the instance of its run
before it was proved; `SequentialProofs` adds `InOrder` to that of `LedgerProofs`.

### The arguments

* *Induction.* Two results need induction on numbers: on the digits of a height, on
  the transactions of a block. The provers cannot instantiate an induction theorem
  with a formula, but a set is a value: `LeastNumber` says that every non-empty set
  of numbers has a least element, and an induction looks at the least of the numbers
  for which a claim fails. That also shows that the recursive functions `Pow10` and
  `Sequentially` exist and satisfy their recursion (`Powers`, `Reference`).
* *Runtime.* `IInv` adds `SubmissionChecked` and `PoisonedIsFree` to the properties.
  That line 237 is not reached needs the ownership of the chain-state mutex at
  line 232, which is `GuardsMatchOwners`; that in turn is preserved by the release
  on each error path only because owner and program counter agree, for every
  thread, before the step. What is pushed at line 180 is admissible because
  `SubmissionChecked` carries the outcome of the checks along with the thread to
  the lock of the mempool. `PoisonedIsFree` records that a panic drops
  the guard it poisons: with the refusal of a poisoned lock it shows that nobody
  reaches the push afterwards. `WaitChainsAreShort` and the two action properties
  follow from `IInv`.
* *Storage.* The properties of the trees are not inductive: the second write of
  `put_block` makes the height index point at the block that the first one stored.
  `FirstWriteIsThere` says that the first write of every call under way is still
  in the running database, whatever other clients wrote between. It survives their
  writes because a block is stored under its own hash and code under an id that is
  its digest, so whoever writes the same key writes the same bytes; a restart drops
  the calls under way along with what was not flushed. `KeyedByHeight` says that an
  entry of the height index is keyed by the height of its block. That the last key is
  the highest block's is `KeyOrder`: of two different heights, take the first place at
  which their zero-padded digits disagree; before it the prefixes are equal, so the
  smaller height has the smaller digit there.
* *Ledger.* `IInv` says what a database holds (`DatabaseOK`, of the running and of
  the durable one alike, so that `Flush` and `Crash` preserve it), and what
  `apply_block` has in hand between its writes (`InHand`): the block was validated
  and extends a stored one, the accounts to update are those the transactions so
  far touch and have their code stored, the batch holds those accounts, the chain
  state and removals, the index is written up to `i`. `CommittedIsIndexed` and
  `CommittedContractHasCode` then hold at the commit because the direct writes
  come before it. `ParentsAreEmpty` rests on the hash of a block committing to its
  transactions: a parent that decodes under that hash has none.
  `CommittedIsNeverRead` rests on the batch going to the default tree
  (`BatchStaysInDefault`).
* *Refinement.* `current` is the default tree of `db` and `saved` that of
  `durable`. `Boot` and `BootFails` map to `Genesis` or to nothing, `Commit` to
  `CommitBlock`, `Flush` to `Save`, `Crash` to `Lose`, every other action to a
  stutter. That `Commit` writes the accounts its block touches, and nothing else
  but the chain state, is `BatchInHand` and `AccountsInHand`.
* *Sequential reference.* `InOrder` says that after `n` transactions the accounts
  storage holds, overlaid with `accounts_to_update`, are those the reference leaves
  after `n`. When no account occurs twice, the accounts of transaction `n + 1` are not
  among those updated (`FreshAccounts`, from `AccountsInHand`), so what the code reads
  from storage is what the reference reads from the overlay (`Sees`): verdict, overflow
  and effect are the same. A reference that has refused a transaction never recovers
  (`RefusedForGood`), and no step changes what `get_account` returns (`GettersKept`).
* *Stale reads.* `LastWriterWins` says what the loop computes when accounts do occur
  twice. Every account to update was written by the last transaction so far that
  touches it, from the account in storage: an earlier one leaves no trace, and storage
  does not change under the loop (`GettersKept`).
* *Sync.* At most one call gets past the flag (`FlagIsKept`); the streams hold what
  this code or another program sends, whole frames on the one side
  (`OnlyFramesAreSent`), one opening on the other (`OnlyOpeningsArrive`). What
  remains are lemmas on the codec, for every message: which words `to_bytes`
  yields, and what `from_bytes` makes of any prefix of them and of the message
  behind its length. A prefix short of its end is refused, so what makes a peer known
  is a whole acknowledgement, in one of the two layouts.
* *Broadcast.* `LoopIsWhole` ties the index of a task to its place. The count of the
  places at which an address is listed among the first `n` grows by one or not at
  all when the loop passes place `n` (`ListedGrows`).
* *Cli.* The genesis batch is seen by no getter (`GenesisIsUnseen`) and applied twice
  is the same as applied once (`GenesisTwice`); so a directory holds its seed or
  that with the genesis batch, wherever a command was killed, and every answer from
  either is the answer from the seed. `RightPlace` records that a command that gets
  to its answer found a chain state.

* *Liveness.* Each result is a chain of stages for one thread, connection, task or
  process. At a stage, every step of the system keeps it there or leads on, its own
  step leads on, and it can take that step; weak fairness does the rest, by
  propositional temporal logic. That it can take the step is the hypothesis about
  `ENABLED`, an atom to the provers; the first two facts follow from `IInv`. *Cli:* the
  lines of `main`, in order. *Sync:* the call sends, its handler greets it or is gone,
  it reads and ends. That a call which waits has been greeted when its handler goes on
  to read is an invariant of its own (`Greeted`): the read needs no timeout because the
  greeting is in the stream before anything else can happen. *Broadcast:* the `n`-th
  peer is connected to or not, and passed. *Runtime:* who has the chain state
  is at one of three lines where it can run, or at 180 or 232; if it cannot go on
  there, the owner of the mempool waits for it at line 217, or it waits for itself
  (`HolderIsStuckOrGoesOn`). A caller at a poisoned lock waits for nobody
  (`PoisonedIsFree`).

### Assumptions on the constants

They are stated in the modules that declare the constants, and TLC evaluates them on
every run.

* `ThreadAssumption`, `ProcessAssumption`, `TxAssumption`: `NoThread`, `NoProcess`
  and `None` are not threads, processes or transactions. Bounds are natural numbers.
* `DigitsAssumption`: every u64 has at most `HeightDigits` digits, as it has 20.
* `BlockAssumption` (Storage): a block's hash determines it, its height is a u64, and
  `None` is neither a block nor an encoded one.
* `PendingAssumption` (Ledger): a block's transactions are a sequence; senders and
  wallet recipients are public keys.
* `SeedAssumption` (Ledger): what the embedding program stored beforehand is what
  the trait's puts write: blocks under their own hashes, contract accounts with
  their code, a chain state whose hash is that of a block at its height, the default
  tree empty. The chain is not within `MaxAttempts` blocks
  of the largest height; at 2^64 blocks the index would wrap to a genesis height.
* `SeedAssumption`, `CommandAssumption` (Cli): directories have sled's trees, and a
  command opens one of the directories.
* `RolesAssumption`, `KeysAssumption`, `MessagesAssumption`, `SeventhWordAssumption`
  (Sync, Codec): keys are public keys, a word of a key is a number, and other programs
  send messages of the protocol, with keys in either layout.

### Model-checked only

* `OnlyLocksBlock` and `NeverBlocked`, since the prover does not expand `ENABLED`: they
  are checked as conjuncts of `EveryCallReturns`, `EverySyncEnds`,
  `EveryBroadcastEnds` and `EveryCommandEnds`.
* `EveryCallReturns`, `EveryBroadcastEnds`, `KnownPeersAreTold` and, for a producer that waits for the
  mempool, `PoisonedCallsReturn`. They take an induction on the calls that are left or
  the peers that remain, with a temporal formula as its claim, and the provers have no
  induction for temporal formulas. What is proved is one step of it for every number:
  the chain state is let go of, a peer is passed, a poisoned lock returns.
* The runs that show a disagreement are counterexamples, and need no proof.

## 5. Not modelled

* `NoopSync`: constants.
* Lines 237-273 of `produce_block` inside `Runtime`, since they are never reached
  (`ProductionIsStuck`). What they call is in `Ledger` and `Broadcast`.
* Merkle roots, `total_supply`, WASM execution, PoA signatures: placeholders in
  the code; the SDK and FFI of the blueprints do not exist in the source.
* `get_pending_transactions`, which reads keys that nothing writes.
* What commands print is kept as the value that is formatted, not as text.
* The overflow of a nonce at 2^64 - 1 (ledger.rs:176) is part of `Panics` and
  `AddU64`, and the theorems cover it, but no instance has an account that near the
  limit; heights and timestamps are not near theirs.

## 6. Plan

Done: every component that keeps state has its module, its runs and its proofs.
What is left:

1. *Runtime and Ledger together:* once line 232 is repaired, `produce_block` reaches
   `apply_block`; the modules are then to be composed.
