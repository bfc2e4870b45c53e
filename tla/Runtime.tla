------------------------------ MODULE Runtime ------------------------------
(***************************************************************************)
(* The Runtime of src/runtime.rs as its callers' threads see it: two       *)
(* std::sync::Mutex values, one around the in-memory mempool and one       *)
(* around the chain state, taken by submit_transaction, produce_block and  *)
(* get_chain_state.  An action is what a thread does between two points at *)
(* which another thread may act: a lock() call, or the code up to the next *)
(* lock() call or to the return, which releases the guards in scope.       *)
(*                                                                         *)
(* produce_block takes the mempool lock (line 210), then the chain-state   *)
(* lock (217), drops the mempool guard (230) and, with the guard of line   *)
(* 217 still in scope, locks the chain state again (232).  What lock()     *)
(* does on a mutex its own thread holds is unspecified except that it does *)
(* not return: it waits for ever or it panics.  RelockPanics says which.   *)
(***************************************************************************)
EXTENDS Types

CONSTANTS
    Thread,         \* the threads that call the runtime
    Producing,      \* the ones that call produce_block
    NoThread,       \* the owner of a free lock
    Tx,             \* the transactions callers may submit
    StoredNonce,    \* nonce of each sender's stored account; absent: no account
    RelockPanics,   \* lock() panics, rather than blocks, on the thread's own lock
    MaxCalls        \* how many calls are made in all

ASSUME ThreadAssumption == NoThread \notin Thread
ASSUME ProducingAssumption == Producing \subseteq Thread
ASSUME RelockAssumption == RelockPanics \in BOOLEAN
ASSUME CallsAssumption == MaxCalls \in Nat
ASSUME TxAssumption == None \notin Tx

VARIABLES
    mempool,        \* Vec<Transaction> behind the mempool mutex
    mempool_lock,   \* the thread that owns the mempool mutex
    chain_lock,     \* the thread that owns the chain_state mutex
    poisoned,       \* a thread has panicked with the chain_state guard in scope
    prev_readable,  \* storage.get_block(latest_block_hash) yields a block
    pc,             \* where each thread is
    arg,            \* the transaction a thread is submitting
    ret,            \* what a thread's last call returned
    calls           \* how many calls have been made

vars == <<mempool, mempool_lock, chain_lock, poisoned, prev_readable,
          pc, arg, ret, calls>>

-----------------------------------------------------------------------------
(* Program counters, by the line a thread is about to execute.             *)

ChainSites == {"submit155", "produce217", "produce232", "get279"}
PoolSites == {"submit180", "produce210"}
Running == {"submit158", "produce220", "produce237", "get283"}

\* where a lock() call on the chain state continues when it is granted
Granted(site) ==
    CASE site = "submit155"  -> "submit158"
      [] site = "produce217" -> "produce220"
      [] site = "produce232" -> "produce237"
      [] site = "get279"     -> "get283"

Return(t, value) ==
    /\ pc' = [pc EXCEPT ![t] = "idle"]
    /\ arg' = [arg EXCEPT ![t] = None]
    /\ ret' = [ret EXCEPT ![t] = value]

Release(lock, t) == IF lock = t THEN NoThread ELSE lock

\* unwrap_or(Account::Wallet { balance: 0, nonce: 0 })
sender_nonce(tx) ==
    IF tx.sender \in DOMAIN StoredNonce THEN StoredNonce[tx.sender] ELSE 0

-----------------------------------------------------------------------------
Init ==
    /\ mempool = << >>
    /\ mempool_lock = NoThread
    /\ chain_lock = NoThread
    /\ poisoned = FALSE
    /\ prev_readable \in BOOLEAN
    /\ pc = [t \in Thread |-> "idle"]
    /\ arg = [t \in Thread |-> None]
    /\ ret = [t \in Thread |-> "none"]
    /\ calls = 0

Begin(t) ==
    /\ pc[t] = "idle"
    /\ calls < MaxCalls
    /\ calls' = calls + 1
    /\ UNCHANGED <<mempool, mempool_lock, chain_lock, poisoned, prev_readable>>

\* submit_transaction up to its first lock(): the signature check.
SubmitBegin(t, tx) ==
    /\ Begin(t)
    /\ verify_signature(tx)
    /\ pc' = [pc EXCEPT ![t] = "submit155"]
    /\ arg' = [arg EXCEPT ![t] = tx]
    /\ UNCHANGED ret

SubmitBadSignature(t, tx) ==
    /\ Begin(t)
    /\ ~verify_signature(tx)
    /\ Return(t, "err")

ProduceBegin(t) ==
    /\ Begin(t)
    /\ t \in Producing
    /\ pc' = [pc EXCEPT ![t] = "produce210"]
    /\ UNCHANGED <<arg, ret>>

GetChainStateBegin(t) ==
    /\ Begin(t)
    /\ pc' = [pc EXCEPT ![t] = "get279"]
    /\ UNCHANGED <<arg, ret>>

\* chain_state.lock() is granted when the mutex is free.
LockChainState(t) ==
    /\ pc[t] \in ChainSites
    /\ chain_lock = NoThread
    /\ ~poisoned
    /\ chain_lock' = t
    /\ pc' = [pc EXCEPT ![t] = Granted(@)]
    /\ UNCHANGED <<mempool, mempool_lock, poisoned, prev_readable, arg, ret, calls>>

\* fault: a poisoned lock is recovered (into_inner) and used
LockChainStatePoisoned_Recovers(t) ==
    /\ pc[t] \in ChainSites
    /\ chain_lock = NoThread
    /\ poisoned
    /\ chain_lock' = t
    /\ pc' = [pc EXCEPT ![t] = Granted(@)]
    /\ UNCHANGED <<mempool, mempool_lock, poisoned, prev_readable, arg, ret, calls>>

\* fault: the error path of line 217 keeps the mempool guard
LockChainStatePoisoned_LeaksMempool(t) ==
    /\ pc[t] \in ChainSites
    /\ chain_lock = NoThread
    /\ poisoned
    /\ Return(t, "err")
    /\ UNCHANGED <<mempool, mempool_lock, chain_lock, poisoned, prev_readable, calls>>

\* A poisoned lock() is an error; every guard in scope is dropped.
LockChainStatePoisoned(t) ==
    /\ pc[t] \in ChainSites
    /\ chain_lock = NoThread
    /\ poisoned
    /\ Return(t, "err")
    /\ mempool_lock' = Release(mempool_lock, t)
    /\ UNCHANGED <<mempool, chain_lock, poisoned, prev_readable, calls>>

\* fault: the early return leaves the guard behind
SubmitBadNonce_LeaksGuard(t) ==
    /\ pc[t] = "submit158"
    /\ arg[t].nonce <= sender_nonce(arg[t])
    /\ Return(t, "err")
    /\ UNCHANGED <<mempool, mempool_lock, chain_lock, poisoned, prev_readable, calls>>

\* lines 158-174: the stored nonce has reached the transaction's.
SubmitBadNonce(t) ==
    /\ pc[t] = "submit158"
    /\ arg[t].nonce <= sender_nonce(arg[t])
    /\ chain_lock' = NoThread
    /\ Return(t, "err")
    /\ UNCHANGED <<mempool, mempool_lock, poisoned, prev_readable, calls>>

\* fault: the comparison admits a nonce already used
SubmitNonceOk_OffByOne(t) ==
    /\ pc[t] = "submit158"
    /\ arg[t].nonce >= sender_nonce(arg[t])
    /\ pc' = [pc EXCEPT ![t] = "submit180"]
    /\ UNCHANGED <<mempool, mempool_lock, chain_lock, poisoned, prev_readable,
                   arg, ret, calls>>

SubmitNonceOk(t) ==
    /\ pc[t] = "submit158"
    /\ arg[t].nonce > sender_nonce(arg[t])
    /\ pc' = [pc EXCEPT ![t] = "submit180"]
    /\ UNCHANGED <<mempool, mempool_lock, chain_lock, poisoned, prev_readable,
                   arg, ret, calls>>

\* fault: what is pushed has lost the hash logged on line 185
SubmitPush_MovesHash(t) ==
    /\ pc[t] = "submit180"
    /\ mempool_lock = NoThread
    /\ mempool' = Append(mempool, [arg[t] EXCEPT !.hash = ZeroHash])
    /\ chain_lock' = NoThread
    /\ Return(t, "ok")
    /\ UNCHANGED <<mempool_lock, poisoned, prev_readable, calls>>

\* lines 178-187: lock the mempool, push, drop both guards.
SubmitPush(t) ==
    /\ pc[t] = "submit180"
    /\ mempool_lock = NoThread
    /\ mempool' = Append(mempool, arg[t])
    /\ chain_lock' = NoThread
    /\ Return(t, "ok")
    /\ UNCHANGED <<mempool_lock, poisoned, prev_readable, calls>>

\* lines 210-215
ProduceEmpty(t) ==
    /\ pc[t] = "produce210"
    /\ mempool_lock = NoThread
    /\ mempool = << >>
    /\ Return(t, "err")
    /\ UNCHANGED <<mempool, mempool_lock, chain_lock, poisoned, prev_readable, calls>>

ProduceLockMempool(t) ==
    /\ pc[t] = "produce210"
    /\ mempool_lock = NoThread
    /\ mempool # << >>
    /\ mempool_lock' = t
    /\ pc' = [pc EXCEPT ![t] = "produce217"]
    /\ UNCHANGED <<mempool, chain_lock, poisoned, prev_readable, arg, ret, calls>>

\* lines 220-223: the latest block cannot be read back.
ProduceNoPrevBlock(t) ==
    /\ pc[t] = "produce220"
    /\ ~prev_readable
    /\ mempool_lock' = NoThread
    /\ chain_lock' = NoThread
    /\ Return(t, "err")
    /\ UNCHANGED <<mempool, poisoned, prev_readable, calls>>

\* fault: the transactions are drained into the block, not copied
ProduceGenerate_Drains(t) ==
    /\ pc[t] = "produce220"
    /\ prev_readable
    /\ mempool' = << >>
    /\ mempool_lock' = NoThread
    /\ pc' = [pc EXCEPT ![t] = "produce232"]
    /\ UNCHANGED <<chain_lock, poisoned, prev_readable, arg, ret, calls>>

\* fault: both guards are dropped before line 232
ProduceGenerate_DropsBoth(t) ==
    /\ pc[t] = "produce220"
    /\ prev_readable
    /\ mempool_lock' = NoThread
    /\ chain_lock' = NoThread
    /\ pc' = [pc EXCEPT ![t] = "produce232"]
    /\ UNCHANGED <<mempool, poisoned, prev_readable, arg, ret, calls>>

\* lines 225-230: generate the block, drop the mempool guard.
ProduceGenerate(t) ==
    /\ pc[t] = "produce220"
    /\ prev_readable
    /\ mempool_lock' = NoThread
    /\ pc' = [pc EXCEPT ![t] = "produce232"]
    /\ UNCHANGED <<mempool, chain_lock, poisoned, prev_readable, arg, ret, calls>>

\* line 232 where lock() panics: unwinding drops and poisons the guard.
ProduceRelockPanic(t) ==
    /\ RelockPanics
    /\ pc[t] = "produce232"
    /\ chain_lock = t
    /\ chain_lock' = NoThread
    /\ poisoned' = TRUE
    /\ Return(t, "panic")
    /\ UNCHANGED <<mempool, mempool_lock, prev_readable, calls>>

GetChainStateReturn(t) ==
    /\ pc[t] = "get283"
    /\ chain_lock' = NoThread
    /\ Return(t, "ok")
    /\ UNCHANGED <<mempool, mempool_lock, poisoned, prev_readable, calls>>

\* lines 159 and 220-227: the `?` of a storage read or of generate_block.
StorageFails(t) ==
    /\ pc[t] \in {"submit158", "produce220"}
    /\ chain_lock' = NoThread
    /\ mempool_lock' = Release(mempool_lock, t)
    /\ Return(t, "err")
    /\ UNCHANGED <<mempool, poisoned, prev_readable, calls>>

-----------------------------------------------------------------------------
\* a new call, which no one promises to make
Call(t) ==
    \/ \E tx \in Tx : SubmitBegin(t, tx) \/ SubmitBadSignature(t, tx)
    \/ ProduceBegin(t)
    \/ GetChainStateBegin(t)

\* a step of a call under way
Step(t) ==
    \/ LockChainState(t)
    \/ LockChainStatePoisoned(t)
    \/ SubmitBadNonce(t)
    \/ SubmitNonceOk(t)
    \/ SubmitPush(t)
    \/ ProduceEmpty(t)
    \/ ProduceLockMempool(t)
    \/ ProduceNoPrevBlock(t)
    \/ ProduceGenerate(t)
    \/ ProduceRelockPanic(t)
    \/ GetChainStateReturn(t)
    \/ StorageFails(t)

Next == \E t \in Thread : Call(t) \/ Step(t)

Spec == Init /\ [][Next]_vars

\* The operating system schedules every runnable thread.
FairThread(t) == WF_vars(Step(t))

FairSpec == Spec /\ \A t \in Thread : FairThread(t)

-----------------------------------------------------------------------------
(* Properties.                                                             *)

HoldsChain == {"submit158", "submit180", "produce220", "produce232",
               "produce237", "get283"}
HoldsPool == {"produce217", "produce220"}

\* Every variable has its type: the two mutexes are owned by at most one
\* thread each and every thread is at a line of one of the three calls.
TypeOK ==
    /\ mempool \in Seq(Tx)
    /\ mempool_lock \in Thread \cup {NoThread}
    /\ chain_lock \in Thread \cup {NoThread}
    /\ poisoned \in BOOLEAN
    /\ prev_readable \in BOOLEAN
    /\ pc \in [Thread -> {"idle"} \cup ChainSites \cup PoolSites \cup Running]
    /\ arg \in [Thread -> Tx \cup {None}]
    /\ ret \in [Thread -> {"none", "ok", "err", "panic"}]
    /\ calls \in 0 .. MaxCalls

\* A mutex is owned by exactly the thread whose program counter lies between
\* its lock() and the drop of its guard: no early return, panic or error path
\* of runtime.rs leaks a guard or drops one it does not have.
GuardsMatchOwners ==
    \A t \in Thread :
        /\ chain_lock = t <=> pc[t] \in HoldsChain
        /\ mempool_lock = t <=> pc[t] \in HoldsPool

\* produce_block never gets past its second lock() on the chain state (line
\* 232): no thread ever validates, applies or returns a block.
NoBlockIsEverProduced == \A t \in Thread : pc[t] # "produce237"

\* Whatever is in the mempool carries a valid signature of its sender and a
\* nonce above the one stored for that sender (submit_transaction's checks
\* and its push are two critical sections apart).
MempoolIsAdmissible ==
    \A i \in DOMAIN mempool :
        /\ verify_signature(mempool[i])
        /\ mempool[i].nonce > sender_nonce(mempool[i])

\* A submission that returns Ok has put its transaction at the end of the
\* mempool exactly once, whatever ran between its two lock() calls; one that
\* returns an error, and every other call, has left the mempool as it was.
\* With the clear() of line 271 out of reach nothing is ever taken out.
AcceptedExactlyOnce ==
    [][ LET accepting == {t \in Thread : arg[t] # None /\ arg'[t] = None /\ ret'[t] = "ok"}
        IN  \/ accepting = {} /\ UNCHANGED mempool
            \/ \E t \in Thread :
                  accepting = {t} /\ mempool' = Append(mempool, arg[t]) ]_vars

\* The wait-for relation between threads.
WaitsFor(t, u) ==
    \/ pc[t] \in ChainSites /\ chain_lock = u
    \/ pc[t] \in PoolSites /\ mempool_lock = u

\* Two callers never wait for each other.  The comment of line 229 says the
\* mempool lock is released before the chain-state lock is taken, to avoid
\* deadlock; line 217 takes it with the mempool lock held.
NoLockOrderDeadlock ==
    \A t, u \in Thread : t # u => ~(WaitsFor(t, u) /\ WaitsFor(u, t))

\* A caller never waits for a lock it owns itself (line 232 after line 217).
NoSelfDeadlock == \A t \in Thread : ~WaitsFor(t, t)

\* However many threads call in, a chain of waiting threads is at most two
\* long: it ends at a thread that can run, at a producer stuck on itself at
\* line 232, or at the two-thread cycle of lines 180 and 217.  Those two are
\* therefore the only deadlocks: get_chain_state and the other lock() calls
\* can be caught behind one but are never part of one.
WaitChainsAreShort ==
    \A t, u, v \in Thread :
        WaitsFor(t, u) /\ WaitsFor(u, v) =>
            pc[v] \in Running \/ WaitsFor(v, v) \/ WaitsFor(v, u)

\* u and v, or u = v alone at line 232, wait for each other for ever
Deadlocked(u, v) ==
    WaitsFor(u, v) /\ WaitsFor(v, u) /\ (u = v => ~RelockPanics)

Blocked(t) == \E u \in Thread : WaitsFor(t, u) /\ (pc[t] = "produce232" => ~RelockPanics)

OnlyLocksBlock ==
    \A t \in Thread : pc[t] # "idle" /\ ~Blocked(t) => ENABLED <<Step(t)>>_vars

\* Every call under way returns, unless one of the two deadlocks forms: no
\* transaction, stored nonce, mempool or unreadable block leaves a thread
\* without a next line, and no mix of accepted and refused submissions, errors,
\* panics and poisoned locks leaves a call waiting for any other reason.
EveryCallReturns ==
    /\ []OnlyLocksBlock
    /\ \A t \in Thread :
          pc[t] # "idle" ~>
              \/ pc[t] = "idle"
              \/ \E u, v \in Thread : Deadlocked(u, v)

\* A panic at line 232 ends the service for good: nothing clears the poison
\* flag, so no later call reads the chain state or adds to the mempool.
PoisonFreezes ==
    [][poisoned => poisoned' /\ UNCHANGED <<mempool, chain_lock>>]_vars

\* Once a panic has poisoned the chain state, every call under way still
\* returns: no thread is left waiting for a guard the panic took with it.
PoisonedCallsReturn ==
    \A t \in Thread : (poisoned /\ pc[t] # "idle") ~> (pc[t] = "idle")
=============================================================================
