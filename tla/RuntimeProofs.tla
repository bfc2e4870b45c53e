--------------------------- MODULE RuntimeProofs ---------------------------
(***************************************************************************)
(* What Runtime promises for every set of threads, every set of            *)
(* transactions and every number of calls.                                 *)
(***************************************************************************)
EXTENDS Runtime, TLAPS

-----------------------------------------------------------------------------
(* The inductive invariant.                                                *)

\* A thread has a transaction under submission exactly while it is in
\* submit_transaction, and that transaction has passed the checks of the lines
\* behind it.
SubmissionChecked ==
    \A t \in Thread :
        /\ IF pc[t] \in {"submit155", "submit158", "submit180"}
           THEN arg[t] \in Tx /\ verify_signature(arg[t])
           ELSE arg[t] = None
        /\ pc[t] = "submit180" => arg[t].nonce > sender_nonce(arg[t])

\* A poisoned chain-state mutex is free.
PoisonedIsFree == poisoned => chain_lock = NoThread

IInv ==
    /\ TypeOK
    /\ GuardsMatchOwners
    /\ NoBlockIsEverProduced
    /\ SubmissionChecked
    /\ MempoolIsAdmissible
    /\ PoisonedIsFree

\* The invariant holds of a runtime that no one has called yet.
LEMMA InitEstablishes == Init => IInv
  <1> SUFFICES ASSUME Init PROVE IInv
    OBVIOUS
  <1>1. poisoned \in BOOLEAN /\ prev_readable \in BOOLEAN
    BY Zenon DEF Init
  <1>2. TypeOK
    BY <1>1, CallsAssumption DEF Init, TypeOK
  <1>3. GuardsMatchOwners
    BY ThreadAssumption DEF Init, GuardsMatchOwners, HoldsChain, HoldsPool
  <1>4. NoBlockIsEverProduced /\ SubmissionChecked
    BY DEF Init, NoBlockIsEverProduced, SubmissionChecked
  <1>5. MempoolIsAdmissible /\ PoisonedIsFree
    BY DEF Init, MempoolIsAdmissible, PoisonedIsFree
  <1> QED
    BY <1>2, <1>3, <1>4, <1>5 DEF IInv

\* Every step of every thread preserves the invariant.  The lock owners and
\* the program counters have to be tracked together: that a producer at line
\* 232 owns the chain state is what keeps line 237 out of reach.
LEMMA StepPreserves == IInv /\ [Next]_vars => IInv'
  <1> SUFFICES ASSUME IInv, [Next]_vars PROVE IInv'
    OBVIOUS
  <1> USE ThreadAssumption DEF IInv, ChainSites
  <1>1. ASSUME NEW t \in Thread, NEW tx \in Tx, SubmitBegin(t, tx)
       PROVE  IInv'
    <2>1. TypeOK'
      BY <1>1, CallsAssumption DEF TypeOK, PoolSites, Running, SubmitBegin,
         Begin
    <2>2. GuardsMatchOwners' /\ NoBlockIsEverProduced' /\ PoisonedIsFree'
      BY <1>1 DEF TypeOK, GuardsMatchOwners, NoBlockIsEverProduced,
         PoisonedIsFree, HoldsChain, HoldsPool, SubmitBegin, Begin
    <2>3. SubmissionChecked' /\ MempoolIsAdmissible'
      BY <1>1 DEF TypeOK, SubmissionChecked, MempoolIsAdmissible,
         SubmitBegin, Begin
    <2> QED
      BY <2>1, <2>2, <2>3
  <1>2. ASSUME NEW t \in Thread, NEW tx \in Tx, SubmitBadSignature(t, tx)
       PROVE  IInv'
    <2>1. TypeOK'
      BY <1>2, CallsAssumption DEF TypeOK, PoolSites, Running,
         SubmitBadSignature, Begin, Return
    <2>2. GuardsMatchOwners' /\ NoBlockIsEverProduced' /\ PoisonedIsFree'
      BY <1>2 DEF TypeOK, GuardsMatchOwners, NoBlockIsEverProduced,
         PoisonedIsFree, HoldsChain, HoldsPool, SubmitBadSignature, Begin,
         Return
    <2>3. SubmissionChecked' /\ MempoolIsAdmissible'
      BY <1>2 DEF TypeOK, SubmissionChecked, MempoolIsAdmissible,
         SubmitBadSignature, Begin, Return
    <2> QED
      BY <2>1, <2>2, <2>3
  <1>3. ASSUME NEW t \in Thread, ProduceBegin(t)
       PROVE  IInv'
    <2>1. TypeOK'
      BY <1>3, CallsAssumption DEF TypeOK, PoolSites, Running, ProduceBegin,
         Begin
    <2>2. GuardsMatchOwners' /\ NoBlockIsEverProduced' /\ PoisonedIsFree'
      BY <1>3 DEF TypeOK, GuardsMatchOwners, NoBlockIsEverProduced,
         PoisonedIsFree, HoldsChain, HoldsPool, ProduceBegin, Begin
    <2>3. SubmissionChecked' /\ MempoolIsAdmissible'
      BY <1>3 DEF TypeOK, SubmissionChecked, MempoolIsAdmissible,
         ProduceBegin, Begin
    <2> QED
      BY <2>1, <2>2, <2>3
  <1>4. ASSUME NEW t \in Thread, GetChainStateBegin(t)
       PROVE  IInv'
    <2>1. TypeOK'
      BY <1>4, CallsAssumption DEF TypeOK, PoolSites, Running,
         GetChainStateBegin, Begin
    <2>2. GuardsMatchOwners' /\ NoBlockIsEverProduced' /\ PoisonedIsFree'
      BY <1>4 DEF TypeOK, GuardsMatchOwners, NoBlockIsEverProduced,
         PoisonedIsFree, HoldsChain, HoldsPool, GetChainStateBegin, Begin
    <2>3. SubmissionChecked' /\ MempoolIsAdmissible'
      BY <1>4 DEF TypeOK, SubmissionChecked, MempoolIsAdmissible,
         GetChainStateBegin, Begin
    <2> QED
      BY <2>1, <2>2, <2>3
  <1>5. ASSUME NEW t \in Thread, LockChainState(t)
       PROVE  IInv'
    <2>1. TypeOK'
      BY <1>5 DEF TypeOK, PoolSites, Running, LockChainState, Granted
    <2>2. GuardsMatchOwners' /\ NoBlockIsEverProduced' /\ PoisonedIsFree'
      BY <1>5 DEF TypeOK, GuardsMatchOwners, NoBlockIsEverProduced,
         PoisonedIsFree, HoldsChain, HoldsPool, LockChainState, Granted
    <2>3. SubmissionChecked' /\ MempoolIsAdmissible'
      BY <1>5 DEF TypeOK, SubmissionChecked, MempoolIsAdmissible,
         LockChainState, Granted
    <2> QED
      BY <2>1, <2>2, <2>3
  <1>6. ASSUME NEW t \in Thread, LockChainStatePoisoned(t)
       PROVE  IInv'
    <2>1. TypeOK'
      BY <1>6 DEF TypeOK, PoolSites, Running, LockChainStatePoisoned,
         Return, Release
    <2>2. GuardsMatchOwners' /\ NoBlockIsEverProduced' /\ PoisonedIsFree'
      BY <1>6 DEF TypeOK, GuardsMatchOwners, NoBlockIsEverProduced,
         PoisonedIsFree, HoldsChain, HoldsPool, LockChainStatePoisoned, Return,
         Release
    <2>3. SubmissionChecked' /\ MempoolIsAdmissible'
      BY <1>6 DEF TypeOK, SubmissionChecked, MempoolIsAdmissible,
         LockChainStatePoisoned, Return, Release
    <2> QED
      BY <2>1, <2>2, <2>3
  <1>7. ASSUME NEW t \in Thread, SubmitBadNonce(t)
       PROVE  IInv'
    <2>1. TypeOK'
      BY <1>7 DEF TypeOK, PoolSites, Running, SubmitBadNonce, Return
    <2>2. GuardsMatchOwners' /\ NoBlockIsEverProduced' /\ PoisonedIsFree'
      BY <1>7 DEF TypeOK, GuardsMatchOwners, NoBlockIsEverProduced,
         PoisonedIsFree, HoldsChain, HoldsPool, SubmitBadNonce, Return
    <2>3. SubmissionChecked' /\ MempoolIsAdmissible'
      BY <1>7 DEF TypeOK, SubmissionChecked, MempoolIsAdmissible,
         SubmitBadNonce, Return
    <2> QED
      BY <2>1, <2>2, <2>3
  <1>8. ASSUME NEW t \in Thread, SubmitNonceOk(t)
       PROVE  IInv'
    <2>1. TypeOK'
      BY <1>8 DEF TypeOK, PoolSites, Running, SubmitNonceOk
    <2>2. GuardsMatchOwners' /\ NoBlockIsEverProduced' /\ PoisonedIsFree'
      BY <1>8 DEF TypeOK, GuardsMatchOwners, NoBlockIsEverProduced,
         PoisonedIsFree, HoldsChain, HoldsPool, SubmitNonceOk
    <2>3. SubmissionChecked' /\ MempoolIsAdmissible'
      BY <1>8 DEF TypeOK, SubmissionChecked, MempoolIsAdmissible,
         SubmitNonceOk
    <2> QED
      BY <2>1, <2>2, <2>3
  <1>9. ASSUME NEW t \in Thread, SubmitPush(t)
       PROVE  IInv'
    <2>1. TypeOK'
      BY <1>9 DEF TypeOK, PoolSites, Running, SubmitPush, Return,
         SubmissionChecked
    <2>2. GuardsMatchOwners' /\ NoBlockIsEverProduced' /\ PoisonedIsFree'
      BY <1>9 DEF TypeOK, GuardsMatchOwners, NoBlockIsEverProduced,
         PoisonedIsFree, HoldsChain, HoldsPool, SubmitPush, Return
    <2>3. SubmissionChecked' /\ MempoolIsAdmissible'
      BY <1>9 DEF TypeOK, SubmissionChecked, MempoolIsAdmissible,
         SubmitPush, Return
    <2> QED
      BY <2>1, <2>2, <2>3
  <1>10. ASSUME NEW t \in Thread, ProduceEmpty(t)
       PROVE  IInv'
    <2>1. TypeOK'
      BY <1>10 DEF TypeOK, PoolSites, Running, ProduceEmpty, Return
    <2>2. GuardsMatchOwners' /\ NoBlockIsEverProduced' /\ PoisonedIsFree'
      BY <1>10 DEF TypeOK, GuardsMatchOwners, NoBlockIsEverProduced,
         PoisonedIsFree, HoldsChain, HoldsPool, ProduceEmpty, Return
    <2>3. SubmissionChecked' /\ MempoolIsAdmissible'
      BY <1>10 DEF TypeOK, SubmissionChecked, MempoolIsAdmissible,
         ProduceEmpty, Return
    <2> QED
      BY <2>1, <2>2, <2>3
  <1>11. ASSUME NEW t \in Thread, ProduceLockMempool(t)
       PROVE  IInv'
    <2>1. TypeOK'
      BY <1>11 DEF TypeOK, PoolSites, Running, ProduceLockMempool
    <2>2. GuardsMatchOwners' /\ NoBlockIsEverProduced' /\ PoisonedIsFree'
      BY <1>11 DEF TypeOK, GuardsMatchOwners, NoBlockIsEverProduced,
         PoisonedIsFree, HoldsChain, HoldsPool, ProduceLockMempool
    <2>3. SubmissionChecked' /\ MempoolIsAdmissible'
      BY <1>11 DEF TypeOK, SubmissionChecked, MempoolIsAdmissible,
         ProduceLockMempool
    <2> QED
      BY <2>1, <2>2, <2>3
  <1>12. ASSUME NEW t \in Thread, ProduceNoPrevBlock(t)
       PROVE  IInv'
    <2>1. TypeOK'
      BY <1>12 DEF TypeOK, PoolSites, Running, ProduceNoPrevBlock, Return
    <2>2. GuardsMatchOwners' /\ NoBlockIsEverProduced' /\ PoisonedIsFree'
      BY <1>12 DEF TypeOK, GuardsMatchOwners, NoBlockIsEverProduced,
         PoisonedIsFree, HoldsChain, HoldsPool, ProduceNoPrevBlock, Return
    <2>3. SubmissionChecked' /\ MempoolIsAdmissible'
      BY <1>12 DEF TypeOK, SubmissionChecked, MempoolIsAdmissible,
         ProduceNoPrevBlock, Return
    <2> QED
      BY <2>1, <2>2, <2>3
  <1>13. ASSUME NEW t \in Thread, ProduceGenerate(t)
       PROVE  IInv'
    <2>1. TypeOK'
      BY <1>13 DEF TypeOK, PoolSites, Running, ProduceGenerate
    <2>2. GuardsMatchOwners' /\ NoBlockIsEverProduced' /\ PoisonedIsFree'
      BY <1>13 DEF TypeOK, GuardsMatchOwners, NoBlockIsEverProduced,
         PoisonedIsFree, HoldsChain, HoldsPool, ProduceGenerate
    <2>3. SubmissionChecked' /\ MempoolIsAdmissible'
      BY <1>13 DEF TypeOK, SubmissionChecked, MempoolIsAdmissible,
         ProduceGenerate
    <2> QED
      BY <2>1, <2>2, <2>3
  <1>14. ASSUME NEW t \in Thread, ProduceRelockPanic(t)
       PROVE  IInv'
    <2>1. TypeOK'
      BY <1>14 DEF TypeOK, PoolSites, Running, ProduceRelockPanic, Return
    <2>2. GuardsMatchOwners' /\ NoBlockIsEverProduced' /\ PoisonedIsFree'
      BY <1>14 DEF TypeOK, GuardsMatchOwners, NoBlockIsEverProduced,
         PoisonedIsFree, HoldsChain, HoldsPool, ProduceRelockPanic, Return
    <2>3. SubmissionChecked' /\ MempoolIsAdmissible'
      BY <1>14 DEF TypeOK, SubmissionChecked, MempoolIsAdmissible,
         ProduceRelockPanic, Return
    <2> QED
      BY <2>1, <2>2, <2>3
  <1>15. ASSUME NEW t \in Thread, GetChainStateReturn(t)
       PROVE  IInv'
    <2>1. TypeOK'
      BY <1>15 DEF TypeOK, PoolSites, Running, GetChainStateReturn, Return
    <2>2. GuardsMatchOwners' /\ NoBlockIsEverProduced' /\ PoisonedIsFree'
      BY <1>15 DEF TypeOK, GuardsMatchOwners, NoBlockIsEverProduced,
         PoisonedIsFree, HoldsChain, HoldsPool, GetChainStateReturn, Return
    <2>3. SubmissionChecked' /\ MempoolIsAdmissible'
      BY <1>15 DEF TypeOK, SubmissionChecked, MempoolIsAdmissible,
         GetChainStateReturn, Return
    <2> QED
      BY <2>1, <2>2, <2>3
  <1>16. ASSUME NEW t \in Thread, StorageFails(t)
       PROVE  IInv'
    <2>1. TypeOK'
      BY <1>16 DEF TypeOK, PoolSites, Running, StorageFails, Return, Release
    <2>2. GuardsMatchOwners' /\ NoBlockIsEverProduced' /\ PoisonedIsFree'
      BY <1>16 DEF TypeOK, GuardsMatchOwners, NoBlockIsEverProduced,
         PoisonedIsFree, HoldsChain, HoldsPool, StorageFails, Return, Release
    <2>3. SubmissionChecked' /\ MempoolIsAdmissible'
      BY <1>16 DEF TypeOK, SubmissionChecked, MempoolIsAdmissible,
         StorageFails, Return, Release
    <2> QED
      BY <2>1, <2>2, <2>3
  <1>17. CASE UNCHANGED vars
    BY <1>17 DEF TypeOK, GuardsMatchOwners, NoBlockIsEverProduced, SubmissionChecked,
                 MempoolIsAdmissible, PoisonedIsFree, vars
  <1> QED
    BY <1>1, <1>2, <1>3, <1>4, <1>5, <1>6, <1>7, <1>8, <1>9, <1>10, <1>11, <1>12,
       <1>13, <1>14, <1>15, <1>16, <1>17 DEF Next, Call, Step

\* Every reachable state of the runtime satisfies the inductive invariant.
THEOREM Invariance == Spec => []IInv
  BY InitEstablishes, StepPreserves, PTL DEF Spec

-----------------------------------------------------------------------------

\* The variables of submit_transaction, produce_block and get_chain_state
\* keep their types, whoever calls them and however often.
THEOREM TypeCorrect == Spec => []TypeOK
  <1>1. IInv => TypeOK
    BY DEF IInv
  <1> QED
    BY <1>1, Invariance, PTL

\* No path through the three calls leaks a guard or drops one it lacks.
THEOREM GuardsNeverLeak == Spec => []GuardsMatchOwners
  <1>1. IInv => GuardsMatchOwners
    BY DEF IInv
  <1> QED
    BY <1>1, Invariance, PTL

\* produce_block never reaches line 237: the runtime as written cannot
\* validate, apply, broadcast or return a block.
THEOREM ProductionIsStuck == Spec => []NoBlockIsEverProduced
  <1>1. IInv => NoBlockIsEverProduced
    BY DEF IInv
  <1> QED
    BY <1>1, Invariance, PTL

\* Everything in the mempool has a valid signature and a fresh nonce.
THEOREM Admission == Spec => []MempoolIsAdmissible
  <1>1. IInv => MempoolIsAdmissible
    BY DEF IInv
  <1> QED
    BY <1>1, Invariance, PTL

\* With any number of threads a wait ends, in at most two steps, at a thread
\* that runs, at the self-deadlock of line 232 or at the cycle of 180 and 217.
THEOREM WaitsAreShort == Spec => []WaitChainsAreShort
  <1>1. IInv => WaitChainsAreShort
    <2> SUFFICES ASSUME IInv,
                        NEW t \in Thread, NEW u \in Thread, NEW v \in Thread,
                        WaitsFor(t, u), WaitsFor(u, v)
                 PROVE  pc[v] \in Running \/ WaitsFor(v, v) \/ WaitsFor(v, u)
      BY DEF WaitChainsAreShort
    <2>1. CASE pc[u] \in ChainSites /\ chain_lock = v
      BY <2>1 DEF IInv, TypeOK, GuardsMatchOwners, WaitsFor, HoldsChain, HoldsPool,
                  ChainSites, PoolSites, Running
    <2>2. CASE pc[u] \in PoolSites /\ mempool_lock = v
      BY <2>2 DEF IInv, TypeOK, GuardsMatchOwners, WaitsFor, HoldsChain, HoldsPool,
                  ChainSites, PoolSites, Running
    <2> QED
      BY <2>1, <2>2 DEF WaitsFor
  <1> QED
    BY <1>1, Invariance, PTL

\* After a panic at line 232 the mempool and the chain state are out of reach
\* for good.
THEOREM PoisonIsFinal == Spec => PoisonFreezes
  <1>1. IInv /\ [Next]_vars =>
          [poisoned => poisoned' /\ UNCHANGED <<mempool, chain_lock>>]_vars
    <2> SUFFICES ASSUME IInv, Next, poisoned
                 PROVE  poisoned' /\ UNCHANGED <<mempool, chain_lock>>
      OBVIOUS
    <2>1. /\ chain_lock = NoThread
          /\ \A t \in Thread : pc[t] \notin HoldsChain
      BY ThreadAssumption DEF IInv, PoisonedIsFree, GuardsMatchOwners
    <2>2. PICK t \in Thread : Call(t) \/ Step(t)
      BY DEF Next
    <2>3. CASE Call(t)
      BY <2>3 DEF Call, SubmitBegin, SubmitBadSignature, ProduceBegin,
                  GetChainStateBegin, Begin
    <2>4. CASE Step(t)
      BY <2>1, <2>4
         DEF Step, HoldsChain, LockChainState, LockChainStatePoisoned, SubmitBadNonce,
             SubmitNonceOk, SubmitPush, ProduceEmpty, ProduceLockMempool,
             ProduceNoPrevBlock, ProduceGenerate, ProduceRelockPanic,
             GetChainStateReturn, StorageFails
    <2> QED
      BY <2>2, <2>3, <2>4
  <1> QED
    BY <1>1, Invariance, PTL DEF Spec, PoisonFreezes

\* Every submission that returns Ok appends its own transaction, and nothing
\* else ever changes the mempool: no call loses, repeats or removes one.
THEOREM SubmissionIsExact == Spec => AcceptedExactlyOnce
  <1> DEFINE Accepting ==
          {t \in Thread : arg[t] # None /\ arg'[t] = None /\ ret'[t] = "ok"}
  <1>1. ASSUME IInv, Next
        PROVE  \/ Accepting = {} /\ UNCHANGED mempool
               \/ \E t \in Thread :
                     Accepting = {t} /\ mempool' = Append(mempool, arg[t])
    <2>1. PICK t \in Thread : Call(t) \/ Step(t)
      BY <1>1 DEF Next
    <2>2. arg \in [Thread -> Tx \cup {None}] /\ ret \in [Thread -> {"none", "ok", "err", "panic"}]
      BY <1>1 DEF IInv, TypeOK
    <2>3. CASE SubmitPush(t)
      <3>1. mempool' = Append(mempool, arg[t]) /\ Return(t, "ok")
        BY <2>3 DEF SubmitPush
      <3>2. arg[t] # None
        BY <1>1, <2>3, TxAssumption DEF IInv, SubmissionChecked, SubmitPush
      <3>3. Accepting = {t}
        BY <2>2, <3>1, <3>2 DEF Return
      <3> QED
        BY <3>1, <3>3
    <2>4. CASE GetChainStateReturn(t)
      <3>1. UNCHANGED mempool /\ Return(t, "ok")
        BY <2>4 DEF GetChainStateReturn
      <3>2. arg[t] = None
        BY <1>1, <2>4 DEF IInv, SubmissionChecked, GetChainStateReturn
      <3>3. Accepting = {}
        BY <2>2, <3>1, <3>2 DEF Return
      <3> QED
        BY <3>1, <3>3
    <2>5. CASE Call(t)
      <3>1. /\ UNCHANGED mempool
            /\ \/ arg' = arg
               \/ \E tx \in Tx : arg' = [arg EXCEPT ![t] = tx]
               \/ Return(t, "err")
        BY <2>5 DEF Call, SubmitBegin, SubmitBadSignature, ProduceBegin,
                    GetChainStateBegin, Begin
      <3>2. Accepting = {}
        BY <2>2, <3>1, TxAssumption DEF Return
      <3> QED
        BY <3>1, <3>2
    <2>6. CASE Step(t) /\ ~SubmitPush(t) /\ ~GetChainStateReturn(t)
      <3>1. /\ UNCHANGED mempool
            /\ arg' = arg \/ Return(t, "err") \/ Return(t, "panic")
        BY <2>6 DEF Step, LockChainState, LockChainStatePoisoned, SubmitBadNonce,
                    SubmitNonceOk, ProduceEmpty, ProduceLockMempool,
                    ProduceNoPrevBlock, ProduceGenerate, ProduceRelockPanic,
                    StorageFails
      <3>2. Accepting = {}
        BY <2>2, <3>1 DEF Return
      <3> QED
        BY <3>1, <3>2
    <2> QED
      BY <2>1, <2>3, <2>4, <2>5, <2>6
  <1>2. IInv /\ [Next]_vars =>
          [ \/ Accepting = {} /\ UNCHANGED mempool
            \/ \E t \in Thread :
                  Accepting = {t} /\ mempool' = Append(mempool, arg[t]) ]_vars
    BY <1>1
  <1> QED
    BY <1>2, Invariance, PTL DEF Spec, AcceptedExactlyOnce

-----------------------------------------------------------------------------
(* Progress, if every thread that can run is scheduled.                    *)

\* A step of another thread leaves a thread and the chain state it has alone.
LEMMA OthersLeaveAlone ==
  ASSUME IInv, [Next]_vars, NEW t \in Thread
  PROVE  \/ Step(t)
         \/ Call(t) /\ pc[t] = "idle"
         \/ pc'[t] = pc[t] /\ (chain_lock = t => chain_lock' = t)
  <1>1. ASSUME NEW u \in Thread, Call(u), u # t
        PROVE  pc'[t] = pc[t] /\ chain_lock' = chain_lock
    BY <1>1 DEF Call, SubmitBegin, SubmitBadSignature, ProduceBegin, GetChainStateBegin,
                Begin, Return, IInv, TypeOK
  <1>2. ASSUME NEW u \in Thread, Step(u), u # t
        PROVE  pc'[t] = pc[t] /\ (chain_lock = t => chain_lock' = t)
    <2>1. pc'[t] = pc[t]
      BY <1>2 DEF Step, LockChainState, LockChainStatePoisoned, SubmitBadNonce, SubmitNonceOk,
                  SubmitPush, ProduceEmpty, ProduceLockMempool, ProduceNoPrevBlock,
                  ProduceGenerate, ProduceRelockPanic, GetChainStateReturn, StorageFails,
                  Return, IInv, TypeOK
    <2>2. ASSUME chain_lock = t PROVE chain_lock' = t
      <3>1. pc[u] \notin HoldsChain /\ chain_lock # NoThread /\ chain_lock # u
        BY <1>2, <2>2, ThreadAssumption DEF IInv, GuardsMatchOwners
      <3>2. chain_lock' = chain_lock
        BY <1>2, <3>1
           DEF Step, LockChainState, LockChainStatePoisoned, SubmitBadNonce, SubmitNonceOk,
               SubmitPush, ProduceEmpty, ProduceLockMempool, ProduceNoPrevBlock,
               ProduceGenerate, ProduceRelockPanic, GetChainStateReturn, StorageFails,
               HoldsChain
      <3> QED
        BY <2>2, <3>2
    <2> QED
      BY <2>1, <2>2
  <1>3. Call(t) => pc[t] = "idle"
    BY DEF Call, SubmitBegin, SubmitBadSignature, ProduceBegin, GetChainStateBegin, Begin
  <1>4. CASE UNCHANGED vars
    BY <1>4 DEF vars
  <1> QED
    BY <1>1, <1>2, <1>3, <1>4 DEF Next

\* A thread that has the chain state is at one of five lines.
Runs(t) == chain_lock = t /\ pc[t] \in {"submit158", "produce220", "get283"}
Relocks(t) == chain_lock = t /\ pc[t] \in {"submit180", "produce232"}
Has(t) == chain_lock = t
Released(t) == chain_lock # t
Stuck == \E u, v \in Thread : Deadlocked(u, v)

LEMMA WhereHolderIs ==
  ASSUME IInv, NEW t \in Thread, chain_lock = t
  PROVE  Runs(t) \/ Relocks(t)
  BY DEF IInv, GuardsMatchOwners, NoBlockIsEverProduced, HoldsChain, Runs, Relocks

\* From the first three it lets go or comes to one of the other two, from which
\* it lets go.
LEMMA HolderSteps ==
  ASSUME IInv, NEW t \in Thread, Step(t)
  PROVE  /\ Runs(t) => Relocks(t)' \/ Released(t)'
         /\ Relocks(t) => Released(t)'
  <1> USE ThreadAssumption DEF Runs, Relocks, Released
  <1>1. ASSUME chain_lock = t
        PROVE  ~LockChainState(t) /\ ~LockChainStatePoisoned(t)
    BY <1>1 DEF LockChainState, LockChainStatePoisoned
  <1>2. ASSUME Runs(t) PROVE Relocks(t)' \/ Released(t)'
    BY <1>1, <1>2 DEF Step, SubmitBadNonce, SubmitNonceOk, SubmitPush, ProduceEmpty,
             ProduceLockMempool, ProduceNoPrevBlock, ProduceGenerate, ProduceRelockPanic,
             GetChainStateReturn, StorageFails, IInv, TypeOK
  <1>3. ASSUME Relocks(t) PROVE Released(t)'
    BY <1>1, <1>3 DEF Step, SubmitBadNonce, SubmitNonceOk, SubmitPush, ProduceEmpty,
             ProduceLockMempool, ProduceNoPrevBlock, ProduceGenerate, ProduceRelockPanic,
             GetChainStateReturn, StorageFails, IInv, TypeOK
  <1> QED
    BY <1>2, <1>3

\* Whoever has the chain state and cannot go on is in one of the two deadlocks.
LEMMA HolderIsStuckOrGoesOn ==
  ASSUME IInv, NEW t \in Thread, chain_lock = t, Blocked(t)
  PROVE  Stuck
  <1>1. PICK u \in Thread : WaitsFor(t, u) /\ (pc[t] = "produce232" => ~RelockPanics)
    BY DEF Blocked
  <1>2. Runs(t) \/ Relocks(t)
    BY WhereHolderIs
  <1>3. CASE pc[t] \in ChainSites
    <2>1. u = t /\ pc[t] = "produce232"
      BY <1>1, <1>2, <1>3 DEF WaitsFor, ChainSites, PoolSites, Runs, Relocks
    <2>2. Deadlocked(t, t)
      BY <1>1, <2>1 DEF Deadlocked
    <2> QED
      BY <2>2 DEF Stuck
  <1>4. CASE pc[t] \notin ChainSites
    <2>1. pc[t] = "submit180" /\ mempool_lock = u
      BY <1>1, <1>2, <1>4 DEF WaitsFor, ChainSites, PoolSites, Runs, Relocks
    <2>2. pc[u] = "produce217"
      BY <2>1 DEF IInv, GuardsMatchOwners, HoldsChain, HoldsPool
    <2>3. WaitsFor(u, t) /\ u # t
      BY <2>1, <2>2 DEF WaitsFor, ChainSites
    <2>4. Deadlocked(t, u)
      BY <1>1, <2>3 DEF Deadlocked
    <2> QED
      BY <2>4 DEF Stuck
  <1> QED
    BY <1>3, <1>4

\* One thread: it leaves the lines on which it holds the chain state.
LEMMA HolderLetsGo ==
  ASSUME NEW t \in Thread
  PROVE  Spec /\ FairThread(t) /\ []OnlyLocksBlock => (Has(t) ~> Released(t) \/ Stuck)
  <1>1. IInv => (Has(t) => Runs(t) \/ Relocks(t))
    BY WhereHolderIs DEF Has
  <1>2. IInv /\ OnlyLocksBlock => (Runs(t) \/ Relocks(t) => Stuck \/ ENABLED <<Step(t)>>_vars)
    <2>1. IInv => (Runs(t) \/ Relocks(t) => pc[t] # "idle" /\ (Blocked(t) => Stuck))
      BY HolderIsStuckOrGoesOn DEF Runs, Relocks
    <2> QED
      BY <2>1, Zenon DEF OnlyLocksBlock
  <1>3. IInv /\ [Next]_vars /\ Runs(t) => Runs(t)' \/ Relocks(t)' \/ Released(t)'
    BY OthersLeaveAlone, HolderSteps DEF Runs
  <1>4. IInv /\ Runs(t) /\ <<Step(t)>>_vars => Relocks(t)' \/ Released(t)'
    BY HolderSteps
  <1>5. IInv /\ [Next]_vars /\ Relocks(t) => Relocks(t)' \/ Released(t)'
    BY OthersLeaveAlone, HolderSteps DEF Relocks
  <1>6. IInv /\ Relocks(t) /\ <<Step(t)>>_vars => Released(t)'
    BY HolderSteps
  <1> QED
    BY <1>1, <1>2, <1>3, <1>4, <1>5, <1>6, Invariance, PTL DEF Spec, FairThread

\* Every thread that has the chain state lets go of it, on every path through
\* the three calls and with any number of threads and calls, unless one of the
\* two deadlocks forms, if the scheduler is fair and only locks block (which the
\* runtime run checks as part of EveryCallReturns).
THEOREM ChainStateIsReleased ==
  FairSpec /\ []OnlyLocksBlock => \A t \in Thread : Has(t) ~> Released(t) \/ Stuck
  <1> SUFFICES ASSUME NEW t \in Thread
               PROVE  FairSpec /\ []OnlyLocksBlock => (Has(t) ~> Released(t) \/ Stuck)
    OBVIOUS
  <1>1. FairSpec => Spec /\ FairThread(t)
    BY Zenon DEF FairSpec
  <1>2. Spec /\ FairThread(t) /\ []OnlyLocksBlock => (Has(t) ~> Released(t) \/ Stuck)
    BY HolderLetsGo, Zenon
  <1> QED
    BY <1>1, <1>2, PTL

\* A thread is at a lock() call on a chain state that is poisoned.
AtPoison(t) == poisoned /\ pc[t] \in ChainSites
Idle(t) == pc[t] = "idle"

\* The poison stays, and the only step of such a thread is to return the error.
LEMMA PoisonedStep ==
  ASSUME IInv, NEW t \in Thread, AtPoison(t)
  PROVE  /\ [Next]_vars => AtPoison(t)' \/ Idle(t)'
         /\ Step(t) => Idle(t)'
         /\ ~Blocked(t)
  <1>1. ~Blocked(t)
    BY ThreadAssumption DEF AtPoison, Blocked, WaitsFor, IInv, PoisonedIsFree, ChainSites,
                            PoolSites
  <1>2. ASSUME Step(t) PROVE Idle(t)'
    <2>1. LockChainStatePoisoned(t)
      BY <1>2, ThreadAssumption
         DEF AtPoison, ChainSites, IInv, PoisonedIsFree, Step, LockChainState, SubmitBadNonce,
             SubmitNonceOk, SubmitPush, ProduceEmpty, ProduceLockMempool, ProduceNoPrevBlock,
             ProduceGenerate, ProduceRelockPanic, GetChainStateReturn, StorageFails
    <2> QED
      BY <2>1 DEF LockChainStatePoisoned, Return, Idle, IInv, TypeOK
  <1>3. ASSUME [Next]_vars PROVE poisoned'
    <2>1. ASSUME NEW u \in Thread, Step(u) \/ Call(u) PROVE poisoned'
      BY <2>1, Zenon
         DEF AtPoison, Call, SubmitBegin, SubmitBadSignature, ProduceBegin, GetChainStateBegin,
             Begin, Step, LockChainState, LockChainStatePoisoned, SubmitBadNonce,
             SubmitNonceOk, SubmitPush, ProduceEmpty, ProduceLockMempool, ProduceNoPrevBlock,
             ProduceGenerate, ProduceRelockPanic, GetChainStateReturn, StorageFails
    <2> QED
      BY <1>3, <2>1, Zenon DEF Next, vars, AtPoison
  <1>4. ASSUME [Next]_vars PROVE AtPoison(t)' \/ Idle(t)'
    <2>1. Step(t) \/ pc'[t] = pc[t]
      BY <1>4, OthersLeaveAlone DEF AtPoison, ChainSites
    <2> QED
      BY <1>2, <1>3, <1>4, <2>1, Zenon DEF AtPoison
  <1> QED
    BY <1>1, <1>2, <1>4

\* One thread: it waits for no one, and returns.
LEMMA PoisonedReturns ==
  ASSUME NEW t \in Thread
  PROVE  Spec /\ FairThread(t) /\ []OnlyLocksBlock => (AtPoison(t) ~> Idle(t))
  <1>1. IInv /\ [Next]_vars /\ AtPoison(t) => AtPoison(t)' \/ Idle(t)'
    BY PoisonedStep
  <1>2. IInv /\ AtPoison(t) /\ <<Step(t)>>_vars => Idle(t)'
    BY PoisonedStep
  <1>3. IInv /\ OnlyLocksBlock => (AtPoison(t) => ENABLED <<Step(t)>>_vars)
    <2>1. IInv => (AtPoison(t) => pc[t] # "idle" /\ ~Blocked(t))
      BY PoisonedStep DEF AtPoison, ChainSites
    <2> QED
      BY <2>1, Zenon DEF OnlyLocksBlock
  <1> QED
    BY <1>1, <1>2, <1>3, Invariance, PTL DEF Spec, FairThread

\* Once the chain state is poisoned, every call at one of the lock() calls on
\* it returns, with any number of threads and calls: the panic at line 232
\* leaves no one waiting for its guard.
THEOREM PoisonReleasesCallers ==
  FairSpec /\ []OnlyLocksBlock => \A t \in Thread : AtPoison(t) ~> Idle(t)
  <1> SUFFICES ASSUME NEW t \in Thread
               PROVE  FairSpec /\ []OnlyLocksBlock => (AtPoison(t) ~> Idle(t))
    OBVIOUS
  <1>1. FairSpec => Spec /\ FairThread(t)
    BY Zenon DEF FairSpec
  <1>2. Spec /\ FairThread(t) /\ []OnlyLocksBlock => (AtPoison(t) ~> Idle(t))
    BY PoisonedReturns, Zenon
  <1> QED
    BY <1>1, <1>2, PTL

=============================================================================
