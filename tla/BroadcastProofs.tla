-------------------------- MODULE BroadcastProofs --------------------------
(***************************************************************************)
(* What Broadcast promises for every number of tasks, ids and addresses,   *)
(* however the hosts behave.                                               *)
(***************************************************************************)
EXTENDS Broadcast, FunctionTheorems, FiniteSetTheorems, TLAPS

-----------------------------------------------------------------------------
(* The inductive invariant.                                                *)

\* A task starts at the first peer and ends past the last.
LoopIsWhole ==
    \A b \in Task :
        /\ pc[b] = "discover" => i[b] = 1
        /\ pc[b] = "done" => i[b] = Len(peers[b]) + 1

\* Only so many peers are ever known.
FinitelyManyKnown == IsFiniteSet(DOMAIN known_peers)

IInv ==
    /\ TypeOK
    /\ FinitelyManyKnown
    /\ LoopIsWhole
    /\ GoodHostsAreTold
    /\ NoneIsToldTwice

-----------------------------------------------------------------------------
(* The operators of the model.                                             *)

\* Passing place n of a snapshot adds n to the places an address is listed
\* at exactly when it is listed there.
LEMMA ListedGrows ==
  ASSUME NEW order, NEW n \in Nat \ {0}, NEW a
  PROVE  /\ Cardinality(Listed(order, n - 1, a)) \in Nat
         /\ order[n].address = a =>
               Cardinality(Listed(order, n, a)) = Cardinality(Listed(order, n - 1, a)) + 1
         /\ order[n].address # a =>
               Listed(order, n, a) = Listed(order, n - 1, a)
  <1>1. IsFiniteSet(Listed(order, n - 1, a))
    <2>1. IsFiniteSet(1 .. n - 1)
      BY FS_Interval
    <2>2. Listed(order, n - 1, a) \in SUBSET (1 .. n - 1)
      BY DEF Listed
    <2> QED
      BY <2>1, <2>2, FS_Subset
  <1>2. ASSUME order[n].address = a
        PROVE  Listed(order, n, a) = Listed(order, n - 1, a) \cup {n}
    BY <1>2 DEF Listed
  <1>3. n \notin Listed(order, n - 1, a)
    BY DEF Listed
  <1>4. Cardinality(Listed(order, n - 1, a)) \in Nat
    BY <1>1, FS_CardinalityType
  <1>5. Cardinality(Listed(order, n - 1, a) \cup {n}) =
            Cardinality(Listed(order, n - 1, a)) + 1
    BY <1>1, <1>3, FS_AddElement
  <1>6. order[n].address # a => Listed(order, n, a) = Listed(order, n - 1, a)
    BY DEF Listed
  <1> QED
    BY <1>2, <1>4, <1>5, <1>6

\* At the first peer nothing has been passed yet.
LEMMA NothingListed ==
  ASSUME NEW order, NEW a
  PROVE  Cardinality(Listed(order, 0, a)) = 0
  <1>1. Listed(order, 0, a) = {}
    BY DEF Listed
  <1> QED
    BY <1>1, FS_EmptySet

Entries(known) == {[id |-> k, address |-> known[k]] : k \in DOMAIN known}

\* Iterating over a finite map lists every entry once and nothing else.
LEMMA IterationIsComplete ==
  ASSUME NEW known, IsFiniteSet(DOMAIN known),
         NEW order \in SetToSeqs(Entries(known))
  PROVE  /\ order \in Seq(Entries(known))
         /\ \A e \in Entries(known) : \E k \in 1 .. Len(order) : order[k] = e
         /\ \A k, l \in 1 .. Len(order) : order[k].id = order[l].id => k = l
  <1> DEFINE S == Entries(known)
             f == [k \in DOMAIN known |-> [id |-> k, address |-> known[k]]]
  <1>1. f \in Surjection(DOMAIN known, S)
    BY Fun_IsSurj DEF Entries
  <1>2. IsFiniteSet(S)
    BY <1>1, FS_Surjection
  <1>3. Cardinality(S) \in Nat
    BY <1>2, FS_CardinalityType
  <1> DEFINE D == 1 .. Cardinality(S)
  <1>4. /\ order \in [D -> S]
        /\ \A k, l \in D : k # l => order[k] # order[l]
    BY DEF SetToSeqs
  <1>5. order \in Injection(D, S)
    BY <1>4, Fun_IsInj
  <1>6. IsFiniteSet(D) /\ Cardinality(D) = Cardinality(S)
    BY <1>3, FS_Interval
  <1>7. order \in Surjection(D, S)
    BY <1>2, <1>5, <1>6, FS_Injection
  <1>8. \A e \in S : \E k \in D : order[k] = e
    BY <1>7 DEF Surjection
  <1>9. order \in Seq(S) /\ Len(order) = Cardinality(S)
    BY <1>3, <1>4
  <1>10. \A k, l \in D : order[k].id = order[l].id => order[k] = order[l]
    BY <1>4 DEF Entries
  <1> QED
    BY <1>4, <1>8, <1>9, <1>10

-----------------------------------------------------------------------------
(* The inductive invariant.                                                *)

\* It holds before any peer is known.
LEMMA InitEstablishes == Init => IInv
  <1> SUFFICES ASSUME Init PROVE IInv
    OBVIOUS
  <1>1. DOMAIN known_peers = {}
    BY DEF Init
  <1>2. TypeOK
    BY <1>1 DEF Init, TypeOK
  <1>3. FinitelyManyKnown
    BY <1>1, FS_EmptySet DEF FinitelyManyKnown
  <1>4. LoopIsWhole
    BY DEF Init, LoopIsWhole
  <1>5. \A b \in Task : \A a \in Address :
            told[b][a] = Cardinality(Listed(peers[b], i[b] - 1, a))
    BY NothingListed DEF Init
  <1>6. GoodHostsAreTold /\ NoneIsToldTwice
    BY <1>5 DEF Init, GoodHostsAreTold, NoneIsToldTwice
  <1> QED
    BY <1>2, <1>3, <1>4, <1>6 DEF IInv

\* add_peer disturbs no broadcast that is under way.
LEMMA AddPeerPreserves ==
  ASSUME IInv, NEW id \in Id, NEW address \in Address, AddPeer(id, address)
  PROVE  IInv'
  <1> USE DEF IInv, AddPeer, add_peer
  <1>1. DOMAIN known_peers' = DOMAIN known_peers \cup {id}
    OBVIOUS
  <1>2. FinitelyManyKnown'
    BY <1>1, FS_AddElement DEF FinitelyManyKnown
  <1>3. TypeOK'
    BY <1>1 DEF TypeOK
  <1>4. LoopIsWhole' /\ GoodHostsAreTold' /\ NoneIsToldTwice'
    BY DEF LoopIsWhole, GoodHostsAreTold, NoneIsToldTwice
  <1> QED
    BY <1>2, <1>3, <1>4

\* The snapshot is taken before anyone has been told.
LEMMA DiscoverPreserves ==
  ASSUME IInv, NEW b \in Task, Discover(b)
  PROVE  IInv'
  <1> USE DEF IInv
  <1>1. PICK order \in SetToSeqs(Entries(known_peers)) :
            peers' = [peers EXCEPT ![b] = order]
    BY DEF Discover, Entries
  <1>2. /\ order \in Seq(Entries(known_peers))
        /\ \A k, l \in 1 .. Len(order) : order[k].id = order[l].id => k = l
    BY IterationIsComplete DEF FinitelyManyKnown
  <1>3. Entries(known_peers) \subseteq Peer
    BY DEF Entries, Peer, TypeOK
  <1>4. order \in Seq(Peer)
    BY <1>2, <1>3
  <1>5. i[b] = 1
    BY DEF Discover, LoopIsWhole
  <1>6. TypeOK'
    <2>1. peers' \in [Task -> Seq(Peer)]
      BY <1>1, <1>4 DEF TypeOK
    <2>2. pc' \in [Task -> {"discover", "connect", "send", "done"}]
      BY DEF TypeOK, Discover
    <2>3. ASSUME NEW c \in Task
          PROVE  /\ \A k, l \in DOMAIN peers'[c] :
                        peers'[c][k].id = peers'[c][l].id => k = l
                 /\ i[c] \in 1 .. Len(peers'[c]) + 1
                 /\ pc'[c] = "send" => i[c] <= Len(peers'[c])
      <3>1. CASE c = b
        <4>1. peers'[c] = order /\ pc'[c] = "connect"
          BY <1>1, <3>1 DEF TypeOK, Discover
        <4>2. DOMAIN order = 1 .. Len(order) /\ Len(order) \in Nat
          BY <1>4
        <4> QED
          BY <1>2, <1>5, <3>1, <4>1, <4>2
      <3>2. CASE c # b
        <4>1. peers'[c] = peers[c] /\ pc'[c] = pc[c]
          BY <1>1, <3>2 DEF TypeOK, Discover
        <4> QED
          BY <4>1 DEF TypeOK
      <3> QED
        BY <3>1, <3>2
    <2> QED
      BY <2>1, <2>2, <2>3 DEF TypeOK, Discover
  <1>7. LoopIsWhole' /\ FinitelyManyKnown'
    BY <1>1 DEF TypeOK, LoopIsWhole, FinitelyManyKnown, Discover
  <1>8. \A a \in Address :
            /\ Cardinality(Listed(peers[b], i[b] - 1, a)) = 0
            /\ Cardinality(Listed(order, i[b] - 1, a)) = 0
    BY <1>5, NothingListed
  <1>9. GoodHostsAreTold' /\ NoneIsToldTwice'
    BY <1>1, <1>8 DEF TypeOK, GoodHostsAreTold, NoneIsToldTwice, Discover
  <1> QED
    BY <1>6, <1>7, <1>9

\* Moving on to the next peer keeps the counts right when the host that is
\* passed has been told, or is not a good one.
LEMMA NextPeerPreserves ==
  ASSUME IInv, NEW b \in Task, pc[b] \in {"connect", "send"}, i[b] <= Len(peers[b]),
         NextPeer(b),
         Reach(b) \/ (UNCHANGED told /\ HostOf(b) # "good")
  PROVE  IInv'
  <1> USE DEF IInv, NextPeer
  <1> DEFINE n == i[b]
             here == peers[b][n].address
  <1>1. n \in Nat \ {0} /\ n \in 1 .. Len(peers[b]) /\ peers[b] \in Seq(Peer)
    BY DEF TypeOK
  <1>2. here \in Address
    <2>1. peers[b][n] \in Peer
      BY <1>1
    <2> QED
      BY <2>1 DEF Peer
  <1>3. TypeOK'
    <2>1. told' \in [Task -> [Address -> Nat]]
      <3>1. told \in [Task -> [Address -> Nat]] /\ told[b] \in [Address -> Nat]
        BY DEF TypeOK
      <3>2. CASE Reach(b)
        <4>1. [told[b] EXCEPT ![here] = @ + 1] \in [Address -> Nat]
          BY <1>2, <3>1
        <4>2. told' = [told EXCEPT ![b] = [told[b] EXCEPT ![here] = @ + 1]]
          BY <3>2 DEF Reach
        <4> QED
          BY <3>1, <4>1, <4>2
      <3> QED
        BY <3>1, <3>2
    <2>2. /\ i' \in [Task -> Nat]
          /\ pc' \in [Task -> {"discover", "connect", "send", "done"}]
      BY <1>1 DEF TypeOK
    <2>3. ASSUME NEW c \in Task
          PROVE  /\ i'[c] \in 1 .. Len(peers[c]) + 1
                 /\ pc'[c] = "send" => i'[c] <= Len(peers[c])
      BY <1>1 DEF TypeOK
    <2> QED
      BY <2>1, <2>2, <2>3 DEF TypeOK
  <1>4. LoopIsWhole' /\ FinitelyManyKnown'
    BY DEF TypeOK, LoopIsWhole, FinitelyManyKnown
  <1>5. i'[b] - 1 = n
    BY <1>1 DEF TypeOK
  <1>6. \A a \in Address :
          /\ Cardinality(Listed(peers[b], n - 1, a)) \in Nat
          /\ a = here => Cardinality(Listed(peers[b], n, a)) =
                             Cardinality(Listed(peers[b], n - 1, a)) + 1
          /\ a # here => Cardinality(Listed(peers[b], n, a)) =
                             Cardinality(Listed(peers[b], n - 1, a))
    BY <1>1, ListedGrows
  <1>7. ASSUME NEW c \in Task, c # b
        PROVE  told'[c] = told[c] /\ i'[c] = i[c] /\ pc'[c] = pc[c]
    BY <1>7 DEF TypeOK, Reach
  <1>8. \A a \in Address :
          /\ told[b][a] \in Nat
          /\ told'[b][a] = IF Reach(b) /\ a = here THEN told[b][a] + 1 ELSE told[b][a]
    BY DEF TypeOK, Reach
  <1>9. pc'[b] = "connect"
    BY DEF TypeOK
  <1>10. NoneIsToldTwice'
    <2>1. \A a \in Address : told'[b][a] <= Cardinality(Listed(peers[b], n, a))
      BY <1>6, <1>8 DEF NoneIsToldTwice
    <2> QED
      BY <1>5, <1>7, <2>1 DEF NoneIsToldTwice
  <1>11. GoodHostsAreTold'
    <2>1. \A a \in Address :
              host[a] = "good" => told'[b][a] = Cardinality(Listed(peers[b], n, a))
      BY <1>6, <1>8 DEF GoodHostsAreTold, HostOf
    <2> QED
      BY <1>5, <1>7, <1>9, <2>1 DEF GoodHostsAreTold
  <1> QED
    BY <1>3, <1>4, <1>10, <1>11

\* Every step of every task and every add_peer preserves the invariant.
LEMMA StepPreserves == IInv /\ [Next]_vars => IInv'
  <1> SUFFICES ASSUME IInv, [Next]_vars PROVE IInv'
    OBVIOUS
  <1>1. ASSUME NEW b \in Task, Step(b)
        PROVE  IInv'
    <2>1. CASE Discover(b)
      BY <2>1, DiscoverPreserves
    <2>2. CASE ConnectOk(b)
      <3>1. TypeOK' /\ FinitelyManyKnown' /\ LoopIsWhole'
        BY <2>2 DEF IInv, TypeOK, FinitelyManyKnown, LoopIsWhole, ConnectOk, AtPeer
      <3>2. GoodHostsAreTold' /\ NoneIsToldTwice'
        BY <2>2 DEF IInv, TypeOK, GoodHostsAreTold, NoneIsToldTwice, ConnectOk
      <3> QED
        BY <3>1, <3>2 DEF IInv
    <2>3. CASE ConnectRefused(b) \/ ConnectTimesOut(b)
      BY <2>3, NextPeerPreserves DEF ConnectRefused, ConnectTimesOut, AtPeer
    <2>4. CASE SendOk(b) \/ SendFails(b)
      <3>1. i[b] <= Len(peers[b])
        BY <2>4 DEF IInv, TypeOK, SendOk, SendFails
      <3> QED
        BY <2>4, <3>1, NextPeerPreserves DEF SendOk, SendFails
    <2>5. CASE Return(b)
      <3>1. i[b] - 1 = Len(peers[b]) /\ i[b] = Len(peers[b]) + 1
        BY <2>5 DEF IInv, TypeOK, Return
      <3>2. TypeOK' /\ FinitelyManyKnown' /\ LoopIsWhole'
        BY <2>5, <3>1 DEF IInv, TypeOK, FinitelyManyKnown, LoopIsWhole, Return
      <3>3. GoodHostsAreTold' /\ NoneIsToldTwice'
        BY <2>5, <3>1 DEF IInv, TypeOK, GoodHostsAreTold, NoneIsToldTwice, Return
      <3> QED
        BY <3>2, <3>3 DEF IInv
    <2> QED
      BY <1>1, <2>1, <2>2, <2>3, <2>4, <2>5 DEF Step
  <1>2. CASE UNCHANGED vars
    BY <1>2 DEF IInv, TypeOK, FinitelyManyKnown, LoopIsWhole, GoodHostsAreTold,
                NoneIsToldTwice, vars
  <1> QED
    BY <1>1, <1>2, AddPeerPreserves DEF Next

\* Every reachable state satisfies the inductive invariant.
THEOREM Invariance == Spec => []IInv
  BY InitEstablishes, StepPreserves, PTL DEF Spec

-----------------------------------------------------------------------------

\* The map, the snapshots and the loop indices of broadcast_block keep their
\* types, with any number of peers and of broadcasts.
THEOREM TypeCorrect == Spec => []TypeOK
  <1>1. IInv => TypeOK
    BY DEF IInv
  <1> QED
    BY <1>1, Invariance, PTL

\* No peer that refuses, stays silent or breaks off keeps a good host of the
\* snapshot from hearing of the block, once for every id that lives there.
THEOREM Delivery == Spec => []GoodHostsAreTold
  <1>1. IInv => GoodHostsAreTold
    BY DEF IInv
  <1> QED
    BY <1>1, Invariance, PTL

\* broadcast_block tells no host of a block more often than it is listed.
THEOREM AtMostOnce == Spec => []NoneIsToldTwice
  <1>1. IInv => NoneIsToldTwice
    BY DEF IInv
  <1> QED
    BY <1>1, Invariance, PTL

-----------------------------------------------------------------------------
(* Progress, if every task that can run is run.                            *)

\* Task b is at its n-th peer, connected or not yet; or it has passed it.
Connecting(b, n) == pc[b] = "connect" /\ i[b] = n
Sending(b, n) == pc[b] = "send" /\ i[b] = n
Passed(b, n) == pc[b] = "done" \/ i[b] = n + 1

\* The steps of the task itself: from a peer the loop goes on to the next one,
\* over its connection or not.
LEMMA PeerSteps ==
  ASSUME IInv, NEW b \in Task, NEW n \in Nat, Step(b)
  PROVE  /\ Connecting(b, n) => Sending(b, n)' \/ Passed(b, n)'
         /\ Sending(b, n) => Passed(b, n)'
  BY DEF IInv, TypeOK, Connecting, Sending, Passed, Step, Discover, ConnectOk, ConnectRefused,
         ConnectTimesOut, SendOk, SendFails, Return, AtPeer, NextPeer

\* No other task and no add_peer moves it.
LEMMA OthersLeaveAlone ==
  ASSUME IInv, [Next]_vars, NEW b \in Task, ~Step(b)
  PROVE  pc'[b] = pc[b] /\ i'[b] = i[b]
  <1>1. CASE UNCHANGED vars
    BY <1>1 DEF vars
  <1>2. ASSUME NEW id \in Id, NEW address \in Address, AddPeer(id, address)
        PROVE  pc'[b] = pc[b] /\ i'[b] = i[b]
    BY <1>2 DEF AddPeer
  <1>3. ASSUME NEW c \in Task, Step(c), c # b
        PROVE  pc'[b] = pc[b] /\ i'[b] = i[b]
    BY <1>3 DEF IInv, TypeOK, Step, Discover, ConnectOk, ConnectRefused, ConnectTimesOut,
                SendOk, SendFails, Return, NextPeer
  <1> QED
    BY <1>1, <1>2, <1>3 DEF Next

\* One task at one peer.
LEMMA PeerIsPassed ==
  ASSUME NEW b \in Task, NEW n \in Nat
  PROVE  Spec /\ FairTask(b) /\ []NeverBlocked =>
             (Connecting(b, n) \/ Sending(b, n) ~> Passed(b, n))
  <1>1. NeverBlocked => (Connecting(b, n) \/ Sending(b, n) => ENABLED <<Step(b)>>_vars)
    <2>1. Connecting(b, n) \/ Sending(b, n) => pc[b] # "done"
      BY DEF Connecting, Sending
    <2> QED
      BY <2>1, Zenon DEF NeverBlocked
  <1>2. IInv /\ [Next]_vars /\ Connecting(b, n) =>
            Connecting(b, n)' \/ Sending(b, n)' \/ Passed(b, n)'
    BY PeerSteps, OthersLeaveAlone DEF Connecting
  <1>3. IInv /\ Connecting(b, n) /\ <<Step(b)>>_vars => Sending(b, n)' \/ Passed(b, n)'
    BY PeerSteps
  <1>4. IInv /\ [Next]_vars /\ Sending(b, n) => Sending(b, n)' \/ Passed(b, n)'
    BY PeerSteps, OthersLeaveAlone DEF Sending
  <1>5. IInv /\ Sending(b, n) /\ <<Step(b)>>_vars => Passed(b, n)'
    BY PeerSteps
  <1> QED
    BY <1>1, <1>2, <1>3, <1>4, <1>5, Invariance, PTL DEF Spec, FairTask

\* No peer holds a broadcast up: from every place of its snapshot the loop of
\* broadcast_block comes to the next one or returns, whatever kind of host is
\* there and with any number of peers and broadcasts, if tokio runs every task
\* that can run and none is blocked (which the broadcast run checks as part of
\* EveryBroadcastEnds).
THEOREM NoPeerHoldsUp ==
  FairSpec /\ []NeverBlocked =>
      \A b \in Task : \A n \in Nat : Connecting(b, n) \/ Sending(b, n) ~> Passed(b, n)
  <1> SUFFICES ASSUME NEW b \in Task, NEW n \in Nat
               PROVE  FairSpec /\ []NeverBlocked =>
                          (Connecting(b, n) \/ Sending(b, n) ~> Passed(b, n))
    OBVIOUS
  <1>1. FairSpec => Spec /\ FairTask(b)
    BY Zenon DEF FairSpec
  <1>2. Spec /\ FairTask(b) /\ []NeverBlocked =>
            (Connecting(b, n) \/ Sending(b, n) ~> Passed(b, n))
    BY PeerIsPassed, Zenon
  <1> QED
    BY <1>1, <1>2, PTL

=============================================================================
