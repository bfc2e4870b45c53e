----------------------------- MODULE Broadcast -----------------------------
(***************************************************************************)
(* discover_peers and broadcast_block of src/sync.rs, as the task that     *)
(* produce_block spawns in src/runtime.rs runs them: a snapshot of the     *)
(* known peers is taken under their mutex, and the peers in it are told of *)
(* a block one after the other, without the mutex, while add_peer goes on  *)
(* and other broadcasts run.  Hosts (external) differ in how they answer.  *)
(***************************************************************************)
EXTENDS Naturals, FiniteSets, Sequences, SequencesExt

CONSTANTS
    Task,       \* the broadcasts, one block each
    Id,         \* the peers' keys
    Address     \* the addresses callers of add_peer pass

\* good hosts accept and read, silent ones leave a connection unanswered, and
\* with flaky ones every call on the socket may succeed or fail
HostKind == {"good", "silent", "flaky"}

VARIABLES
    host,         \* the kind of the host at each address
    known_peers,  \* the address of each known peer
    pc,           \* where each task is
    peers,        \* the snapshot it works on
    i,            \* the index of the peer it is at
    told          \* how often it has reached each address

vars == <<host, known_peers, pc, peers, i, told>>

Init ==
    /\ host \in [Address -> HostKind]
    /\ known_peers = << >>
    /\ pc = [b \in Task |-> "discover"]
    /\ peers = [b \in Task |-> << >>]
    /\ i = [b \in Task |-> 1]
    /\ told = [b \in Task |-> [a \in Address |-> 0]]

\* a peer that is known already gets the new address
add_peer(id, address) ==
    known_peers' = [k \in DOMAIN known_peers \cup {id} |->
                        IF k = id THEN address ELSE known_peers[k]]

AddPeer(id, address) ==
    /\ add_peer(id, address)
    /\ UNCHANGED <<host, pc, peers, i, told>>

\* the map is iterated in any order
Discover(b) ==
    /\ pc[b] = "discover"
    /\ \E order \in SetToSeqs({[id |-> k, address |-> known_peers[k]] : k \in DOMAIN known_peers}) :
          peers' = [peers EXCEPT ![b] = order]
    /\ pc' = [pc EXCEPT ![b] = "connect"]
    /\ UNCHANGED <<host, known_peers, i, told>>

-----------------------------------------------------------------------------
(* The body of the loop of broadcast_block.                                *)

HostOf(b) == host[peers[b][i[b]].address]

AtPeer(b) == pc[b] = "connect" /\ i[b] <= Len(peers[b])

ConnectOk(b) ==
    /\ AtPeer(b)
    /\ HostOf(b) # "silent"
    /\ pc' = [pc EXCEPT ![b] = "send"]
    /\ UNCHANGED <<host, known_peers, peers, i, told>>

\* fault: the index is advanced once more
NextPeer_Twice(b) ==
    /\ i' = [i EXCEPT ![b] = @ + 2]
    /\ pc' = [pc EXCEPT ![b] = "connect"]
    /\ UNCHANGED <<host, known_peers, peers>>

NextPeer(b) ==
    /\ i' = [i EXCEPT ![b] = @ + 1]
    /\ pc' = [pc EXCEPT ![b] = "connect"]
    /\ UNCHANGED <<host, known_peers, peers>>

ConnectRefused(b) ==
    /\ AtPeer(b)
    /\ HostOf(b) = "flaky"
    /\ NextPeer(b)
    /\ UNCHANGED told

\* fault: a timeout ends the broadcast
ConnectTimesOut_Returns(b) ==
    /\ AtPeer(b)
    /\ HostOf(b) # "good"
    /\ pc' = [pc EXCEPT ![b] = "done"]
    /\ UNCHANGED <<host, known_peers, peers, i, told>>

\* timeout(Duration::from_secs(2), ...)
ConnectTimesOut(b) ==
    /\ AtPeer(b)
    /\ HostOf(b) # "good"
    /\ NextPeer(b)
    /\ UNCHANGED told

Reach(b) == told' = [told EXCEPT ![b][peers[b][i[b]].address] = @ + 1]

SendOk(b) ==
    /\ pc[b] = "send"
    /\ Reach(b)
    /\ NextPeer(b)

\* fault: the error ends the broadcast
SendFails_Returns(b) ==
    /\ pc[b] = "send"
    /\ HostOf(b) = "flaky"
    /\ pc' = [pc EXCEPT ![b] = "done"]
    /\ UNCHANGED <<host, known_peers, peers, i, told>>

\* fault: the peer is tried again
SendFails_Retries(b) ==
    /\ pc[b] = "send"
    /\ HostOf(b) = "flaky"
    /\ told[b][peers[b][i[b]].address] < 2
    /\ Reach(b)
    /\ pc' = [pc EXCEPT ![b] = "connect"]
    /\ UNCHANGED <<host, known_peers, peers, i>>

\* fault: a peer whose socket breaks is connected to again
SendFails_Reconnects(b) ==
    /\ pc[b] = "send"
    /\ HostOf(b) = "flaky"
    /\ pc' = [pc EXCEPT ![b] = "connect"]
    /\ UNCHANGED <<host, known_peers, peers, i, told>>

\* the error is printed; the announcement may have got through all the same
SendFails(b) ==
    /\ pc[b] = "send"
    /\ HostOf(b) = "flaky"
    /\ Reach(b) \/ UNCHANGED told
    /\ NextPeer(b)

\* Ok(()), whatever became of the peers
Return(b) ==
    /\ pc[b] = "connect"
    /\ i[b] > Len(peers[b])
    /\ pc' = [pc EXCEPT ![b] = "done"]
    /\ UNCHANGED <<host, known_peers, peers, i, told>>

-----------------------------------------------------------------------------
Step(b) ==
    \/ Discover(b) \/ ConnectOk(b) \/ ConnectRefused(b) \/ ConnectTimesOut(b)
    \/ SendOk(b) \/ SendFails(b) \/ Return(b)

Next ==
    \/ \E id \in Id, address \in Address : AddPeer(id, address)
    \/ \E b \in Task : Step(b)

Spec == Init /\ [][Next]_vars

\* tokio runs every task that can run; the timer ends a connect after 2 s, and
\* the 48 bytes of an announcement fit the buffer of a new socket.
FairTask(b) == WF_vars(Step(b))

FairSpec == Spec /\ \A b \in Task : FairTask(b)

-----------------------------------------------------------------------------
(* Properties.                                                             *)

Peer == [id : Id, address : Address]

\* the places among the first n of a snapshot at which an address is listed
Listed(order, n, address) == {k \in 1 .. n : order[k].address = address}

\* The known peers are a map from ids to addresses, a snapshot lists no id
\* twice, and a task is at one of its peers or past the last.
TypeOK ==
    /\ host \in [Address -> HostKind]
    /\ DOMAIN known_peers \subseteq Id
    /\ \A id \in DOMAIN known_peers : known_peers[id] \in Address
    /\ pc \in [Task -> {"discover", "connect", "send", "done"}]
    /\ peers \in [Task -> Seq(Peer)]
    /\ i \in [Task -> Nat]
    /\ told \in [Task -> [Address -> Nat]]
    /\ \A b \in Task :
          /\ \A k, l \in DOMAIN peers[b] : peers[b][k].id = peers[b][l].id => k = l
          /\ i[b] \in 1 .. Len(peers[b]) + 1
          /\ pc[b] = "send" => i[b] <= Len(peers[b])

\* Whichever peers refuse, stay silent or break off, and whatever add_peer and
\* other broadcasts do meanwhile, the good hosts of the snapshot that the loop
\* of broadcast_block has passed have heard of the block, once for every id
\* that lives there, and when it is done that is all of them.
GoodHostsAreTold ==
    \A b \in Task : \A a \in Address :
        host[a] = "good" =>
            /\ told[b][a] = Cardinality(Listed(peers[b], i[b] - 1, a))
            /\ pc[b] = "done" =>
                  told[b][a] = Cardinality(Listed(peers[b], Len(peers[b]), a))

\* No host hears of a block more often than ids of the snapshot live there,
\* although a failed send may have delivered: broadcast_block never retries.
NoneIsToldTwice ==
    \A b \in Task : \A a \in Address :
        told[b][a] <= Cardinality(Listed(peers[b], i[b] - 1, a))

KnownAt(id, a) == id \in DOMAIN known_peers /\ known_peers[id] = a

\* A peer that is known, at a good host, to a broadcast that has not taken its
\* snapshot yet is told of the block at that address, unless add_peer moves it
\* before the snapshot: moving it afterwards, peers that fail or stay silent
\* before its turn and other broadcasts do not cost it the announcement.
KnownPeersAreTold ==
    \A b \in Task, id \in Id, a \in Address :
        (pc[b] = "discover" /\ host[a] = "good" /\ KnownAt(id, a))
            ~> (told[b][a] > 0 \/ (pc[b] = "discover" /\ ~KnownAt(id, a)))

NeverBlocked == \A b \in Task : pc[b] # "done" => ENABLED <<Step(b)>>_vars

\* Every broadcast ends, hosts that never answer included: it can go on at
\* whatever peer it is, waits for none but for the 2 s of the timeout, and
\* comes to the end of its snapshot.
EveryBroadcastEnds ==
    /\ []NeverBlocked
    /\ \A b \in Task : pc[b] # "done" ~> pc[b] = "done"
=============================================================================
