-------------------------------- MODULE Sync --------------------------------
(***************************************************************************)
(* CustomSync of src/sync.rs: one node's server, its own sync_with_peer    *)
(* calls, and the connections between them and with peers that are other   *)
(* programs.  A connection is two streams of words (module Codec).         *)
(***************************************************************************)
EXTENDS Codec

CONSTANTS
    Starter,      \* the calls of start_server
    Conn,         \* the connections
    Roles,        \* who may be at the ends of each of them
    PeerKey,      \* the public key of the client of each
    ServerKey,    \* the server's
    AddedPeer,    \* the keys callers of add_peer pass
    ClientMessage,  \* the messages a client of another kind sends, ...
    StrayLength,    \* ... and the lengths it sends with nothing behind them
    ServerMessage   \* the messages a server of another kind sends, or such a length

ASSUME RolesAssumption == Roles \subseteq [Conn -> {"sync", "incoming", "outgoing"}]
ASSUME KeysAssumption ==
    PeerKey \in [Conn -> PublicKey] /\ ServerKey \in PublicKey /\ AddedPeer \subseteq PublicKey
ASSUME MessagesAssumption ==
    ClientMessage \cup ServerMessage \subseteq NetworkMessage /\ StrayLength \subseteq Nat

VARIABLES
    is_running,   \* the flag start_server tests
    start,        \* where each start_server call is
    role,         \* who is at the two ends of each connection
    cpc,          \* where its client is
    spc,          \* where its server is
    c2s, s2c,     \* the words in flight, per connection and direction
    replies,      \* how many frames a server of another kind has sent
    known_peers   \* the server's map

server == <<is_running, start>>
streams == <<c2s, s2c>>
connections == <<cpc, spc, c2s, s2c, replies, known_peers>>
vars == <<is_running, start, role, cpc, spc, c2s, s2c, replies, known_peers>>

\* sync: sync_with_peer and handle_connection; incoming: another client and
\* handle_connection; outgoing: sync_with_peer and another server
Role == {"sync", "incoming", "outgoing"}

MaxReplies == 2

\* what a client of another kind sends: a frame or a stray length
Opening == {to_bytes(m) : m \in ClientMessage} \cup {<<Num(n)>> : n \in StrayLength}

\* what a server of another kind sends at a time: a message framed once or twice,
\* or a length in a frame
Reply ==
    {to_bytes(m) : m \in ServerMessage} \cup {Framed(to_bytes(m)) : m \in ServerMessage}
    \cup {Framed(<<Num(n)>>) : n \in StrayLength}

-----------------------------------------------------------------------------
Init ==
    /\ is_running = FALSE
    /\ start = [s \in Starter |-> "idle"]
    /\ role \in Roles
    /\ cpc = [c \in Conn |-> "start"]
    /\ spc = [c \in Conn |-> "none"]
    /\ c2s = [c \in Conn |-> << >>]
    /\ s2c = [c \in Conn |-> << >>]
    /\ replies = [c \in Conn |-> 0]
    /\ known_peers = {}

\* fault: the flag is set once the socket is bound
StartServer_SetsFlagLate(s) ==
    /\ start[s] = "idle"
    /\ start' = [start EXCEPT ![s] = IF is_running THEN "ok" ELSE "bind"]
    /\ UNCHANGED <<is_running, role, connections>>

\* lines 163-168: the test and the set are one critical section
StartServer(s) ==
    /\ start[s] = "idle"
    /\ start' = [start EXCEPT ![s] = IF is_running THEN "ok" ELSE "bind"]
    /\ is_running' = TRUE
    /\ UNCHANGED <<role, connections>>

Bind(s) ==
    /\ start[s] = "bind"
    /\ start' = [start EXCEPT ![s] = "listen"]
    /\ UNCHANGED <<is_running, role, connections>>

\* fault: a failure resets the flag
ServerFails_ResetsFlag(s) ==
    /\ start[s] \in {"bind", "listen"}
    /\ start' = [start EXCEPT ![s] = "err"]
    /\ is_running' = FALSE
    /\ UNCHANGED <<role, connections>>

\* the `?` of bind() or of accept(): the flag stays set
ServerFails(s) ==
    /\ start[s] \in {"bind", "listen"}
    /\ start' = [start EXCEPT ![s] = "err"]
    /\ UNCHANGED <<is_running, role, connections>>

AddPeer(pk) ==
    /\ known_peers' = known_peers \cup {pk}
    /\ UNCHANGED <<server, role, cpc, spc, streams, replies>>

-----------------------------------------------------------------------------
(* The client's side: sync_with_peer, and clients of another kind.         *)

Ended == {"ok", "err", "panicked"}
Listening == \E s \in Starter : start[s] = "listen"

\* fault: the socket is connected but no task is spawned for it
Connect_NotAccepted(c) ==
    /\ cpc[c] = "start"
    /\ role[c] # "outgoing" => Listening
    /\ cpc' = [cpc EXCEPT ![c] = "send"]
    /\ UNCHANGED <<server, role, spc, streams, replies, known_peers>>

\* accept() spawns handle_connection
Connect(c) ==
    /\ cpc[c] = "start"
    /\ role[c] # "outgoing" => Listening
    /\ cpc' = [cpc EXCEPT ![c] = "send"]
    /\ spc' = [spc EXCEPT ![c] = IF role[c] = "outgoing" THEN "other" ELSE "send"]
    /\ UNCHANGED <<server, role, streams, replies, known_peers>>

\* the client returns and drops the stream with what it has not read
ClientEnds(c, value) ==
    /\ cpc' = [cpc EXCEPT ![c] = value]
    /\ s2c' = [s2c EXCEPT ![c] = << >>]
    /\ UNCHANGED <<server, role, spc, replies, known_peers>>

\* the connect is refused or times out, or a read or write fails
PeerFails(c) ==
    /\ cpc[c] \notin Ended
    /\ ClientEnds(c, "err")
    /\ UNCHANGED c2s

\* one message of another client (a peer's broadcast_block among them)
OtherSends(c) ==
    /\ cpc[c] = "send" /\ role[c] = "incoming"
    /\ \E words \in Opening : c2s' = [c2s EXCEPT ![c] = words]
    /\ ClientEnds(c, "ok")

\* send_message; what another server does with it does not matter
Send(c, m) ==
    c2s' = [c2s EXCEPT ![c] = IF role[c] = "outgoing" THEN << >> ELSE @ \o to_bytes(m)]

SyncSend(c) ==
    /\ cpc[c] = "send" /\ role[c] # "incoming"
    /\ Send(c, Handshake(PeerKey[c]))
    /\ cpc' = [cpc EXCEPT ![c] = "recv_ack"]
    /\ UNCHANGED <<server, role, spc, s2c, replies, known_peers>>

Receiving == {"recv_ack", "recv_head"}

FrameLength(c) == 1 + s2c[c][1][2] \div 4

\* the two read_exact calls of receive_message can be satisfied
FrameArrived(c) == s2c[c] # << >> /\ FrameLength(c) <= Len(s2c[c])

\* fault: the frame is decoded with its length still in front
receive_message_Whole(c) == from_bytes(s2c[c])

receive_message(c) == from_bytes(SubSeq(s2c[c], 2, FrameLength(c)))

\* lines 296-305: the acknowledgement, then the request for the chain head
SyncReceiveAck(c) ==
    /\ cpc[c] = "recv_ack"
    /\ FrameArrived(c)
    /\ receive_message(c).type = "HandshakeAck"
    /\ s2c' = [s2c EXCEPT ![c] = SubSeq(@, FrameLength(c) + 1, Len(@))]
    /\ Send(c, GetChainHead)
    /\ cpc' = [cpc EXCEPT ![c] = "recv_head"]
    /\ UNCHANGED <<server, role, spc, replies, known_peers>>

\* anything else, and whatever answers the request for the chain head; the
\* overflow of from_bytes takes the caller's task with it
SyncReceiveEnds(c) ==
    /\ cpc[c] \in Receiving
    /\ FrameArrived(c)
    /\ cpc[c] = "recv_ack" => receive_message(c).type # "HandshakeAck"
    /\ ClientEnds(c, IF receive_message(c) = Panic THEN "panicked" ELSE "err")
    /\ UNCHANGED c2s

ServerGone == {"closed", "panicked"}

\* fault: a short read makes the client begin again, on the same stream
SyncEof_StartsOver(c) ==
    /\ cpc[c] \in Receiving
    /\ ~FrameArrived(c)
    /\ spc[c] \in ServerGone
    /\ cpc' = [cpc EXCEPT ![c] = "send"]
    /\ c2s' = [c2s EXCEPT ![c] = << >>]
    /\ s2c' = [s2c EXCEPT ![c] = << >>]
    /\ UNCHANGED <<server, role, spc, replies, known_peers>>

SyncEof(c) ==
    /\ cpc[c] \in Receiving
    /\ ~FrameArrived(c)
    /\ spc[c] \in ServerGone
    /\ ClientEnds(c, "err")
    /\ UNCHANGED c2s

-----------------------------------------------------------------------------
(* The server's side: handle_connection, and servers of another kind       *)
(* (external), which answer or stay silent.                                *)

\* what is sent to a client that is gone is lost
Deliver(c, words) ==
    s2c' = IF cpc[c] \in Ended THEN s2c ELSE [s2c EXCEPT ![c] = @ \o words]

HandlerSend(c) ==
    /\ spc[c] = "send"
    /\ Deliver(c, to_bytes(Handshake(ServerKey)))
    /\ spc' = [spc EXCEPT ![c] = "read"]
    /\ UNCHANGED <<server, role, cpc, c2s, replies, known_peers>>

\* handle_connection is left and the socket dropped with what was not read
HandlerEnds(c, how) ==
    /\ spc' = [spc EXCEPT ![c] = how]
    /\ c2s' = [c2s EXCEPT ![c] = << >>]
    /\ UNCHANGED <<server, role, cpc, s2c, replies>>

\* fault: the version is not compared
HandlerRead_AnyVersion(c) ==
    /\ spc[c] = "read"
    /\ \E n \in 1 .. Len(c2s[c]) :
          LET m == from_bytes(SubSeq(c2s[c], 1, n))
          IN  /\ known_peers' = IF m.type = "HandshakeAck"
                                THEN known_peers \cup {m.peer_id} ELSE known_peers
              /\ HandlerEnds(c, IF m = Panic THEN "panicked" ELSE "closed")

\* one read(), which returns what has arrived by then
HandlerRead(c) ==
    /\ spc[c] = "read"
    /\ \E n \in 1 .. Len(c2s[c]) :
          LET m == from_bytes(SubSeq(c2s[c], 1, n))
          IN  /\ known_peers' = IF m.type = "HandshakeAck" /\ m.version = 1
                                THEN known_peers \cup {m.peer_id} ELSE known_peers
              /\ HandlerEnds(c, IF m = Panic THEN "panicked" ELSE "closed")

\* read() returns 0, or a socket call fails
HandlerFails(c) ==
    /\ spc[c] \in {"send", "read"}
    /\ HandlerEnds(c, "closed")
    /\ UNCHANGED known_peers

OtherReplies(c) ==
    /\ spc[c] = "other"
    /\ cpc[c] \notin Ended
    /\ replies[c] < MaxReplies
    /\ \E words \in Reply : Deliver(c, words)
    /\ replies' = [replies EXCEPT ![c] = @ + 1]
    /\ UNCHANGED <<server, role, cpc, spc, c2s, known_peers>>

OtherCloses(c) ==
    /\ spc[c] = "other"
    /\ HandlerEnds(c, "closed")
    /\ UNCHANGED known_peers

-----------------------------------------------------------------------------
ClientStep(c) == OtherSends(c) \/ SyncSend(c) \/ SyncReceiveAck(c)
                    \/ SyncReceiveEnds(c) \/ SyncEof(c)
HandlerStep(c) == HandlerSend(c) \/ HandlerRead(c)

Next ==
    \/ \E s \in Starter : StartServer(s) \/ Bind(s) \/ ServerFails(s)
    \/ \E pk \in AddedPeer : AddPeer(pk)
    \/ \E c \in Conn :
          \/ Connect(c) \/ PeerFails(c) \/ ClientStep(c)
          \/ HandlerStep(c) \/ HandlerFails(c) \/ OtherReplies(c) \/ OtherCloses(c)

Spec == Init /\ [][Next]_vars

\* tokio polls every task whose socket is ready.  Nothing obliges a connection
\* to be opened or to fail, or another program to answer.
FairClient(c) == WF_vars(ClientStep(c))
FairHandler(c) == WF_vars(HandlerStep(c))

FairSpec == Spec /\ \A c \in Conn : FairClient(c) /\ FairHandler(c)

-----------------------------------------------------------------------------
(* Properties.                                                             *)

\* Every call and every connection is at a known point, and a server exists
\* exactly for the connections that were accepted.
TypeOK ==
    /\ is_running \in BOOLEAN
    /\ role \in [Conn -> Role]
    /\ start \in [Starter -> {"idle", "bind", "listen", "ok", "err"}]
    /\ cpc \in [Conn -> {"start", "send"} \cup Receiving \cup Ended]
    /\ spc \in [Conn -> {"none", "send", "read", "other"} \cup ServerGone]
    /\ \A c \in Conn :
          /\ cpc[c] \in {"send"} \cup Receiving => spc[c] # "none"
          /\ cpc[c] = "start" => spc[c] = "none"
    /\ known_peers \subseteq PublicKey \cup {Shifted(pk) : pk \in PublicKey}

Active(s) == start[s] \in {"bind", "listen"}

\* Of any number of concurrent start_server calls at most one binds or serves.
OneServer == \A s, t \in Starter : Active(s) /\ Active(t) => s = t

\* A start_server call that fails in bind or accept leaves is_running set, so
\* no later call ever serves again: each returns Ok without listening.
FailedServerIsFinal ==
    [][(\E s \in Starter : start[s] = "err") =>
            \A s \in Starter : start'[s] \notin {"bind", "listen"}]_vars

\* sync_with_peer never gets past its handshake with a server of this code, and
\* no frame that to_bytes builds, whoever sends it, is received as what it is:
\* the length receive_message has taken off is expected again by from_bytes,
\* which takes the message's tag for it.  Only a message framed twice is read.
OnlyDoubleFramesAreRead ==
    \A c \in Conn :
        /\ cpc[c] = "recv_head" => role[c] = "outgoing"
        /\ cpc[c] \in Receiving /\ FrameArrived(c) =>
              LET inner == SubSeq(s2c[c], 2, FrameLength(c))
              IN  receive_message(c).type \in {"HandshakeAck", "ChainHeadResponse"} =>
                      inner = Framed(Tail(inner))

\* what a sync_with_peer call waits for, if anything, is there
Ready(c) ==
    /\ role[c] # "incoming"
    /\ \/ cpc[c] = "send"
       \/ cpc[c] \in Receiving /\ (FrameArrived(c) \/ spc[c] \in ServerGone)

\* whatever a call reads or misses, it has a next step, and a handler can greet
\* even a peer that has gone
NeverBlocked ==
    \A c \in Conn :
        /\ Ready(c) => ENABLED <<ClientStep(c)>>_vars
        /\ spc[c] = "send" => ENABLED <<HandlerStep(c)>>_vars

\* A sync_with_peer call that has connected to a server of this code comes to
\* an end although its reads have no timeout: no outcome of a read leaves a
\* task without its next step, and the server speaks first and closes, or
\* panics, whatever happens.
EverySyncEnds ==
    /\ []NeverBlocked
    /\ \A c \in Conn :
          (role[c] = "sync" /\ cpc[c] \in {"send"} \cup Receiving) ~> cpc[c] \in Ended

\* the acknowledgements handle_connection accepts when it reads them whole: a
\* raw key with version 1, or a prefixed key that is a key when it is read from
\* its length on, followed by a word that reads 1
Accepted(m) ==
    /\ m.type = "HandshakeAck"
    /\ m.layout = "raw" => m.version = 1
    /\ m.layout = "prefixed" => m.peer_id \in ValidShifted /\ SeventhWord[m.peer_id] = 1

\* the key it is then known by
Registered(m) == IF m.layout = "raw" THEN m.peer_id ELSE Shifted(m.peer_id)

\* However the network cuts what arrives, a connection makes a peer known only
\* if its client sent an acknowledgement that is accepted, and only that peer,
\* although one that writes its key as this code does becomes known by a key
\* nobody has.  sync_with_peer makes its caller known to no server: what it
\* sends is never an acknowledgement.
OnlyAcknowledgementsRegister ==
    [][spc' # spc /\ known_peers' # known_peers =>
          \E c \in Conn : \E m \in ClientMessage :
              /\ role[c] = "incoming"
              /\ c2s[c] = to_bytes(m)
              /\ Accepted(m)
              /\ known_peers' = known_peers \cup {Registered(m)}]_vars

\* An acknowledgement of the handshake that has arrived whole is read as naming
\* its sender, whom handle_connection then adds to known_peers: the meaning of
\* the comment "Add to known peers" (sync.rs:230).
AcknowledgersAreAdded ==
    \A c \in Conn : \A m \in ClientMessage :
        spc[c] = "read" /\ c2s[c] = to_bytes(m) /\ m.type = "HandshakeAck" /\ m.version = 1
            => /\ from_bytes(c2s[c]).type = "HandshakeAck"
               /\ from_bytes(c2s[c]).peer_id = m.peer_id
               /\ from_bytes(c2s[c]).version = 1

\* from_bytes panics (length + 4, sync.rs:111) on a length within 4 of the
\* largest u32 only, which no frame of this protocol has.  A handler's panic
\* leaves the server listening and the peers it knows known; a sync_with_peer
\* call is never made to panic by a server of this code.
OnlyHugeLengthsPanic ==
    [][\A c \in Conn :
          /\ spc[c] # "panicked" /\ spc'[c] = "panicked" =>
                c2s[c][1][2] > MaxU32 - 4 /\ UNCHANGED <<server, known_peers>>
          /\ cpc[c] # "panicked" /\ cpc'[c] = "panicked" =>
                s2c[c][2][2] > MaxU32 - 4 /\ role[c] = "outgoing"]_vars
=============================================================================
