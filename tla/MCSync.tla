------------------------------- MODULE MCSync -------------------------------
(* One server, two calls of start_server, and two connections: one by      *)
(* sync_with_peer, the other to handle_connection, or both.  The other     *)
(* programs send messages of the protocol, framed once or twice, and       *)
(* lengths around the largest one.                                         *)
EXTENDS Sync

CONSTANTS c1, c2, k1, k2

\* An outgoing and an incoming connection share no state: they are not combined.
MCRoles ==
    {r \in [Conn -> Role] : /\ r[c1] # "incoming" /\ r[c2] # "outgoing"
                            /\ r[c1] = "sync" \/ r[c2] = "sync"}

MCPeerKey == [c \in Conn |-> IF c = c1 THEN k1 ELSE k2]

MCStrayLength == {MaxU32 - 4, MaxU32 - 3}

\* k1's key, read from its length on, is a key followed by version 1; k3's is a
\* key followed by another version; k2's is none.
MCSeventhWord == [k \in PublicKey |-> IF k \in {k1, k2} THEN 1 ELSE 7]

MCClientMessage ==
    {HandshakeAck(k, 1, "prefixed") : k \in PublicKey}
    \cup {HandshakeAck(k2, v, "raw") : v \in {1, 2}}
    \cup {NewBlockAnnouncement("hash", 1), BlocksResponse(1), Pong}

\* GetBlocks(7, 8) loses its tag and is taken for a Ping
MCServerMessage ==
    {HandshakeAck(k1, 1, "prefixed"), HandshakeAck(k2, 1, "raw"),
     GetBlocks(7, 8), ChainHeadResponse("hash", 1)}
=============================================================================
