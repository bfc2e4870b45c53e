------------------------------- MODULE Codec -------------------------------
(***************************************************************************)
(* The wire format of src/sync.rs: NetworkMessage and MessageFrame.  A byte *)
(* stream is kept as a sequence of 32-bit words, because that is the grain *)
(* at which framing goes wrong: to_bytes puts the length in front of a     *)
(* message, receive_message takes it off and hands the rest to from_bytes, *)
(* which takes off another word; PublicKey is written as a 64-bit length   *)
(* and 8 words ("prefixed") but read as 8 ("raw"), which another program   *)
(* may well write.                                                         *)
(***************************************************************************)
EXTENDS Types, SequencesExt

CONSTANTS
    Hash,         \* the block hashes that messages carry
    MaxU32,       \* the largest u32: 2^32 - 1 in the code, small in a model
    ValidShifted, \* keys whose bytes, behind their length, are a key as well
    SeventhWord   \* the value of each key's seventh word

ASSUME MaxU32Assumption == MaxU32 \in Nat /\ MaxU32 > 64    \* fits every frame
ASSUME SeventhWordAssumption == SeventhWord \in [PublicKey -> Nat]

-----------------------------------------------------------------------------
(* A word is a number or an opaque part of a key, a hash or a block.       *)

Num(n) == <<"num", n>>
Part(bytes, n) == <<"part", bytes, n>>
Word == ({"num"} \X Nat) \cup ({"part"} \X (PublicKey \cup Hash \cup {"block"}) \X Nat)
Parts(bytes) == [n \in 1 .. 8 |-> Part(bytes, n)]
U64Words(n) == <<Num(n), Num(0)>>         \* heights and counts are small here
KeyWords(pk) == U64Words(32) \o Parts(pk)

Handshake(pk) ==
    [type |-> "Handshake", peer_id |-> pk, version |-> 1, layout |-> "prefixed"]
HandshakeAck(pk, version, layout) ==
    [type |-> "HandshakeAck", peer_id |-> pk, version |-> version, layout |-> layout]
GetChainHead == [type |-> "GetChainHead"]
ChainHeadResponse(hash, height) ==
    [type |-> "ChainHeadResponse", latest_block_hash |-> hash, height |-> height]
GetBlocks(from, to) == [type |-> "GetBlocks", from_height |-> from, to_height |-> to]
BlocksResponse(n) == [type |-> "BlocksResponse", blocks |-> n]    \* n equal blocks
NewBlockAnnouncement(hash, height) ==
    [type |-> "NewBlockAnnouncement", block_hash |-> hash, height |-> height]
Ping == [type |-> "Ping"]
Pong == [type |-> "Pong"]

NetworkMessage ==
    [type : {"Handshake", "HandshakeAck"}, peer_id : PublicKey, version : Nat,
     layout : {"prefixed", "raw"}]
    \cup [type : {"GetChainHead", "Ping", "Pong"}]
    \cup [type : {"ChainHeadResponse"}, latest_block_hash : Hash, height : Nat]
    \cup [type : {"GetBlocks"}, from_height : Nat, to_height : Nat]
    \cup [type : {"BlocksResponse"}, blocks : Nat]
    \cup [type : {"NewBlockAnnouncement"}, block_hash : Hash, height : Nat]

Tags == <<"Handshake", "HandshakeAck", "GetChainHead", "ChainHeadResponse",
          "GetBlocks", "BlocksResponse", "NewBlockAnnouncement", "Ping", "Pong">>

BlockWords(n) == [w \in 1 .. 8 * n |-> Part("block", w)]    \* 8 words stand for a block

fields(m) ==
    CASE m.type \in {"Handshake", "HandshakeAck"} ->
            (IF m.layout = "raw" THEN Parts(m.peer_id) ELSE KeyWords(m.peer_id))
                \o <<Num(m.version)>>
      [] m.type = "ChainHeadResponse" -> Parts(m.latest_block_hash) \o U64Words(m.height)
      [] m.type = "GetBlocks" -> U64Words(m.from_height) \o U64Words(m.to_height)
      [] m.type = "BlocksResponse" -> U64Words(m.blocks) \o BlockWords(m.blocks)
      [] m.type = "NewBlockAnnouncement" -> Parts(m.block_hash) \o U64Words(m.height)
      [] OTHER -> << >>

\* bincode (external): enum tag, then the fields
serialize_message(m) ==
    <<Num((CHOOSE n \in DOMAIN Tags : Tags[n] = m.type) - 1)>> \o fields(m)

Framed(words) == <<Num(4 * Len(words))>> \o words

\* MessageFrame::new and to_bytes: the length in bytes, then the message
to_bytes(m) == Framed(serialize_message(m))

-----------------------------------------------------------------------------
(* Decoding.  bincode ignores what follows a message; a length that is not *)
(* a multiple of 4 leaves part of a word, which completes no message.      *)

InvalidMessage == [type |-> "InvalidMessage"]
SerializationError == [type |-> "SerializationError"]
Panic == [type |-> "panic"]

\* The key read is the length and the first 6 words of the key written; the
\* version read is the 7th.
Shifted(pk) == <<"shifted", pk>>

\* A raw key is read as it was written, a prefixed one from its length on.
deserialize_handshake(type, words) ==
    IF Len(words) < 10 THEN SerializationError
    ELSE IF words[2][1] = "part"
    THEN [type |-> type, peer_id |-> words[2][2], version |-> words[10][2]]
    ELSE LET pk == words[4][2]
         IN  IF pk \notin ValidShifted THEN SerializationError
             ELSE [type |-> type, peer_id |-> Shifted(pk), version |-> SeventhWord[pk]]

\* how many words a message takes
Width(words, type) ==
    CASE type \in {"ChainHeadResponse", "NewBlockAnnouncement"} -> 11
      [] type = "GetBlocks" -> 5
      [] type = "BlocksResponse" -> IF Len(words) < 3 THEN 3 ELSE 3 + 8 * words[2][2]
      [] OTHER -> 1

deserialize_message(words) ==
    IF words = << >> \/ words[1] \notin {Num(n - 1) : n \in DOMAIN Tags}
    THEN SerializationError
    ELSE LET type == Tags[words[1][2] + 1]
         IN  IF type \in {"Handshake", "HandshakeAck"} THEN deserialize_handshake(type, words)
             ELSE IF Len(words) < Width(words, type) THEN SerializationError
             ELSE [type |-> type]

\* fault: the addition is made in a narrower type
from_bytes_Narrow(words) ==
    IF words = << >> THEN InvalidMessage
    ELSE IF words[1][2] > MaxU32 \div 8 THEN Panic
    ELSE IF 4 * Len(words) < words[1][2] + 4 THEN InvalidMessage
    ELSE deserialize_message(SubSeq(words, 2, 1 + words[1][2] \div 4))

\* length + 4 in 32 bits panics in a debug build; in a release build it wraps
\* to less than 4, and the slice data[4 .. length + 4] panics.
from_bytes(words) ==
    IF words = << >> THEN InvalidMessage
    ELSE LET length == words[1][2]
         IN  IF length > MaxU32 - 4 THEN Panic
             ELSE IF 4 * Len(words) < length + 4 THEN InvalidMessage
             ELSE deserialize_message(SubSeq(words, 2, 1 + length \div 4))
=============================================================================
