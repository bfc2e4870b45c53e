----------------------------- MODULE SyncProofs -----------------------------
(***************************************************************************)
(* What Sync promises for every number of start_server calls, connections  *)
(* and keys, and whichever messages of the protocol the other programs     *)
(* send.                                                                   *)
(***************************************************************************)
EXTENDS Sync, SequenceTheorems, TLAPS

-----------------------------------------------------------------------------
(* The inductive invariant.                                                *)

\* At most one call ever gets past the flag, which is set from then on.
FlagIsKept ==
    /\ \A s \in Starter : start[s] \in {"bind", "listen", "err"} => is_running
    /\ \A s, t \in Starter :
          start[s] \in {"bind", "listen", "err"} /\ start[t] \in {"bind", "listen", "err"}
              => s = t

\* A handler has nothing to read but what opened the conversation: a handshake
\* of sync_with_peer, or what another client sends.
OnlyOpeningsArrive ==
    \A c \in Conn :
        /\ c2s[c] \in {<< >>, to_bytes(Handshake(PeerKey[c]))} \cup Opening
        /\ role[c] # "incoming" => c2s[c] \in {<< >>, to_bytes(Handshake(PeerKey[c]))}
        /\ cpc[c] \in {"start", "send"} => c2s[c] = << >>

\* s may be left of n replies, of which some have been read
LeftOf(n, s) ==
    \/ s = << >>
    \/ n > 0 /\ s \in Reply
    \/ n > 1 /\ \E q, r \in Reply : s = q \o r

\* A server of this code sends its handshake and nothing else; another server
\* sends whole frames, and sync_with_peer takes whole frames off.
OnlyFramesAreSent ==
    \A c \in Conn :
        IF role[c] = "outgoing"
        THEN /\ spc[c] \notin {"send", "read"}
             /\ replies[c] \in 0 .. MaxReplies
             /\ LeftOf(replies[c], s2c[c])
        ELSE /\ spc[c] # "other"
             /\ cpc[c] # "recv_head"
             /\ s2c[c] \in {<< >>, to_bytes(Handshake(ServerKey))}
             /\ spc[c] \in {"none", "send"} => s2c[c] = << >>

\* Each variable is a function on the calls or the connections.
StreamsTypeOK ==
    /\ c2s \in [Conn -> Seq(Word)]
    /\ s2c \in [Conn -> Seq(Word)]
    /\ replies \in [Conn -> Nat]

IInv ==
    /\ TypeOK
    /\ StreamsTypeOK
    /\ FlagIsKept
    /\ OnlyOpeningsArrive
    /\ OnlyFramesAreSent

-----------------------------------------------------------------------------
(* Encoding.                                                               *)

\* Words are numbers or parts of keys, hashes and blocks, never both.
LEMMA Words ==
  /\ \A n \in Nat : Num(n) \in Word /\ Num(n)[2] = n
  /\ \A b \in PublicKey \cup Hash \cup {"block"}, n \in Nat :
        Part(b, n) \in Word /\ Part(b, n)[1] = "part" /\ Part(b, n)[2] = b
  /\ \A n \in Nat : Num(n)[1] # "part"
  BY DEF Num, Part, Word

\* r consists of v followed by w
Joins(r, v, w) ==
    /\ r \in Seq(Word)
    /\ Len(r) = Len(v) + Len(w)
    /\ \A k \in 1 .. Len(v) : r[k] = v[k]
    /\ \A k \in Len(v) + 1 .. Len(v) + Len(w) : r[k] = w[k - Len(v)]

\* A stream that follows another begins where the first one ends.
LEMMA Joined ==
  ASSUME NEW v \in Seq(Word), NEW w \in Seq(Word)
  PROVE  Joins(v \o w, v, w)
  BY ConcatProperties, SMTT(30) DEF Joins

\* A function on 1 .. n is a sequence of n words.
LEMMA Tabulated ==
  ASSUME NEW n \in Nat, NEW f \in [1 .. n -> Word]
  PROVE  f \in Seq(Word) /\ Len(f) = n
  <1>1. f \in Seq(Word)
    BY SeqDef
  <1>2. Len(f) = n
    OBVIOUS
  <1> QED
    BY <1>1, <1>2

\* A key, a hash and a number are eight words and two.
LEMMA Fixed ==
  /\ \A b \in PublicKey \cup Hash :
        /\ Parts(b) \in Seq(Word) /\ Len(Parts(b)) = 8
        /\ Parts(b)[1] = Part(b, 1)
  /\ \A n \in Nat : /\ U64Words(n) \in Seq(Word) /\ Len(U64Words(n)) = 2
                     /\ U64Words(n)[1] = Num(n)
  <1>1. ASSUME NEW b \in PublicKey \cup Hash
        PROVE  /\ Parts(b) \in Seq(Word) /\ Len(Parts(b)) = 8
               /\ Parts(b)[1] = Part(b, 1)
    <2>1. Parts(b) \in [1 .. 8 -> Word] /\ 8 \in Nat
      BY Words DEF Parts
    <2>2. Parts(b) \in Seq(Word) /\ Len(Parts(b)) = 8
      BY <2>1, Tabulated
    <2> QED
      BY <2>2 DEF Parts
  <1>2. \A n \in Nat : /\ U64Words(n) \in Seq(Word) /\ Len(U64Words(n)) = 2
                       /\ U64Words(n)[1] = Num(n)
    BY Words DEF U64Words
  <1> QED
    BY <1>1, <1>2

\* A key is written as its length in two words and its bytes in eight.
LEMMA KeyLayout ==
  ASSUME NEW b \in PublicKey
  PROVE  /\ KeyWords(b) \in Seq(Word)
         /\ Len(KeyWords(b)) = 10
         /\ KeyWords(b)[1] = Num(32)
         /\ KeyWords(b)[3] = Part(b, 1)
  <1> DEFINE length == U64Words(32)
             bytes == Parts(b)
  <1>1. Joins(KeyWords(b), length, bytes)
    BY Fixed, Joined DEF KeyWords
  <1>2. Len(length) = 2 /\ length[1] = Num(32) /\ Len(bytes) = 8 /\ bytes[1] = Part(b, 1)
    BY Fixed
  <1> HIDE DEF length, bytes
  <1>3. KeyWords(b)[1] = length[1] /\ KeyWords(b)[3] = bytes[1]
    BY <1>1, <1>2 DEF Joins
  <1> QED
    BY <1>1, <1>2, <1>3 DEF Joins

\* From word k on, w holds the key and the version of the handshake m.
KeyFollows(m, w, k) ==
    IF m.layout = "raw"
    THEN Len(w) = k + 9 /\ w[k + 1] = Part(m.peer_id, 1) /\ w[k + 9] = Num(m.version)
    ELSE Len(w) = k + 11 /\ w[k + 1] = Num(32) /\ w[k + 3] = Part(m.peer_id, 1)

\* The fields of a message are words; those of a handshake begin with a key.
LEMMA FieldsAreWords ==
  ASSUME NEW m \in NetworkMessage
  PROVE  /\ fields(m) \in Seq(Word)
         /\ m.type \in {"Handshake", "HandshakeAck"} => KeyFollows(m, fields(m), 0)
  <1>1. CASE m.type \in {"Handshake", "HandshakeAck"}
    <2> DEFINE key == IF m.layout = "raw" THEN Parts(m.peer_id) ELSE KeyWords(m.peer_id)
               version == <<Num(m.version)>>
    <2>1. m.peer_id \in PublicKey /\ m.version \in Nat
      BY <1>1 DEF NetworkMessage
    <2>2. version \in Seq(Word) /\ Len(version) = 1 /\ version[1] = Num(m.version)
      BY <2>1, Words
    <2>3. fields(m) = key \o version
      BY <1>1 DEF fields
    <2>4. /\ key \in Seq(Word)
          /\ m.layout = "raw" => Len(key) = 8 /\ key[1] = Part(m.peer_id, 1)
          /\ m.layout # "raw" => /\ Len(key) = 10 /\ key[1] = Num(32)
                                 /\ key[3] = Part(m.peer_id, 1)
      BY <2>1, Fixed, KeyLayout
    <2>5. Joins(fields(m), key, version)
      BY <2>2, <2>3, <2>4, Joined
    <2> HIDE DEF key, version
    <2>6. fields(m) \in Seq(Word)
      BY <2>5 DEF Joins
    <2>7. KeyFollows(m, fields(m), 0)
      <3> DEFINE f == fields(m)
      <3> HIDE DEF f
      <3>0. Joins(f, key, version)
        BY <2>5 DEF f
      <3>1. CASE m.layout = "raw"
        <4>0. Len(key) = 8 /\ Len(version) = 1
          BY <2>2, <2>4, <3>1
        <4>1. Len(f) = 9 /\ f[1] = key[1] /\ f[9] = version[1]
          BY <3>0, <4>0 DEF Joins
        <4>2. Len(f) = 0 + 9 /\ f[0 + 1] = Part(m.peer_id, 1) /\ f[0 + 9] = Num(m.version)
          BY <2>2, <2>4, <3>1, <4>1
        <4> QED
          BY <3>1, <4>2, Zenon DEF KeyFollows, f
      <3>2. CASE m.layout # "raw"
        <4>0. Len(key) = 10 /\ Len(version) = 1
          BY <2>2, <2>4, <3>2
        <4>1. Len(f) = 11 /\ f[1] = key[1] /\ f[3] = key[3]
          BY <3>0, <4>0 DEF Joins
        <4>2. Len(f) = 0 + 11 /\ f[0 + 1] = Num(32) /\ f[0 + 3] = Part(m.peer_id, 1)
          BY <2>2, <2>4, <3>2, <4>1
        <4> QED
          BY <3>2, <4>2, Zenon DEF KeyFollows, f
      <3> QED
        BY <3>1, <3>2
    <2> QED
      BY <2>6, <2>7
  <1>2. CASE m.type = "ChainHeadResponse"
    <2>1. m.latest_block_hash \in Hash /\ m.height \in Nat
      BY <1>2 DEF NetworkMessage
    <2>2. fields(m) = Parts(m.latest_block_hash) \o U64Words(m.height)
      BY <1>2 DEF fields
    <2>3. Joins(fields(m), Parts(m.latest_block_hash), U64Words(m.height))
      BY <2>1, <2>2, Fixed, Joined
    <2> QED
      BY <1>2, <2>3 DEF Joins
  <1>3. CASE m.type = "GetBlocks"
    <2>1. m.from_height \in Nat /\ m.to_height \in Nat
      BY <1>3 DEF NetworkMessage
    <2>2. fields(m) = U64Words(m.from_height) \o U64Words(m.to_height)
      BY <1>3 DEF fields
    <2>3. Joins(fields(m), U64Words(m.from_height), U64Words(m.to_height))
      BY <2>1, <2>2, Fixed, Joined
    <2> QED
      BY <1>3, <2>3 DEF Joins
  <1>4. CASE m.type = "BlocksResponse"
    <2>1. m.blocks \in Nat
      BY <1>4 DEF NetworkMessage
    <2>2. BlockWords(m.blocks) \in [1 .. 8 * m.blocks -> Word] /\ 8 * m.blocks \in Nat
      <3>1. 8 * m.blocks \in Nat /\ 1 .. 8 * m.blocks \subseteq Nat
        BY <2>1
      <3> QED
        BY <3>1, Words DEF BlockWords
    <2>3. BlockWords(m.blocks) \in Seq(Word)
      BY <2>2, Tabulated
    <2>4. fields(m) = U64Words(m.blocks) \o BlockWords(m.blocks)
      BY <1>4 DEF fields
    <2>5. Joins(fields(m), U64Words(m.blocks), BlockWords(m.blocks))
      BY <2>1, <2>3, <2>4, Fixed, Joined
    <2> QED
      BY <1>4, <2>5 DEF Joins
  <1>5. CASE m.type = "NewBlockAnnouncement"
    <2>1. m.block_hash \in Hash /\ m.height \in Nat
      BY <1>5 DEF NetworkMessage
    <2>2. fields(m) = Parts(m.block_hash) \o U64Words(m.height)
      BY <1>5 DEF fields
    <2>3. Joins(fields(m), Parts(m.block_hash), U64Words(m.height))
      BY <2>1, <2>2, Fixed, Joined
    <2> QED
      BY <1>5, <2>3 DEF Joins
  <1>6. CASE m.type \in {"GetChainHead", "Ping", "Pong"}
    BY <1>6 DEF fields
  <1> QED
    BY <1>1, <1>2, <1>3, <1>4, <1>5, <1>6 DEF NetworkMessage

TypeNames == {"Handshake", "HandshakeAck", "GetChainHead", "ChainHeadResponse",
              "GetBlocks", "BlocksResponse", "NewBlockAnnouncement", "Ping", "Pong"}

\* Every message type has its own tag, below 9.
LEMMA TagsAreTypes ==
  /\ DOMAIN Tags = 1 .. 9
  /\ \A n \in 1 .. 9 : Tags[n] \in TypeNames
  /\ \A t \in TypeNames : \E n \in 1 .. 9 : Tags[n] = t
  <1>1. DOMAIN Tags = 1 .. 9
    BY DEF Tags
  <1>2. \A n \in 1 .. 9 : Tags[n] \in TypeNames
    BY DEF Tags, TypeNames
  <1>3. /\ Tags[1] = "Handshake" /\ Tags[2] = "HandshakeAck" /\ Tags[3] = "GetChainHead"
        /\ Tags[4] = "ChainHeadResponse" /\ Tags[5] = "GetBlocks"
        /\ Tags[6] = "BlocksResponse" /\ Tags[7] = "NewBlockAnnouncement"
        /\ Tags[8] = "Ping" /\ Tags[9] = "Pong"
    BY DEF Tags
  <1>4. \A t \in TypeNames : \E n \in 1 .. 9 : Tags[n] = t
    BY <1>3 DEF TypeNames
  <1> QED
    BY <1>1, <1>2, <1>4

\* A serialized message is its tag and its fields.
LEMMA SerializedLayout ==
  ASSUME NEW m \in NetworkMessage
  PROVE  LET w == serialize_message(m)
         IN  /\ w \in Seq(Word)
             /\ Len(w) >= 1
             /\ \E n \in 1 .. 9 : w[1] = Num(n - 1) /\ Tags[n] = m.type
             /\ m.type \in {"Handshake", "HandshakeAck"} => KeyFollows(m, w, 1)
  <1> DEFINE n == CHOOSE k \in DOMAIN Tags : Tags[k] = m.type
  <1>1. m.type \in TypeNames
    BY DEF NetworkMessage, TypeNames
  <1>2. n \in 1 .. 9 /\ Tags[n] = m.type
    BY <1>1, TagsAreTypes
  <1>3. fields(m) \in Seq(Word) /\ Len(fields(m)) \in Nat
    BY FieldsAreWords
  <1>4. ASSUME NEW k \in 1 .. 9 PROVE k - 1 \in Nat
    OBVIOUS
  <1>5. <<Num(n - 1)>> \in Seq(Word) /\ Len(<<Num(n - 1)>>) = 1
    <2>1. Num(n - 1) \in Word
      BY <1>2, <1>4, Words
    <2> QED
      BY <2>1
  <1>6. Joins(serialize_message(m), <<Num(n - 1)>>, fields(m))
    BY <1>3, <1>5, Joined DEF serialize_message
  <1> HIDE DEF n
  <1>7. /\ serialize_message(m) \in Seq(Word)
        /\ Len(serialize_message(m)) >= 1
        /\ serialize_message(m)[1] = Num(n - 1)
    BY <1>3, <1>5, <1>6 DEF Joins
  <1>8. ASSUME m.type \in {"Handshake", "HandshakeAck"}
        PROVE  KeyFollows(m, serialize_message(m), 1)
    <2>1. KeyFollows(m, fields(m), 0)
      BY <1>8, FieldsAreWords
    <2> DEFINE f == fields(m)
               w == serialize_message(m)
               tag == <<Num(n - 1)>>
    <2> HIDE DEF f, w, tag
    <2>2. Joins(w, tag, f) /\ Len(tag) = 1 /\ KeyFollows(m, f, 0)
      BY <1>5, <1>6, <2>1 DEF f, w, tag
    <2>3. CASE m.layout = "raw"
      <3>1. Len(f) = 9 /\ f[1] = Part(m.peer_id, 1) /\ f[9] = Num(m.version)
        BY <2>2, <2>3 DEF KeyFollows
      <3>2. Len(w) = 10 /\ w[2] = f[1] /\ w[10] = f[9]
        BY <2>2, <3>1 DEF Joins
      <3>3. Len(w) = 1 + 9 /\ w[1 + 1] = Part(m.peer_id, 1) /\ w[1 + 9] = Num(m.version)
        BY <3>1, <3>2
      <3> QED
        BY <2>3, <3>3, Zenon DEF KeyFollows, w
    <2>4. CASE m.layout # "raw"
      <3>1. Len(f) = 11 /\ f[1] = Num(32) /\ f[3] = Part(m.peer_id, 1)
        BY <2>2, <2>4 DEF KeyFollows
      <3>2. Len(w) = 12 /\ w[2] = f[1] /\ w[4] = f[3]
        BY <2>2, <3>1 DEF Joins
      <3>3. Len(w) = 1 + 11 /\ w[1 + 1] = Num(32) /\ w[1 + 3] = Part(m.peer_id, 1)
        BY <3>1, <3>2
      <3> QED
        BY <2>4, <3>3, Zenon DEF KeyFollows, w
    <2> QED
      BY <2>3, <2>4
  <1> QED
    BY <1>2, <1>7, <1>8

\* to_bytes puts one word, the length in bytes, in front.
LEMMA FrameLayout ==
  ASSUME NEW w \in Seq(Word)
  PROVE  /\ Framed(w) \in Seq(Word)
         /\ Len(Framed(w)) = Len(w) + 1
         /\ Framed(w)[1][2] = 4 * Len(w)
         /\ Tail(Framed(w)) = w
         /\ SubSeq(Framed(w), 2, Len(w) + 1) = w
  <1> DEFINE h == <<Num(4 * Len(w))>>
             f == Framed(w)
  <1>1. Len(w) \in Nat /\ 4 * Len(w) \in Nat
    OBVIOUS
  <1>2. h \in Seq(Word) /\ Len(h) = 1 /\ h[1][2] = 4 * Len(w)
    BY <1>1, Words
  <1>3. Joins(f, h, w)
    BY <1>2, Joined DEF Framed
  <1> HIDE DEF h, f
  <1>4. /\ f \in Seq(Word)
        /\ Len(f) = Len(w) + 1
        /\ f[1] = h[1]
        /\ \A k \in 2 .. Len(w) + 1 : f[k] = w[k - 1]
    BY <1>1, <1>2, <1>3 DEF Joins
  <1>5. SubSeq(f, 2, Len(w) + 1) = w
    <2> DEFINE u == SubSeq(f, 2, Len(w) + 1)
    <2>1. /\ u \in Seq(Word)
          /\ Len(u) = Len(w)
          /\ \A k \in 1 .. Len(w) : u[k] = w[k]
      BY <1>1, <1>4
    <2> HIDE DEF u
    <2>2. u = w
      BY <2>1, SeqEqual
    <2> QED
      BY <2>2 DEF u
  <1>6. Tail(f) = w
    <2>1. f # << >>
      BY <1>1, <1>4
    <2>2. Tail(f) = SubSeq(f, 2, Len(f))
      BY <1>4, <2>1, TailIsSubSeq
    <2> QED
      BY <1>4, <1>5, <2>2
  <1> QED
    BY <1>2, <1>4, <1>5, <1>6 DEF f

\* What follows a frame in a stream is what is left when it is taken off.
LEMMA FirstFrame ==
  ASSUME NEW w \in Seq(Word), NEW rest \in Seq(Word)
  PROVE  LET s == Framed(w) \o rest
         IN  /\ s \in Seq(Word)
             /\ s # << >>
             /\ 1 + s[1][2] \div 4 = Len(w) + 1
             /\ SubSeq(s, 2, Len(w) + 1) = w
             /\ SubSeq(s, Len(w) + 2, Len(s)) = rest
  <1> DEFINE f == Framed(w)
             s == f \o rest
  <1>1. /\ f \in Seq(Word) /\ Len(f) = Len(w) + 1
        /\ f[1][2] = 4 * Len(w)
        /\ SubSeq(f, 2, Len(w) + 1) = w
    BY FrameLayout
  <1>2. Joins(s, f, rest)
    BY <1>1, Joined
  <1>3. Len(w) \in Nat /\ Len(rest) \in Nat
    OBVIOUS
  <1> HIDE DEF f, s
  <1>4. s \in Seq(Word) /\ Len(s) = Len(w) + 1 + Len(rest) /\ s[1] = f[1] /\ s # << >>
    BY <1>1, <1>2, <1>3 DEF Joins
  <1>5. 1 + s[1][2] \div 4 = Len(w) + 1
    <2>1. \A n \in Nat : (4 * n) \div 4 = n
      OBVIOUS
    <2> QED
      BY <1>1, <1>3, <1>4, <2>1
  <1>6. SubSeq(s, 2, Len(w) + 1) = w
    <2> DEFINE u == SubSeq(s, 2, Len(w) + 1)
               v == SubSeq(f, 2, Len(w) + 1)
    <2>1. /\ u \in Seq(Word)
          /\ Len(u) = Len(w)
          /\ \A k \in 1 .. Len(w) : u[k] = s[k + 1]
      BY <1>3, <1>4
    <2>2. \A k \in 1 .. Len(w) : w[k] = f[k + 1]
      <3>1. \A k \in 1 .. Len(w) : v[k] = f[k + 1]
        BY <1>1, <1>3
      <3> QED
        BY <1>1, <3>1
    <2>3. \A k \in 1 .. Len(w) : s[k + 1] = f[k + 1]
      BY <1>1, <1>2, <1>3 DEF Joins
    <2> HIDE DEF u
    <2>4. u = w
      BY <2>1, <2>2, <2>3, SeqEqual
    <2> QED
      BY <2>4 DEF u
  <1>7. SubSeq(s, Len(w) + 2, Len(s)) = rest
    <2> DEFINE u == SubSeq(s, Len(w) + 2, Len(s))
    <2>1. /\ u \in Seq(Word)
          /\ Len(u) = Len(rest)
          /\ \A k \in 1 .. Len(rest) : u[k] = s[Len(w) + 1 + k]
      BY <1>3, <1>4
    <2>2. ASSUME NEW k \in 1 .. Len(rest)
          PROVE  s[Len(w) + 1 + k] = rest[k]
      <3>1. Len(w) + 1 + k \in Len(f) + 1 .. Len(f) + Len(rest)
        BY <1>1, <1>3
      <3>2. s[Len(w) + 1 + k] = rest[Len(w) + 1 + k - Len(f)]
        BY <1>2, <3>1 DEF Joins
      <3>3. Len(w) + 1 + k - Len(f) = k
        BY <1>1, <1>3
      <3> QED
        BY <3>2, <3>3
    <2> HIDE DEF u
    <2>3. u = rest
      BY <2>1, <2>2, SeqEqual
    <2> QED
      BY <2>3 DEF u
  <1> QED
    BY <1>4, <1>5, <1>6, <1>7 DEF f, s

-----------------------------------------------------------------------------
(* Decoding.                                                               *)

\* What is decoded is a message of the protocol or an error.
LEMMA DecodedType ==
  ASSUME NEW words
  PROVE  deserialize_message(words).type \in TypeNames \cup {"SerializationError"}
  <1>1. CASE words = << >> \/ words[1] \notin {Num(n - 1) : n \in DOMAIN Tags}
    BY <1>1 DEF deserialize_message, SerializationError
  <1>2. CASE words # << >> /\ words[1] \in {Num(n - 1) : n \in DOMAIN Tags}
    <2> DEFINE type == Tags[words[1][2] + 1]
    <2>1. PICK n \in 1 .. 9 : words[1] = Num(n - 1)
      BY <1>2, TagsAreTypes
    <2>2. words[1][2] + 1 = n
      BY <2>1 DEF Num
    <2>3. type \in TypeNames
      BY <2>2, TagsAreTypes
    <2> HIDE DEF type
    <2>4. deserialize_handshake(type, words).type \in {type, "SerializationError"}
      BY DEF deserialize_handshake, SerializationError
    <2>5. deserialize_message(words) \in
              {SerializationError, [type |-> type], deserialize_handshake(type, words)}
      BY <1>2 DEF deserialize_message, type
    <2> QED
      BY <2>3, <2>4, <2>5 DEF SerializationError
  <1> QED
    BY <1>1, <1>2

\* Fewer than ten words are never an acknowledgement or a chain head.
LEMMA FewWords ==
  ASSUME NEW words \in Seq(Word), Len(words) < 10
  PROVE  deserialize_message(words).type \notin {"HandshakeAck", "ChainHeadResponse"}
  <1> DEFINE type == Tags[words[1][2] + 1]
  <1>1. Len(words) < 11
    OBVIOUS
  <1>2. deserialize_handshake(type, words) = SerializationError
    BY DEF deserialize_handshake
  <1>3. type = "ChainHeadResponse" => Width(words, type) = 11
    BY DEF Width
  <1> HIDE DEF type
  <1>4. \/ deserialize_message(words) = SerializationError
        \/ /\ deserialize_message(words) = [type |-> type]
           /\ type \notin {"HandshakeAck", "ChainHeadResponse"}
    BY <1>1, <1>2, <1>3 DEF deserialize_message, type
  <1> QED
    BY <1>4 DEF SerializationError

\* from_bytes refuses what ends before the length says.
LEMMA ShortRead ==
  ASSUME NEW s \in Seq(Word), NEW n \in 1 .. Len(s), s[1][2] \in Nat,
         4 * (n - 1) < s[1][2]
  PROVE  from_bytes(SubSeq(s, 1, n)) \in {InvalidMessage, Panic}
  <1> DEFINE words == SubSeq(s, 1, n)
  <1>1. words # << >> /\ Len(words) = n /\ words[1] = s[1]
    OBVIOUS
  <1> HIDE DEF words
  <1>2. 4 * Len(words) < words[1][2] + 4
    BY <1>1
  <1> QED
    BY <1>1, <1>2 DEF from_bytes, words

\* The addition of line 111 overflows only on a length near the largest u32.
LEMMA PanicMeansHuge ==
  ASSUME NEW words, words # << >>, from_bytes(words) = Panic
  PROVE  words[1][2] > MaxU32 - 4
  <1> DEFINE d == deserialize_message(SubSeq(words, 2, 1 + words[1][2] \div 4))
  <1>1. d.type # "panic"
    <2>1. d.type \in TypeNames \cup {"SerializationError"}
      BY DecodedType
    <2> QED
      BY <2>1 DEF TypeNames
  <1> HIDE DEF d
  <1>2. \/ words[1][2] > MaxU32 - 4
        \/ from_bytes(words) = InvalidMessage
        \/ from_bytes(words) = d
    BY DEF from_bytes, d
  <1>3. InvalidMessage # Panic /\ d # Panic
    BY <1>1 DEF InvalidMessage, Panic
  <1> QED
    BY <1>2, <1>3

\* A message framed once and stripped of its frame is not recognised: its tag,
\* at most 8, is taken for a length of at most two words.
LEMMA SingleFrame ==
  ASSUME NEW m \in NetworkMessage
  PROVE  from_bytes(serialize_message(m)).type \notin {"HandshakeAck", "ChainHeadResponse"}
  <1> DEFINE w == serialize_message(m)
             length == w[1][2]
             inner == SubSeq(w, 2, 1 + length \div 4)
  <1>1. w \in Seq(Word) /\ Len(w) >= 1 /\ \E n \in 1 .. 9 : w[1] = Num(n - 1)
    BY SerializedLayout
  <1>2. length \in 0 .. 8
    BY <1>1 DEF Num
  <1> HIDE DEF w, length
  <1>3. length \div 4 \in 0 .. 2
    BY <1>2
  <1>4. CASE 4 * Len(w) < length + 4 \/ length > MaxU32 - 4
    BY <1>4 DEF from_bytes, InvalidMessage, Panic, w, length
  <1>5. CASE ~(4 * Len(w) < length + 4) /\ ~(length > MaxU32 - 4)
    <2>1. 1 + length \div 4 <= Len(w)
      BY <1>1, <1>2, <1>5
    <2>2. inner \in Seq(Word) /\ Len(inner) < 10
      BY <1>1, <1>3, <2>1
    <2>3. from_bytes(w) = deserialize_message(inner)
      BY <1>1, <1>5 DEF from_bytes, length
    <2> QED
      BY <2>2, <2>3, FewWords DEF w
  <1> QED
    BY <1>4, <1>5

Registers(d) == d.type = "HandshakeAck" /\ d.version = 1

\* An error makes no peer known.
LEMMA ErrorsDoNotRegister ==
  ~Registers(InvalidMessage) /\ ~Registers(Panic) /\ ~Registers(SerializationError)
  BY DEF Registers, InvalidMessage, Panic, SerializationError

\* A message that registers someone is an acknowledgement that is accepted, and
\* names whom its key, read without a length, says.
LEMMA MessageRegisters ==
  ASSUME NEW m \in NetworkMessage, Registers(deserialize_message(serialize_message(m)))
  PROVE  Accepted(m) /\ deserialize_message(serialize_message(m)).peer_id = Registered(m)
  <1> DEFINE w == serialize_message(m)
             type == Tags[w[1][2] + 1]
             d == deserialize_handshake(type, w)
  <1>1. /\ \E k \in 1 .. 9 : w[1] = Num(k - 1) /\ Tags[k] = m.type
        /\ m.type \in {"Handshake", "HandshakeAck"} => KeyFollows(m, w, 1)
    BY SerializedLayout
  <1>2. type = m.type
    BY <1>1 DEF Num
  <1> HIDE DEF type
  <1>3. \/ deserialize_message(w) \in {SerializationError, [type |-> type]}
        \/ deserialize_message(w) = d
    BY DEF deserialize_message, type
  <1>4. m.type = "HandshakeAck" /\ deserialize_message(w) = d
    <2>1. CASE type \in {"Handshake", "HandshakeAck"}
      <3>1. deserialize_message(w) \in {SerializationError, d}
        BY <2>1 DEF deserialize_message, type
      <3>2. d.type \in {type, "SerializationError"}
        BY DEF deserialize_handshake, SerializationError
      <3> QED
        BY <1>2, <2>1, <3>1, <3>2, ErrorsDoNotRegister DEF Registers
    <2>2. CASE type \notin {"Handshake", "HandshakeAck"}
      <3>1. deserialize_message(w) \in {SerializationError, [type |-> type]}
        BY <2>2 DEF deserialize_message, type
      <3> QED
        BY <2>2, <3>1, ErrorsDoNotRegister DEF Registers
    <2> QED
      BY <2>1, <2>2
  <1>5. /\ m.peer_id \in PublicKey /\ m.version \in Nat /\ m.layout \in {"prefixed", "raw"}
        /\ KeyFollows(m, w, 1)
    BY <1>1, <1>4 DEF NetworkMessage
  <1>6. Registers(d)
    BY <1>4
  <1> HIDE DEF w
  <1>7. CASE m.layout = "raw"
    <2>1. w[2][1] = "part" /\ w[2][2] = m.peer_id /\ w[10][2] = m.version /\ Len(w) = 10
      BY <1>5, <1>7, Words DEF KeyFollows
    <2>2. d = [type |-> type, peer_id |-> m.peer_id, version |-> m.version]
      BY <2>1 DEF deserialize_handshake
    <2> QED
      BY <1>4, <1>6, <1>7, <2>2 DEF Registers, Accepted, Registered, w
  <1>8. CASE m.layout = "prefixed"
    <2>1. w[2][1] # "part" /\ w[4][2] = m.peer_id /\ Len(w) = 12
      BY <1>5, <1>8, Words DEF KeyFollows
    <2>2. d = IF m.peer_id \notin ValidShifted THEN SerializationError
              ELSE [type |-> type, peer_id |-> Shifted(m.peer_id),
                    version |-> SeventhWord[m.peer_id]]
      BY <2>1 DEF deserialize_handshake
    <2>3. m.peer_id \in ValidShifted
      BY <1>6, <2>2, ErrorsDoNotRegister
    <2> QED
      BY <1>4, <1>6, <1>8, <2>2, <2>3 DEF Registers, Accepted, Registered, w
  <1> QED
    BY <1>5, <1>7, <1>8

\* Nor does any part of a frame that read() may return register anyone, unless
\* it is the whole of one that is accepted.
LEMMA FramesRegister ==
  ASSUME NEW m \in NetworkMessage, NEW n \in 1 .. Len(to_bytes(m)),
         Registers(from_bytes(SubSeq(to_bytes(m), 1, n)))
  PROVE  Accepted(m) /\ from_bytes(SubSeq(to_bytes(m), 1, n)).peer_id = Registered(m)
  <1> DEFINE w == serialize_message(m)
             s == to_bytes(m)
             words == SubSeq(s, 1, n)
  <1>1. w \in Seq(Word) /\ Len(w) >= 1
    BY SerializedLayout
  <1>2. /\ s \in Seq(Word) /\ Len(s) = Len(w) + 1 /\ s[1][2] = 4 * Len(w)
        /\ SubSeq(s, 2, Len(w) + 1) = w
    BY <1>1, FrameLayout DEF to_bytes
  <1> HIDE DEF w, s
  <1>3. CASE 4 * (n - 1) < s[1][2]
    <2>1. s[1][2] \in Nat
      BY <1>1, <1>2
    <2>2. from_bytes(words) \in {InvalidMessage, Panic}
      BY <1>2, <1>3, <2>1, ShortRead DEF s
    <2> QED
      BY <2>2, ErrorsDoNotRegister DEF s
  <1>4. CASE ~(4 * (n - 1) < s[1][2])
    <2>1. n = Len(s)
      BY <1>1, <1>2, <1>4 DEF s
    <2>2. words = s /\ s # << >>
      BY <1>1, <1>2, <2>1, SubSeqFull
    <2>3. 1 + s[1][2] \div 4 = Len(w) + 1
      <3>1. \A k \in Nat : (4 * k) \div 4 = k
        OBVIOUS
      <3> QED
        BY <1>1, <1>2, <3>1
    <2>4. from_bytes(s) \in {Panic, InvalidMessage, deserialize_message(w)}
      BY <1>2, <2>2, <2>3 DEF from_bytes
    <2>5. from_bytes(words) = deserialize_message(w)
      BY <2>2, <2>4, ErrorsDoNotRegister DEF s
    <2> QED
      BY <2>5, MessageRegisters DEF s, w
  <1> QED
    BY <1>3, <1>4

\* A length alone decodes to nothing.
LEMMA StrayLengths ==
  ASSUME NEW k \in Nat
  PROVE  from_bytes(<<Num(k)>>) \in {Panic, InvalidMessage, SerializationError}
  <1> DEFINE s == <<Num(k)>>
  <1>1. s \in Seq(Word) /\ Len(s) = 1 /\ s[1][2] = k /\ s # << >>
    BY Words
  <1> HIDE DEF s
  <1>2. CASE k = 0
    <2>1. SubSeq(s, 2, 1 + s[1][2] \div 4) = << >>
      BY <1>1, <1>2
    <2>2. from_bytes(s) \in {Panic, InvalidMessage, deserialize_message(<< >>)}
      BY <1>1, <2>1 DEF from_bytes
    <2>3. deserialize_message(<< >>) = SerializationError
      BY DEF deserialize_message
    <2> QED
      BY <2>2, <2>3 DEF s
  <1>3. CASE k # 0
    <2>1. 4 * Len(s) < s[1][2] + 4
      BY <1>1, <1>3
    <2> QED
      BY <1>1, <2>1 DEF from_bytes, s
  <1> QED
    BY <1>2, <1>3

-----------------------------------------------------------------------------
(* What the streams of a connection can hold.                              *)

\* what the server's handshake and every reply are: a frame that is a frame
\* inside, or that is not recognised once its length is off
Unreadable(w) ==
    w = Framed(Tail(w)) \/ from_bytes(w).type \notin {"HandshakeAck", "ChainHeadResponse"}

\* The program's own handshakes are messages of the protocol.
LEMMA OwnMessages ==
  /\ \A c \in Conn : Handshake(PeerKey[c]) \in NetworkMessage
  /\ Handshake(ServerKey) \in NetworkMessage
  BY KeysAssumption DEF Handshake, NetworkMessage

\* s is a stream of words, and whatever part of it registers someone, it is the
\* frame of a message in M that is accepted.
Registering(s, M) ==
  /\ s \in Seq(Word)
  /\ s # << >>
  /\ \A n \in 1 .. Len(s) :
        Registers(from_bytes(SubSeq(s, 1, n))) =>
            \E m \in M : /\ s = to_bytes(m) /\ Accepted(m)
                         /\ from_bytes(SubSeq(s, 1, n)).peer_id = Registered(m)

\* The frame of a message is such a stream.
LEMMA FramesAreRegistering ==
  ASSUME NEW m \in NetworkMessage
  PROVE  Registering(to_bytes(m), {m})
  <1> DEFINE s == to_bytes(m)
  <1>1. serialize_message(m) \in Seq(Word) /\ Len(serialize_message(m)) \in Nat
    BY SerializedLayout
  <1>2. s \in Seq(Word) /\ Len(s) = Len(serialize_message(m)) + 1
    BY <1>1, FrameLayout DEF to_bytes
  <1>3. s # << >>
    BY <1>1, <1>2
  <1> QED
    BY <1>2, <1>3, FramesRegister DEF Registering

\* The opening of another client registers no one but through a message it
\* sends.
LEMMA OpeningsRegister ==
  ASSUME NEW s \in Opening
  PROVE  Registering(s, ClientMessage)
  <1>1. ASSUME NEW m \in ClientMessage, s = to_bytes(m)
        PROVE  Registering(s, ClientMessage)
    <2>1. Registering(s, {m})
      BY <1>1, FramesAreRegistering, MessagesAssumption
    <2> QED
      BY <2>1 DEF Registering
  <1>2. ASSUME NEW k \in StrayLength, s = <<Num(k)>>
        PROVE  Registering(s, ClientMessage)
    <2>1. k \in Nat
      BY MessagesAssumption
    <2>2. s \in Seq(Word) /\ s # << >> /\ Len(s) = 1
      BY <1>2, <2>1, Words
    <2>3. SubSeq(s, 1, 1) = s
      BY <2>2, SubSeqFull
    <2>4. ~Registers(from_bytes(s))
      BY <1>2, <2>1, StrayLengths, ErrorsDoNotRegister
    <2>5. \A n \in 1 .. Len(s) : n = 1
      BY <2>2
    <2> QED
      BY <2>2, <2>3, <2>4, <2>5 DEF Registering
  <1> QED
    BY <1>1, <1>2 DEF Opening

\* The handshake of sync_with_peer registers no one.
LEMMA OwnOpeningRegisters ==
  ASSUME NEW c \in Conn
  PROVE  Registering(to_bytes(Handshake(PeerKey[c])), {})
  <1>1. Registering(to_bytes(Handshake(PeerKey[c])), {Handshake(PeerKey[c])})
    BY OwnMessages, FramesAreRegistering
  <1>2. ~Accepted(Handshake(PeerKey[c]))
    BY DEF Accepted, Handshake
  <1> QED
    BY <1>1, <1>2 DEF Registering

\* Every reply, and the server's handshake, is one frame.
LEMMA RepliesAreFrames ==
  ASSUME NEW q \in {to_bytes(Handshake(ServerKey))} \cup Reply
  PROVE  \E w \in Seq(Word) : q = Framed(w) /\ Unreadable(w)
  <1>1. ASSUME NEW m \in NetworkMessage, q = to_bytes(m)
        PROVE  \E w \in Seq(Word) : q = Framed(w) /\ Unreadable(w)
    <2>1. serialize_message(m) \in Seq(Word)
      BY SerializedLayout
    <2>2. q = Framed(serialize_message(m))
      BY <1>1 DEF to_bytes
    <2>3. Unreadable(serialize_message(m))
      BY SingleFrame DEF Unreadable
    <2> QED
      BY <2>1, <2>2, <2>3
  <1>2. ASSUME NEW m \in NetworkMessage, q = Framed(to_bytes(m))
        PROVE  \E w \in Seq(Word) : q = Framed(w) /\ Unreadable(w)
    <2>1. serialize_message(m) \in Seq(Word)
      BY SerializedLayout
    <2>2. to_bytes(m) \in Seq(Word) /\ to_bytes(m) = Framed(Tail(to_bytes(m)))
      BY <2>1, FrameLayout DEF to_bytes
    <2> QED
      BY <1>2, <2>2 DEF Unreadable
  <1>3. ASSUME NEW k \in StrayLength, q = Framed(<<Num(k)>>)
        PROVE  \E w \in Seq(Word) : q = Framed(w) /\ Unreadable(w)
    <2>1. k \in Nat /\ <<Num(k)>> \in Seq(Word)
      BY MessagesAssumption, Words
    <2>2. Unreadable(<<Num(k)>>)
      BY <2>1, StrayLengths DEF Unreadable, Panic, InvalidMessage, SerializationError
    <2> QED
      BY <1>3, <2>1, <2>2
  <1>4. \/ \E m \in NetworkMessage : q = to_bytes(m) \/ q = Framed(to_bytes(m))
        \/ \E k \in StrayLength : q = Framed(<<Num(k)>>)
    BY OwnMessages, MessagesAssumption DEF Reply
  <1> QED
    BY <1>1, <1>2, <1>3, <1>4

\* Replies are words.
LEMMA RepliesAreWords == Reply \subseteq Seq(Word) /\ to_bytes(Handshake(ServerKey)) \in Seq(Word)
  BY RepliesAreFrames, FrameLayout

\* One more reply makes a stream of one more.
LEMMA StreamGrows ==
  ASSUME NEW n \in 0 .. MaxReplies, n < MaxReplies, NEW s, LeftOf(n, s), NEW r \in Reply
  PROVE  LeftOf(n + 1, s \o r)
  <1>1. r \in Seq(Word)
    BY RepliesAreWords
  <1>2. CASE s = << >>
    <2>1. s \o r = r
      BY <1>1, <1>2, ConcatEmptySeq
    <2> QED
      BY <2>1 DEF LeftOf
  <1>3. CASE s # << >>
    <2>1. n = 1 /\ s \in Reply
      BY <1>3 DEF LeftOf, MaxReplies
    <2> QED
      BY <2>1 DEF LeftOf
  <1> QED
    BY <1>2, <1>3

\* A stream begins with a frame, and without it is a stream again.
LEMMA StreamShrinks ==
  ASSUME NEW n \in 0 .. MaxReplies, NEW s, LeftOf(n, s), s # << >>
  PROVE  \E w \in Seq(Word), rest \in Seq(Word) :
             s = Framed(w) \o rest /\ Unreadable(w) /\ LeftOf(n, rest)
  <1>1. CASE s \in Reply
    <2>1. PICK w \in Seq(Word) : s = Framed(w) /\ Unreadable(w)
      BY <1>1, RepliesAreFrames
    <2>2. s = Framed(w) \o << >>
      BY <2>1, FrameLayout, ConcatEmptySeq
    <2>3. << >> \in Seq(Word) /\ LeftOf(n, << >>)
      BY DEF LeftOf
    <2> QED
      BY <2>1, <2>2, <2>3
  <1>2. CASE n > 1 /\ \E q \in Reply, r \in Reply : s = q \o r
    <2>1. PICK q \in Reply, r \in Reply : s = q \o r
      BY <1>2
    <2>2. PICK w \in Seq(Word) : q = Framed(w) /\ Unreadable(w)
      BY RepliesAreFrames
    <2>3. r \in Seq(Word) /\ LeftOf(n, r)
      BY <1>2, RepliesAreWords DEF LeftOf
    <2> QED
      BY <2>1, <2>2, <2>3
  <1> QED
    BY <1>1, <1>2 DEF LeftOf

\* Whoever the server is, what a client has to read begins with a frame.
LEMMA SomethingArrived ==
  ASSUME IInv, NEW c \in Conn, s2c[c] # << >>
  PROVE  \E w \in Seq(Word), rest \in Seq(Word) :
             /\ s2c[c] = Framed(w) \o rest
             /\ Unreadable(w)
             /\ role[c] = "outgoing" => LeftOf(replies[c], rest)
             /\ role[c] # "outgoing" => w = serialize_message(Handshake(ServerKey))
  <1>1. CASE role[c] = "outgoing"
    BY <1>1, StreamShrinks DEF IInv, OnlyFramesAreSent
  <1>2. CASE role[c] # "outgoing"
    <2> DEFINE w == serialize_message(Handshake(ServerKey))
    <2>1. w \in Seq(Word)
      BY OwnMessages, SerializedLayout
    <2>2. s2c[c] = Framed(w)
      BY <1>2 DEF IInv, OnlyFramesAreSent, to_bytes
    <2>3. s2c[c] = Framed(w) \o << >>
      BY <2>1, <2>2, FrameLayout, ConcatEmptySeq
    <2>4. Unreadable(w)
      BY OwnMessages, SingleFrame DEF Unreadable
    <2>5. << >> \in Seq(Word)
      OBVIOUS
    <2> QED
      BY <1>2, <2>1, <2>3, <2>4, <2>5
  <1> QED
    BY <1>1, <1>2

\* receive_message gives no acknowledgement to a client of this code's server.
LEMMA NoAckFromOwnServer ==
  ASSUME IInv, NEW c \in Conn, role[c] # "outgoing", FrameArrived(c)
  PROVE  receive_message(c).type # "HandshakeAck"
  <1>1. PICK w \in Seq(Word), rest \in Seq(Word) :
            s2c[c] = Framed(w) \o rest /\ w = serialize_message(Handshake(ServerKey))
    BY SomethingArrived DEF FrameArrived
  <1>2. FrameLength(c) = Len(w) + 1 /\ SubSeq(s2c[c], 2, Len(w) + 1) = w
    BY <1>1, FirstFrame DEF FrameLength
  <1>3. receive_message(c) = from_bytes(w)
    BY <1>2 DEF receive_message
  <1> QED
    BY <1>1, <1>3, OwnMessages, SingleFrame

-----------------------------------------------------------------------------
(* The inductive invariant.                                                *)

\* It holds before any call.
LEMMA InitEstablishes == Init => IInv
  <1> SUFFICES ASSUME Init PROVE IInv
    OBVIOUS
  <1> USE DEF Init
  <1>1. TypeOK
    BY RolesAssumption DEF TypeOK, Role, Receiving, Ended, ServerGone
  <1>2. StreamsTypeOK
    BY DEF StreamsTypeOK
  <1>3. FlagIsKept /\ OnlyOpeningsArrive
    BY DEF FlagIsKept, OnlyOpeningsArrive
  <1>4. OnlyFramesAreSent
    BY DEF OnlyFramesAreSent, LeftOf, MaxReplies
  <1> QED
    BY <1>1, <1>2, <1>3, <1>4 DEF IInv

\* start_server leaves the connections alone, and of several calls the flag
\* lets one through.
LEMMA ServerPreserves ==
  ASSUME IInv, NEW s \in Starter, StartServer(s) \/ Bind(s) \/ ServerFails(s)
  PROVE  IInv'
  <1> USE DEF IInv, connections
  <1>1. UNCHANGED <<role, cpc, spc, c2s, s2c, replies, known_peers>>
    BY DEF StartServer, Bind, ServerFails
  <1>2. StreamsTypeOK' /\ OnlyOpeningsArrive' /\ OnlyFramesAreSent'
    BY <1>1 DEF StreamsTypeOK, OnlyOpeningsArrive, OnlyFramesAreSent
  <1>3. FlagIsKept'
    BY DEF TypeOK, FlagIsKept, StartServer, Bind, ServerFails
  <1>4. is_running' \in BOOLEAN
    <2>1. CASE StartServer(s)
      BY <2>1 DEF StartServer
    <2>2. CASE Bind(s) \/ ServerFails(s)
      BY <2>2, Zenon DEF TypeOK, Bind, ServerFails
    <2> QED
      BY <2>1, <2>2
  <1>5. start' \in [Starter -> {"idle", "bind", "listen", "ok", "err"}]
    BY DEF TypeOK, StartServer, Bind, ServerFails
  <1>6. TypeOK'
    BY <1>1, <1>4, <1>5 DEF TypeOK
  <1> QED
    BY <1>2, <1>3, <1>6

\* add_peer touches the map only.
LEMMA AddPeerPreserves ==
  ASSUME IInv, NEW pk \in AddedPeer, AddPeer(pk)
  PROVE  IInv'
  <1> USE DEF IInv, AddPeer, server, streams
  <1>1. StreamsTypeOK' /\ FlagIsKept' /\ OnlyOpeningsArrive' /\ OnlyFramesAreSent'
    BY DEF StreamsTypeOK, FlagIsKept, OnlyOpeningsArrive, OnlyFramesAreSent
  <1>2. TypeOK'
    BY KeysAssumption DEF TypeOK
  <1> QED
    BY <1>1, <1>2

\* Steps of a connection leave start_server alone.
LEMMA FlagFrame ==
  ASSUME IInv, UNCHANGED server
  PROVE  FlagIsKept' /\ is_running' \in BOOLEAN
                     /\ start' \in [Starter -> {"idle", "bind", "listen", "ok", "err"}]
  <1>1. is_running' \in BOOLEAN
    BY Zenon DEF IInv, TypeOK, server
  <1> QED
    BY <1>1 DEF IInv, TypeOK, FlagIsKept, server

\* A client that ends, whatever it has sent, leaves an empty stream behind.
LEMMA ClientEndsPreserves ==
  ASSUME IInv, NEW c \in Conn, NEW value \in Ended, ClientEnds(c, value),
         \/ UNCHANGED c2s
         \/ role[c] = "incoming" /\ \E words \in Opening : c2s' = [c2s EXCEPT ![c] = words]
  PROVE  IInv'
  <1> USE DEF IInv, ClientEnds, Ended
  <1>1. UNCHANGED server
    OBVIOUS
  <1>2. OnlyOpeningsArrive'
    BY DEF TypeOK, StreamsTypeOK, OnlyOpeningsArrive
  <1>3. Opening \subseteq Seq(Word)
    BY OpeningsRegister DEF Registering
  <1>4. StreamsTypeOK'
    <2>1. << >> \in Seq(Word)
      OBVIOUS
    <2>2. s2c' \in [Conn -> Seq(Word)]
      BY <2>1 DEF StreamsTypeOK
    <2>3. c2s' \in [Conn -> Seq(Word)]
      BY <1>3 DEF StreamsTypeOK
    <2> QED
      BY <2>2, <2>3 DEF StreamsTypeOK
  <1>5. OnlyFramesAreSent'
    BY DEF TypeOK, StreamsTypeOK, OnlyFramesAreSent, LeftOf
  <1>6. TypeOK'
    BY <1>1, FlagFrame DEF TypeOK, Receiving
  <1> QED
    BY <1>1, <1>2, <1>4, <1>5, <1>6, FlagFrame

\* A handler that ends leaves what it has not read.
LEMMA HandlerEndsPreserves ==
  ASSUME IInv, NEW c \in Conn, spc[c] \in {"send", "read", "other"},
         NEW how \in ServerGone, HandlerEnds(c, how),
         known_peers' \subseteq PublicKey \cup {Shifted(pk) : pk \in PublicKey}
  PROVE  IInv'
  <1> USE DEF IInv, HandlerEnds, ServerGone
  <1>1. UNCHANGED server
    OBVIOUS
  <1>2. StreamsTypeOK' /\ OnlyOpeningsArrive'
    BY DEF TypeOK, StreamsTypeOK, OnlyOpeningsArrive
  <1>3. OnlyFramesAreSent'
    BY DEF TypeOK, StreamsTypeOK, OnlyFramesAreSent
  <1>4. TypeOK'
    BY <1>1, FlagFrame DEF TypeOK
  <1> QED
    BY <1>1, <1>2, <1>3, <1>4, FlagFrame

\* m registers its sender by what a read of c returns of it.
RegisteredBy(c, m) ==
  /\ role[c] = "incoming"
  /\ c2s[c] = to_bytes(m)
  /\ Accepted(m)
  /\ known_peers' = known_peers \cup {Registered(m)}

\* What one read() of a handler returns registers no one, or the sender of an
\* acknowledgement.
LEMMA ReadsRegister ==
  ASSUME IInv, NEW c \in Conn, HandlerRead(c)
  PROVE  /\ UNCHANGED known_peers \/ \E m \in ClientMessage : RegisteredBy(c, m)
         /\ \E how \in ServerGone : HandlerEnds(c, how)
  <1>1. PICK n \in 1 .. Len(c2s[c]) :
          LET m == from_bytes(SubSeq(c2s[c], 1, n))
          IN  /\ known_peers' = IF m.type = "HandshakeAck" /\ m.version = 1
                                THEN known_peers \cup {m.peer_id} ELSE known_peers
              /\ HandlerEnds(c, IF m = Panic THEN "panicked" ELSE "closed")
    BY DEF HandlerRead
  <1> DEFINE d == from_bytes(SubSeq(c2s[c], 1, n))
  <1>2. c2s[c] # << >>
    OBVIOUS
  <1>3. CASE Registers(d)
    <2>1. ~Registering(c2s[c], {})
      BY <1>3 DEF Registering
    <2>2. c2s[c] # to_bytes(Handshake(PeerKey[c]))
      BY <2>1, OwnOpeningRegisters
    <2>3. c2s[c] \in Opening /\ role[c] = "incoming"
      BY <1>2, <2>2 DEF IInv, OnlyOpeningsArrive
    <2>4. PICK m \in ClientMessage :
              c2s[c] = to_bytes(m) /\ Accepted(m) /\ d.peer_id = Registered(m)
      BY <1>3, <2>3, OpeningsRegister DEF Registering
    <2>5. known_peers' = known_peers \cup {d.peer_id}
      BY <1>1, <1>3 DEF Registers
    <2>6. RegisteredBy(c, m)
      BY <2>3, <2>4, <2>5 DEF RegisteredBy
    <2> QED
      BY <1>1, <2>6 DEF ServerGone
  <1>4. CASE ~Registers(d)
    BY <1>1, <1>4 DEF Registers, ServerGone
  <1> QED
    BY <1>3, <1>4

\* Peers become known by a key, or by one read from its length on.
LEMMA ReadsKeepType ==
  ASSUME IInv, NEW c \in Conn, HandlerRead(c)
  PROVE  known_peers' \subseteq PublicKey \cup {Shifted(pk) : pk \in PublicKey}
  <1>1. CASE UNCHANGED known_peers
    BY <1>1 DEF IInv, TypeOK
  <1>2. ASSUME NEW m \in ClientMessage, RegisteredBy(c, m)
        PROVE  known_peers' \subseteq PublicKey \cup {Shifted(pk) : pk \in PublicKey}
    <2>1. m.peer_id \in PublicKey
      BY <1>2, MessagesAssumption DEF RegisteredBy, Accepted, NetworkMessage
    <2>2. Registered(m) \in PublicKey \cup {Shifted(pk) : pk \in PublicKey}
      BY <2>1 DEF Registered
    <2> QED
      BY <1>2, <2>2 DEF IInv, TypeOK, RegisteredBy
  <1> QED
    BY <1>1, <1>2, ReadsRegister

\* Every step of a connection preserves the invariant.
LEMMA ConnectionPreserves ==
  ASSUME IInv, NEW c \in Conn,
         \/ Connect(c) \/ PeerFails(c) \/ ClientStep(c)
         \/ HandlerStep(c) \/ HandlerFails(c) \/ OtherReplies(c) \/ OtherCloses(c)
  PROVE  IInv'
  <1> USE DEF IInv, streams
  <1>1. CASE Connect(c)
    <2> USE <1>1 DEF Connect
    <2>1. FlagIsKept' /\ UNCHANGED server
      BY FlagFrame
    <2>2. TypeOK'
      BY <2>1, FlagFrame DEF TypeOK, Receiving, Ended, ServerGone
    <2>3. StreamsTypeOK' /\ OnlyOpeningsArrive'
      BY DEF TypeOK, StreamsTypeOK, OnlyOpeningsArrive
    <2>4. OnlyFramesAreSent'
      BY DEF TypeOK, StreamsTypeOK, OnlyFramesAreSent, Receiving
    <2> QED
      BY <2>1, <2>2, <2>3, <2>4
  <1>2. CASE PeerFails(c) \/ OtherSends(c) \/ SyncReceiveEnds(c) \/ SyncEof(c)
    BY <1>2, ClientEndsPreserves
       DEF PeerFails, OtherSends, SyncReceiveEnds, SyncEof, Ended
  <1>3. CASE SyncSend(c)
    <2> USE <1>3 DEF SyncSend
    <2>1. FlagIsKept' /\ UNCHANGED server
      BY FlagFrame
    <2>2. TypeOK'
      BY <2>1, FlagFrame DEF TypeOK, Receiving
    <2>3. to_bytes(Handshake(PeerKey[c])) \in Seq(Word)
      BY OwnOpeningRegisters DEF Registering
    <2>4. c2s[c] = << >>
      BY DEF OnlyOpeningsArrive
    <2>5. c2s[c] \o to_bytes(Handshake(PeerKey[c])) = to_bytes(Handshake(PeerKey[c]))
      BY <2>3, <2>4, ConcatEmptySeq
    <2>6. \/ c2s' = [c2s EXCEPT ![c] = << >>]
          \/ c2s' = [c2s EXCEPT ![c] = to_bytes(Handshake(PeerKey[c]))]
      BY <2>5 DEF Send
    <2>7. StreamsTypeOK'
      <3>1. << >> \in Seq(Word)
        OBVIOUS
      <3>2. c2s' \in [Conn -> Seq(Word)]
        BY <2>3, <2>6, <3>1 DEF StreamsTypeOK
      <3> QED
        BY <3>2 DEF StreamsTypeOK
    <2>8. OnlyOpeningsArrive'
      BY <2>6 DEF TypeOK, StreamsTypeOK, OnlyOpeningsArrive
    <2>9. OnlyFramesAreSent'
      BY DEF TypeOK, OnlyFramesAreSent
    <2> QED
      BY <2>1, <2>2, <2>7, <2>8, <2>9
  <1>4. CASE SyncReceiveAck(c)
    <2> USE <1>4 DEF SyncReceiveAck
    <2>1. role[c] = "outgoing"
      BY NoAckFromOwnServer
    <2>2. FlagIsKept' /\ UNCHANGED server
      BY FlagFrame
    <2>3. TypeOK'
      BY <2>2, FlagFrame DEF TypeOK, Receiving
    <2>4. c2s' = [c2s EXCEPT ![c] = << >>]
      BY <2>1 DEF Send
    <2>5. PICK w \in Seq(Word), rest \in Seq(Word) :
              s2c[c] = Framed(w) \o rest /\ LeftOf(replies[c], rest)
      BY <2>1, SomethingArrived DEF FrameArrived
    <2>6. FrameLength(c) = Len(w) + 1 /\ SubSeq(s2c[c], Len(w) + 2, Len(s2c[c])) = rest
      BY <2>5, FirstFrame DEF FrameLength
    <2>7. FrameLength(c) + 1 = Len(w) + 2
      BY <2>6
    <2>8. s2c' = [s2c EXCEPT ![c] = rest]
      BY <2>6, <2>7
    <2>9. StreamsTypeOK'
      <3>1. << >> \in Seq(Word)
        OBVIOUS
      <3>2. c2s' \in [Conn -> Seq(Word)]
        BY <2>4, <3>1 DEF StreamsTypeOK
      <3>3. s2c' \in [Conn -> Seq(Word)]
        BY <2>8 DEF StreamsTypeOK
      <3> QED
        BY <3>2, <3>3 DEF StreamsTypeOK
    <2>10. OnlyOpeningsArrive'
      BY <2>4 DEF TypeOK, StreamsTypeOK, OnlyOpeningsArrive
    <2>11. OnlyFramesAreSent'
      BY <2>1, <2>5, <2>8 DEF TypeOK, StreamsTypeOK, OnlyFramesAreSent
    <2> QED
      BY <2>2, <2>3, <2>9, <2>10, <2>11
  <1>5. CASE HandlerSend(c)
    <2> USE <1>5 DEF HandlerSend
    <2>1. FlagIsKept' /\ UNCHANGED server
      BY FlagFrame
    <2>2. TypeOK'
      BY <2>1, FlagFrame DEF TypeOK
    <2>3. role[c] # "outgoing" /\ s2c[c] = << >>
      BY DEF OnlyFramesAreSent
    <2>4. to_bytes(Handshake(ServerKey)) \in Seq(Word)
      BY RepliesAreWords
    <2>5. s2c[c] \o to_bytes(Handshake(ServerKey)) = to_bytes(Handshake(ServerKey))
      BY <2>3, <2>4, ConcatEmptySeq
    <2>6. s2c' = s2c \/ s2c' = [s2c EXCEPT ![c] = to_bytes(Handshake(ServerKey))]
      BY <2>5 DEF Deliver
    <2>7. StreamsTypeOK' /\ OnlyOpeningsArrive'
      BY <2>4, <2>6 DEF StreamsTypeOK, OnlyOpeningsArrive
    <2>8. OnlyFramesAreSent'
      BY <2>3, <2>6 DEF TypeOK, StreamsTypeOK, OnlyFramesAreSent
    <2> QED
      BY <2>1, <2>2, <2>7, <2>8
  <1>6. CASE HandlerRead(c)
    <2>1. spc[c] = "read"
      BY <1>6 DEF HandlerRead
    <2> QED
      BY <1>6, <2>1, ReadsRegister, ReadsKeepType, HandlerEndsPreserves
  <1>7. CASE HandlerFails(c) \/ OtherCloses(c)
    <2>1. UNCHANGED known_peers
      BY <1>7 DEF HandlerFails, OtherCloses
    <2>2. known_peers' \subseteq PublicKey \cup {Shifted(pk) : pk \in PublicKey}
      BY <2>1 DEF TypeOK
    <2> QED
      BY <1>7, <2>2, HandlerEndsPreserves DEF HandlerFails, OtherCloses, ServerGone
  <1>8. CASE OtherReplies(c)
    <2> USE <1>8 DEF OtherReplies
    <2>1. FlagIsKept' /\ UNCHANGED server
      BY FlagFrame
    <2>2. TypeOK'
      BY <2>1, FlagFrame DEF TypeOK
    <2>3. PICK words \in Reply : s2c' = [s2c EXCEPT ![c] = s2c[c] \o words]
      BY DEF Deliver
    <2>4. role[c] = "outgoing" /\ replies[c] \in 0 .. MaxReplies /\ replies[c] < MaxReplies
      BY DEF OnlyFramesAreSent
    <2>5. LeftOf(replies[c] + 1, s2c[c] \o words)
      BY <2>4, StreamGrows DEF OnlyFramesAreSent
    <2>6. s2c[c] \o words \in Seq(Word)
      BY RepliesAreWords, Joined DEF StreamsTypeOK, Joins
    <2> DEFINE longer == s2c[c] \o words
    <2> HIDE DEF longer
    <2>7. s2c' = [s2c EXCEPT ![c] = longer] /\ LeftOf(replies[c] + 1, longer) /\ longer \in Seq(Word)
      BY <2>3, <2>5, <2>6 DEF longer
    <2>8. StreamsTypeOK' /\ OnlyOpeningsArrive'
      BY <2>7 DEF StreamsTypeOK, OnlyOpeningsArrive
    <2>9. OnlyFramesAreSent'
      BY <2>4, <2>7 DEF TypeOK, StreamsTypeOK, OnlyFramesAreSent, MaxReplies
    <2> QED
      BY <2>1, <2>2, <2>8, <2>9
  <1> QED
    BY <1>1, <1>2, <1>3, <1>4, <1>5, <1>6, <1>7, <1>8 DEF ClientStep, HandlerStep

\* Every step preserves the invariant.
LEMMA StepPreserves == IInv /\ [Next]_vars => IInv'
  <1> SUFFICES ASSUME IInv, [Next]_vars PROVE IInv'
    OBVIOUS
  <1>1. CASE UNCHANGED vars
    <2>1. is_running' \in BOOLEAN
      BY <1>1, Zenon DEF IInv, TypeOK, vars
    <2> QED
      BY <1>1, <2>1 DEF IInv, TypeOK, StreamsTypeOK, FlagIsKept, OnlyOpeningsArrive,
                        OnlyFramesAreSent, vars
  <1> QED
    BY <1>1, ServerPreserves, AddPeerPreserves, ConnectionPreserves DEF Next

\* Every reachable state satisfies the inductive invariant.
THEOREM Invariance == Spec => []IInv
  BY InitEstablishes, StepPreserves, PTL DEF Spec

-----------------------------------------------------------------------------

\* The calls and connections of CustomSync keep their types, and a handler
\* exists exactly for the connections that were accepted.
THEOREM TypeCorrect == Spec => []TypeOK
  <1>1. IInv => TypeOK
    BY DEF IInv
  <1> QED
    BY <1>1, Invariance, PTL

\* Of any number of start_server calls at most one binds or serves.
THEOREM SingleServer == Spec => []OneServer
  <1>1. IInv => OneServer
    BY DEF IInv, FlagIsKept, OneServer, Active
  <1> QED
    BY <1>1, Invariance, PTL

\* With any protocol message from any server, framed once or twice, and any
\* number of connections, receive_message recognises double frames only, and
\* no sync_with_peer call gets past its handshake with this code's server.
THEOREM FramingIsDoubled == Spec => []OnlyDoubleFramesAreRead
  <1>1. IInv => OnlyDoubleFramesAreRead
    <2> SUFFICES ASSUME IInv, NEW c \in Conn
                 PROVE  /\ cpc[c] = "recv_head" => role[c] = "outgoing"
                        /\ cpc[c] \in Receiving /\ FrameArrived(c) =>
                              LET inner == SubSeq(s2c[c], 2, FrameLength(c))
                              IN  receive_message(c).type \in
                                      {"HandshakeAck", "ChainHeadResponse"} =>
                                          inner = Framed(Tail(inner))
      BY DEF OnlyDoubleFramesAreRead
    <2>1. cpc[c] = "recv_head" => role[c] = "outgoing"
      BY DEF IInv, OnlyFramesAreSent
    <2>2. ASSUME FrameArrived(c),
                 receive_message(c).type \in {"HandshakeAck", "ChainHeadResponse"}
          PROVE  LET inner == SubSeq(s2c[c], 2, FrameLength(c))
                 IN  inner = Framed(Tail(inner))
      <3>1. PICK w \in Seq(Word), rest \in Seq(Word) :
                s2c[c] = Framed(w) \o rest /\ Unreadable(w)
        BY <2>2, SomethingArrived DEF FrameArrived
      <3>2. FrameLength(c) = Len(w) + 1 /\ SubSeq(s2c[c], 2, Len(w) + 1) = w
        BY <3>1, FirstFrame DEF FrameLength
      <3>3. receive_message(c) = from_bytes(w)
        BY <3>2 DEF receive_message
      <3>4. w = Framed(Tail(w))
        BY <2>2, <3>1, <3>3 DEF Unreadable
      <3> QED
        BY <3>2, <3>4
    <2> QED
      BY <2>1, <2>2
  <1> QED
    BY <1>1, Invariance, PTL

\* After a failure of bind or accept no start_server call serves again.
THEOREM ServerFailureIsFinal == Spec => FailedServerIsFinal
  <1>1. ASSUME IInv, Next, NEW f \in Starter, start[f] = "err", NEW s \in Starter
        PROVE  start'[s] \notin {"bind", "listen"}
    <2>1. is_running /\ \A t \in Starter : start[t] \in {"bind", "listen"} => t = f
      BY <1>1 DEF IInv, FlagIsKept
    <2>2. \A t \in Starter : start[t] \notin {"bind", "listen"}
      BY <1>1, <2>1
    <2>3. CASE UNCHANGED server
      BY <2>2, <2>3 DEF server
    <2>4. ASSUME NEW t \in Starter, StartServer(t) \/ Bind(t) \/ ServerFails(t)
          PROVE  start'[s] \notin {"bind", "listen"}
      BY <1>1, <2>1, <2>2, <2>4 DEF IInv, TypeOK, StartServer, Bind, ServerFails
    <2>5. \/ UNCHANGED server
          \/ \E t \in Starter : StartServer(t) \/ Bind(t) \/ ServerFails(t)
      BY <1>1, ReadsRegister
         DEF Next, AddPeer, Connect, PeerFails, ClientStep, OtherSends, SyncSend,
             SyncReceiveAck, SyncReceiveEnds, SyncEof, ClientEnds, HandlerStep,
             HandlerSend, HandlerFails, HandlerEnds, OtherReplies, OtherCloses
    <2> QED
      BY <2>3, <2>4, <2>5
  <1>2. IInv /\ [Next]_vars =>
          [(\E s \in Starter : start[s] = "err") =>
              \A s \in Starter : start'[s] \notin {"bind", "listen"}]_vars
    BY <1>1
  <1> QED
    BY <1>2, Invariance, PTL DEF Spec, FailedServerIsFinal

\* Whatever messages other clients send, in either layout of a key, and however
\* the network cuts them, known_peers grows through a connection by the sender
\* of an acknowledgement that is accepted, and by no sync_with_peer call.
THEOREM AcknowledgersRegister == Spec => OnlyAcknowledgementsRegister
  <1> DEFINE ByAcknowledgement == \E c \in Conn : \E m \in ClientMessage : RegisteredBy(c, m)
  <1>1. ASSUME IInv, Next, spc' # spc, known_peers' # known_peers
        PROVE  ByAcknowledgement
    <2>1. PICK c \in Conn : HandlerRead(c)
      BY <1>1
         DEF Next, StartServer, Bind, ServerFails, connections, AddPeer, Connect, PeerFails,
             ClientStep, OtherSends, SyncSend, SyncReceiveAck, SyncReceiveEnds, SyncEof,
             ClientEnds, HandlerStep, HandlerSend, HandlerFails, OtherReplies, OtherCloses
    <2> QED
      BY <1>1, <2>1, ReadsRegister
  <1>2. IInv /\ [Next]_vars =>
          [spc' # spc /\ known_peers' # known_peers => ByAcknowledgement]_vars
    BY <1>1
  <1> QED
    BY <1>2, Invariance, PTL DEF Spec, OnlyAcknowledgementsRegister, RegisteredBy

\* A client that ends in a panic was sent a length near the largest u32 by a
\* server of another kind.
LEMMA ClientPanics ==
  ASSUME IInv, NEW c \in Conn, SyncReceiveEnds(c), receive_message(c) = Panic
  PROVE  s2c[c][2][2] > MaxU32 - 4 /\ role[c] = "outgoing"
  <1>1. PICK w \in Seq(Word), rest \in Seq(Word) :
            /\ s2c[c] = Framed(w) \o rest
            /\ role[c] # "outgoing" => w = serialize_message(Handshake(ServerKey))
    BY SomethingArrived DEF SyncReceiveEnds, FrameArrived
  <1>2. FrameLength(c) = Len(w) + 1 /\ SubSeq(s2c[c], 2, Len(w) + 1) = w
    BY <1>1, FirstFrame DEF FrameLength
  <1>3. from_bytes(w) = Panic
    BY <1>2 DEF receive_message
  <1>4. w # << >>
    BY <1>3 DEF from_bytes, InvalidMessage, Panic
  <1>5. w[1][2] > MaxU32 - 4
    BY <1>3, <1>4, PanicMeansHuge
  <1>6. w[1] = s2c[c][2]
    <2>1. s2c[c] \in Seq(Word) /\ Len(w) > 0
      BY <1>4 DEF IInv, StreamsTypeOK
    <2>2. FrameLength(c) <= Len(s2c[c])
      BY DEF SyncReceiveEnds, FrameArrived
    <2> DEFINE u == SubSeq(s2c[c], 2, Len(w) + 1)
    <2>3. u[1] = s2c[c][2]
      BY <1>2, <2>1, <2>2
    <2> HIDE DEF u
    <2> QED
      BY <1>2, <2>3 DEF u
  <1>7. role[c] = "outgoing"
    <2> SUFFICES ASSUME role[c] # "outgoing" PROVE FALSE
      OBVIOUS
    <2>1. \E k \in 1 .. 9 : w[1] = Num(k - 1)
      BY <1>1, OwnMessages, SerializedLayout
    <2>2. w[1][2] \in 0 .. 8
      BY <2>1 DEF Num
    <2> QED
      BY <1>5, <2>2, MaxU32Assumption
  <1> QED
    BY <1>5, <1>6, <1>7

\* from_bytes panics on a length near the largest u32 only; in a handler it takes
\* neither the server nor its peers down, and no server of this code makes a
\* sync_with_peer call panic.
THEOREM PanicsAreContained == Spec => OnlyHugeLengthsPanic
  <1> DEFINE Contained(c) ==
          /\ spc[c] # "panicked" /\ spc'[c] = "panicked" =>
                c2s[c][1][2] > MaxU32 - 4 /\ UNCHANGED <<server, known_peers>>
          /\ cpc[c] # "panicked" /\ cpc'[c] = "panicked" =>
                s2c[c][2][2] > MaxU32 - 4 /\ role[c] = "outgoing"
  <1>1. ASSUME IInv, Next, NEW c \in Conn, spc[c] # "panicked", spc'[c] = "panicked"
        PROVE  HandlerRead(c)
    <2>1. ASSUME NEW d \in Conn, HandlerEnds(d, "closed") PROVE FALSE
      BY <1>1, <2>1 DEF IInv, TypeOK, HandlerEnds
    <2>2. ASSUME NEW d \in Conn, HandlerRead(d), d # c PROVE FALSE
      BY <1>1, <2>2 DEF IInv, TypeOK, HandlerRead, HandlerEnds
    <2>3. ASSUME NEW d \in Conn, Connect(d) \/ HandlerSend(d) PROVE FALSE
      BY <1>1, <2>3 DEF IInv, TypeOK, Connect, HandlerSend
    <2>4. UNCHANGED spc \/ \E d \in Conn : HandlerRead(d)
      BY <1>1, <2>1, <2>3
         DEF Next, StartServer, Bind, ServerFails, connections, AddPeer, PeerFails,
             ClientStep, OtherSends, SyncSend, SyncReceiveAck, SyncReceiveEnds, SyncEof,
             ClientEnds, HandlerStep, HandlerFails, OtherReplies, OtherCloses
    <2> QED
      BY <1>1, <2>2, <2>4
  <1>2. ASSUME IInv, NEW c \in Conn, HandlerRead(c), spc'[c] = "panicked"
        PROVE  c2s[c][1][2] > MaxU32 - 4 /\ UNCHANGED <<server, known_peers>>
    <2>1. PICK n \in 1 .. Len(c2s[c]) :
            LET m == from_bytes(SubSeq(c2s[c], 1, n))
            IN  /\ known_peers' = IF m.type = "HandshakeAck" /\ m.version = 1
                                  THEN known_peers \cup {m.peer_id} ELSE known_peers
                /\ HandlerEnds(c, IF m = Panic THEN "panicked" ELSE "closed")
      BY <1>2 DEF HandlerRead
    <2> DEFINE words == SubSeq(c2s[c], 1, n)
    <2>2. c2s[c] \in Seq(Word)
      BY <1>2 DEF IInv, StreamsTypeOK
    <2>3. words # << >> /\ words[1] = c2s[c][1]
      BY <2>2
    <2>4. from_bytes(words) = Panic
      BY <1>2, <2>1 DEF IInv, TypeOK, HandlerEnds
    <2>5. UNCHANGED known_peers
      BY <2>1, <2>4 DEF Panic
    <2> HIDE DEF words
    <2>6. words[1][2] > MaxU32 - 4
      BY <2>3, <2>4, PanicMeansHuge
    <2>7. UNCHANGED server
      BY <2>1 DEF HandlerEnds
    <2> QED
      BY <2>3, <2>5, <2>6, <2>7
  <1>3. ASSUME IInv, Next, NEW c \in Conn, cpc[c] # "panicked", cpc'[c] = "panicked"
        PROVE  SyncReceiveEnds(c) /\ receive_message(c) = Panic
    <2>1. ASSUME NEW d \in Conn, NEW value, value # "panicked", ClientEnds(d, value)
          PROVE  FALSE
      BY <1>3, <2>1 DEF IInv, TypeOK, ClientEnds
    <2>2. ASSUME NEW d \in Conn, Connect(d) \/ SyncSend(d) \/ SyncReceiveAck(d) PROVE FALSE
      BY <1>3, <2>2 DEF IInv, TypeOK, Connect, SyncSend, SyncReceiveAck
    <2>3. ASSUME NEW d \in Conn, PeerFails(d) \/ OtherSends(d) \/ SyncEof(d) PROVE FALSE
      BY <2>1, <2>3 DEF PeerFails, OtherSends, SyncEof
    <2>4. UNCHANGED cpc \/ \E d \in Conn : SyncReceiveEnds(d)
      BY <1>3, <2>2, <2>3
         DEF Next, StartServer, Bind, ServerFails, connections, AddPeer, ClientStep,
             HandlerStep, HandlerSend, HandlerRead, HandlerFails, HandlerEnds,
             OtherReplies, OtherCloses
    <2>5. PICK d \in Conn : SyncReceiveEnds(d)
      BY <1>3, <2>4
    <2>6. receive_message(d) = Panic /\ ClientEnds(d, "panicked")
      BY <2>1, <2>5 DEF SyncReceiveEnds
    <2>7. d = c
      BY <1>3, <2>6 DEF IInv, TypeOK, ClientEnds
    <2> QED
      BY <2>5, <2>6, <2>7
  <1>4. ASSUME IInv, Next, NEW c \in Conn PROVE Contained(c)
    BY <1>1, <1>2, <1>3, <1>4, ClientPanics
  <1>5. IInv /\ [Next]_vars => [\A c \in Conn : Contained(c)]_vars
    BY <1>4
  <1> QED
    BY <1>5, Invariance, PTL DEF Spec, OnlyHugeLengthsPanic

-----------------------------------------------------------------------------
(* Every sync_with_peer call to a server of this code ends.                *)

\* Where such a call can be led by one step, its own, its handler's or
\* another's: it stays where it is, or ends, or one of the two goes on.
SyncMove(c) ==
  \/ cpc'[c] = cpc[c] /\ spc'[c] = spc[c] /\ s2c'[c] = s2c[c]
  \/ cpc'[c] \in Ended
  \/ cpc[c] = "start" /\ cpc'[c] = "send" /\ spc'[c] = "send"
  \/ cpc[c] = "send" /\ cpc'[c] = "recv_ack" /\ spc'[c] = spc[c] /\ s2c'[c] = s2c[c]
  \/ /\ spc[c] = "send" /\ spc'[c] = "read"
     /\ cpc'[c] = cpc[c] /\ s2c'[c] # << >>
  \/ spc'[c] \in ServerGone /\ cpc'[c] = cpc[c]

\* The steps of the call itself.
LEMMA ClientMoves ==
  ASSUME IInv, NEW c \in Conn, role[c] = "sync", ClientStep(c)
  PROVE  \/ cpc'[c] \in Ended
         \/ /\ cpc[c] = "send" /\ cpc'[c] = "recv_ack"
            /\ spc'[c] = spc[c] /\ s2c'[c] = s2c[c]
  <1>1. ~OtherSends(c)
    BY DEF OtherSends
  <1>2. ~SyncReceiveAck(c)
    BY NoAckFromOwnServer DEF SyncReceiveAck
  <1>3. SyncReceiveEnds(c) \/ SyncEof(c) => cpc'[c] \in Ended
    BY DEF SyncReceiveEnds, SyncEof, ClientEnds, Ended, IInv, TypeOK
  <1>4. SyncSend(c) => /\ cpc[c] = "send" /\ cpc'[c] = "recv_ack"
                       /\ spc'[c] = spc[c] /\ s2c'[c] = s2c[c]
    BY DEF SyncSend, IInv, TypeOK
  <1> QED
    BY <1>1, <1>2, <1>3, <1>4 DEF ClientStep

\* The greeting, if there is someone to read it, has arrived when the handler
\* goes on to read.
LEMMA HandlerMoves ==
  ASSUME IInv, NEW c \in Conn, HandlerStep(c)
  PROVE  /\ cpc'[c] = cpc[c]
         /\ \/ spc'[c] \in ServerGone
            \/ spc[c] = "send" /\ spc'[c] = "read" /\ (cpc[c] \in Ended \/ s2c'[c] # << >>)
  <1>1. HandlerRead(c) => cpc'[c] = cpc[c] /\ spc'[c] \in ServerGone
    BY DEF HandlerRead, HandlerEnds, ServerGone, IInv, TypeOK
  <1>2. ASSUME HandlerSend(c)
        PROVE  /\ cpc'[c] = cpc[c]
               /\ spc[c] = "send" /\ spc'[c] = "read" /\ (cpc[c] \in Ended \/ s2c'[c] # << >>)
    <2> DEFINE greeting == to_bytes(Handshake(ServerKey))
    <2>1. cpc' = cpc /\ spc[c] = "send" /\ spc'[c] = "read"
      BY <1>2 DEF HandlerSend, IInv, TypeOK
    <2>2. greeting \in Seq(Word) /\ Len(greeting) > 0
      BY OwnMessages, SerializedLayout, FrameLayout DEF to_bytes
    <2>3. Deliver(c, greeting)
      BY <1>2 DEF HandlerSend
    <2> HIDE DEF greeting
    <2>4. cpc[c] \notin Ended => s2c'[c] = s2c[c] \o greeting
      BY <2>3 DEF Deliver, IInv, StreamsTypeOK
    <2>5. s2c[c] \in Seq(Word)
      BY DEF IInv, StreamsTypeOK
    <2>6. s2c[c] \o greeting # << >>
      BY <2>2, <2>5
    <2> QED
      BY <2>1, <2>4, <2>6
  <1> QED
    BY <1>1, <1>2 DEF HandlerStep

\* Every step of the system moves the call so.
LEMMA SyncMoves ==
  ASSUME IInv, [Next]_vars, NEW c \in Conn, role[c] = "sync"
  PROVE  role'[c] = "sync" /\ SyncMove(c)
  <1> USE DEF SyncMove
  <1>1. CASE UNCHANGED vars
    BY <1>1 DEF vars
  <1>2. ASSUME NEW s \in Starter, StartServer(s) \/ Bind(s) \/ ServerFails(s)
        PROVE  role' = role /\ SyncMove(c)
    BY <1>2 DEF StartServer, Bind, ServerFails, connections
  <1>3. ASSUME NEW pk \in AddedPeer, AddPeer(pk)
        PROVE  role' = role /\ SyncMove(c)
    BY <1>3 DEF AddPeer, streams
  <1>4. ASSUME NEW d \in Conn, d # c,
               \/ Connect(d) \/ PeerFails(d) \/ ClientStep(d)
               \/ HandlerStep(d) \/ HandlerFails(d) \/ OtherReplies(d) \/ OtherCloses(d)
        PROVE  role' = role /\ SyncMove(c)
    BY <1>4 DEF Connect, PeerFails, ClientStep, OtherSends, SyncSend, SyncReceiveAck,
                SyncReceiveEnds, SyncEof, ClientEnds, HandlerStep, HandlerSend, HandlerRead,
                HandlerFails, HandlerEnds, OtherReplies, OtherCloses, Deliver, streams,
                IInv, TypeOK, StreamsTypeOK
  <1>5. CASE Connect(c)
    BY <1>5 DEF Connect, streams, IInv, TypeOK
  <1>6. CASE PeerFails(c)
    BY <1>6 DEF PeerFails, ClientEnds, Ended, IInv, TypeOK
  <1>7. CASE ClientStep(c)
    <2>1. role' = role
      BY <1>7 DEF ClientStep, OtherSends, SyncSend, SyncReceiveAck, SyncReceiveEnds, SyncEof,
                  ClientEnds
    <2> QED
      BY <1>7, <2>1, ClientMoves
  <1>8. CASE HandlerStep(c)
    <2>1. role' = role
      BY <1>8 DEF HandlerStep, HandlerSend, HandlerRead, HandlerEnds
    <2> QED
      BY <1>8, <2>1, HandlerMoves
  <1>9. CASE HandlerFails(c)
    BY <1>9 DEF HandlerFails, HandlerEnds, ServerGone, IInv, TypeOK
  <1>10. ~OtherReplies(c) /\ ~OtherCloses(c)
    BY DEF OtherReplies, OtherCloses, IInv, OnlyFramesAreSent
  <1>11. ASSUME NEW d \in Conn,
                \/ Connect(d) \/ PeerFails(d) \/ ClientStep(d)
                \/ HandlerStep(d) \/ HandlerFails(d) \/ OtherReplies(d) \/ OtherCloses(d)
         PROVE  role'[c] = "sync" /\ SyncMove(c)
    <2> HIDE DEF SyncMove
    <2> QED
      BY <1>4, <1>5, <1>6, <1>7, <1>8, <1>9, <1>10, <1>11
  <1> HIDE DEF SyncMove
  <1> QED
    BY <1>1, <1>2, <1>3, <1>11 DEF Next

\* While a call waits, a handler that has gone on to read has greeted it.
Greeted ==
  \A c \in Conn : role[c] = "sync" /\ spc[c] = "read" /\ cpc[c] \notin Ended => s2c[c] # << >>

LEMMA GreetingArrives == Spec => []Greeted
  <1>1. Init => Greeted
    BY DEF Init, Greeted
  <1>2. ASSUME IInv, Greeted, [Next]_vars, NEW c \in Conn,
               (role[c] = "sync")', (spc[c] = "read")', (cpc[c] \notin Ended)'
        PROVE  (s2c[c] # << >>)'
    <2>1. role[c] = "sync"
      <3>1. role' = role
        BY <1>2 DEF Next, vars, StartServer, Bind, ServerFails, AddPeer, Connect, PeerFails,
                    ClientStep, OtherSends, SyncSend, SyncReceiveAck, SyncReceiveEnds, SyncEof,
                    ClientEnds, HandlerStep, HandlerSend, HandlerRead, HandlerFails,
                    HandlerEnds, OtherReplies, OtherCloses
      <3> QED
        BY <1>2, <3>1
    <2>2. SyncMove(c)
      BY <1>2, <2>1, SyncMoves
    <2> QED
      BY <1>2, <2>1, <2>2 DEF SyncMove, Greeted, ServerGone, Ended
  <1>3. IInv /\ Greeted /\ [Next]_vars => Greeted'
    BY <1>2 DEF Greeted
  <1> QED
    BY <1>1, <1>3, Invariance, PTL DEF Spec

\* A call whose handler has greeted it or is gone need not wait.
LEMMA GreetedIsReady ==
  ASSUME IInv, Greeted, NEW c \in Conn, role[c] = "sync", cpc[c] = "recv_ack",
         spc[c] \in {"read"} \cup ServerGone
  PROVE  Ready(c)
  <1>1. ASSUME s2c[c] # << >> PROVE FrameArrived(c)
    <2>1. PICK w \in Seq(Word), rest \in Seq(Word) : s2c[c] = Framed(w) \o rest
      BY <1>1, SomethingArrived
    <2>2. FrameLength(c) = Len(w) + 1
      BY <2>1, FirstFrame DEF FrameLength
    <2>3. Len(Framed(w)) = Len(w) + 1 /\ Framed(w) \in Seq(Word)
      BY FrameLayout
    <2>4. Len(w) \in Nat /\ Len(rest) \in Nat
      OBVIOUS
    <2> DEFINE f == Framed(w)
    <2>5. Joins(f \o rest, f, rest)
      BY <2>3, Joined
    <2> HIDE DEF f
    <2>6. Len(s2c[c]) = Len(f) + Len(rest)
      BY <2>1, <2>5 DEF Joins, f
    <2>7. Len(s2c[c]) = Len(w) + 1 + Len(rest)
      BY <2>3, <2>6 DEF f
    <2> QED
      BY <1>1, <2>2, <2>4, <2>7 DEF FrameArrived
  <1> QED
    BY <1>1 DEF Greeted, Ready, Receiving, Ended

\* One call: it sends; its handler greets it or is gone; it reads and ends.
LEMMA SyncEnds ==
  ASSUME NEW c \in Conn
  PROVE  Spec /\ FairClient(c) /\ FairHandler(c) /\ []NeverBlocked =>
             ((role[c] = "sync" /\ cpc[c] \in {"send"} \cup Receiving) ~> cpc[c] \in Ended)
  <1> DEFINE Sends == role[c] = "sync" /\ cpc[c] = "send"
             Waits == role[c] = "sync" /\ cpc[c] = "recv_ack" /\ spc[c] = "send"
             Reads == /\ role[c] = "sync" /\ cpc[c] = "recv_ack"
                      /\ spc[c] \in {"read"} \cup ServerGone
             Over == cpc[c] \in Ended
             Going == role[c] = "sync" /\ cpc[c] \in {"send"} \cup Receiving
  <1>1. IInv => (Going => Sends \/ Waits \/ Reads)
    BY DEF IInv, TypeOK, OnlyFramesAreSent, Receiving, ServerGone
  <1>2. NeverBlocked => (Sends => ENABLED <<ClientStep(c)>>_vars)
    <2>1. Sends => Ready(c)
      BY DEF Ready
    <2> QED
      BY <2>1, Zenon DEF NeverBlocked
  <1>3. NeverBlocked => (Waits => ENABLED <<HandlerStep(c)>>_vars)
    BY Zenon DEF NeverBlocked
  <1>4. IInv /\ Greeted /\ NeverBlocked => (Reads => ENABLED <<ClientStep(c)>>_vars)
    <2>1. IInv /\ Greeted => (Reads => Ready(c))
      BY GreetedIsReady
    <2> HIDE DEF Reads
    <2> QED
      BY <2>1, Zenon DEF NeverBlocked
  <1>5. IInv /\ [Next]_vars /\ Sends => Sends' \/ Waits' \/ Reads' \/ Over'
    <2> SUFFICES ASSUME IInv, [Next]_vars, Sends PROVE Sends' \/ Waits' \/ Reads' \/ Over'
      OBVIOUS
    <2>1. role'[c] = "sync" /\ SyncMove(c)
      BY SyncMoves
    <2>2. spc[c] \in {"send", "read"} \cup ServerGone
      BY DEF IInv, TypeOK, OnlyFramesAreSent
    <2> QED
      BY <2>1, <2>2 DEF SyncMove, ServerGone
  <1>6. IInv /\ [Next]_vars /\ Sends /\ <<ClientStep(c)>>_vars => Waits' \/ Reads' \/ Over'
    <2> SUFFICES ASSUME IInv, [Next]_vars, Sends, ClientStep(c) PROVE Waits' \/ Reads' \/ Over'
      OBVIOUS
    <2>1. role'[c] = "sync"
      BY SyncMoves
    <2>2. spc[c] \in {"send", "read"} \cup ServerGone
      BY DEF IInv, TypeOK, OnlyFramesAreSent
    <2> QED
      BY <2>1, <2>2, ClientMoves
  <1>7. IInv /\ [Next]_vars /\ Waits => Waits' \/ Reads' \/ Over'
    BY SyncMoves DEF SyncMove, ServerGone
  <1>8. IInv /\ [Next]_vars /\ Waits /\ <<HandlerStep(c)>>_vars => Reads' \/ Over'
    BY SyncMoves, HandlerMoves
  <1>9. IInv /\ [Next]_vars /\ Reads => Reads' \/ Over'
    BY SyncMoves DEF SyncMove, ServerGone
  <1>10. IInv /\ Reads /\ <<ClientStep(c)>>_vars => Over'
    BY ClientMoves
  <1> HIDE DEF Sends, Waits, Reads, Over, Going
  <1>11. Spec /\ FairClient(c) /\ FairHandler(c) /\ []NeverBlocked => (Going ~> Over)
    BY <1>1, <1>2, <1>3, <1>4, <1>5, <1>6, <1>7, <1>8, <1>9, <1>10, Invariance,
       GreetingArrives, PTL DEF Spec, FairClient, FairHandler
  <1> QED
    BY <1>11, PTL DEF Going, Over

\* Every sync_with_peer call to a server of this code comes to an end without a
\* timeout, with any number of connections and servers at once, if tokio polls
\* every task that is ready and no task is blocked, the part of the property
\* about ENABLED, which the sync run checks.
THEOREM SyncsEnd == FairSpec /\ []NeverBlocked => EverySyncEnds
  <1> SUFFICES ASSUME NEW c \in Conn
               PROVE  FairSpec /\ []NeverBlocked =>
                          ((role[c] = "sync" /\ cpc[c] \in {"send"} \cup Receiving)
                               ~> cpc[c] \in Ended)
    BY Zenon DEF EverySyncEnds
  <1>1. FairSpec => Spec /\ FairClient(c) /\ FairHandler(c)
    BY Zenon DEF FairSpec
  <1>2. Spec /\ FairClient(c) /\ FairHandler(c) /\ []NeverBlocked =>
            ((role[c] = "sync" /\ cpc[c] \in {"send"} \cup Receiving) ~> cpc[c] \in Ended)
    BY SyncEnds, Zenon
  <1> QED
    BY <1>1, <1>2, PTL

=============================================================================
