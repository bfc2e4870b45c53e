-------------------------- MODULE StorageApiProofs --------------------------
(***************************************************************************)
(* What the operations on sled's trees, keys and encodings do, as the      *)
(* proofs about the storage, the ledger and the command line use it.       *)
(***************************************************************************)
EXTENDS StorageApi, WellFoundedInduction, TLAPS

-----------------------------------------------------------------------------
(* Trees.                                                                  *)

IsInserted(new, tree, key, value) ==
    /\ DOMAIN new = DOMAIN tree \cup {key}
    /\ new[key] = value
    /\ \A k \in DOMAIN tree : k # key => new[k] = tree[k]
    /\ tree_get(new, key) = value
    /\ \A k : k # key => tree_get(new, k) = tree_get(tree, k)

\* Tree::insert changes what one key holds and nothing else.
LEMMA Inserted ==
    ASSUME NEW tree, NEW key, NEW value
    PROVE  IsInserted(tree_insert(tree, key, value), tree, key, value)
BY DEF IsInserted, tree_insert, tree_get

\* The keys of heights, hashes, accounts, the chain state and contract storage are
\* told apart by their first components; their other components identify them.
LEMMA Keys ==
    /\ \A h : HeightKey(h)[1] = "height"
    /\ \A x : Raw(x)[1] = "raw"
    /\ \A x, y : Raw(x) = Raw(y) => x = y
    /\ \A x : Encoded(x)[1] = "bincode" /\ Encoded(x)[2] = x
    /\ \A x, y : Encoded(x) = Encoded(y) => x = y
    /\ EncodedGlobalCurrent[1] = "bincode_str"
    /\ \A cid, key : StateKey(cid, key)[2] = cid /\ StateKey(cid, key)[3] = key
<1>1. \A h : HeightKey(h)[1] = "height"
  BY Zenon DEF HeightKey
<1>2. /\ \A x : Raw(x)[1] = "raw"
      /\ \A x, y : Raw(x) = Raw(y) => x = y
      /\ \A x : Encoded(x)[1] = "bincode" /\ Encoded(x)[2] = x
      /\ \A x, y : Encoded(x) = Encoded(y) => x = y
      /\ EncodedGlobalCurrent[1] = "bincode_str"
      /\ \A cid, key : StateKey(cid, key)[2] = cid /\ StateKey(cid, key)[3] = key
  BY DEF Raw, Encoded, EncodedGlobalCurrent, StateKey
<1> QED
  BY <1>1, <1>2

\* A contract's id is the digest of its code.
LEMMA Identified ==
    ASSUME NEW pk, NEW wasm
    PROVE  IdentifiedCode(contract_id(pk, wasm)) = wasm
BY DEF IdentifiedCode, contract_id, Sha256

LEMMA Decoded ==
    ASSUME NEW b
    PROVE  deserialize(serialize(b)) = b
BY DEF deserialize, serialize

LEMMA NotDeleted ==
    ASSUME NEW b
    PROVE  serialize(b) # Deleted
BY DEF serialize, Deleted

IsApplied(new, tree, batch) ==
    /\ DOMAIN new = {k \in DOMAIN tree \cup DOMAIN batch :
                        k \in DOMAIN batch => batch[k] # Deleted}
    /\ \A k \in DOMAIN batch : batch[k] # Deleted => new[k] = batch[k]
    /\ \A k \in DOMAIN tree : k \notin DOMAIN batch => new[k] = tree[k]

\* Db::apply_batch writes and deletes the keys of the batch and no other.
LEMMA Applied ==
    ASSUME NEW tree, NEW batch
    PROVE  IsApplied(tree_apply_batch(tree, batch), tree, batch)
BY DEF IsApplied, tree_apply_batch

\* apply_batch writes the default tree, which no getter reads.
LEMMA BatchStaysInDefault ==
    ASSUME NEW d, DOMAIN d = TreeNames, NEW batch
    PROVE  LET e == apply_batch(d, batch)
           IN  /\ DOMAIN e = TreeNames
               /\ e["default"] = tree_apply_batch(d["default"], batch)
               /\ \A name \in TreeNames \ {"default"} : e[name] = d[name]
BY DEF apply_batch, TreeNames

-----------------------------------------------------------------------------
(* Induction.                                                              *)

\* Every non-empty set of natural numbers has a least element.  An induction is
\* carried out on the set of numbers for which a claim fails.
LEMMA LeastNumber ==
    ASSUME NEW T \in SUBSET Nat, T # {}
    PROVE  \E n \in T : \A m \in T : n <= m
<1> DEFINE R == {ss \in Nat \X Nat : ss[1] < ss[2]}
<1>1. IsWellFoundedOn(R, Nat)
  BY NatLessThanWellFounded, Zenon DEF OpToRel
<1> HIDE DEF R
<1>2. PICK n \in T : \A m \in T : ~ (<<m, n>> \in R)
  BY <1>1, WFMin, Zenon
<1>3. ASSUME NEW m \in T
      PROVE  n <= m
  <2>1. m \in Nat /\ n \in Nat /\ <<m, n>> \in Nat \X Nat
    OBVIOUS
  <2>2. m < n => <<m, n>> \in R
    BY <2>1 DEF R
  <2> QED
    BY <1>2, <2>1, <2>2
<1> QED
  BY <1>3

-----------------------------------------------------------------------------
(* The keys of heights.                                                    *)

\* g lists the powers of ten up to the n-th
PowersUpTo(g, n) ==
    /\ g \in [0 .. n -> Nat]
    /\ g[0] = 1
    /\ \A m \in 0 .. n - 1 : g[m + 1] = 10 * g[m]

LEMMA PowersExist ==
    ASSUME NEW n \in Nat
    PROVE  \E g : PowersUpTo(g, n)
<1> DEFINE T == {k \in Nat : ~ \E g : PowersUpTo(g, k)}
<1> SUFFICES ASSUME T # {} PROVE FALSE
  OBVIOUS
<1>1. PICK k \in T : \A m \in T : k <= m
  <2> T \in SUBSET Nat
    OBVIOUS
  <2> HIDE DEF T
  <2> QED
    BY LeastNumber
<1>2. k # 0
  <2>1. PowersUpTo([m \in 0 .. 0 |-> 1], 0)
    BY DEF PowersUpTo
  <2> QED
    BY <2>1
<1>3. k - 1 \in Nat /\ k - 1 \notin T
  BY <1>1, <1>2
<1>4. PICK g : PowersUpTo(g, k - 1)
  BY <1>3
<1> DEFINE h == [m \in 0 .. k |-> IF m = k THEN 10 * g[k - 1] ELSE g[m]]
<1>5. PowersUpTo(h, k)
  <2>0. /\ g \in [0 .. k - 1 -> Nat] /\ g[0] = 1
        /\ \A m \in 0 .. k - 1 - 1 : g[m + 1] = 10 * g[m]
    BY <1>4 DEF PowersUpTo
  <2>1. h \in [0 .. k -> Nat]
    BY <2>0, <1>3
  <2>2. h[0] = 1
    BY <2>0, <1>2, <1>3
  <2>3. ASSUME NEW m \in 0 .. k - 1
        PROVE  h[m + 1] = 10 * h[m]
    <3>1. CASE m = k - 1
      BY <3>1, <1>3
    <3>2. CASE m # k - 1
      BY <3>2, <2>0, <1>3
    <3> QED
      BY <3>1, <3>2
  <2> HIDE DEF h
  <2> QED
    BY <2>1, <2>2, <2>3 DEF PowersUpTo
<1> QED
  BY <1>1, <1>5

LEMMA PowersAgree ==
    ASSUME NEW n \in Nat, NEW g, NEW h, PowersUpTo(g, n), PowersUpTo(h, n + 1)
    PROVE  g[n] = h[n]
<1> DEFINE T == {k \in 0 .. n : g[k] # h[k]}
<1> SUFFICES ASSUME n \in T PROVE FALSE
  OBVIOUS
<1>1. PICK k \in T : \A m \in T : k <= m
  <2> T \in SUBSET Nat /\ T # {}
    OBVIOUS
  <2> HIDE DEF T
  <2> QED
    BY LeastNumber
<1>2. k # 0
  BY DEF PowersUpTo
<1>3. k - 1 \in 0 .. n - 1 /\ k - 1 \notin T
  BY <1>1, <1>2
<1>4. g[k - 1] = h[k - 1]
  BY <1>3
<1>5. g[k - 1 + 1] = 10 * g[k - 1] /\ h[k - 1 + 1] = 10 * h[k - 1]
  BY <1>3 DEF PowersUpTo
<1>6. k - 1 + 1 = k
  BY <1>1
<1> QED
  BY <1>4, <1>5, <1>6, <1>1

\* What the recursive definition of Pow10 defines.
LEMMA Powers ==
    /\ Pow10[0] = 1
    /\ \A n \in Nat : Pow10[n] \in Nat \ {0} /\ Pow10[n + 1] = 10 * Pow10[n]
<1> DEFINE G(n) == CHOOSE g : PowersUpTo(g, n)
           f == [n \in Nat |-> G(n)[n]]
           IsPow(p) == p = [n \in Nat |-> IF n = 0 THEN 1 ELSE 10 * p[n - 1]]
<1>1. \A n \in Nat : PowersUpTo(G(n), n)
  BY PowersExist
<1> HIDE DEF G
<1>2. f[0] = 1
  BY <1>1 DEF PowersUpTo
<1>3. ASSUME NEW n \in Nat
      PROVE  f[n + 1] = 10 * f[n]
  <2>1. G(n)[n] = G(n + 1)[n]
    BY <1>1, PowersAgree
  <2>2. G(n + 1)[n + 1] = 10 * G(n + 1)[n]
    <3>1. PowersUpTo(G(n + 1), n + 1) /\ n \in 0 .. (n + 1) - 1
      BY <1>1
    <3> QED
      BY <3>1 DEF PowersUpTo
  <2> QED
    BY <2>1, <2>2
<1>4. f = [n \in Nat |-> f[n]]
  OBVIOUS
<1> HIDE DEF f
<1>5. \A n \in Nat : f[n] = IF n = 0 THEN 1 ELSE 10 * f[n - 1]
  <2> SUFFICES ASSUME NEW n \in Nat PROVE f[n] = IF n = 0 THEN 1 ELSE 10 * f[n - 1]
    OBVIOUS
  <2>1. CASE n = 0
    BY <2>1, <1>2
  <2>2. CASE n # 0
    <3>1. n - 1 \in Nat /\ (n - 1) + 1 = n
      BY <2>2
    <3>2. f[(n - 1) + 1] = 10 * f[n - 1]
      BY <3>1, <1>3
    <3> QED
      BY <2>2, <3>1, <3>2
  <2> QED
    BY <2>1, <2>2
<1>6. IsPow(f)
  BY <1>4, <1>5, Zenon
<1>7. Pow10 = CHOOSE p : IsPow(p)
  BY Zenon DEF Pow10
<1>8. IsPow(Pow10)
  <2> HIDE DEF IsPow
  <2> QED
    BY <1>6, <1>7, Zenon
<1>9. /\ Pow10[0] = 1
      /\ \A n \in Nat : Pow10[n + 1] = 10 * Pow10[n]
  <2>1. \A n \in Nat : Pow10[n] = IF n = 0 THEN 1 ELSE 10 * Pow10[n - 1]
    BY <1>8, Zenon
  <2>2. \A n \in Nat : Pow10[n + 1] = 10 * Pow10[(n + 1) - 1]
    BY <2>1
  <2> QED
    BY <2>1, <2>2
<1>10. \A n \in Nat : Pow10[n] \in Nat \ {0}
  <2> DEFINE T == {k \in Nat : Pow10[k] \notin Nat \ {0}}
  <2> SUFFICES ASSUME T # {} PROVE FALSE
    OBVIOUS
  <2>1. PICK k \in T : \A m \in T : k <= m
    <3> T \in SUBSET Nat
      OBVIOUS
    <3> HIDE DEF T
    <3> QED
      BY LeastNumber
  <2>2. k # 0
    BY <1>9
  <2>3. k - 1 \in Nat /\ k - 1 \notin T /\ (k - 1) + 1 = k
    BY <2>1, <2>2
  <2>4. Pow10[k - 1] \in Nat \ {0} /\ Pow10[(k - 1) + 1] = 10 * Pow10[k - 1]
    BY <2>3, <1>9
  <2> QED
    BY <2>3, <2>4, <2>1
<1> QED
  BY <1>9, <1>10

\* Division with remainder, and what characterises its quotient.
LEMMA Quotient ==
    ASSUME NEW h \in Nat, NEW p \in Nat \ {0}
    PROVE  LET q == h \div p
           IN  q \in Nat /\ p * q <= h /\ h < p * q + p
OBVIOUS

LEMMA QuotientIs ==
    ASSUME NEW h \in Nat, NEW p \in Nat \ {0}, NEW q \in Nat, p * q <= h, h < p * q + p
    PROVE  h \div p = q
OBVIOUS

LEMMA QuotientGrows ==
    ASSUME NEW h \in Nat, NEW l \in Nat, NEW p \in Nat \ {0}, h <= l
    PROVE  h \div p <= l \div p
OBVIOUS

LEMMA LastDigit ==
    ASSUME NEW h \in Nat, NEW p \in Nat \ {0}
    PROVE  h \div p = 10 * (h \div (10 * p)) + ((h \div p) % 10)
<1> DEFINE q == h \div p
           r == q \div 10
<1>1. q \in Nat /\ p * q <= h /\ h < p * q + p
  BY Quotient
<1> HIDE DEF q
<1>2. r \in Nat /\ q = 10 * r + (q % 10) /\ 10 * r <= q /\ q <= 10 * r + 9
  BY <1>1
<1> HIDE DEF r
<1>3. /\ p * (10 * r) <= p * q /\ p * q <= p * (10 * r + 9)
      /\ (10 * p) * r = p * (10 * r)
      /\ p * (10 * r + 9) = p * (10 * r) + 9 * p
  BY <1>1, <1>2
<1>4. (10 * p) * r <= h /\ h < (10 * p) * r + 10 * p /\ 10 * p \in Nat \ {0}
  <2> DEFINE a == p * q
             b == p * (10 * r)
             c == (10 * p) * r
             d == p * (10 * r + 9)
  <2>1. a \in Nat /\ b \in Nat /\ c \in Nat /\ d \in Nat
    BY <1>1, <1>2
  <2>2. a <= h /\ h < a + p /\ b <= a /\ a <= d /\ c = b /\ d = b + 9 * p
    BY <1>1, <1>3
  <2> HIDE DEF a, b, c, d
  <2>3. c <= h /\ h < c + 10 * p /\ 10 * p \in Nat \ {0}
    BY <2>1, <2>2
  <2> QED
    BY <2>3 DEF c
<1>5. h \div (10 * p) = r
  BY <1>2, <1>4, QuotientIs
<1> QED
  BY <1>2, <1>5 DEF q

\* The prefix of the first i digits of h, as a number.
Prefix(h, i) == h \div Pow10[HeightDigits - i]

LEMMA Prefixes ==
    ASSUME NEW h \in U64
    PROVE  /\ \A i \in 0 .. HeightDigits : Prefix(h, i) \in Nat
           /\ Prefix(h, 0) = 0
           /\ Prefix(h, HeightDigits) = h
           /\ \A i \in 1 .. HeightDigits :
                 Prefix(h, i) = 10 * Prefix(h, i - 1) + (Prefix(h, i) % 10)
<1>0. h \in Nat /\ HeightDigits \in Nat
  BY DigitsAssumption, MaxU64Assumption DEF U64
<1>1. ASSUME NEW i \in 0 .. HeightDigits PROVE Prefix(h, i) \in Nat
  <2>1. HeightDigits - i \in Nat
    BY <1>0
  <2>2. Pow10[HeightDigits - i] \in Nat \ {0}
    BY <2>1, Powers
  <2> QED
    BY <2>2, Quotient, <1>0 DEF Prefix
<1>2. Prefix(h, 0) = 0
  <2>1. Pow10[HeightDigits] \in Nat \ {0} /\ h < Pow10[HeightDigits]
    BY <1>0, DigitsAssumption, MaxU64Assumption, Powers DEF U64
  <2>2. h \div Pow10[HeightDigits] = 0
    BY <1>0, <2>1, QuotientIs
  <2> QED
    BY <1>0, <2>2 DEF Prefix
<1>3. Prefix(h, HeightDigits) = h
  <2>1. HeightDigits - HeightDigits = 0 /\ Pow10[0] = 1
    BY <1>0, Powers
  <2> QED
    BY <1>0, <2>1 DEF Prefix
<1>4. ASSUME NEW i \in 1 .. HeightDigits
      PROVE  Prefix(h, i) = 10 * Prefix(h, i - 1) + (Prefix(h, i) % 10)
  <2> DEFINE n == HeightDigits - i
             p == Pow10[n]
  <2>1. n \in Nat /\ HeightDigits - (i - 1) = n + 1
    BY <1>0
  <2>2. p \in Nat \ {0} /\ Pow10[n + 1] = 10 * p
    BY <2>1, Powers
  <2>3. h \div p = 10 * (h \div (10 * p)) + ((h \div p) % 10)
    BY <1>0, <2>2, LastDigit
  <2>4. Prefix(h, i) = h \div p /\ Prefix(h, i - 1) = h \div (10 * p)
    BY <2>1, <2>2 DEF Prefix
  <2> QED
    BY <2>3, <2>4
<1> QED
  BY <1>1, <1>2, <1>3, <1>4

\* Zero-padded decimals are ordered, byte by byte, like the numbers they stand for.
LEMMA KeyOrder ==
    ASSUME NEW h \in U64, NEW l \in U64, h < l
    PROVE  /\ KeyLess(HeightKey(h), HeightKey(l))
           /\ ~ KeyLess(HeightKey(l), HeightKey(h))
<1> DEFINE D == HeightDigits
           T == {i \in 0 .. D : Prefix(h, i) # Prefix(l, i)}
           x == HeightKey(h)[2]
           y == HeightKey(l)[2]
<1>0. h \in Nat /\ l \in Nat /\ D \in Nat
  BY DigitsAssumption, MaxU64Assumption DEF U64
<1>1. /\ \A i \in 1 .. D : x[i] = Prefix(h, i) % 10 /\ y[i] = Prefix(l, i) % 10
      /\ DOMAIN x = 1 .. D /\ DOMAIN y = 1 .. D
  BY DEF HeightKey, Prefix
<1>2. D \in T
  BY <1>0, Prefixes
<1>3. PICK i \in T : \A m \in T : i <= m
  <2> T \in SUBSET Nat /\ T # {}
    BY <1>2
  <2> HIDE DEF T
  <2> QED
    BY LeastNumber
<1>4. i # 0 /\ i \in 1 .. D
  BY <1>0, <1>3, Prefixes
<1>5. \A j \in 0 .. i - 1 : Prefix(h, j) = Prefix(l, j)
  BY <1>0, <1>3, <1>4
<1>6. Prefix(h, i) <= Prefix(l, i)
  <2>1. D - i \in Nat
    BY <1>0, <1>4
  <2>2. Pow10[D - i] \in Nat \ {0}
    BY <2>1, Powers
  <2> QED
    BY <2>2, <1>0, QuotientGrows DEF Prefix
<1>9. ASSUME NEW j \in 1 .. D PROVE x[j] \in Nat /\ y[j] \in Nat
  <2>1. Prefix(h, j) \in Nat /\ Prefix(l, j) \in Nat
    BY <1>0, Prefixes
  <2>2. Prefix(h, j) % 10 \in Nat /\ Prefix(l, j) % 10 \in Nat
    BY <2>1
  <2> QED
    BY <1>1, <2>2
<1>7. x[i] < y[i] /\ x[i] \in Nat /\ y[i] \in Nat
  <2>1. Prefix(h, i) \in Nat /\ Prefix(l, i) \in Nat /\ Prefix(h, i - 1) \in Nat
    BY <1>0, <1>4, Prefixes
  <2>2. Prefix(h, i) < Prefix(l, i) /\ Prefix(h, i - 1) = Prefix(l, i - 1)
    BY <1>0, <1>3, <1>4, <1>5, <1>6, <2>1
  <2>3. /\ Prefix(h, i) = 10 * Prefix(h, i - 1) + (Prefix(h, i) % 10)
        /\ Prefix(l, i) = 10 * Prefix(l, i - 1) + (Prefix(l, i) % 10)
    BY <1>4, Prefixes
  <2> QED
    <3>1. x[i] = Prefix(h, i) % 10 /\ y[i] = Prefix(l, i) % 10
      BY <1>1, <1>4
    <3>2. x[i] \in Nat /\ y[i] \in Nat
      BY <1>4, <1>9
    <3> HIDE DEF x, y
    <3>3. /\ Prefix(h, i) = 10 * Prefix(h, i - 1) + x[i]
          /\ Prefix(l, i) = 10 * Prefix(h, i - 1) + y[i]
      BY <2>2, <2>3, <3>1
    <3> QED
      BY <2>1, <2>2, <3>2, <3>3
<1>8. \A j \in 1 .. i - 1 : x[j] = y[j]
  BY <1>0, <1>1, <1>4, <1>5
<1>10. KeyLess(HeightKey(h), HeightKey(l))
  BY <1>1, <1>4, <1>7, <1>8 DEF KeyLess
<1>11. Len(x) = D /\ Len(y) = D
  BY <1>0 DEF HeightKey
<1> HIDE DEF x, y
<1>12. ASSUME KeyLess(HeightKey(l), HeightKey(h)) PROVE FALSE
  <2>1. PICK k \in 1 .. D : y[k] < x[k] /\ \A j \in 1 .. k - 1 : y[j] = x[j]
    BY <1>0, <1>1, <1>11, <1>12 DEF KeyLess, x, y
  <2>2. CASE k < i
    BY <2>1, <2>2, <1>0, <1>4, <1>8, <1>9
  <2>3. CASE i < k
    BY <2>1, <2>3, <1>0, <1>4, <1>7, <1>9
  <2>4. CASE i = k
    BY <2>1, <2>4, <1>7
  <2> QED
    BY <2>2, <2>3, <2>4, <1>0, <1>4
<1> QED
  BY <1>10, <1>12
=============================================================================
