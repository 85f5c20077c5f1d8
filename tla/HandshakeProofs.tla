--------------------------- MODULE HandshakeProofs ---------------------------
(***************************************************************************)
(* Proofs about Handshake: for each number of 32 bits encode_varint writes *)
(* what Minecraft reads and decode_varint reads it back, and for each      *)
(* handshake, cut off anywhere, what parse_handshake_buf makes of it.      *)
(*                                                                         *)
(* A VarInt has five bytes at most: the recursions of the codec unfold     *)
(* into five turns, and nothing here is an induction.  A number is the sum *)
(* of its groups (GroupSum); the encoder takes them off one by one         *)
(* (LeftOfGroups), the decoder adds them up (DecodeWhole).  The parser's   *)
(* theorem follows from where the fields of a packet are (Layout).         *)
(***************************************************************************)
EXTENDS Handshake, SequenceTheorems, TLAPS

Byte == 0..255

-----------------------------------------------------------------------------
(* Numbers and their groups.                                               *)

\* The weights, in numbers.
LEMMA Weights ==
    /\ Weight[1] = 1 /\ Weight[2] = 128 /\ Weight[3] = 128 * 128
    /\ Weight[4] = 128 * 128 * 128 /\ Weight[5] = 128 * 128 * 128 * 128
<1>1. 128^2 = 128 * 128 /\ 128^3 = 128 * 128 * 128 /\ 128^4 = 128 * 128 * 128 * 128
    BY SMT
<1> QED BY <1>1, SMT DEF Weight

\* Seven bits each, and four of the fifth.
LEMMA GroupRange ==
    ASSUME NEW v \in Int
    PROVE  /\ \A i \in 1..5 : Group(v, i) \in Nat /\ Group(v, i) < 128
           /\ Group(v, 5) \in Nat /\ Group(v, 5) < 16
<1>1. \A i \in 1..5 : v \div Weight[i] \in Int
  BY Weights, SMT
<1>2. \A x \in Int : x % 128 \in Nat /\ x % 128 < 128 /\ x % 16 \in Nat /\ x % 16 < 16
  BY SMT
<1> QED BY <1>1, <1>2, SMT DEF Group

\* A number is the sum of its groups; the fifth holds the sign.
LEMMA GroupSum ==
    ASSUME NEW v \in I32
    PROVE  v = Group(v, 1) + 128 * (Group(v, 2) + 128 * (Group(v, 3) + 128 * (Group(v, 4)
                 + 128 * (IF Group(v, 5) < 8 THEN Group(v, 5) ELSE Group(v, 5) - 16))))
<1> DEFINE a == v \div 128
           b == a \div 128
           c == b \div 128
           d == c \div 128
<1>0. v \in Int /\ a \in Int /\ b \in Int /\ c \in Int /\ d \in Int
  BY SMT DEF I32
<1>1. v \div (128 * 128) = b /\ v \div (128 * 128 * 128) = c
         /\ v \div (128 * 128 * 128 * 128) = d
  BY <1>0, SMT
<1>2. d \in -8..7
  <2>1. v \div 2^28 \in -8..7 /\ 2^28 = 128 * 128 * 128 * 128
    BY SMT DEF I32
  <2> QED BY <1>1, <2>1
<1>3. v = (v % 128) + 128 * ((a % 128) + 128 * ((b % 128) + 128 * ((c % 128) + 128 * d)))
  BY <1>0, SMT
<1>4. d = IF d % 16 < 8 THEN d % 16 ELSE (d % 16) - 16
  BY <1>2, SMT
<1>5. v \div 1 = v
  BY <1>0, SMT
<1> HIDE DEF a, b, c, d
<1>6. /\ Group(v, 1) = v % 128 /\ Group(v, 2) = a % 128 /\ Group(v, 3) = b % 128
      /\ Group(v, 4) = c % 128 /\ Group(v, 5) = d % 16
  BY <1>1, <1>5, Weights, SMT DEF Group, a
<1> QED BY <1>0, <1>3, <1>4, <1>6, SMT

\* n is the last place that is not a leading zero.
IsWireLen(v, n) ==
    (n = 1 \/ Group(v, n) # 0) /\ \A j \in (n + 1)..5 : Group(v, j) = 0

\* Which byte of a VarInt is the last.
LEMMA WireLenDef ==
    ASSUME NEW v
    PROVE  /\ WireLen(v) \in 1..5
           /\ IsWireLen(v, WireLen(v))
           /\ \A n \in 1..5 : IsWireLen(v, n) => n = WireLen(v)
<1>1. \E n \in 1..5 : IsWireLen(v, n)
  <2>1. CASE Group(v, 5) # 0 BY <2>1, SMT DEF IsWireLen
  <2>2. CASE Group(v, 5) = 0 /\ Group(v, 4) # 0 BY <2>2, SMT DEF IsWireLen
  <2>3. CASE Group(v, 5) = 0 /\ Group(v, 4) = 0 /\ Group(v, 3) # 0
    BY <2>3, SMT DEF IsWireLen
  <2>4. CASE Group(v, 5) = 0 /\ Group(v, 4) = 0 /\ Group(v, 3) = 0 /\ Group(v, 2) # 0
    BY <2>4, SMT DEF IsWireLen
  <2>5. CASE Group(v, 5) = 0 /\ Group(v, 4) = 0 /\ Group(v, 3) = 0 /\ Group(v, 2) = 0
    BY <2>5, SMT DEF IsWireLen
  <2> QED BY <2>1, <2>2, <2>3, <2>4, <2>5
<1>2. WireLen(v) \in 1..5 /\ IsWireLen(v, WireLen(v))
  BY <1>1 DEF WireLen, IsWireLen
<1>3. ASSUME NEW m \in 1..5, NEW n \in 1..5, IsWireLen(v, m), IsWireLen(v, n)
      PROVE  m >= n
  BY <1>3, SMT DEF IsWireLen
<1>4. ASSUME NEW n \in 1..5, IsWireLen(v, n) PROVE n = WireLen(v)
  <2>1. n >= WireLen(v) /\ WireLen(v) >= n
    BY <1>2, <1>3, <1>4
  <2> QED BY <1>2, <2>1, SMT
<1> QED BY <1>2, <1>4

\* A VarInt on the wire.
LEMMA WireVarIntType ==
    ASSUME NEW v \in Int
    PROVE  /\ WireVarInt(v) \in Seq(Byte)
           /\ Len(WireVarInt(v)) = WireLen(v)
           /\ WireLen(v) \in 1..5
           /\ \A i \in 1..WireLen(v) :
                WireVarInt(v)[i] = Group(v, i) + (IF i < WireLen(v) THEN 128 ELSE 0)
<1>1. WireLen(v) \in 1..5 BY WireLenDef
<1>2. ASSUME NEW i \in 1..WireLen(v)
      PROVE  Group(v, i) + (IF i < WireLen(v) THEN 128 ELSE 0) \in Byte
  <2>1. i \in 1..5 BY <1>1, SMT
  <2>2. Group(v, i) \in Nat /\ Group(v, i) < 128 BY <2>1, GroupRange
  <2> QED BY <2>2, SMT DEF Byte
<1>3. WireVarInt(v) \in [1..WireLen(v) -> Byte]
  BY <1>2 DEF WireVarInt
<1>4. WireVarInt(v) \in Seq(Byte)
  BY <1>1, <1>3, SMT
<1>5. DOMAIN WireVarInt(v) = 1..WireLen(v) /\ Len(WireVarInt(v)) \in Nat
  BY <1>3, <1>4, LenProperties
<1>6. Len(WireVarInt(v)) = WireLen(v)
  BY <1>1, <1>3, <1>4, <1>5, LenProperties, SMT
<1> QED BY <1>1, <1>4, <1>6 DEF WireVarInt

-----------------------------------------------------------------------------
(* The codec.                                                              *)

\* The sum a decoder makes, turn by turn.
LEMMA SumOfDef ==
    ASSUME NEW buf
    PROVE  /\ SumOf(buf)[0] = 0
           /\ \A i \in 1..5 : SumOf(buf)[i] = SumOf(buf)[i - 1] + Septet(buf[i], i)
<1> DEFINE s1 == 0 + Septet(buf[1], 1)
           s2 == s1 + Septet(buf[2], 2)
           s3 == s2 + Septet(buf[3], 3)
           s4 == s3 + Septet(buf[4], 4)
           s5 == s4 + Septet(buf[5], 5)
           sums == [i \in 0..5 |-> IF i = 0 THEN 0 ELSE IF i = 1 THEN s1
                                   ELSE IF i = 2 THEN s2 ELSE IF i = 3 THEN s3
                                   ELSE IF i = 4 THEN s4 ELSE s5]
<1> HIDE DEF s1, s2, s3, s4, s5
<1>1. sums = [i \in 0..5 |-> IF i = 0 THEN 0 ELSE sums[i - 1] + Septet(buf[i], i)]
  BY DEF s1, s2, s3, s4, s5
<1> HIDE DEF sums
<1>2. \E f : f = [i \in 0..5 |-> IF i = 0 THEN 0 ELSE f[i - 1] + Septet(buf[i], i)]
  BY <1>1
<1>3. SumOf(buf) = [i \in 0..5 |-> IF i = 0 THEN 0
                                   ELSE SumOf(buf)[i - 1] + Septet(buf[i], i)]
  BY <1>2, Zenon DEF SumOf
<1> QED BY <1>3

\* What is left of a number, turn by turn.
LEMMA LeftOfDef ==
    ASSUME NEW v
    PROVE  /\ LeftOf(v)[0] = v
           /\ \A i \in 1..5 : LeftOf(v)[i] = Shr7(LeftOf(v)[i - 1])
<1> DEFINE l1 == Shr7(v)
           l2 == Shr7(l1)
           l3 == Shr7(l2)
           l4 == Shr7(l3)
           l5 == Shr7(l4)
           lefts == [i \in 0..5 |-> IF i = 0 THEN v ELSE IF i = 1 THEN l1
                                    ELSE IF i = 2 THEN l2 ELSE IF i = 3 THEN l3
                                    ELSE IF i = 4 THEN l4 ELSE l5]
<1> HIDE DEF l1, l2, l3, l4, l5
<1>1. lefts = [i \in 0..5 |-> IF i = 0 THEN v ELSE Shr7(lefts[i - 1])]
  BY DEF l1, l2, l3, l4, l5
<1> HIDE DEF lefts
<1>2. \E f : f = [i \in 0..5 |-> IF i = 0 THEN v ELSE Shr7(f[i - 1])]
  BY <1>1
<1>3. LeftOf(v) = [i \in 0..5 |-> IF i = 0 THEN v ELSE Shr7(LeftOf(v)[i - 1])]
  BY <1>2, Zenon DEF LeftOf
<1> QED BY <1>3

\* A shift is a division of what is not negative; it moves the sign of what
\* is into the 25 bits that are left.
LEMMA Shift ==
    /\ \A x \in Nat : Shr7(x) = x \div 128
    /\ \A x \in Int : x < 0 => Shr7(x) = x \div 128 + 16 * (128 * 128 * 128)
<1>1. 2^25 = 16 * (128 * 128 * 128) BY SMT
<1>2. \A x \in Nat : x >= 0 BY SMT
<1>3. \A x \in Int : x < 0 => ~(x >= 0) BY SMT
<1> QED BY <1>1, <1>2, <1>3 DEF Shr7

\* The turns of encode_varint take the groups off one by one: after the
\* first, the sign is gone and the shift is a division.
LEMMA LeftOfGroups ==
    ASSUME NEW v \in I32
    PROVE  /\ \A i \in 1..5 : LeftOf(v)[i - 1] % 128 = Group(v, i)
           /\ \A i \in 1..5 : LeftOf(v)[i] = 0 <=> \A j \in (i + 1)..5 : Group(v, j) = 0
<1> DEFINE a == v \div 128
           b == a \div 128
           c == b \div 128
           d == c \div 128
           L(i) == LeftOf(v)[i]
<1>0. v \in Int /\ a \in Int /\ b \in Int /\ c \in Int /\ d \in Int
  BY SMT DEF I32
<1>1. v \div (128 * 128) = b /\ v \div (128 * 128 * 128) = c
         /\ v \div (128 * 128 * 128 * 128) = d /\ v \div 1 = v
  BY <1>0, SMT
<1>2. d \in -8..7
  <2>1. v \div 2^28 \in -8..7 /\ 2^28 = 128 * 128 * 128 * 128
    BY SMT DEF I32
  <2> QED BY <1>1, <2>1
<1>3. /\ Group(v, 1) = v % 128 /\ Group(v, 2) = a % 128 /\ Group(v, 3) = b % 128
      /\ Group(v, 4) = c % 128 /\ Group(v, 5) = d % 16
  BY <1>1, Weights, SMT DEF Group
<1>4. L(0) = v /\ L(1) = Shr7(v) /\ L(2) = Shr7(L(1)) /\ L(3) = Shr7(L(2))
         /\ L(4) = Shr7(L(3)) /\ L(5) = Shr7(L(4))
  <2>1. \A i \in 1..5 : L(i) = Shr7(L(i - 1)) BY LeftOfDef
  <2> QED BY <2>1, LeftOfDef, SMT
<1>5. b = a \div 128 /\ c = b \div 128 /\ d = c \div 128
  OBVIOUS
<1> HIDE DEF L, b, c, d
<1>6. /\ L(1) \in Nat /\ L(2) \in Nat /\ L(3) \in Nat /\ L(4) \in Nat
      /\ L(1) % 128 = a % 128 /\ L(2) % 128 = b % 128 /\ L(3) % 128 = c % 128
      /\ L(4) = d % 16
  <2>1. CASE v >= 0
    <3>1. v \in Nat /\ a \in Nat /\ b \in Nat /\ c \in Nat /\ d \in Nat
      BY <1>0, <1>5, <2>1, SMT
    <3>2. d % 16 = d
      BY <1>2, <3>1, SMT
    <3>3. L(1) = a /\ L(2) = b /\ L(3) = c /\ L(4) = d
      BY <1>4, <1>5, <3>1, Shift
    <3> QED BY <3>1, <3>2, <3>3
  <2>2. CASE v < 0
    <3> HIDE DEF a
    <3>1. d < 0
      <4>1. a < 0 BY <1>0, <2>2, SMT DEF a
      <4>2. b < 0 BY <1>0, <1>5, <4>1, SMT
      <4>3. c < 0 BY <1>0, <1>5, <4>2, SMT
      <4> QED BY <1>0, <1>5, <4>3, SMT
    <3>2. d + 16 \in Nat /\ d % 16 = d + 16
      BY <1>0, <1>2, <3>1, SMT
    <3>3. c + 16 * 128 \in Nat
      BY <1>0, <1>5, <3>2, SMT
    <3>4. b + 16 * (128 * 128) \in Nat
      BY <1>0, <1>5, <3>3, SMT
    <3>5. a + 16 * (128 * 128 * 128) \in Nat
      BY <1>0, <1>5, <3>4, SMT
    <3>6. L(1) = a + 16 * (128 * 128 * 128)
      BY <1>0, <1>4, <2>2, Shift DEF a
    <3>7. L(2) = b + 16 * (128 * 128)
      <4>1. L(2) = L(1) \div 128 BY <1>4, <3>5, <3>6, Shift
      <4> QED BY <1>0, <1>5, <3>6, <4>1, SMT
    <3>8. L(3) = c + 16 * 128
      <4>1. L(3) = L(2) \div 128 BY <1>4, <3>4, <3>7, Shift
      <4> QED BY <1>0, <1>5, <3>7, <4>1, SMT
    <3>9. L(4) = d + 16
      <4>1. L(4) = L(3) \div 128 BY <1>4, <3>3, <3>8, Shift
      <4> QED BY <1>0, <1>5, <3>8, <4>1, SMT
    <3>10. L(1) % 128 = a % 128
      BY <1>0, <3>6, SMT
    <3>11. L(2) % 128 = b % 128
      BY <1>0, <3>7, SMT
    <3>12. L(3) % 128 = c % 128
      BY <1>0, <3>8, SMT
    <3> QED BY <3>2, <3>3, <3>4, <3>5, <3>6, <3>7, <3>8, <3>9, <3>10, <3>11, <3>12
  <2> QED BY <1>0, <2>1, <2>2, SMT
<1>7. L(4) \in 0..15 /\ L(4) % 128 = L(4)
  BY <1>0, <1>6, SMT
<1>8. L(2) = L(1) \div 128 /\ L(3) = L(2) \div 128 /\ L(4) = L(3) \div 128 /\ L(5) = 0
  <2>1. L(5) = L(4) \div 128
    BY <1>4, <1>6, Shift
  <2>2. L(5) = 0
    BY <1>7, <2>1, SMT
  <2> QED BY <1>4, <1>6, <2>2, Shift
<1> HIDE DEF a
<1>9. /\ L(0) % 128 = Group(v, 1) /\ L(1) % 128 = Group(v, 2) /\ L(2) % 128 = Group(v, 3)
      /\ L(3) % 128 = Group(v, 4) /\ L(4) = Group(v, 5)
  BY <1>3, <1>4, <1>6
<1>10. /\ L(3) = 0 <=> Group(v, 4) = 0 /\ L(4) = 0
       /\ L(2) = 0 <=> Group(v, 3) = 0 /\ L(3) = 0
       /\ L(1) = 0 <=> Group(v, 2) = 0 /\ L(2) = 0
  BY <1>6, <1>8, <1>9, SMT
<1>11. \A i \in 1..5 : L(i - 1) % 128 = Group(v, i)
  BY <1>7, <1>9, SMT
<1>12. \A i \in 1..5 : L(i) = 0 <=> \A j \in (i + 1)..5 : Group(v, j) = 0
  <2>1. ASSUME NEW i \in 1..5 PROVE L(i) = 0 <=> \A j \in (i + 1)..5 : Group(v, j) = 0
    <3>1. i = 5 \/ i = 4 \/ i = 3 \/ i = 2 \/ i = 1 BY SMT
    <3>2. 6..5 = {} /\ 5..5 = {5} /\ 4..5 = {4, 5} /\ 3..5 = {3, 4, 5}
            /\ 2..5 = {2, 3, 4, 5}
      BY SMT
    <3> QED BY <1>8, <1>9, <1>10, <3>1, <3>2
  <2> QED BY <2>1
<1> QED BY <1>11, <1>12 DEF L

\* encode_varint writes what Minecraft reads, for each number of 32 bits.
THEOREM EncodeIsMinecrafts == \A v \in I32 : EncodeVarInt(v) = WireVarInt(v)
<1> SUFFICES ASSUME NEW v \in I32 PROVE EncodeVarInt(v) = WireVarInt(v)
  OBVIOUS
<1> DEFINE left == LeftOf(v)
           Empties(i) == left[i] = 0 /\ \A j \in 1..(i - 1) : left[j] # 0
<1>1. v \in Int BY DEF I32
<1>2. ASSUME NEW i \in 1..5 PROVE Empties(i) <=> i = WireLen(v)
  <2> HIDE DEF left
  <2>1. \A j \in 1..5 : left[j] = 0 <=> \A k \in (j + 1)..5 : Group(v, k) = 0
    BY LeftOfGroups DEF left
  <2>2. ASSUME Empties(i) PROVE IsWireLen(v, i)
    <3>1. CASE i = 1 BY <2>1, <2>2, <3>1, SMT DEF IsWireLen
    <3>2. CASE i # 1
      <4>1. i - 1 \in 1..5 /\ left[i - 1] # 0 BY <2>2, <3>2, SMT
      <4>2. PICK k \in i..5 : Group(v, k) # 0 BY <2>1, <4>1, SMT
      <4>3. k \notin (i + 1)..5 BY <2>1, <2>2, <4>2, SMT
      <4> QED BY <2>1, <2>2, <4>2, <4>3, SMT DEF IsWireLen
    <3> QED BY <3>1, <3>2
  <2>3. ASSUME i = WireLen(v) PROVE Empties(i)
    <3>1. IsWireLen(v, i) BY <2>3, WireLenDef
    <3>2. left[i] = 0 BY <2>1, <3>1 DEF IsWireLen
    <3>3. ASSUME NEW j \in 1..(i - 1) PROVE left[j] # 0
      <4>1. j \in 1..5 /\ i \in (j + 1)..5 /\ Group(v, i) # 0
        BY <3>1, <3>3, SMT DEF IsWireLen
      <4> QED BY <2>1, <4>1
    <3> QED BY <3>2, <3>3
  <2> QED BY <2>2, <2>3, WireLenDef
<1>3. (CHOOSE i \in 1..5 : Empties(i)) = WireLen(v)
  BY <1>2, WireLenDef
<1>4. EncodeVarInt(v) =
        [i \in 1..WireLen(v) |-> (left[i - 1] % 128) + (IF i < WireLen(v) THEN 128 ELSE 0)]
  BY <1>3 DEF EncodeVarInt
<1>5. \A i \in 1..WireLen(v) : left[i - 1] % 128 = Group(v, i)
  BY WireLenDef, LeftOfGroups, SMT
<1> QED BY <1>4, <1>5 DEF WireVarInt

\* The first of a set of positions.
LEMMA MinIs ==
    ASSUME NEW S, NEW n \in S, S \subseteq Nat, \A m \in S : n <= m
    PROVE  Min(S) = n
<1>1. \A m \in S : (\A y \in S : m =< y) => m = n
  BY SMT
<1> QED BY <1>1 DEF Min

\* A buffer starts with a VarInt, or with as much of it as it can hold.
StartsWith(buf, v) ==
    \A i \in 1..Len(buf) : i <= WireLen(v) => buf[i] = WireVarInt(v)[i]

\* Two ways to sum the groups: as division leaves them, and as the decoder
\* adds them up, which ends when the rest is zero.
Nested(a, b, c, d, e) == a + 128 * (b + 128 * (c + 128 * (d + 128 * e)))

AddsUp(v, a, b, c, d, e) ==
    /\ v = 0 + a + b * 128 + c * (128 * 128) + d * (128 * 128 * 128)
             + e * (128 * 128 * 128 * 128)
    /\ e = 0 => v = 0 + a + b * 128 + c * (128 * 128) + d * (128 * 128 * 128)
    /\ d = 0 /\ e = 0 => v = 0 + a + b * 128 + c * (128 * 128)
    /\ c = 0 /\ d = 0 /\ e = 0 => v = 0 + a + b * 128
    /\ b = 0 /\ c = 0 /\ d = 0 /\ e = 0 => v = 0 + a

\* The two agree.
LEMMA Horner ==
    ASSUME NEW a \in Int, NEW b \in Int, NEW c \in Int, NEW d \in Int, NEW e \in Int
    PROVE  AddsUp(Nested(a, b, c, d, e), a, b, c, d, e)
BY SMT DEF AddsUp, Nested

\* decode_varint, given all of a VarInt, returns the number and its length,
\* whatever follows.
LEMMA DecodeWhole ==
    ASSUME NEW v \in I32, NEW buf, Len(buf) \in Nat, StartsWith(buf, v),
           WireLen(v) <= Len(buf)
    PROVE  DecodeVarInt(buf) = [value |-> v, len |-> WireLen(v)]
<1> DEFINE n == WireLen(v)
           g(i) == Group(v, i)
           stops == {i \in 1..Len(buf) : buf[i] < 128}
<1>1. v \in Int /\ n \in 1..5 /\ Len(buf) \in Nat /\ n <= Len(buf)
  BY WireLenDef DEF I32
<1>2. \A i \in 1..n : buf[i] = g(i) + (IF i < n THEN 128 ELSE 0)
  BY <1>1, WireVarIntType, SMT DEF StartsWith
<1>3. (\A i \in 1..5 : g(i) \in Nat /\ g(i) < 128) /\ g(5) \in Nat /\ g(5) < 16
  BY <1>1, GroupRange
<1> HIDE DEF n, g
<1>4. Min(stops) = n /\ stops # {}
  <2>1. n \in stops
    <3>0. n \in 1..n /\ ~(n < n) BY <1>1, SMT
    <3>1. buf[n] = g(n) + 0 /\ g(n) \in Nat /\ g(n) < 128
      BY <1>1, <1>2, <1>3, <3>0
    <3> QED BY <1>1, <3>1, SMT
  <2>2. ASSUME NEW m \in stops PROVE n <= m
    <3>1. CASE m < n
      <4>1. m \in 1..5 /\ m \in 1..n BY <1>1, <3>1, SMT
      <4>2. buf[m] = g(m) + 128 /\ g(m) \in Nat /\ g(m) < 128 BY <1>2, <1>3, <3>1, <4>1
      <4> QED BY <4>2, SMT
    <3> QED BY <1>1, <3>1, SMT
  <2>3. stops \subseteq Nat BY SMT
  <2> HIDE DEF stops
  <2> QED BY <2>1, <2>2, <2>3, MinIs
<1>5. DecodeVarInt(buf) = [value |-> SumOf(buf)[n], len |-> n]
  <2> HIDE DEF stops
  <2>1. DecodeVarInt(buf) =
           IF (IF stops # {} THEN Min(stops) ELSE 0) \in 1..5
           THEN [value |-> SumOf(buf)[IF stops # {} THEN Min(stops) ELSE 0],
                 len |-> IF stops # {} THEN Min(stops) ELSE 0] ELSE NoVarInt
    BY DEF DecodeVarInt, SelectInSeq, stops
  <2> QED BY <1>1, <1>4, <2>1
<1>6. \A i \in 1..5 : i <= n =>
         Septet(buf[i], i) =
             IF i < 5 THEN g(i) * Weight[i]
             ELSE (IF g(5) < 8 THEN g(5) ELSE g(5) - 16) * Weight[5]
  <2>1. ASSUME NEW i \in 1..5, i <= n, i < 5
        PROVE  Septet(buf[i], i) = g(i) * Weight[i]
    <3>1. g(i) \in Nat /\ g(i) < 128 /\ i \in 1..n BY <1>1, <1>3, <2>1
    <3>2. buf[i] % 128 = g(i) BY <1>2, <3>1, SMT
    <3> QED BY <2>1, <3>2 DEF Septet
  <2>2. ASSUME NEW i \in 1..5, i <= n, ~(i < 5)
        PROVE  Septet(buf[i], i) =
                   (IF g(5) < 8 THEN g(5) ELSE g(5) - 16) * Weight[5]
    <3>1. i = 5 /\ n = 5 BY <1>1, <2>2, SMT
    <3>2. i \in 1..n /\ ~(i < n) BY <3>1, SMT
    <3>3. buf[i] = g(5) + 0 BY <1>2, <3>1, <3>2
    <3>4. buf[i] % 16 = g(5) BY <1>3, <3>3, SMT
    <3> QED BY <3>1, <3>4 DEF Septet
  <2> QED BY <2>1, <2>2
<1>7. \A j \in 1..5 : n < j => g(j) = 0
  <2>1. IsWireLen(v, n) BY WireLenDef DEF n
  <2> QED BY <1>1, <2>1, SMT DEF IsWireLen, g
<1> DEFINE t(i) == SumOf(buf)[i]
           s(i) == Septet(buf[i], i)
           e == IF g(5) < 8 THEN g(5) ELSE g(5) - 16
<1>8. t(0) = 0 /\ t(1) = t(0) + s(1) /\ t(2) = t(1) + s(2) /\ t(3) = t(2) + s(3)
         /\ t(4) = t(3) + s(4) /\ t(5) = t(4) + s(5)
  BY SumOfDef, SMT
<1>9. v = g(1) + 128 * (g(2) + 128 * (g(3) + 128 * (g(4) + 128 * e)))
  BY GroupSum DEF g
<1>10. g(1) \in Int /\ g(2) \in Int /\ g(3) \in Int /\ g(4) \in Int /\ g(5) \in Int
  BY <1>3, SMT
<1>11. e \in Int /\ (g(5) = 0 => e = 0)
  BY <1>10, SMT
<1>12. /\ s(1) = g(1)
       /\ n >= 2 => s(2) = g(2) * 128
       /\ n >= 3 => s(3) = g(3) * (128 * 128)
       /\ n >= 4 => s(4) = g(4) * (128 * 128 * 128)
       /\ n >= 5 => s(5) = e * (128 * 128 * 128 * 128)
  <2> HIDE DEF s, e
  <2>1. \A i \in 1..4 : i <= n => s(i) = g(i) * Weight[i]
    BY <1>6, SMT DEF s
  <2>2. 5 <= n => s(5) = e * Weight[5]
    BY <1>6, SMT DEF s, e
  <2>3. g(1) * 1 = g(1) BY <1>10, SMT
  <2> QED BY <1>1, <2>1, <2>2, <2>3, Weights, SMT
<1> HIDE DEF t, s, e
<1>13. AddsUp(v, g(1), g(2), g(3), g(4), e)
  <2>1. v = Nested(g(1), g(2), g(3), g(4), e)
    BY <1>9 DEF Nested
  <2>2. AddsUp(Nested(g(1), g(2), g(3), g(4), e),
               g(1), g(2), g(3), g(4), e)
    BY <1>10, <1>11, Horner
  <2> QED BY <2>1, <2>2
<1>14. t(n) = v
  <2>1. n = 1 \/ n = 2 \/ n = 3 \/ n = 4 \/ n = 5
    BY <1>1, SMT
  <2>2. CASE n = 1
    <3>1. g(2) = 0 /\ g(3) = 0 /\ g(4) = 0 /\ e = 0 BY <1>7, <1>11, <2>2, SMT
    <3>2. t(1) = 0 + g(1) BY <1>8, <1>12
    <3>3. v = 0 + g(1) BY <1>13, <3>1, Zenon DEF AddsUp
    <3> QED BY <2>2, <3>2, <3>3, Zenon
  <2>3. CASE n = 2
    <3>1. g(3) = 0 /\ g(4) = 0 /\ e = 0 BY <1>7, <1>11, <2>3, SMT
    <3>2. t(2) = 0 + g(1) + g(2) * 128 BY <1>8, <1>12, <2>3
    <3>3. v = 0 + g(1) + g(2) * 128 BY <1>13, <3>1, Zenon DEF AddsUp
    <3> QED BY <2>3, <3>2, <3>3, Zenon
  <2>4. CASE n = 3
    <3>1. g(4) = 0 /\ e = 0 BY <1>7, <1>11, <2>4, SMT
    <3>2. t(3) = 0 + g(1) + g(2) * 128 + g(3) * (128 * 128) BY <1>8, <1>12, <2>4
    <3>3. v = 0 + g(1) + g(2) * 128 + g(3) * (128 * 128) BY <1>13, <3>1, Zenon DEF AddsUp
    <3> QED BY <2>4, <3>2, <3>3, Zenon
  <2>5. CASE n = 4
    <3>1. e = 0 BY <1>7, <1>11, <2>5, SMT
    <3>2. t(4) = 0 + g(1) + g(2) * 128 + g(3) * (128 * 128) + g(4) * (128 * 128 * 128)
      BY <1>8, <1>12, <2>5
    <3>3. v = 0 + g(1) + g(2) * 128 + g(3) * (128 * 128) + g(4) * (128 * 128 * 128)
      BY <1>13, <3>1, Zenon DEF AddsUp
    <3> QED BY <2>5, <3>2, <3>3, Zenon
  <2>6. CASE n = 5
    <3>1. t(5) = 0 + g(1) + g(2) * 128 + g(3) * (128 * 128) + g(4) * (128 * 128 * 128)
                   + e * (128 * 128 * 128 * 128)
      BY <1>8, <1>12, <2>6
    <3> QED BY <1>13, <2>6, <3>1, Zenon DEF AddsUp
  <2> QED BY <2>1, <2>2, <2>3, <2>4, <2>5, <2>6
<1> QED BY <1>5, <1>14 DEF n, t

\* Given only a part of a VarInt, it returns none.
LEMMA DecodeCut ==
    ASSUME NEW v \in I32, NEW buf, Len(buf) \in Nat, StartsWith(buf, v),
           Len(buf) < WireLen(v)
    PROVE  DecodeVarInt(buf) = NoVarInt
<1> DEFINE stops == {i \in 1..Len(buf) : buf[i] < 128}
<1>1. v \in Int /\ WireLen(v) \in 1..5 /\ Len(buf) \in Nat
  BY WireLenDef DEF I32
<1>2. ASSUME NEW i \in 1..Len(buf) PROVE ~(buf[i] < 128)
  <2>1. i \in 1..5 /\ i \in 1..WireLen(v) /\ i < WireLen(v) /\ i <= WireLen(v)
    BY <1>1, SMT
  <2>2. Group(v, i) \in Nat /\ Group(v, i) < 128
    BY <1>1, <2>1, GroupRange
  <2>3. WireVarInt(v)[i] = Group(v, i) + 128
    BY <1>1, <2>1, WireVarIntType
  <2>4. buf[i] = Group(v, i) + 128
    BY <2>1, <2>3 DEF StartsWith
  <2>5. \A x \in Nat : ~(x + 128 < 128)
    BY SMT
  <2> QED BY <2>2, <2>4, <2>5, Zenon
<1>3. stops = {} BY <1>2
<1> HIDE DEF stops
<1>4. DecodeVarInt(buf) =
         IF (IF stops # {} THEN Min(stops) ELSE 0) \in 1..5
         THEN [value |-> SumOf(buf)[IF stops # {} THEN Min(stops) ELSE 0],
               len |-> IF stops # {} THEN Min(stops) ELSE 0] ELSE NoVarInt
  BY DEF DecodeVarInt, SelectInSeq, stops
<1> QED BY <1>3, <1>4

\* What is behind a position.
LEMMA TailOf ==
    ASSUME NEW buf \in Seq(Byte), NEW pos \in Nat
    PROVE  LET tail == SubSeq(buf, pos + 1, Len(buf))
           IN  /\ Len(tail) \in Nat
               /\ Len(tail) = IF pos <= Len(buf) THEN Len(buf) - pos ELSE 0
               /\ \A i \in 1..Len(tail) : tail[i] = buf[pos + i]
<1> DEFINE n == Len(buf)
           tail == SubSeq(buf, pos + 1, n)
<1>1. n \in Nat /\ \A i \in (pos + 1)..n : buf[i] \in Byte
  <2>1. n \in Nat /\ \A i \in 1..n : buf[i] \in Byte
    BY LenProperties, ElementOfSeq
  <2> HIDE DEF n
  <2> QED BY <2>1, SMT
<1>2. /\ Len(tail) = IF pos + 1 <= n THEN n - (pos + 1) + 1 ELSE 0
      /\ \A i \in 1..(n - (pos + 1) + 1) : tail[i] = buf[(pos + 1) + i - 1]
  <2> HIDE DEF n
  <2>1. pos + 1 \in Int /\ n \in Int BY <1>1, SMT
  <2> QED BY <1>1, <2>1, SubSeqProperties
<1> HIDE DEF n, tail
<1>3. Len(tail) \in Nat /\ Len(tail) = IF pos <= n THEN n - pos ELSE 0
  BY <1>1, <1>2, SMT
<1>4. ASSUME NEW i \in 1..Len(tail) PROVE tail[i] = buf[pos + i]
  <2>1. i \in 1..(n - (pos + 1) + 1) /\ (pos + 1) + i - 1 = pos + i
    BY <1>1, <1>3, SMT
  <2> QED BY <1>2, <2>1
<1> QED BY <1>3, <1>4 DEF tail, n

\* The bytes of buf from a position on are those of a VarInt, as far as it
\* goes.
VarIntBehind(buf, pos, v) ==
    \A i \in 1..WireLen(v) : pos + i <= Len(buf) => buf[pos + i] = WireVarInt(v)[i]

\* decode_varint at a position of a buffer that may end anywhere.
LEMMA VarIntAtIs ==
    ASSUME NEW v \in I32, NEW buf \in Seq(Byte), NEW pos \in Nat,
           VarIntBehind(buf, pos, v)
    PROVE  VarIntAt(buf, pos) =
               IF pos + WireLen(v) <= Len(buf)
               THEN [value |-> v, len |-> WireLen(v)] ELSE NoVarInt
<1> DEFINE n == Len(buf)
           tail == SubSeq(buf, pos + 1, n)
<1>1. n \in Nat /\ WireLen(v) \in 1..5
  BY LenProperties, WireLenDef
<1>2. /\ Len(tail) \in Nat
      /\ Len(tail) = IF pos <= n THEN n - pos ELSE 0
      /\ \A i \in 1..Len(tail) : tail[i] = buf[pos + i]
  BY TailOf
<1> HIDE DEF tail
<1>3. \A i \in 1..WireLen(v) : pos + i <= n => buf[pos + i] = WireVarInt(v)[i]
  BY DEF VarIntBehind
<1> HIDE DEF n
<1>4. StartsWith(tail, v)
  <2>1. ASSUME NEW i \in 1..Len(tail), i <= WireLen(v)
        PROVE  tail[i] = WireVarInt(v)[i]
    <3>1. i \in 1..WireLen(v) /\ pos + i <= n
      BY <1>1, <1>2, <2>1, SMT
    <3> QED BY <1>2, <1>3, <3>1
  <2> QED BY <2>1 DEF StartsWith
<1>5. CASE pos + WireLen(v) <= n
  <2>1. WireLen(v) <= Len(tail) BY <1>1, <1>2, <1>5, SMT
  <2> QED BY <1>2, <1>4, <1>5, <2>1, DecodeWhole DEF VarIntAt, tail, n
<1>6. CASE ~(pos + WireLen(v) <= n)
  <2>1. Len(tail) < WireLen(v) BY <1>1, <1>2, <1>6, SMT
  <2> QED BY <1>2, <1>4, <1>6, <2>1, DecodeCut DEF VarIntAt, tail, n
<1> QED BY <1>5, <1>6

\* The address up to its first NUL or dot is the server.
LEMMA ServerIdIs ==
    ASSUME NEW address \in Seq(Byte), NEW k \in 0..Len(address),
           \A i \in 1..k : address[i] \notin {0, 46},
           k < Len(address) => address[k + 1] \in {0, 46}
    PROVE  ServerId(address) = SubSeq(address, 1, k)
<1> DEFINE ends == {i \in 1..Len(address) : address[i] \in {0, 46}}
<1>1. Len(address) \in Nat BY LenProperties
<1>2. ServerId(address) =
         IF (IF ends # {} THEN Min(ends) ELSE 0) = 0 THEN address
         ELSE SubSeq(address, 1, (IF ends # {} THEN Min(ends) ELSE 0) - 1)
  <2> HIDE DEF ends
  <2> QED BY DEF ServerId, SelectInSeq, ends
<1>3. CASE k = Len(address)
  <2>1. ends = {} BY <1>3
  <2> HIDE DEF ends
  <2> QED BY <1>2, <1>3, <2>1, SubSeqFull
<1>4. CASE k # Len(address)
  <2>1. k + 1 \in 1..Len(address) /\ k < Len(address) BY <1>1, <1>4, SMT
  <2>2. k + 1 \in ends BY <2>1
  <2>3. ASSUME NEW m \in ends PROVE k + 1 <= m
    <3>1. m \in 1..Len(address) /\ m \notin 1..k OBVIOUS
    <3> QED BY <1>1, <3>1, SMT
  <2>4. ends \subseteq Nat BY <1>1, SMT
  <2> HIDE DEF ends
  <2>5. Min(ends) = k + 1 /\ ends # {} BY <2>2, <2>3, <2>4, MinIs
  <2>6. k + 1 # 0 /\ (k + 1) - 1 = k BY SMT
  <2> QED BY <1>2, <2>5, <2>6
<1> QED BY <1>3, <1>4

-----------------------------------------------------------------------------
(* Where the fields of a handshake are.                                    *)

\* s holds w behind a position.
Holds(s, pos, w) ==
    /\ pos + Len(w) <= Len(s)
    /\ \A i \in 1..Len(w) : s[pos + i] = w[i]

\* What starts with s holds it.
LEMMA ConcatHolds ==
    ASSUME NEW s \in Seq(Byte), NEW t \in Seq(Byte) PROVE Holds(s \o t, 0, s)
<1>1. Len(s) \in Nat /\ Len(t) \in Nat BY LenProperties
<1>2. /\ Len(s \o t) = Len(s) + Len(t)
      /\ \A i \in 1..(Len(s) + Len(t)) :
            (s \o t)[i] = IF i <= Len(s) THEN s[i] ELSE t[i - Len(s)]
  BY ConcatProperties
<1>3. 0 + Len(s) <= Len(s \o t)
  BY <1>1, <1>2, SMT
<1>4. ASSUME NEW i \in 1..Len(s) PROVE (s \o t)[0 + i] = s[i]
  <2>1. i \in 1..(Len(s) + Len(t)) /\ i <= Len(s) /\ 0 + i = i
    BY <1>1, SMT
  <2> QED BY <1>2, <2>1
<1> QED BY <1>3, <1>4 DEF Holds

\* Who holds a concatenation holds its parts.
LEMMA HoldsParts ==
    ASSUME NEW s \in Seq(Byte), NEW t \in Seq(Byte), NEW u \in Seq(Byte),
           NEW pos \in Nat, Holds(s, pos, t \o u)
    PROVE  Holds(s, pos, t) /\ Holds(s, pos + Len(t), u)
<1>1. Len(s) \in Nat /\ Len(t) \in Nat /\ Len(u) \in Nat BY LenProperties
<1>2. /\ Len(t \o u) = Len(t) + Len(u)
      /\ \A i \in 1..(Len(t) + Len(u)) :
            (t \o u)[i] = IF i <= Len(t) THEN t[i] ELSE u[i - Len(t)]
  BY ConcatProperties
<1>3. pos + Len(t) + Len(u) <= Len(s) /\ pos + Len(t) <= Len(s)
  BY <1>1, <1>2, SMT DEF Holds
<1>4. ASSUME NEW i \in 1..Len(t) PROVE s[pos + i] = t[i]
  <2>1. i \in 1..(Len(t) + Len(u)) /\ i <= Len(t)
    BY <1>1, SMT
  <2>2. s[pos + i] = (t \o u)[i] BY <1>2, <2>1 DEF Holds
  <2> QED BY <1>2, <2>1, <2>2
<1>5. ASSUME NEW i \in 1..Len(u) PROVE s[pos + Len(t) + i] = u[i]
  <2>1. /\ Len(t) + i \in 1..(Len(t) + Len(u))
        /\ ~(Len(t) + i <= Len(t))
        /\ Len(t) + i - Len(t) = i
        /\ pos + (Len(t) + i) = pos + Len(t) + i
    BY <1>1, SMT
  <2>2. s[pos + (Len(t) + i)] = (t \o u)[Len(t) + i] BY <1>2, <2>1 DEF Holds
  <2> QED BY <1>2, <2>1, <2>2
<1> QED BY <1>3, <1>4, <1>5 DEF Holds

\* The VarInt of the packet id.
LEMMA ZeroIs == WireVarInt(0) = <<0>> /\ WireLen(0) = 1 /\ 0 \in I32
<1>1. \A i \in 1..5 : Group(0, i) = 0
  <2>1. /\ 0 \div 1 = 0 /\ 0 \div 128 = 0 /\ 0 \div (128 * 128) = 0
        /\ 0 \div (128 * 128 * 128) = 0 /\ 0 \div (128 * 128 * 128 * 128) = 0
        /\ 0 % 128 = 0 /\ 0 % 16 = 0
    BY SMT
  <2>2. \A i \in 1..5 : 0 \div Weight[i] = 0
    BY <2>1, Weights, SMT
  <2> QED BY <2>1, <2>2 DEF Group
<1>2. IsWireLen(0, 1) BY <1>1, SMT DEF IsWireLen
<1>3. WireLen(0) = 1 BY <1>2, WireLenDef
<1>4. 0 \in Int /\ 1 \in 1..1 /\ ~(1 < 1) /\ 0 + 0 = 0 /\ 1 \in 1..5 BY SMT
<1>5. WireVarInt(0) \in Seq(Byte) /\ Len(WireVarInt(0)) = 1 /\ WireVarInt(0)[1] = 0
  <2>1. /\ WireVarInt(0) \in Seq(Byte) /\ Len(WireVarInt(0)) = WireLen(0)
        /\ \A i \in 1..WireLen(0) :
              WireVarInt(0)[i] = Group(0, i) + (IF i < WireLen(0) THEN 128 ELSE 0)
    BY <1>4, WireVarIntType
  <2> QED BY <1>1, <1>3, <1>4, <2>1
<1>6. 0 \in I32
  <2>1. 0 \div 2^28 = 0 BY SMT
  <2> QED BY <2>1, SMT DEF I32
<1>7. <<0>> \in Seq(Byte) /\ Len(<<0>>) = 1 /\ <<0>>[1] = 0
  BY SMT DEF Byte
<1>8. \A i \in 1..1 : WireVarInt(0)[i] = <<0>>[i]
  <2>1. \A i \in 1..1 : i = 1 BY SMT
  <2> QED BY <1>5, <1>7, <2>1
<1>9. WireVarInt(0) = <<0>>
  BY <1>5, <1>7, <1>8, SeqEqual
<1> QED BY <1>3, <1>6, <1>9

\* A length within the packet's is a number of 32 bits.
LEMMA Shorter ==
    ASSUME NEW m \in Nat, NEW n \in I32, m <= n PROVE m \in I32
<1>1. n \in Int /\ n \div 2^28 \in -8..7 BY DEF I32
<1>2. 2^28 = 268435456 BY SMT
<1>3. n \div 268435456 <= 7 BY <1>1, <1>2, SMT
<1>4. m \div 268435456 \in -8..7
  BY <1>1, <1>3, SMT
<1> QED BY <1>2, <1>4 DEF I32

\* Bytes behind bytes.
LEMMA ConcatType ==
    ASSUME NEW s \in Seq(Byte), NEW t \in Seq(Byte)
    PROVE  s \o t \in Seq(Byte) /\ Len(s \o t) = Len(s) + Len(t)
BY ConcatProperties, Zenon

\* Where the packet id, the version, the length of the address, the address
\* and the port are.
IdAt(h) == WireLen(Len(WireBody(h)) + h.owed)
VersionAt(h) == IdAt(h) + 1
AddrLenAt(h) == VersionAt(h) + WireLen(h.protocol)
AddrAt(h) == AddrLenAt(h) + WireLen(Len(h.address))
WirePortAt(h) == AddrAt(h) + Len(h.address)

\* The parts a handshake is made of, from the inside out.
LEMMA Parts ==
    ASSUME NEW h, IsHandshake(h)
    PROVE  /\ <<0>> \in Seq(Byte) /\ Len(<<0>>) = 1
           /\ WireVarInt(h.protocol) \in Seq(Byte)
           /\ Len(WireVarInt(h.protocol)) = WireLen(h.protocol)
           /\ h.address \in Seq(Byte) /\ Len(h.address) \in Nat
           /\ WireVarInt(Len(h.address)) \in Seq(Byte)
           /\ Len(WireVarInt(Len(h.address))) = WireLen(Len(h.address))
           /\ WireFields(h) \in Seq(Byte)
           /\ Len(WireFields(h)) =
                 1 + WireLen(h.protocol) + WireLen(Len(h.address)) + Len(h.address)
           /\ Port \in Seq(Byte) /\ Len(Port) = 2
           /\ WireVarInt(h.next) \in Seq(Byte)
           /\ Len(WireVarInt(h.next)) = WireLen(h.next)
           /\ WireBody(h) \in Seq(Byte)
           /\ Len(WireBody(h)) = Len(WireFields(h)) + 2 + WireLen(h.next)
           /\ WireVarInt(Len(WireBody(h)) + h.owed) \in Seq(Byte)
           /\ Len(WireVarInt(Len(WireBody(h)) + h.owed)) = IdAt(h)
           /\ WireHandshake(h) \in Seq(Byte)
           /\ Len(WireHandshake(h)) = IdAt(h) + Len(WireBody(h))
<1> DEFINE p == WireVarInt(h.protocol)
           l == WireVarInt(Len(h.address))
           n == WireVarInt(h.next)
           f1 == <<0>> \o p
           f2 == f1 \o l
           f == f2 \o h.address
           b1 == f \o Port
           b == b1 \o n
           z == WireVarInt(Len(b) + h.owed)
<1>1. /\ <<0>> \in Seq(Byte) /\ Len(<<0>>) = 1
      /\ Port \in Seq(Byte) /\ Len(Port) = 2
  BY SMT DEF Byte, Port
<1>2. h.protocol \in Int /\ h.next \in Int /\ h.address \in Seq(Byte)
  BY DEF IsHandshake, I32, Byte
<1>3. Len(h.address) \in Nat BY <1>2, LenProperties
<1>4. Len(h.address) \in Int BY <1>3, SMT
<1>5. /\ p \in Seq(Byte) /\ Len(p) = WireLen(h.protocol)
      /\ l \in Seq(Byte) /\ Len(l) = WireLen(Len(h.address))
      /\ n \in Seq(Byte) /\ Len(n) = WireLen(h.next)
  BY <1>2, <1>4, WireVarIntType
<1> HIDE DEF p, l, n
<1>6. f1 \in Seq(Byte) /\ Len(f1) = 1 + Len(p)
  BY <1>1, <1>5, ConcatType, Zenon
<1> HIDE DEF f1
<1>7. f2 \in Seq(Byte) /\ Len(f2) = Len(f1) + Len(l)
  BY <1>5, <1>6, ConcatType, Zenon
<1> HIDE DEF f2
<1>8. f \in Seq(Byte) /\ Len(f) = Len(f2) + Len(h.address)
  BY <1>2, <1>7, ConcatType, Zenon
<1> HIDE DEF f
<1>9. b1 \in Seq(Byte) /\ Len(b1) = Len(f) + 2
  BY <1>1, <1>8, ConcatType, Zenon
<1> HIDE DEF b1
<1>10. b \in Seq(Byte) /\ Len(b) = Len(b1) + Len(n)
  BY <1>5, <1>9, ConcatType, Zenon
<1> HIDE DEF b
<1>11. Len(b) + h.owed \in Int
  <2>1. Len(b) \in Nat /\ h.owed \in Nat BY <1>10, LenProperties DEF IsHandshake
  <2> QED BY <2>1, SMT
<1>12. z \in Seq(Byte) /\ Len(z) = WireLen(Len(b) + h.owed)
  BY <1>11, WireVarIntType
<1>13. z \o b \in Seq(Byte) /\ Len(z \o b) = Len(z) + Len(b)
  BY <1>10, <1>12, ConcatType, Zenon
<1>14. f = WireFields(h) /\ b = WireBody(h)
  BY DEF WireFields, WireBody, p, l, n, f1, f2, f, b1, b
<1>15. WireHandshake(h) = z \o b
  BY <1>14 DEF WireHandshake
<1>16. Len(f) = 1 + WireLen(h.protocol) + WireLen(Len(h.address)) + Len(h.address)
  BY <1>5, <1>6, <1>7, <1>8
<1>17. Len(b) = Len(f) + 2 + WireLen(h.next)
  BY <1>5, <1>9, <1>10
<1> QED
  BY <1>1, <1>2, <1>3, <1>5, <1>8, <1>10, <1>12, <1>13, <1>14, <1>15, <1>16, <1>17
     DEF IdAt, p, l, n

\* Where they are in a stream.
LEMMA Layout ==
    ASSUME NEW h, IsHandshake(h), NEW s \in Seq(Byte), Holds(s, 0, WireHandshake(h))
    PROVE  /\ Holds(s, 0, WireVarInt(Len(WireBody(h)) + h.owed))
           /\ Holds(s, IdAt(h), WireVarInt(0))
           /\ Holds(s, VersionAt(h), WireVarInt(h.protocol))
           /\ Holds(s, AddrLenAt(h), WireVarInt(Len(h.address)))
           /\ Holds(s, AddrAt(h), h.address)
           /\ Holds(s, WirePortAt(h) + 2, WireVarInt(h.next))
<1> DEFINE p == WireVarInt(h.protocol)
           l == WireVarInt(Len(h.address))
           n == WireVarInt(h.next)
           f1 == <<0>> \o p
           f2 == f1 \o l
           f == f2 \o h.address
           b1 == f \o Port
           b == b1 \o n
           z == WireVarInt(Len(b) + h.owed)
<1>1. f = WireFields(h) /\ b = WireBody(h) /\ z \o b = WireHandshake(h)
  BY DEF WireFields, WireBody, WireHandshake
<1>2. /\ p \in Seq(Byte) /\ Len(p) = WireLen(h.protocol)
      /\ h.address \in Seq(Byte) /\ Len(h.address) \in Nat
      /\ l \in Seq(Byte) /\ Len(l) = WireLen(Len(h.address))
      /\ n \in Seq(Byte) /\ Len(n) = WireLen(h.next)
      /\ f \in Seq(Byte) /\ b \in Seq(Byte) /\ z \in Seq(Byte)
      /\ Len(f) = 1 + Len(p) + Len(l) + Len(h.address)
      /\ Len(z) = IdAt(h)
  BY <1>1, Parts
<1>3. <<0>> \in Seq(Byte) /\ Len(<<0>>) = 1 /\ Port \in Seq(Byte) /\ Len(Port) = 2
  BY Parts
<1>4. Len(p) \in Nat /\ Len(l) \in Nat /\ Len(z) \in Nat
  BY <1>2, LenProperties
<1> HIDE DEF z, p, l, n
<1>5. f1 \in Seq(Byte) /\ Len(f1) = 1 + Len(p)
  BY <1>2, <1>3, ConcatType, Zenon
<1>6. f2 \in Seq(Byte) /\ Len(f2) = Len(f1) + Len(l)
  <2> HIDE DEF f1
  <2> QED BY <1>2, <1>5, ConcatType, Zenon
<1>7. b1 \in Seq(Byte) /\ Len(b1) = Len(f) + 2
  <2> HIDE DEF f
  <2>1. f \in Seq(Byte) BY <1>2
  <2> QED BY <1>3, <2>1, ConcatType, Zenon
<1>8. Holds(s, 0, z) /\ Holds(s, 0 + Len(z), b)
  <2>1. Holds(s, 0, z \o b) BY <1>1
  <2> HIDE DEF b
  <2> QED BY <1>2, <2>1, HoldsParts
<1>9. Holds(s, IdAt(h), b)
  <2>1. 0 + Len(z) = IdAt(h) BY <1>2, <1>4
  <2> QED BY <1>8, <2>1
<1>10. IdAt(h) \in Nat BY <1>2, <1>4
<1>11. Holds(s, IdAt(h), b1) /\ Holds(s, IdAt(h) + Len(b1), n)
  <2> HIDE DEF b1
  <2> QED BY <1>2, <1>7, <1>9, <1>10, HoldsParts DEF b
<1>12. Holds(s, IdAt(h), f)
  <2> HIDE DEF f
  <2> QED BY <1>2, <1>3, <1>10, <1>11, HoldsParts DEF b1
<1>13. Holds(s, IdAt(h), f2) /\ Holds(s, IdAt(h) + Len(f2), h.address)
  <2> HIDE DEF f2
  <2> QED BY <1>2, <1>6, <1>10, <1>12, HoldsParts DEF f
<1>14. Holds(s, IdAt(h), f1) /\ Holds(s, IdAt(h) + Len(f1), l)
  <2> HIDE DEF f1
  <2> QED BY <1>2, <1>5, <1>10, <1>13, HoldsParts DEF f2
<1>15. Holds(s, IdAt(h), <<0>>) /\ Holds(s, IdAt(h) + 1, p)
  BY <1>2, <1>3, <1>10, <1>14, HoldsParts DEF f1
<1> HIDE DEF f, f1, f2, b, b1
<1>16. /\ VersionAt(h) = IdAt(h) + 1
       /\ AddrLenAt(h) = IdAt(h) + Len(f1)
       /\ AddrAt(h) = IdAt(h) + Len(f2)
       /\ WirePortAt(h) + 2 = IdAt(h) + Len(b1)
  <2> DEFINE lp == Len(p)
             ll == Len(l)
             la == Len(h.address)
  <2>1. lp \in Nat /\ ll \in Nat /\ la \in Nat
    BY <1>2, <1>4
  <2>2. /\ VersionAt(h) = IdAt(h) + 1
        /\ AddrLenAt(h) = IdAt(h) + 1 + lp
        /\ AddrAt(h) = IdAt(h) + 1 + lp + ll
        /\ WirePortAt(h) = IdAt(h) + 1 + lp + ll + la
    BY <1>2, Zenon DEF VersionAt, AddrLenAt, AddrAt, WirePortAt
  <2>3. Len(f1) = 1 + lp /\ Len(f2) = 1 + lp + ll /\ Len(b1) = 1 + lp + ll + la + 2
    BY <1>2, <1>5, <1>6, <1>7, Zenon
  <2> HIDE DEF lp, ll, la
  <2> QED BY <1>10, <2>1, <2>2, <2>3, SMT
<1> QED
  BY <1>1, <1>8, <1>11, <1>13, <1>14, <1>15, <1>16, ZeroIs DEF p, l, n, z

\* decode_varint reads back what encode_varint wrote, whatever follows it.
THEOREM DecodeInverts ==
    ASSUME NEW v \in I32, NEW rest \in Seq(Byte)
    PROVE  DecodeVarInt(EncodeVarInt(v) \o rest) = [value |-> v, len |-> WireLen(v)]
<1> DEFINE w == WireVarInt(v)
           buf == w \o rest
<1>1. w \in Seq(Byte) /\ Len(w) = WireLen(v)
  <2>1. v \in Int BY DEF I32
  <2> QED BY <2>1, WireVarIntType
<1>2. EncodeVarInt(v) = w BY EncodeIsMinecrafts
<1> HIDE DEF w
<1>3. buf \in Seq(Byte) BY <1>1, ConcatType
<1>4. Holds(buf, 0, w) BY <1>1, ConcatHolds
<1> HIDE DEF buf
<1>5. Len(buf) \in Nat BY <1>3, LenProperties
<1>6. WireLen(v) <= Len(buf) /\ \A i \in 1..WireLen(v) : buf[i] = w[i]
  <2>1. 0 + WireLen(v) <= Len(buf) /\ \A i \in 1..WireLen(v) : buf[0 + i] = w[i]
    BY <1>1, <1>4 DEF Holds
  <2>2. 0 + WireLen(v) = WireLen(v) /\ \A i \in 1..WireLen(v) : 0 + i = i
    BY WireLenDef, SMT
  <2> QED BY <2>1, <2>2
<1>7. StartsWith(buf, v)
  <2>1. \A i \in 1..Len(buf) : i <= WireLen(v) => i \in 1..WireLen(v)
    BY <1>5, WireLenDef, SMT
  <2> QED BY <1>6, <2>1 DEF StartsWith, w
<1>8. DecodeVarInt(buf) = [value |-> v, len |-> WireLen(v)]
  BY <1>5, <1>6, <1>7, DecodeWhole
<1> QED BY <1>2, <1>8 DEF buf

-----------------------------------------------------------------------------
(* The parser, given the first n bytes of a stream.                        *)

\* What was cut off.
LEMMA CutIs ==
    ASSUME NEW s \in Seq(Byte), NEW n \in 0..Len(s)
    PROVE  /\ SubSeq(s, 1, n) \in Seq(Byte)
           /\ Len(SubSeq(s, 1, n)) = n
           /\ \A i \in 1..n : SubSeq(s, 1, n)[i] = s[i]
<1>1. Len(s) \in Nat /\ \A i \in 1..Len(s) : s[i] \in Byte
  BY LenProperties, ElementOfSeq
<1>2. n \in Int /\ 1 \in Int /\ n - 1 + 1 = n /\ (IF 1 <= n THEN n - 1 + 1 ELSE 0) = n
  BY <1>1, SMT
<1>3. \A i \in 1..n : s[i] \in Byte /\ 1 + i - 1 = i
  BY <1>1, SMT
<1>4. /\ SubSeq(s, 1, n) \in Seq(Byte)
      /\ Len(SubSeq(s, 1, n)) = IF 1 <= n THEN n - 1 + 1 ELSE 0
      /\ \A i \in 1..(n - 1 + 1) : SubSeq(s, 1, n)[i] = s[1 + i - 1]
  BY <1>2, <1>3, SubSeqProperties
<1> QED BY <1>2, <1>3, <1>4

\* A VarInt of the stream is read when all of it was cut off.
LEMMA CutVarInt ==
    ASSUME NEW s \in Seq(Byte), NEW n \in 0..Len(s),
           NEW v \in I32, NEW pos \in Nat, Holds(s, pos, WireVarInt(v))
    PROVE  VarIntAt(SubSeq(s, 1, n), pos) =
               IF pos + WireLen(v) <= n
               THEN [value |-> v, len |-> WireLen(v)] ELSE NoVarInt
<1> DEFINE buf == SubSeq(s, 1, n)
<1>1. buf \in Seq(Byte) /\ Len(buf) = n /\ \A i \in 1..n : buf[i] = s[i]
  BY CutIs
<1>2. v \in Int BY DEF I32
<1>3. Len(WireVarInt(v)) = WireLen(v) /\ WireLen(v) \in 1..5
  BY <1>2, WireVarIntType
<1>4. n \in Int
  <2>1. Len(s) \in Nat BY LenProperties
  <2> QED BY <2>1, SMT
<1> HIDE DEF buf
<1>5. VarIntBehind(buf, pos, v)
  <2>1. ASSUME NEW i \in 1..WireLen(v), pos + i <= n
        PROVE  buf[pos + i] = WireVarInt(v)[i]
    <3>1. pos + i \in 1..n BY <1>3, <1>4, <2>1, SMT
    <3>2. s[pos + i] = WireVarInt(v)[i] BY <1>3 DEF Holds
    <3> QED BY <1>1, <3>1, <3>2
  <2> QED BY <1>1, <2>1 DEF VarIntBehind
<1> QED BY <1>1, <1>5, VarIntAtIs DEF buf

\* The address is read when all of it was cut off.
LEMMA CutAddress ==
    ASSUME NEW s \in Seq(Byte), NEW n \in 0..Len(s),
           NEW w \in Seq(Byte), NEW pos \in Nat, Holds(s, pos, w), pos + Len(w) <= n
    PROVE  SubSeq(SubSeq(s, 1, n), pos + 1, pos + Len(w)) = w
<1> DEFINE buf == SubSeq(s, 1, n)
           k == Len(w)
           part == SubSeq(buf, pos + 1, pos + k)
<1>1. buf \in Seq(Byte) /\ Len(buf) = n /\ \A i \in 1..n : buf[i] = s[i]
  BY CutIs
<1>2. k \in Nat /\ Len(s) \in Nat BY LenProperties
<1>3. n \in Nat BY <1>2, SMT
<1> HIDE DEF buf
<1>4. \A i \in 1..k : pos + i \in 1..n /\ s[pos + i] = w[i]
  <2>1. \A i \in 1..k : s[pos + i] = w[i] BY DEF Holds
  <2>2. pos + k <= n OBVIOUS
  <2> HIDE DEF k
  <2>3. \A i \in 1..k : pos + i \in 1..n BY <1>2, <1>3, <2>2, SMT
  <2> QED BY <2>1, <2>3
<1>5. \A i \in (pos + 1)..(pos + k) : buf[i] \in Byte
  <2>1. \A i \in 1..n : buf[i] \in Byte BY <1>1, ElementOfSeq
  <2>2. pos + k <= n OBVIOUS
  <2> HIDE DEF k
  <2>3. \A i \in (pos + 1)..(pos + k) : i \in 1..n BY <1>2, <1>3, <2>2, SMT
  <2> QED BY <2>1, <2>3
<1>6. /\ part \in Seq(Byte)
      /\ Len(part) = IF pos + 1 <= pos + k THEN (pos + k) - (pos + 1) + 1 ELSE 0
      /\ \A i \in 1..((pos + k) - (pos + 1) + 1) : part[i] = buf[pos + 1 + i - 1]
  <2>1. pos + 1 \in Int /\ pos + k \in Int BY <1>2
  <2> QED BY <1>5, <2>1, SubSeqProperties
<1> HIDE DEF part
<1>7. Len(part) = k /\ \A i \in 1..k : part[i] = buf[pos + i]
  <2> HIDE DEF k
  <2>1. (pos + k) - (pos + 1) + 1 = k BY <1>2, SMT
  <2>2. (IF pos + 1 <= pos + k THEN k ELSE 0) = k BY <1>2, SMT
  <2>3. \A i \in 1..k : pos + 1 + i - 1 = pos + i BY <1>2, SMT
  <2> QED BY <1>6, <2>1, <2>2, <2>3
<1>8. \A i \in 1..k : part[i] = w[i]
  BY <1>1, <1>4, <1>7
<1>9. part = w
  BY <1>6, <1>7, <1>8, SeqEqual
<1> QED BY <1>9 DEF part, buf

\* What a handshake says.
Meaning(h) ==
    [outcome  |-> "ok",
     server   |-> h.server,
     protocol |-> h.protocol,
     next     |-> h.next,
     len      |-> Len(WireHandshake(h)) + h.owed]

\* The positions in the order of the fields, and the lengths a packet says.
LEMMA Positions ==
    ASSUME NEW h, IsHandshake(h)
    PROVE  /\ VersionAt(h) = IdAt(h) + 1
           /\ AddrLenAt(h) = VersionAt(h) + WireLen(h.protocol)
           /\ AddrAt(h) = AddrLenAt(h) + WireLen(Len(h.address))
           /\ WirePortAt(h) = AddrAt(h) + Len(h.address)
           /\ Len(WireHandshake(h)) = WirePortAt(h) + 2 + WireLen(h.next)
           /\ Len(WireHandshake(h)) = Len(WireBody(h)) + IdAt(h)
           /\ IdAt(h) \in Nat /\ IdAt(h) # 0
           /\ WireLen(h.protocol) # 0 /\ WireLen(Len(h.address)) # 0 /\ WireLen(h.next) # 0
           /\ VersionAt(h) \in Nat /\ IdAt(h) < VersionAt(h)
           /\ AddrLenAt(h) \in Nat /\ VersionAt(h) < AddrLenAt(h)
           /\ AddrAt(h) \in Nat /\ AddrLenAt(h) < AddrAt(h)
           /\ WirePortAt(h) \in Nat /\ AddrAt(h) <= WirePortAt(h)
           /\ WirePortAt(h) + 2 \in Nat
           /\ Len(WireHandshake(h)) \in Nat
           /\ WirePortAt(h) + 2 < Len(WireHandshake(h))
           /\ Len(h.address) \in Nat /\ Len(h.address) \in I32
           /\ Len(WireBody(h)) \in Nat /\ h.owed \in Nat
           /\ Len(WireBody(h)) + h.owed \in I32
<1> DEFINE a == WireLen(h.protocol)
           b == WireLen(Len(h.address))
           c == WireLen(h.next)
           k == Len(h.address)
           m == Len(WireBody(h))
           p == Len(WireHandshake(h))
           f == Len(WireFields(h))
           o == h.owed
<1>1. /\ k \in Nat /\ o \in Nat /\ p + o \in I32
      /\ p = IdAt(h) + m /\ m = f + 2 + c /\ f = 1 + a + b + k
  BY Parts DEF IsHandshake
<1>2. IdAt(h) \in 1..5 /\ a \in 1..5 /\ b \in 1..5 /\ c \in 1..5
  BY WireLenDef DEF IdAt
<1>3. /\ VersionAt(h) = IdAt(h) + 1
      /\ AddrLenAt(h) = VersionAt(h) + a
      /\ AddrAt(h) = AddrLenAt(h) + b
      /\ WirePortAt(h) = AddrAt(h) + k
  BY DEF VersionAt, AddrLenAt, AddrAt, WirePortAt
<1> HIDE DEF a, b, c, k, m, p, f, o
<1>4. \A x \in 1..5 : x \in Nat /\ x # 0 BY SMT
<1>5. /\ IdAt(h) \in Nat /\ a \in Nat /\ b \in Nat /\ c \in Nat
      /\ IdAt(h) # 0 /\ a # 0 /\ b # 0 /\ c # 0
  BY <1>2, <1>4
<1>6. m \in Nat /\ m + o \in Nat /\ m + o <= p + o /\ k <= p + o
  BY <1>1, <1>5, SMT
<1>7. m + o \in I32 /\ k \in I32
  BY <1>1, <1>6, Shorter
<1>8. p = WirePortAt(h) + 2 + c /\ p = m + IdAt(h)
  BY <1>1, <1>3, <1>5, SMT
<1>9. /\ VersionAt(h) \in Nat /\ IdAt(h) < VersionAt(h)
      /\ AddrLenAt(h) \in Nat /\ VersionAt(h) < AddrLenAt(h)
      /\ AddrAt(h) \in Nat /\ AddrLenAt(h) < AddrAt(h)
      /\ WirePortAt(h) \in Nat /\ AddrAt(h) <= WirePortAt(h)
      /\ WirePortAt(h) + 2 \in Nat /\ p \in Nat /\ WirePortAt(h) + 2 < p
  BY <1>1, <1>3, <1>5, <1>8, SMT
<1> QED BY <1>1, <1>3, <1>5, <1>6, <1>7, <1>8, <1>9, Zenon DEF a, b, c, k, m, p, o

\* What the cursor finds, field by field, as long as it goes on.
Cursor(buf, size, id, protocol, addrLen, start, end, next) ==
    /\ size = VarIntAt(buf, 0)
    /\ size.len # 0 => id = VarIntAt(buf, size.len)
    /\ size.len # 0 /\ id.len # 0 => protocol = VarIntAt(buf, size.len + id.len)
    /\ size.len # 0 /\ id.len # 0 /\ protocol.len # 0 =>
           addrLen = VarIntAt(buf, size.len + id.len + protocol.len)
    /\ size.len # 0 /\ id.len # 0 /\ protocol.len # 0 /\ addrLen.len # 0 =>
           /\ start = size.len + id.len + protocol.len + addrLen.len
           /\ end = start + addrLen.value
           /\ next = VarIntAt(buf, end + 2)

\* What the parser says of it.
Verdict(buf, size, id, protocol, addrLen, start, end, next) ==
    IF size.len = 0 \/ id.len = 0 \/ id.value # 0 THEN Failed
    ELSE IF protocol.len = 0 \/ addrLen.len = 0 \/ end > Len(buf) THEN Failed
    ELSE IF end + 2 > Len(buf) THEN Panicked
    ELSE IF next.len = 0 THEN Failed
    ELSE [outcome  |-> "ok",
          server   |-> ServerOf(SubSeq(buf, start + 1, end)),
          protocol |-> protocol.value,
          next     |-> next.value,
          len      |-> size.value + size.len]

\* parse_handshake_buf by its parts.
LEMMA ParseBy ==
    ASSUME NEW buf, NEW size, NEW id, NEW protocol, NEW addrLen, NEW start, NEW end,
           NEW next, Cursor(buf, size, id, protocol, addrLen, start, end, next)
    PROVE  ParseHandshake(buf) = Verdict(buf, size, id, protocol, addrLen, start, end, next)
<1>1. CASE size.len = 0 BY <1>1, Zenon DEF ParseHandshake, Cursor, Verdict
<1>2. CASE size.len # 0 /\ id.len = 0 BY <1>2, Zenon DEF ParseHandshake, Cursor, Verdict
<1>3. CASE size.len # 0 /\ id.len # 0 /\ protocol.len = 0
  BY <1>3, Zenon DEF ParseHandshake, Cursor, Verdict
<1>4. CASE size.len # 0 /\ id.len # 0 /\ protocol.len # 0 /\ addrLen.len = 0
  BY <1>4, Zenon DEF ParseHandshake, Cursor, Verdict
<1>5. CASE size.len # 0 /\ id.len # 0 /\ protocol.len # 0 /\ addrLen.len # 0
  BY <1>5, Zenon DEF ParseHandshake, Cursor, Verdict
<1> QED BY <1>1, <1>2, <1>3, <1>4, <1>5, Zenon

\* parse_handshake_buf on the first n bytes of a stream that starts with a
\* handshake: the whole of it is understood as it was meant, a part of it is
\* a failure, or the panic of the slice behind the port (line 97).  It is
\* about plain addresses only (in IsHandshake): what the url crate makes of
\* an address with a scheme or a port, or of one that is not ASCII, is not
\* among what the theorem says.
THEOREM ParseIsExact ==
    ASSUME NEW h, IsHandshake(h), NEW s \in Seq(Byte), Holds(s, 0, WireHandshake(h)),
           NEW n \in 0..Len(s)
    PROVE  ParseHandshake(SubSeq(s, 1, n)) =
               IF Len(WireHandshake(h)) <= n THEN Meaning(h)
               ELSE IF n = WirePortAt(h) \/ n = WirePortAt(h) + 1 THEN Panicked
               ELSE Failed
<1> DEFINE buf == SubSeq(s, 1, n)
           Field(v, at) ==
               IF at + WireLen(v) <= n THEN [value |-> v, len |-> WireLen(v)] ELSE NoVarInt
           k == Len(h.address)
           m == Len(WireBody(h)) + h.owed
           size == Field(m, 0)
           id == Field(0, IdAt(h))
           protocol == Field(h.protocol, VersionAt(h))
           addrLen == Field(k, AddrLenAt(h))
           start == AddrAt(h)
           end == WirePortAt(h)
           next == Field(h.next, end + 2)
<1>1. h.protocol \in I32 /\ h.next \in I32 /\ k \in I32 /\ m \in I32 /\ 0 \in I32
  BY Positions, ZeroIs DEF IsHandshake
<1>2. /\ 0 \in Nat /\ IdAt(h) \in Nat /\ VersionAt(h) \in Nat /\ AddrLenAt(h) \in Nat
      /\ AddrAt(h) \in Nat /\ end \in Nat /\ end + 2 \in Nat
  BY Positions, Zenon
<1>3. /\ size = VarIntAt(buf, 0)
      /\ id = VarIntAt(buf, IdAt(h))
      /\ protocol = VarIntAt(buf, VersionAt(h))
      /\ addrLen = VarIntAt(buf, AddrLenAt(h))
      /\ next = VarIntAt(buf, end + 2)
  <2>1. /\ Holds(s, 0, WireVarInt(m)) /\ Holds(s, IdAt(h), WireVarInt(0))
        /\ Holds(s, VersionAt(h), WireVarInt(h.protocol))
        /\ Holds(s, AddrLenAt(h), WireVarInt(k))
        /\ Holds(s, end + 2, WireVarInt(h.next))
    BY Layout
  <2> HIDE DEF k, m, end
  <2> QED BY <1>1, <1>2, <2>1, CutVarInt
<1> DEFINE p1 == IdAt(h)
           p2 == VersionAt(h)
           p3 == AddrLenAt(h)
           p7 == Len(WireHandshake(h))
<1>4. /\ p1 = WireLen(m)
      /\ 0 + WireLen(m) = p1 /\ p1 + WireLen(0) = p2
      /\ p2 + WireLen(h.protocol) = p3
      /\ p3 + WireLen(k) = start /\ start + k = end
      /\ end + 2 + WireLen(h.next) = p7 /\ p7 + h.owed = m + p1
  <2>1. 0 + WireLen(m) = WireLen(m)
    BY Positions, SMT DEF IdAt
  <2>2. p7 + h.owed = m + p1
    <3> DEFINE w == Len(WireBody(h))
    <3>1. p7 = w + p1 /\ w \in Nat /\ h.owed \in Nat /\ p1 \in Nat BY Positions
    <3>2. m = w + h.owed OBVIOUS
    <3> HIDE DEF w, m, p1, p7
    <3> QED BY <3>1, <3>2, SMT
  <2> QED BY <2>1, <2>2, Positions, ZeroIs, Zenon DEF IdAt
<1>5. /\ size.len = (IF p1 <= n THEN p1 ELSE 0) /\ (p1 <= n => size.value = m)
      /\ id.len = (IF p2 <= n THEN WireLen(0) ELSE 0) /\ (p2 <= n => id.value = 0)
      /\ protocol.len = (IF p3 <= n THEN WireLen(h.protocol) ELSE 0)
      /\ p3 <= n => protocol.value = h.protocol
      /\ addrLen.len = (IF start <= n THEN WireLen(k) ELSE 0)
      /\ start <= n => addrLen.value = k
      /\ next.len = (IF p7 <= n THEN WireLen(h.next) ELSE 0)
      /\ p7 <= n => next.value = h.next
  <2>1. ASSUME NEW v, NEW at, NEW to, at + WireLen(v) = to
        PROVE  /\ Field(v, at).len = (IF to <= n THEN WireLen(v) ELSE 0)
               /\ to <= n => Field(v, at).value = v
    BY <2>1 DEF NoVarInt
  <2> HIDE DEF Field, k, m, start, end, p1, p2, p3, p7
  <2>2. size.len = (IF p1 <= n THEN p1 ELSE 0) /\ (p1 <= n => size.value = m)
    BY <1>4, <2>1, Zenon
  <2>3. id.len = (IF p2 <= n THEN WireLen(0) ELSE 0) /\ (p2 <= n => id.value = 0)
    BY <1>4, <2>1, Zenon DEF p1
  <2>4. /\ protocol.len = (IF p3 <= n THEN WireLen(h.protocol) ELSE 0)
        /\ p3 <= n => protocol.value = h.protocol
    BY <1>4, <2>1, Zenon DEF p2
  <2>5. /\ addrLen.len = (IF start <= n THEN WireLen(k) ELSE 0)
        /\ start <= n => addrLen.value = k
    BY <1>4, <2>1, Zenon DEF p3
  <2>6. /\ next.len = (IF p7 <= n THEN WireLen(h.next) ELSE 0)
        /\ p7 <= n => next.value = h.next
    BY <1>4, <2>1, Zenon
  <2> QED BY <2>2, <2>3, <2>4, <2>5, <2>6, Zenon
<1>6. /\ p1 # 0 /\ WireLen(0) # 0 /\ WireLen(h.protocol) # 0
      /\ WireLen(k) # 0 /\ WireLen(h.next) # 0
  BY Positions, ZeroIs
<1>7. n \in Nat
  <2>1. Len(s) \in Nat BY LenProperties
  <2> QED BY <2>1, SMT
<1>8. p1 < p2 /\ p2 < p3 /\ p3 < start /\ start <= end /\ end + 2 < p7 /\ p2 \in Nat
        /\ p3 \in Nat /\ start \in Nat /\ end \in Nat /\ p7 \in Nat /\ p1 \in Nat
  BY Positions, Zenon
<1>9. Len(buf) = n BY CutIs
<1>10. ParseHandshake(buf) = Verdict(buf, size, id, protocol, addrLen, start, end, next)
  <2> HIDE DEF buf, k, m, size, id, protocol, addrLen, start, end, next, p1, p2, p3, p7
  <2>1. size.len # 0 => size.len = p1 BY <1>5
  <2>2. size.len # 0 /\ id.len # 0 => size.len + id.len = p2 BY <1>4, <1>5
  <2>3. size.len # 0 /\ id.len # 0 /\ protocol.len # 0
          => size.len + id.len + protocol.len = p3
    BY <1>4, <1>5, <2>2
  <2>4. size.len # 0 /\ id.len # 0 /\ protocol.len # 0 /\ addrLen.len # 0
          => /\ size.len + id.len + protocol.len + addrLen.len = start
             /\ start + addrLen.value = end
    BY <1>4, <1>5, <2>3
  <2>5. Cursor(buf, size, id, protocol, addrLen, start, end, next)
    BY <1>3, <2>1, <2>2, <2>3, <2>4, Zenon DEF Cursor, p1, p2, p3
  <2> QED BY <2>5, ParseBy
<1> HIDE DEF k, m, size, id, protocol, addrLen, start, end, next, p1, p2, p3, p7
<1>11. CASE n < start
  <2>1. ParseHandshake(buf) = Failed
    <3>1. addrLen.len = 0 BY <1>5, <1>7, <1>8, <1>11, SMT
    <3> QED BY <1>10, <3>1, Zenon DEF Verdict
  <2>2. ~(p7 <= n) /\ n # end /\ n # end + 1
    BY <1>7, <1>8, <1>11, SMT
  <2> QED BY <2>1, <2>2, Zenon DEF p7, end, buf
<1>12. CASE start <= n /\ n < end
  <2>1. ParseHandshake(buf) = Failed
    <3>1. end > Len(buf) BY <1>7, <1>8, <1>9, <1>12, SMT
    <3> QED BY <1>10, <3>1, Zenon DEF Verdict
  <2>2. ~(p7 <= n) /\ n # end /\ n # end + 1
    BY <1>7, <1>8, <1>12, SMT
  <2> QED BY <2>1, <2>2, Zenon DEF p7, end, buf
<1>13. ASSUME end <= n
       PROVE  /\ size.len = p1 /\ size.value = m /\ id.len # 0 /\ id.value = 0
              /\ protocol.len # 0 /\ protocol.value = h.protocol
              /\ addrLen.len # 0 /\ ~(end > Len(buf))
  <2>1. p1 <= n /\ p2 <= n /\ p3 <= n /\ start <= n /\ ~(end > n)
    BY <1>7, <1>8, <1>13, SMT
  <2> QED BY <1>5, <1>6, <1>9, <2>1, Zenon
<1>14. CASE end <= n /\ n < end + 2
  <2>1. end + 2 > Len(buf) /\ ~(p7 <= n) /\ (n = end \/ n = end + 1)
    BY <1>7, <1>8, <1>9, <1>14, SMT
  <2>2. ParseHandshake(buf) = Panicked
    BY <1>6, <1>10, <1>13, <1>14, <2>1, Zenon DEF Verdict
  <2> QED BY <2>1, <2>2, Zenon DEF p7, end, buf
<1>15. CASE end + 2 <= n /\ n < p7
  <2>1. end <= n /\ ~(end + 2 > Len(buf)) /\ ~(p7 <= n) /\ n # end /\ n # end + 1
    BY <1>7, <1>8, <1>9, <1>15, SMT
  <2>2. ParseHandshake(buf) = Failed
    BY <1>5, <1>6, <1>10, <1>13, <2>1, Zenon DEF Verdict
  <2> QED BY <2>1, <2>2, Zenon DEF p7, end, buf
<1>16. CASE p7 <= n
  <2>1. end <= n /\ ~(end + 2 > Len(buf))
    BY <1>7, <1>8, <1>9, <1>16, SMT
  <2>2. next.len # 0 /\ next.value = h.next
    BY <1>5, <1>6, <1>16, Zenon
  <2>3. ServerOf(SubSeq(buf, start + 1, end)) = h.server
    <3>1. SubSeq(buf, start + 1, end) = h.address
      <4>1. Holds(s, start, h.address) /\ h.address \in Seq(Byte) BY Layout, Parts DEF start
      <4>2. start + Len(h.address) <= n /\ start + Len(h.address) = end
        BY <1>4, <2>1 DEF k
      <4> QED BY <1>8, <4>1, <4>2, CutAddress DEF buf
    <3>2. ServerId(h.address) = SubSeq(h.address, 1, Len(h.server))
      <4>1. h.address \in Seq(Byte) BY Parts
      <4> QED BY <4>1, ServerIdIs DEF IsHandshake
    <3>3. IsPlain(h.address) BY DEF IsHandshake
    <3> QED BY <3>1, <3>2, <3>3 DEF IsHandshake, ServerOf
  <2>4. size.value + size.len = p7 + h.owed
    BY <1>4, <1>13, <2>1
  <2>5. ParseHandshake(buf) = [outcome |-> "ok", server |-> h.server,
                               protocol |-> h.protocol, next |-> h.next,
                               len |-> p7 + h.owed]
    BY <1>6, <1>10, <1>13, <2>1, <2>2, <2>3, <2>4, Zenon DEF Verdict
  <2> QED BY <1>16, <2>5, Zenon DEF Meaning, p7, buf
<1> QED
  <2>1. n < start \/ (start <= n /\ n < end) \/ (end <= n /\ n < end + 2)
          \/ (end + 2 <= n /\ n < p7) \/ p7 <= n
    BY <1>7, <1>8, SMT
  <2> QED BY <1>11, <1>12, <1>14, <1>15, <1>16, <2>1

-----------------------------------------------------------------------------
(* The login disconnect.                                                   *)

\* The lengths in it are those of its parts, as Minecraft reads them.
THEOREM LoginIsFramed ==
    ASSUME NEW reason \in Nat, reason + 6 \in I32
    PROVE  LET fields == <<0>> \o WireVarInt(reason)
           IN  LoginDisconnect(reason) = WireVarInt(Len(fields) + reason) \o fields
<1> DEFINE fields == <<0>> \o WireVarInt(reason)
           l == Len(fields)
<1>1. reason \in Int /\ reason \in I32
  <2>1. reason + 6 \in Nat /\ reason <= reason + 6 BY SMT
  <2> QED BY <2>1, Shorter
<1>2. l = 1 + WireLen(reason) /\ WireLen(reason) \in 1..5
  <2>1. WireVarInt(reason) \in Seq(Byte) /\ Len(WireVarInt(reason)) = WireLen(reason)
    BY <1>1, WireVarIntType
  <2>2. <<0>> \in Seq(Byte) /\ Len(<<0>>) = 1
    BY SMT DEF Byte
  <2> QED BY <2>1, <2>2, ConcatType, WireLenDef, Zenon
<1> HIDE DEF l
<1>3. l + reason \in I32
  <2>1. l + reason \in Nat /\ l + reason <= reason + 6
    BY <1>1, <1>2, SMT
  <2> QED BY <2>1, Shorter
<1>4. EncodeVarInt(0) = <<0>> /\ EncodeVarInt(reason) = WireVarInt(reason)
  BY <1>1, EncodeIsMinecrafts, ZeroIs
<1>5. EncodeVarInt(l + reason) = WireVarInt(l + reason)
  BY <1>3, EncodeIsMinecrafts
<1> QED BY <1>4, <1>5 DEF LoginDisconnect, l
=============================================================================
