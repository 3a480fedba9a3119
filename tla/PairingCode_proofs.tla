-------------------------- MODULE PairingCode_proofs --------------------------
(***************************************************************************)
(* Proofs about the pairing code, for every code and every text: what is    *)
(* encoded decodes to the same code, and whatever is decoded, its bytes    *)
(* are the bits of its characters in groups of eight.                      *)
(*                                                                         *)
(* Both loops are recursive functions.  LoopRuns shows by induction over    *)
(* the natural numbers that such a function has a value at every place;    *)
(* the invariants of the loops (Encoded, Decoded) say what the accumulator *)
(* holds in its low bits: the last bytes, or the last digits, that went in. *)
(***************************************************************************)
EXTENDS PairingCode, SequenceTheorems, WellFoundedInduction, TLAPS

\* Induction on the natural numbers, for a set instead of a predicate.
LEMMA NatSetInduction ==
  ASSUME NEW S, 0 \in S, \A n \in Nat : n \in S => n + 1 \in S
  PROVE  Nat \subseteq S
<1> DEFINE T == {n \in Nat : n \notin S}
<1>1. ASSUME T # {} PROVE FALSE
  <2>1. PICK x \in T : \A y \in T : ~(<<y, x>> \in OpToRel(<, Nat))
    BY <1>1, WFMin, NatLessThanWellFounded
  <2>2. \A y \in T : ~(y < x) BY <2>1 DEF OpToRel
  <2>3. x # 0 /\ x - 1 \in Nat /\ x - 1 \in S BY <2>2
  <2> QED BY <2>2, <2>3
<1> QED BY <1>1

\* A loop of n rounds that starts with v; round i makes F[i][x] of x.
Runs(g, v, F, n) == g[0] = v /\ \A i \in 1 .. n : g[i] = F[i][g[i - 1]]

LEMMA LoopRuns ==
  ASSUME NEW V, NEW v \in V, NEW n \in Nat, NEW F \in [1 .. n -> [V -> V]]
  PROVE  \E g \in [0 .. n -> V] : Runs(g, v, F, n)
<1> DEFINE S == {m \in Nat : m <= n => \E g \in [0 .. m -> V] : Runs(g, v, F, m)}
<1>1. 0 \in S
  <2>1. [i \in 0 .. 0 |-> v] \in [0 .. 0 -> V] /\ Runs([i \in 0 .. 0 |-> v], v, F, 0)
    BY DEF Runs
  <2> QED BY <2>1
<1>2. ASSUME NEW m \in Nat, m \in S PROVE m + 1 \in S
  <2> SUFFICES ASSUME m + 1 <= n
               PROVE  \E h \in [0 .. m + 1 -> V] : Runs(h, v, F, m + 1)
    OBVIOUS
  <2>1. PICK g \in [0 .. m -> V] : Runs(g, v, F, m) BY <1>2
  <2>2. F[m + 1] \in [V -> V] /\ g[m] \in V OBVIOUS
  <2>3. F[m + 1][g[m]] \in V BY <2>2
  <2> DEFINE h == [i \in 0 .. m + 1 |-> IF i = m + 1 THEN F[m + 1][g[m]] ELSE g[i]]
  <2>4. h \in [0 .. m + 1 -> V] BY <2>3
  <2>5. Runs(h, v, F, m + 1)
    <3>1. h[0] = v BY <2>1 DEF Runs
    <3>2. ASSUME NEW i \in 1 .. m PROVE h[i] = F[i][h[i - 1]]
      BY <2>1 DEF Runs
    <3>3. h[m + 1] = F[m + 1][h[m]] OBVIOUS
    <3> HIDE DEF h
    <3> QED BY <3>1, <3>2, <3>3 DEF Runs
  <2> QED BY <2>4, <2>5
<1> HIDE DEF S
<1>3. n \in S BY <1>1, <1>2, NatSetInduction
<1> QED BY <1>3 DEF S

-----------------------------------------------------------------------------
(* Powers of two, and the accumulator's low bits.                          *)

LEMMA Powers ==
  /\ 2 ^ 0 = 1 /\ 2 ^ 1 = 2 /\ 2 ^ 2 = 4 /\ 2 ^ 3 = 8 /\ 2 ^ 4 = 16 /\ 2 ^ 5 = 32
  /\ 2 ^ 6 = 64 /\ 2 ^ 7 = 128 /\ 2 ^ 8 = 256 /\ 2 ^ 16 = 65536
OBVIOUS

LEMMA PowersPositive == \A k \in 0 .. 7 : 2 ^ k \in Nat \ {0}
<1> TAKE k \in 0 .. 7
<1>0. CASE k = 0 BY <1>0
<1>1. CASE k = 1 BY <1>1
<1>2. CASE k = 2 BY <1>2
<1>3. CASE k = 3 BY <1>3
<1>4. CASE k = 4 BY <1>4
<1>5. CASE k = 5 BY <1>5
<1>6. CASE k = 6 BY <1>6
<1>7. CASE k = 7 BY <1>7
<1> QED BY <1>0, <1>1, <1>2, <1>3, <1>4, <1>5, <1>6, <1>7

Low(x) == x % 4096

\* A byte or a character is shifted into the accumulator.
LEMMA ShiftIn ==
  ASSUME NEW x \in Nat, NEW y \in Nat
  PROVE  /\ x * 256 + y \in Nat /\ x * 32 + y \in Nat
         /\ Acc(x * 2 ^ 8 + y) \in Nat /\ Low(Acc(x * 2 ^ 8 + y)) = Low(x * 256 + y)
         /\ Acc(x * 2 ^ 5 + y) \in Nat /\ Low(Acc(x * 2 ^ 5 + y)) = Low(x * 32 + y)
<1>1. ASSUME NEW z \in Nat PROVE Acc(z) \in Nat /\ Low(Acc(z)) = Low(z)
  <2>1. 2 ^ 16 = 65536 OBVIOUS
  <2>2. (z % 65536) % 4096 = z % 4096 /\ z % 65536 \in Nat OBVIOUS
  <2> QED BY <2>1, <2>2 DEF Acc, AccBits, Low
<1>2. x * 256 + y \in Nat /\ x * 32 + y \in Nat OBVIOUS
<1>3. x * 2 ^ 8 = x * 256 /\ x * 2 ^ 5 = x * 32
  BY 2 ^ 8 = 256, 2 ^ 5 = 32
<1> QED BY <1>1, <1>2, <1>3

\* Five bits and eight bits of x, the last k left out.
Five(x, k)  == (x \div 2 ^ k) % 32
Eight(x, k) == (x \div 2 ^ k) % 256

LEMMA FiveEightType ==
  ASSUME NEW x \in Nat, NEW k \in 0 .. 7
  PROVE  Five(x, k) \in 0 .. 31 /\ Eight(x, k) \in 0 .. 255
<1>1. \A d \in Nat \ {0} : x \div d \in Nat OBVIOUS
<1>2. x \div 2 ^ k \in Nat BY <1>1, PowersPositive, Zenon
<1>3. \A y \in Nat : y % 32 \in 0 .. 31 /\ y % 256 \in 0 .. 255 OBVIOUS
<1> QED BY <1>2, <1>3, Zenon DEF Five, Eight

\* If they lie in the low twelve, the others do not matter.
LEMMA LowBits ==
  ASSUME NEW x \in Nat, NEW k \in 0 .. 7
  PROVE  /\ Five(x, k) = Five(Low(x), k)
         /\ k < 5 => Eight(x, k) = Eight(Low(x), k)
<1> DEFINE a == x \div 4096
           r == x % 4096
<1> SUFFICES /\ (x \div 2 ^ k) % 32 = (r \div 2 ^ k) % 32
             /\ k < 5 => (x \div 2 ^ k) % 256 = (r \div 2 ^ k) % 256
  BY DEF Five, Eight, Low
<1>0. a \in Nat /\ r \in 0 .. 4095 /\ x = 4096 * a + r OBVIOUS
<1>1. CASE k = 0
  <2>1. x \div 1 = 4096 * a + (r \div 1) /\ r \div 1 \in Nat BY <1>0
  <2>2. \A q \in Nat : (4096 * a + q) % 32 = q % 32 /\ (4096 * a + q) % 256 = q % 256 BY <1>0
  <2> HIDE DEF a, r
  <2>3. /\ (x \div 1) % 32 = (r \div 1) % 32
        /\ (x \div 1) % 256 = (r \div 1) % 256
    BY <2>1, <2>2
  <2>4. 2 ^ k = 1 BY <1>1
  <2> QED BY <2>3, <2>4, Zenon
<1>2. CASE k = 1
  <2>1. x \div 2 = 2048 * a + (r \div 2) /\ r \div 2 \in Nat BY <1>0
  <2>2. \A q \in Nat : (2048 * a + q) % 32 = q % 32 /\ (2048 * a + q) % 256 = q % 256 BY <1>0
  <2> HIDE DEF a, r
  <2>3. /\ (x \div 2) % 32 = (r \div 2) % 32
        /\ (x \div 2) % 256 = (r \div 2) % 256
    BY <2>1, <2>2
  <2>4. 2 ^ k = 2 BY <1>2
  <2> QED BY <2>3, <2>4, Zenon
<1>3. CASE k = 2
  <2>1. x \div 4 = 1024 * a + (r \div 4) /\ r \div 4 \in Nat BY <1>0
  <2>2. \A q \in Nat : (1024 * a + q) % 32 = q % 32 /\ (1024 * a + q) % 256 = q % 256 BY <1>0
  <2> HIDE DEF a, r
  <2>3. /\ (x \div 4) % 32 = (r \div 4) % 32
        /\ (x \div 4) % 256 = (r \div 4) % 256
    BY <2>1, <2>2
  <2>4. 2 ^ k = 4 BY <1>3
  <2> QED BY <2>3, <2>4, Zenon
<1>4. CASE k = 3
  <2>1. x \div 8 = 512 * a + (r \div 8) /\ r \div 8 \in Nat BY <1>0
  <2>2. \A q \in Nat : (512 * a + q) % 32 = q % 32 /\ (512 * a + q) % 256 = q % 256 BY <1>0
  <2> HIDE DEF a, r
  <2>3. /\ (x \div 8) % 32 = (r \div 8) % 32
        /\ (x \div 8) % 256 = (r \div 8) % 256
    BY <2>1, <2>2
  <2>4. 2 ^ k = 8 BY <1>4
  <2> QED BY <2>3, <2>4, Zenon
<1>5. CASE k = 4
  <2>1. x \div 16 = 256 * a + (r \div 16) /\ r \div 16 \in Nat BY <1>0
  <2>2. \A q \in Nat : (256 * a + q) % 32 = q % 32 /\ (256 * a + q) % 256 = q % 256 BY <1>0
  <2> HIDE DEF a, r
  <2>3. /\ (x \div 16) % 32 = (r \div 16) % 32
        /\ (x \div 16) % 256 = (r \div 16) % 256
    BY <2>1, <2>2
  <2>4. 2 ^ k = 16 BY <1>5
  <2> QED BY <2>3, <2>4, Zenon
<1>6. CASE k = 5
  <2>1. x \div 32 = 128 * a + (r \div 32) /\ r \div 32 \in Nat BY <1>0
  <2>2. \A q \in Nat : (128 * a + q) % 32 = q % 32 BY <1>0
  <2> HIDE DEF a, r
  <2>3. /\ (x \div 32) % 32 = (r \div 32) % 32
    BY <2>1, <2>2
  <2>4. 2 ^ k = 32 /\ ~(k < 5) BY <1>6
  <2> QED BY <2>3, <2>4, Zenon
<1>7. CASE k = 6
  <2>1. x \div 64 = 64 * a + (r \div 64) /\ r \div 64 \in Nat BY <1>0
  <2>2. \A q \in Nat : (64 * a + q) % 32 = q % 32 BY <1>0
  <2> HIDE DEF a, r
  <2>3. /\ (x \div 64) % 32 = (r \div 64) % 32
    BY <2>1, <2>2
  <2>4. 2 ^ k = 64 /\ ~(k < 5) BY <1>7
  <2> QED BY <2>3, <2>4, Zenon
<1>8. CASE k = 7
  <2>1. x \div 128 = 32 * a + (r \div 128) /\ r \div 128 \in Nat BY <1>0
  <2>2. \A q \in Nat : (32 * a + q) % 32 = q % 32 BY <1>0
  <2> HIDE DEF a, r
  <2>3. /\ (x \div 128) % 32 = (r \div 128) % 32
    BY <2>1, <2>2
  <2>4. 2 ^ k = 128 /\ ~(k < 5) BY <1>8
  <2> QED BY <2>3, <2>4, Zenon
<1> HIDE DEF a, r
<1> QED BY <1>1, <1>2, <1>3, <1>4, <1>5, <1>6, <1>7, <1>8

Byte == 0 .. 255

LEMMA ByteType == \A x \in Byte : x \in Nat
BY DEF Byte

\* A number of a sequence, 0 before and after it.
At(seq, i) == IF i \in 1 .. Len(seq) THEN seq[i] ELSE 0

LEMMA AtType ==
  ASSUME NEW data \in Seq(Byte)
  PROVE  /\ \A i \in 1 .. Len(data) : data[i] \in Byte /\ At(data, i) = data[i]
         /\ \A i \in Int : At(data, i) \in Byte /\ At(data, i) \in Nat
<1>1. \A i \in 1 .. Len(data) : data[i] \in Byte OBVIOUS
<1>2. 0 \in Byte BY DEF Byte
<1>3. \A i \in Int : At(data, i) \in Byte BY <1>1, <1>2 DEF At
<1> QED BY <1>1, <1>3, ByteType DEF At

LEMMA DivEight == \A x \in Nat : x \div 8 \in Nat /\ 8 * (x \div 8) + (x % 8) = x /\ x % 8 \in 0 .. 7
OBVIOUS

LEMMA DivFive == \A x \in Nat : x \div 5 \in Nat /\ 5 * (x \div 5) + (x % 5) = x /\ x % 5 \in 0 .. 4
OBVIOUS

-----------------------------------------------------------------------------
(* Encoding.                                                               *)

\* Two bytes as one number.
Two(p, q) == 256 * p + q

\* The c-th five bits of some bytes: they end in byte Ends(c), 0 to 7 bits before its end.
Ends(c)         == (5 * c + 7) \div 8
Pair(bytes, b)  == Two(At(bytes, b - 1), At(bytes, b))
Quint(bytes, c) == Five(Pair(bytes, Ends(c)), 8 * Ends(c) - 5 * c)

Base32 == ToSet(Base32Chars)

EncodeStates == [bits : Nat, n : 0 .. 4, out : Seq(Base32)]

LEMMA Base32Values == \A v \in 0 .. 31 : Base32Chars[v + 1] \in Base32
BY DEF Base32, Base32Chars, ToSet

\* What a byte does to the accumulator: e is its state after, n the bits it has on
\* hand meanwhile and x what their low end looks like.
ByteTaken(s, e, n, x) ==
  /\ e \in EncodeStates
  /\ e.n = n % 5
  /\ Low(e.bits) = Low(x)
  /\ Len(e.out) = Len(s.out) + (n \div 5)
  /\ \A c \in 1 .. Len(s.out) : e.out[c] = s.out[c]
  /\ \A j \in 1 .. n \div 5 :
       e.out[Len(s.out) + j] = Base32Chars[Five(Low(x), n - 5 * j) + 1]

LEMMA EncodeByteIs ==
  ASSUME NEW s \in EncodeStates, NEW byte \in Byte, NEW e, e = EncodeByte(s, byte),
         NEW n, n = s.n + 8, NEW x, x = Two(s.bits, byte)
  PROVE  ByteTaken(s, e, n, x)
<1>0. s.n \in 0 .. 4 /\ s.bits \in Nat /\ s.out \in Seq(Base32) BY DEF EncodeStates
<1> DEFINE bits == Acc(s.bits * 2 ^ 8 + byte)
           new  == [j \in 1 .. n \div 5 |-> Base32Chars[Five(bits, n - 5 * j) + 1]]
<1>1. e = [bits |-> bits, n |-> n % 5, out |-> s.out \o new]
  BY DEF EncodeByte, Five
<1>2. bits \in Nat /\ Low(bits) = Low(x)
  <2>1. \A y \in Nat : /\ Acc(y * 2 ^ 8 + byte) \in Nat
                       /\ Low(Acc(y * 2 ^ 8 + byte)) = Low(Two(y, byte))
    <3>1. byte \in Nat BY ByteType
    <3> TAKE y \in Nat
    <3>2. y * 256 + byte = Two(y, byte) BY <3>1 DEF Two
    <3> QED BY ShiftIn, <3>1, <3>2
  <2> QED BY <1>0, <2>1
<1> HIDE DEF bits
<1>3. n \in 8 .. 12 /\ n \div 5 \in 1 .. 2
  <2>1. n \in 8 .. 12 BY <1>0
  <2> QED BY <2>1
<1>4. ASSUME NEW j \in 1 .. n \div 5
      PROVE  /\ Five(bits, n - 5 * j) \in 0 .. 31
             /\ Five(bits, n - 5 * j) = Five(Low(x), n - 5 * j)
  <2> DEFINE k == n - 5 * j
  <2>1. k \in 0 .. 7 BY <1>3
  <2> HIDE DEF k
  <2>2. Five(bits, k) \in 0 .. 31 /\ Five(bits, k) = Five(Low(bits), k)
    BY <1>2, <2>1, LowBits, FiveEightType
  <2> QED BY <1>2, <2>2 DEF k
<1>5. new \in Seq(Base32) /\ Len(new) = n \div 5
  <2>1. ASSUME NEW j \in 1 .. n \div 5 PROVE Base32Chars[Five(bits, n - 5 * j) + 1] \in Base32
    BY <1>4, Base32Values
  <2>2. new \in [1 .. n \div 5 -> Base32] BY <2>1
  <2> HIDE DEF new
  <2> QED BY <1>3, <2>2
<1>6. \A j \in 1 .. n \div 5 :
        new[j] = Base32Chars[Five(Low(x), n - 5 * j) + 1]
  BY <1>4
<1> HIDE DEF new
<1>7. /\ s.out \o new \in Seq(Base32) /\ Len(s.out \o new) = Len(s.out) + (n \div 5)
      /\ \A c \in 1 .. Len(s.out) : (s.out \o new)[c] = s.out[c]
      /\ \A j \in 1 .. n \div 5 : (s.out \o new)[Len(s.out) + j] = new[j]
  BY <1>0, <1>5, <1>3, ConcatProperties
<1>8. n % 5 \in 0 .. 4 BY <1>3
<1>9. e.n = n % 5 /\ e.bits = bits /\ e.out = s.out \o new BY <1>1
<1>10. e \in EncodeStates BY <1>1, <1>2, <1>7, <1>8 DEF EncodeStates
<1>11. \A j \in 1 .. n \div 5 :
         e.out[Len(s.out) + j] = Base32Chars[Five(Low(x), n - 5 * j) + 1]
  <2> TAKE j \in 1 .. n \div 5
  <2>1. e.out[Len(s.out) + j] = new[j] BY <1>7, <1>9
  <2> QED BY <1>6, <2>1, Zenon
<1>12. /\ Len(e.out) = Len(s.out) + (n \div 5)
       /\ \A c \in 1 .. Len(s.out) : e.out[c] = s.out[c]
  BY <1>7, <1>9
<1>13. Low(e.bits) = Low(x) BY <1>2, <1>9
<1> QED BY <1>9, <1>10, <1>11, <1>12, <1>13, Zenon DEF ByteTaken

LEMMA EncodeByteType ==
  ASSUME NEW s \in EncodeStates, NEW byte \in Byte
  PROVE  EncodeByte(s, byte) \in EncodeStates
<1> DEFINE e == EncodeByte(s, byte)
           n == s.n + 8
           x == Two(s.bits, byte)
<1>1. e = EncodeByte(s, byte) /\ n = s.n + 8 /\ x = Two(s.bits, byte) OBVIOUS
<1> HIDE DEF e, n, x
<1>2. ByteTaken(s, e, n, x) BY <1>1, EncodeByteIs, Zenon
<1>3. e \in EncodeStates BY <1>2 DEF ByteTaken
<1> QED BY <1>1, <1>3

\* The loop of EncodeBytes takes one byte after the other.
LEMMA EncodeBytesRuns ==
  ASSUME NEW data \in Seq(Byte)
  PROVE  \E s \in [0 .. Len(data) -> EncodeStates] :
           /\ EncodeBytes(data) = s[Len(data)]
           /\ s[0] = EmptyAcc
           /\ \A i \in 1 .. Len(data) : s[i] = EncodeByte(s[i - 1], data[i])
<1> DEFINE Unfolds(s) ==
             s = [i \in 0 .. Len(data) |-> IF i = 0 THEN EmptyAcc ELSE EncodeByte(s[i - 1], data[i])]
           F == [i \in 1 .. Len(data) |-> [x \in EncodeStates |-> EncodeByte(x, data[i])]]
<1>1. EmptyAcc \in EncodeStates /\ Len(data) \in Nat
  BY DEF EmptyAcc, EncodeStates
<1>2. \A i \in 1 .. Len(data), x \in EncodeStates : EncodeByte(x, data[i]) \in EncodeStates
  BY AtType, EncodeByteType, Zenon
<1>3. PICK g \in [0 .. Len(data) -> EncodeStates] : Runs(g, EmptyAcc, F, Len(data))
  <2>1. F \in [1 .. Len(data) -> [EncodeStates -> EncodeStates]] BY <1>2
  <2> HIDE DEF F
  <2> QED BY <1>1, <2>1, LoopRuns
<1>4. Unfolds(g)
  <2>1. g[0] = EmptyAcc BY <1>3 DEF Runs
  <2>2. ASSUME NEW i \in 1 .. Len(data) PROVE g[i] = EncodeByte(g[i - 1], data[i])
    <3>1. g[i - 1] \in EncodeStates BY <1>1
    <3>2. \A x \in EncodeStates : F[i][x] = EncodeByte(x, data[i]) OBVIOUS
    <3> HIDE DEF F
    <3>3. g[i] = F[i][g[i - 1]] BY <1>3 DEF Runs
    <3> QED BY <3>1, <3>2, <3>3
  <2> QED BY <1>1, <2>1, <2>2
<1> DEFINE s == CHOOSE f : Unfolds(f)
<1>5. Unfolds(s) BY <1>4
<1>6. EncodeBytes(data) = s[Len(data)] BY DEF EncodeBytes
<1> HIDE DEF s
<1>7. s[0] = EmptyAcc /\ \A i \in 1 .. Len(data) : s[i] = EncodeByte(s[i - 1], data[i])
  BY <1>1, <1>5
<1>8. \A i \in 0 .. Len(data) : s[i] \in EncodeStates
  <2> DEFINE S == {i \in Nat : i <= Len(data) => s[i] \in EncodeStates}
  <2>1. 0 \in S BY <1>1, <1>7
  <2>2. ASSUME NEW i \in Nat, i \in S PROVE i + 1 \in S
    BY <1>2, <1>7, <2>2
  <2> HIDE DEF S
  <2>3. Nat \subseteq S BY <2>1, <2>2, NatSetInduction
  <2> QED BY <2>3 DEF S
<1>9. s \in [0 .. Len(data) -> EncodeStates] BY <1>5, <1>8
<1> QED BY <1>6, <1>7, <1>9

LEMMA LowNibble ==
  ASSUME NEW b \in Nat, NEW p \in Nat, NEW q \in Nat, Low(b) = Low(Two(p, q))
  PROVE  b % 16 = q % 16
<1>1. b % 4096 = (256 * p + q) % 4096 BY DEF Low, Two
<1>2. \A z \in Nat : (z % 4096) % 16 = z % 16 OBVIOUS
<1>3. 256 * p + q \in Nat /\ (256 * p + q) % 16 = q % 16 OBVIOUS
<1> QED BY <1>1, <1>2, <1>3

\* Shifting a byte in, of what was there only the last byte still counts.
LEMMA LowOfTwo ==
  ASSUME NEW b \in Nat, NEW p \in Nat, NEW q \in Nat, NEW y \in Nat, Low(b) = Low(Two(p, q))
  PROVE  Low(Two(b, y)) = Low(Two(q, y))
<1>2. b % 16 = q % 16 BY LowNibble
<1>3. \A z \in Nat : (z * 256 + y) % 4096 = ((z % 16) * 256 + y) % 4096
  <2> TAKE z \in Nat
  <2> DEFINE a == z \div 16
             r == z % 16
  <2>1. a \in Nat /\ r \in 0 .. 15 /\ z = 16 * a + r OBVIOUS
  <2> HIDE DEF a, r
  <2>2. z * 256 + y = 4096 * a + (r * 256 + y) BY <2>1
  <2>3. (4096 * a + (r * 256 + y)) % 4096 = (r * 256 + y) % 4096 BY <2>1
  <2> QED BY <2>2, <2>3 DEF r
<1>4. Two(q, y) = q * 256 + y /\ Two(b, y) = b * 256 + y BY DEF Two
<1> QED BY <1>2, <1>3, <1>4 DEF Low

\* What the loop has after i bytes.
Encoded(s, data, i) ==
  /\ s.n = (8 * i) % 5
  /\ Low(s.bits) = Low(Pair(data, i))
  /\ Len(s.out) = (8 * i) \div 5
  /\ \A c \in 1 .. (8 * i) \div 5 : s.out[c] = Base32Chars[Quint(data, c) + 1]

LEMMA PairType ==
  ASSUME NEW data \in Seq(Byte), NEW i \in Int
  PROVE  Pair(data, i) \in Nat
<1>1. At(data, i) \in Nat /\ At(data, i - 1) \in Nat BY AtType
<1> QED BY <1>1 DEF Pair, Two

\* Where the characters of byte i + 1 come, of which L precede and n bits are on hand.
EncodePlaces(i, L, n) ==
  /\ L \in Nat
  /\ L + (n \div 5) = (8 * (i + 1)) \div 5 /\ n % 5 = (8 * (i + 1)) % 5
  /\ \A j \in 1 .. n \div 5 :
       /\ n - 5 * j \in 0 .. 7
       /\ Ends(L + j) = i + 1 /\ 8 * Ends(L + j) - 5 * (L + j) = n - 5 * j
  /\ \A c \in 1 .. (8 * (i + 1)) \div 5 :
       c <= L \/ (c - L \in 1 .. n \div 5 /\ L + (c - L) = c)

LEMMA EncodePlacesIs ==
  ASSUME NEW i \in Nat, NEW L, L = (8 * i) \div 5, NEW r, r = (8 * i) % 5, NEW n, n = r + 8
  PROVE  EncodePlaces(i, L, n)
<1>1. L \in Nat /\ 5 * L + r = 8 * i /\ r \in 0 .. 4
  <2>1. 8 * i \in Nat OBVIOUS
  <2> QED BY <2>1, DivFive
<1>2. n \in 8 .. 12 /\ n \in Nat /\ n = 8 * (i + 1) - 5 * L BY <1>1
<1>3. n \div 5 \in Nat /\ 5 * (n \div 5) + (n % 5) = n /\ n % 5 \in 0 .. 4 BY <1>2, DivFive
<1>4. 8 * (i + 1) = 5 * (L + (n \div 5)) + (n % 5) BY <1>1, <1>2, <1>3
<1>5. \A m \in Nat, k \in 0 .. 4 : (5 * m + k) \div 5 = m /\ (5 * m + k) % 5 = k OBVIOUS
<1>6. L + (n \div 5) = (8 * (i + 1)) \div 5 /\ n % 5 = (8 * (i + 1)) % 5
  BY <1>1, <1>3, <1>4, <1>5
<1>7. ASSUME NEW j \in 1 .. n \div 5
      PROVE  /\ n - 5 * j \in 0 .. 7
             /\ Ends(L + j) = i + 1 /\ 8 * Ends(L + j) - 5 * (L + j) = n - 5 * j
  <2>1. n - 5 * j \in 0 .. 7 BY <1>2, <1>3
  <2>2. 5 * (L + j) + 7 \in 8 * (i + 1) .. 8 * (i + 1) + 7 BY <1>1, <1>2, <2>1
  <2>3. \A y \in Int : y \in 8 * (i + 1) .. 8 * (i + 1) + 7 => y \div 8 = i + 1 OBVIOUS
  <2>4. Ends(L + j) = i + 1 BY <2>2, <2>3 DEF Ends
  <2> QED BY <1>1, <1>2, <2>1, <2>4
<1>8. ASSUME NEW c \in 1 .. (8 * (i + 1)) \div 5
      PROVE  c <= L \/ (c - L \in 1 .. n \div 5 /\ L + (c - L) = c)
  <2> DEFINE q == n \div 5
             p == (8 * (i + 1)) \div 5
  <2>1. q \in Nat /\ L \in Nat /\ p = L + q /\ c \in 1 .. p BY <1>1, <1>3, <1>6
  <2> HIDE DEF q, p
  <2>2. c <= L \/ (c - L \in 1 .. q /\ L + (c - L) = c) BY <2>1
  <2> QED BY <2>2 DEF q
<1> QED BY <1>1, <1>6, <1>7, <1>8, Zenon DEF EncodePlaces

LEMMA EncodedStep ==
  ASSUME NEW data \in Seq(Byte), NEW i \in Nat, i + 1 <= Len(data),
         NEW s \in EncodeStates, Encoded(s, data, i)
  PROVE  Encoded(EncodeByte(s, data[i + 1]), data, i + 1)
<1> DEFINE e    == EncodeByte(s, data[i + 1])
           byte == data[i + 1]
           n    == s.n + 8
           x    == Two(s.bits, byte)
           L    == (8 * i) \div 5
           r    == (8 * i) % 5
<1>0. i + 1 \in 1 .. Len(data) OBVIOUS
<1>1. byte \in Byte /\ byte \in Nat /\ byte = At(data, i + 1) BY <1>0, AtType, ByteType
<1>2. e = EncodeByte(s, byte) /\ n = s.n + 8 /\ x = Two(s.bits, byte) OBVIOUS
<1>3. s.n = r /\ n = r + 8 /\ Len(s.out) = L /\ Low(s.bits) = Low(Pair(data, i))
  BY DEF Encoded
<1>4. \A c \in 1 .. L : s.out[c] = Base32Chars[Quint(data, c) + 1] BY DEF Encoded
<1>5. s.bits \in Nat BY DEF EncodeStates
<1>6. L = (8 * i) \div 5 /\ r = (8 * i) % 5 OBVIOUS
<1> HIDE DEF e, byte, n, L, r, x
<1>7. EncodePlaces(i, L, n) BY <1>3, <1>6, EncodePlacesIs, Zenon
<1>8. ByteTaken(s, e, n, x) BY <1>1, <1>2, EncodeByteIs, Zenon
<1>9. Low(x) = Low(Pair(data, i + 1))
  <2> DEFINE p == At(data, i - 1)
             q == At(data, i)
  <2>1. p \in Nat /\ q \in Nat
    <3>1. i - 1 \in Int /\ i \in Int OBVIOUS
    <3> QED BY <3>1, AtType, Zenon
  <2>2. Pair(data, i) = Two(p, q) BY DEF Pair
  <2>3. Pair(data, i + 1) = Two(q, byte)
    <3>1. (i + 1) - 1 = i OBVIOUS
    <3> QED BY <1>1, <3>1 DEF Pair
  <2> HIDE DEF p, q
  <2>4. Low(Two(s.bits, byte)) = Low(Two(q, byte))
    BY <1>1, <1>3, <1>5, <2>1, <2>2, LowOfTwo
  <2> QED BY <1>2, <2>3, <2>4
<1>10. /\ L \in Nat
       /\ L + (n \div 5) = (8 * (i + 1)) \div 5 /\ n % 5 = (8 * (i + 1)) % 5
  BY <1>7 DEF EncodePlaces
<1>11. ASSUME NEW j \in 1 .. n \div 5
       PROVE  Five(Low(x), n - 5 * j) = Quint(data, L + j)
  <2>1. n - 5 * j \in 0 .. 7 /\ Ends(L + j) = i + 1 /\ 8 * Ends(L + j) - 5 * (L + j) = n - 5 * j
    BY <1>7, Zenon DEF EncodePlaces
  <2> DEFINE k == n - 5 * j
             P == Pair(data, i + 1)
  <2>2. Quint(data, L + j) = Five(P, k) BY <2>1 DEF Quint
  <2>3. k \in 0 .. 7 /\ P \in Nat BY <2>1, PairType
  <2>4. Low(x) = Low(P) BY <1>9
  <2> HIDE DEF k, P
  <2>5. Five(P, k) = Five(Low(P), k) BY <2>3, LowBits, Zenon
  <2> QED BY <2>2, <2>4, <2>5 DEF k
<1>12. ASSUME NEW c \in 1 .. (8 * (i + 1)) \div 5
       PROVE  e.out[c] = Base32Chars[Quint(data, c) + 1]
  <2>1. CASE c <= L
    <3>1. c \in 1 .. L BY <1>10, <2>1
    <3>2. e.out[c] = s.out[c] BY <1>3, <1>8, <3>1 DEF ByteTaken
    <3> QED BY <1>4, <3>1, <3>2
  <2>2. CASE c - L \in 1 .. n \div 5 /\ L + (c - L) = c
    <3>1. e.out[L + (c - L)] = Base32Chars[Five(Low(x), n - 5 * (c - L)) + 1]
      BY <1>3, <1>8, <2>2 DEF ByteTaken
    <3>2. Five(Low(x), n - 5 * (c - L)) = Quint(data, L + (c - L)) BY <1>11, <2>2
    <3> QED BY <2>2, <3>1, <3>2
  <2>3. c <= L \/ (c - L \in 1 .. n \div 5 /\ L + (c - L) = c)
    BY <1>7, Zenon DEF EncodePlaces
  <2> QED BY <2>1, <2>2, <2>3
<1>13. /\ e.n = (8 * (i + 1)) % 5 /\ Len(e.out) = (8 * (i + 1)) \div 5
       /\ Low(e.bits) = Low(Pair(data, i + 1))
  BY <1>3, <1>8, <1>9, <1>10 DEF ByteTaken
<1>14. Encoded(e, data, i + 1) BY <1>12, <1>13, Zenon DEF Encoded
<1> QED BY <1>14 DEF e, byte

LEMMA EncodeBytesIs ==
  ASSUME NEW data \in Seq(Byte)
  PROVE  EncodeBytes(data) \in EncodeStates /\ Encoded(EncodeBytes(data), data, Len(data))
<1>1. PICK s \in [0 .. Len(data) -> EncodeStates] :
        /\ EncodeBytes(data) = s[Len(data)]
        /\ s[0] = EmptyAcc
        /\ \A i \in 1 .. Len(data) : s[i] = EncodeByte(s[i - 1], data[i])
  BY EncodeBytesRuns
<1>2. Len(data) \in Nat /\ Len(data) \in 0 .. Len(data) OBVIOUS
<1> DEFINE S == {i \in Nat : i <= Len(data) => Encoded(s[i], data, i)}
<1>3. 0 \in S
  <2>1. At(data, 0) = 0 /\ At(data, 0 - 1) = 0 BY <1>2 DEF At
  <2>2. Pair(data, 0) = 0 BY <2>1 DEF Pair, Two
  <2>3. s[0].n = 0 /\ s[0].bits = 0 /\ Len(s[0].out) = 0 BY <1>1 DEF EmptyAcc
  <2>4. (8 * 0) % 5 = 0 /\ (8 * 0) \div 5 = 0 OBVIOUS
  <2>5. \A c \in 1 .. (8 * 0) \div 5 : FALSE BY <2>4
  <2>6. Encoded(s[0], data, 0) BY <2>2, <2>3, <2>4, <2>5 DEF Encoded
  <2> QED BY <2>6
<1>4. ASSUME NEW i \in Nat, i \in S PROVE i + 1 \in S
  <2> SUFFICES ASSUME i + 1 <= Len(data) PROVE Encoded(s[i + 1], data, i + 1) OBVIOUS
  <2>1. s[i] \in EncodeStates /\ Encoded(s[i], data, i) BY <1>2, <1>4
  <2>2. s[i + 1] = EncodeByte(s[i], data[i + 1])
    <3>1. i + 1 \in 1 .. Len(data) /\ (i + 1) - 1 = i BY <1>2
    <3> QED BY <1>1, <3>1
  <2> QED BY <2>1, <2>2, EncodedStep
<1> HIDE DEF S
<1>5. Len(data) \in S BY <1>2, <1>3, <1>4, NatSetInduction
<1> QED BY <1>1, <1>2, <1>5 DEF S

LastFive(b, n) == (b * 2 ^ (5 - n)) % 32

\* The bits that are left fill up the last character from above: as if a zero byte came.
LEMMA LastCharacter ==
  ASSUME NEW b \in Nat, NEW p \in Nat, NEW q \in Nat, NEW n \in 1 .. 4, Low(b) = Low(Two(p, q))
  PROVE  LastFive(b, n) = Five(Two(q, 0), n + 3)
<1>1. b % 16 = q % 16 BY LowNibble
<1> DEFINE d == b \div 16
           e == q \div 16
           r == q % 16
<1>2. d \in Nat /\ e \in Nat /\ r \in 0 .. 15 /\ b = 16 * d + r /\ q = 16 * e + r BY <1>1
<1> HIDE DEF d, e, r
<1>3. Two(q, 0) = 256 * q BY DEF Two
<1>4. CASE n = 1
  <2>1. 2 ^ (5 - n) = 16 /\ 2 ^ (n + 3) = 16 BY <1>4
  <2>2. (b * 16) % 32 = (r * 16) % 32 /\ (q * 16) % 32 = (r * 16) % 32 BY <1>2
  <2>3. (256 * q) \div 16 = q * 16 OBVIOUS
  <2> QED BY <1>3, <2>1, <2>2, <2>3 DEF Five, LastFive
<1>5. CASE n = 2
  <2>1. 2 ^ (5 - n) = 8 /\ 2 ^ (n + 3) = 32 BY <1>5
  <2>2. (b * 8) % 32 = (r * 8) % 32 /\ (q * 8) % 32 = (r * 8) % 32 BY <1>2
  <2>3. (256 * q) \div 32 = q * 8 OBVIOUS
  <2> QED BY <1>3, <2>1, <2>2, <2>3 DEF Five, LastFive
<1>6. CASE n = 3
  <2>1. 2 ^ (5 - n) = 4 /\ 2 ^ (n + 3) = 64 BY <1>6
  <2>2. (b * 4) % 32 = (r * 4) % 32 /\ (q * 4) % 32 = (r * 4) % 32 BY <1>2
  <2>3. (256 * q) \div 64 = q * 4 OBVIOUS
  <2> QED BY <1>3, <2>1, <2>2, <2>3 DEF Five, LastFive
<1>7. CASE n = 4
  <2>1. 2 ^ (5 - n) = 2 /\ 2 ^ (n + 3) = 128 BY <1>7
  <2>2. (b * 2) % 32 = (r * 2) % 32 /\ (q * 2) % 32 = (r * 2) % 32 BY <1>2
  <2>3. (256 * q) \div 128 = q * 2 OBVIOUS
  <2> QED BY <1>3, <2>1, <2>2, <2>3 DEF Five, LastFive
<1> QED BY <1>4, <1>5, <1>6, <1>7

LEMMA LastPlace ==
  ASSUME NEW L \in Nat, NEW M \in Nat, NEW n \in 1 .. 4, 5 * M + n = 8 * L
  PROVE  /\ (8 * L + 4) \div 5 = M + 1
         /\ Ends(M + 1) = L + 1 /\ 8 * Ends(M + 1) - 5 * (M + 1) = n + 3
<1>1. 8 * L + 4 = 5 * (M + 1) + (n - 1) /\ n - 1 \in 0 .. 4 OBVIOUS
<1>2. \A m \in Nat, k \in 0 .. 4 : (5 * m + k) \div 5 = m OBVIOUS
<1>3. (8 * L + 4) \div 5 = M + 1 BY <1>1, <1>2
<1>4. 5 * (M + 1) + 7 = 8 * (L + 1) + (4 - n) /\ 4 - n \in 0 .. 7 OBVIOUS
<1>5. \A m \in Nat, k \in 0 .. 7 : (8 * m + k) \div 8 = m OBVIOUS
<1>6. Ends(M + 1) = L + 1 BY <1>4, <1>5 DEF Ends
<1> QED BY <1>3, <1>6

LEMMA AppendOne ==
  ASSUME NEW S, NEW seq \in Seq(S), NEW x \in S
  PROVE  /\ seq \o <<x>> \in Seq(S) /\ Len(seq \o <<x>>) = Len(seq) + 1
         /\ \A c \in 1 .. Len(seq) : (seq \o <<x>>)[c] = seq[c]
         /\ (seq \o <<x>>)[Len(seq) + 1] = x
OBVIOUS

LEMMA QuintType ==
  ASSUME NEW data \in Seq(Byte), NEW c \in Nat \ {0}
  PROVE  Quint(data, c) \in 0 .. 31 /\ Base32Chars[Quint(data, c) + 1] \in Base32
<1>1. Ends(c) \in Nat /\ 8 * Ends(c) - 5 * c \in 0 .. 7
  <2>1. \A y \in Nat : y \div 8 \in Nat /\ y - 8 * (y \div 8) \in 0 .. 7 OBVIOUS
  <2>2. 5 * c + 7 \in Nat OBVIOUS
  <2> DEFINE y == 5 * c + 7
             q == y \div 8
  <2>3. q \in Nat /\ y - 8 * q \in 0 .. 7 BY <2>1, <2>2
  <2>4. y = 5 * c + 7 OBVIOUS
  <2> HIDE DEF y, q
  <2>5. 8 * q - 5 * c \in 0 .. 7 BY <2>3, <2>4
  <2> QED BY <2>3, <2>5 DEF q, y, Ends
<1>2. Quint(data, c) \in 0 .. 31
  <2> DEFINE k == 8 * Ends(c) - 5 * c
             P == Pair(data, Ends(c))
  <2>1. k \in 0 .. 7 /\ P \in Nat BY <1>1, PairType
  <2>2. Quint(data, c) = Five(P, k) BY DEF Quint
  <2> HIDE DEF k, P
  <2> QED BY <2>1, <2>2, FiveEightType
<1> QED BY <1>2, Base32Values

\* Every character of the encoding has the five bits whose turn it is.
LEMMA Base32EncodeIs ==
  ASSUME NEW data \in Seq(Byte)
  PROVE  /\ Base32Encode(data) \in Seq(Base32)
         /\ Len(Base32Encode(data)) = (8 * Len(data) + 4) \div 5
         /\ \A c \in 1 .. (8 * Len(data) + 4) \div 5 :
              Base32Encode(data)[c] = Base32Chars[Quint(data, c) + 1]
<1> DEFINE s    == EncodeBytes(data)
           L    == Len(data)
           M    == (8 * L) \div 5
           last == Base32Chars[((s.bits * 2 ^ (5 - s.n)) % 32) + 1]
           tail == IF s.n > 0 THEN <<last>> ELSE <<>>
<1>1. Base32Encode(data) = s.out \o tail BY DEF Base32Encode
<1>2. s \in EncodeStates /\ Encoded(s, data, L) BY EncodeBytesIs
<1>3. L \in Nat /\ 8 * L \in Nat OBVIOUS
<1> HIDE DEF s, L
<1>4. /\ s.bits \in Nat /\ s.n \in 0 .. 4 /\ s.out \in Seq(Base32)
      /\ s.n = (8 * L) % 5 /\ Len(s.out) = M /\ Low(s.bits) = Low(Pair(data, L))
      /\ \A c \in 1 .. M : s.out[c] = Base32Chars[Quint(data, c) + 1]
  BY <1>2 DEF EncodeStates, Encoded
<1>5. M \in Nat /\ 5 * M + s.n = 8 * L BY <1>3, <1>4, DivFive
<1> HIDE DEF M
<1>6. CASE s.n = 0
  <2>1. tail = <<>> /\ s.out \o <<>> = s.out BY <1>4, <1>6
  <2>2. Base32Encode(data) = s.out BY <1>1, <2>1
  <2>3. (8 * L + 4) \div 5 = M BY <1>5, <1>6
  <2> QED BY <1>4, <2>2, <2>3 DEF L
<1>7. CASE s.n > 0
  <2>1. s.n \in 1 .. 4 BY <1>4, <1>7
  <2>2. /\ (8 * L + 4) \div 5 = M + 1
        /\ Ends(M + 1) = L + 1 /\ 8 * Ends(M + 1) - 5 * (M + 1) = s.n + 3
    <3> DEFINE n == s.n
    <3>1. n \in 1 .. 4 /\ 5 * M + n = 8 * L BY <1>5, <2>1
    <3> HIDE DEF n
    <3>2. /\ (8 * L + 4) \div 5 = M + 1
          /\ Ends(M + 1) = L + 1 /\ 8 * Ends(M + 1) - 5 * (M + 1) = n + 3
      BY <1>3, <1>5, <3>1, LastPlace
    <3> QED BY <3>2 DEF n
  <2>3. Base32Encode(data) = s.out \o <<last>> BY <1>1, <1>7
  <2>4. last = Base32Chars[Quint(data, M + 1) + 1]
    <3> DEFINE p == At(data, L - 1)
               q == At(data, L)
    <3>2. p \in Nat /\ q \in Nat
      <4>1. L - 1 \in Int /\ L \in Int BY <1>3
      <4> QED BY <4>1, AtType
    <3>3. Pair(data, L) = Two(p, q) BY DEF Pair
    <3>4. Pair(data, L + 1) = Two(q, 0)
      <4>1. (L + 1) - 1 = L /\ At(data, L + 1) = 0 BY <1>3 DEF At, L
      <4> QED BY <4>1 DEF Pair
    <3> HIDE DEF p, q
    <3>5. LastFive(s.bits, s.n) = Five(Two(q, 0), s.n + 3)
      BY <1>4, <2>1, <3>2, <3>3, LastCharacter
    <3>6. Quint(data, M + 1) = Five(Two(q, 0), s.n + 3) BY <2>2, <3>4 DEF Quint
    <3> QED BY <3>5, <3>6 DEF LastFive
  <2> HIDE DEF last
  <2>5. last \in Base32 BY <1>5, <2>4, QuintType
  <2>7. /\ s.out \o <<last>> \in Seq(Base32) /\ Len(s.out \o <<last>>) = M + 1
        /\ \A c \in 1 .. M : (s.out \o <<last>>)[c] = s.out[c]
        /\ (s.out \o <<last>>)[M + 1] = last
    BY <1>4, <2>5, AppendOne
  <2>8. ASSUME NEW c \in 1 .. M + 1
        PROVE  (s.out \o <<last>>)[c] = Base32Chars[Quint(data, c) + 1]
    <3>1. c \in 1 .. M \/ c = M + 1 BY <1>5
    <3> QED BY <1>4, <2>4, <2>7, <3>1
  <2> QED BY <2>2, <2>3, <2>7, <2>8 DEF L
<1> QED BY <1>4, <1>6, <1>7

-----------------------------------------------------------------------------
(* Decoding.                                                               *)

Letters == DOMAIN Base32Decode
Digit   == 0 .. 31

LEMMA LettersAre == Letters = ToSet(Base32Chars) \cup ToSet(Base32Small) \cup DOMAIN Base32Aliases
BY DEF Letters, Base32Decode

LEMMA LetterValues == \A ch \in Letters : Base32Decode[ch] \in Digit /\ Base32Decode[ch] \in Nat
<1> SUFFICES ASSUME NEW ch \in Letters PROVE Base32Decode[ch] \in Digit
  BY DEF Digit
<1>1. CASE ch \in DOMAIN Base32Aliases
  <2>1. Base32Decode[ch] = Base32Aliases[ch] BY <1>1, LettersAre DEF Base32Decode
  <2>2. Base32Aliases[ch] \in {0, 1} BY <1>1 DEF Base32Aliases
  <2> QED BY <2>1, <2>2 DEF Digit
<1>2. CASE ch \notin DOMAIN Base32Aliases
  <2>1. Base32Decode[ch] = CHOOSE v \in 0 .. 31 : ch \in {Base32Chars[v + 1], Base32Small[v + 1]}
    BY <1>2, LettersAre DEF Base32Decode
  <2>2. DOMAIN Base32Chars = 1 .. 32 /\ DOMAIN Base32Small = 1 .. 32
    BY DEF Base32Chars, Base32Small
  <2>3. PICK i \in 1 .. 32 : ch = Base32Chars[i] \/ ch = Base32Small[i]
    BY <1>2, <2>2, LettersAre DEF ToSet
  <2>4. i - 1 \in 0 .. 31 /\ ch \in {Base32Chars[(i - 1) + 1], Base32Small[(i - 1) + 1]}
    BY <2>3
  <2> QED BY <2>1, <2>4 DEF Digit
<1> QED BY <1>1, <1>2

\* A number with five bits more, and the last three digits up to one.
One(b, v)    == 32 * b + v
Triple(v, i) == One(One(At(v, i - 2), At(v, i - 1)), At(v, i))

\* The k-th byte is complete with digit Closes(k), 0 to 4 bits before its end.
Closes(k)   == (8 * k + 4) \div 5
Octet(v, k) == Eight(Triple(v, Closes(k)), 5 * Closes(k) - 8 * k)

LEMMA DigitAt ==
  ASSUME NEW v \in Seq(Digit)
  PROVE  /\ \A i \in 1 .. Len(v) : v[i] \in Digit /\ At(v, i) = v[i]
         /\ \A i \in Int : At(v, i) \in Digit /\ At(v, i) \in Nat
<1>1. \A i \in 1 .. Len(v) : v[i] \in Digit OBVIOUS
<1>2. 0 \in Digit /\ \A d \in Digit : d \in Nat BY DEF Digit
<1>3. \A i \in Int : At(v, i) \in Digit BY <1>1, <1>2 DEF At
<1> QED BY <1>1, <1>2, <1>3 DEF At

LEMMA TripleType == ASSUME NEW v \in Seq(Digit), NEW i \in Int PROVE Triple(v, i) \in Nat
<1>1. At(v, i) \in Nat /\ At(v, i - 1) \in Nat /\ At(v, i - 2) \in Nat BY DigitAt
<1>2. \A b, d \in Nat : One(b, d) \in Nat BY DEF One
<1> QED BY <1>1, <1>2 DEF Triple

LEMMA LowOfThree ==
  ASSUME NEW b \in Nat, NEW p \in Nat, NEW q \in Nat, NEW r \in Nat, NEW y \in Nat,
         Low(b) = Low(One(One(p, q), r))
  PROVE  Low(One(b, y)) = Low(One(One(q, r), y))
<1>1. b % 128 = (32 * q + r) % 128
  <2>1. b % 4096 = (32 * (32 * p + q) + r) % 4096 BY DEF Low, One
  <2>2. \A z \in Nat : (z % 4096) % 128 = z % 128 OBVIOUS
  <2>3. /\ 32 * (32 * p + q) + r \in Nat
        /\ (32 * (32 * p + q) + r) % 128 = (32 * q + r) % 128
    OBVIOUS
  <2> QED BY <2>1, <2>2, <2>3
<1>2. \A z \in Nat : (z * 32 + y) % 4096 = ((z % 128) * 32 + y) % 4096
  <2> TAKE z \in Nat
  <2> DEFINE a == z \div 128
             c == z % 128
  <2>1. a \in Nat /\ c \in 0 .. 127 /\ z = 128 * a + c OBVIOUS
  <2> HIDE DEF a, c
  <2>2. z * 32 + y = 4096 * a + (c * 32 + y) BY <2>1
  <2>3. (4096 * a + (c * 32 + y)) % 4096 = (c * 32 + y) % 4096 BY <2>1
  <2> QED BY <2>2, <2>3 DEF c
<1>3. One(b, y) = b * 32 + y /\ One(One(q, r), y) = (32 * q + r) * 32 + y BY DEF One
<1>4. 32 * q + r \in Nat OBVIOUS
<1> QED BY <1>1, <1>2, <1>3, <1>4 DEF Low

DecodeStates == [bits : Nat, n : 0 .. 7, out : Seq(Byte)]

\* What a character does to the accumulator, as ByteTaken.
CharTaken(s, e, n, x) ==
  /\ e \in DecodeStates
  /\ e.n = n % 8
  /\ Low(e.bits) = Low(x)
  /\ Len(e.out) = Len(s.out) + (n \div 8)
  /\ \A k \in 1 .. Len(s.out) : e.out[k] = s.out[k]
  /\ \A j \in 1 .. n \div 8 : e.out[Len(s.out) + j] = Eight(Low(x), n - 8 * j)

LEMMA DecodeCharIs ==
  ASSUME NEW s \in DecodeStates, NEW ch \in Letters, NEW e, e = DecodeChar(s, ch),
         NEW n, n = s.n + 5, NEW x, x = One(s.bits, Base32Decode[ch])
  PROVE  CharTaken(s, e, n, x)
<1> DEFINE v    == Base32Decode[ch]
           bits == Acc(s.bits * 2 ^ 5 + v)
           byte == (bits \div 2 ^ (n - 8)) % 2 ^ 8
<1>1. v \in Nat BY LetterValues
<1>2. e = IF n < 8 THEN [s EXCEPT !.bits = bits, !.n = n]
          ELSE [bits |-> bits, n |-> n - 8, out |-> Append(s.out, byte)]
  BY DEF DecodeChar
<1>3. s.bits \in Nat /\ s.n \in 0 .. 7 /\ s.out \in Seq(Byte) /\ Len(s.out) \in Nat
      /\ s = [bits |-> s.bits, n |-> s.n, out |-> s.out]
  BY DEF DecodeStates
<1> HIDE DEF v
<1>4. bits \in Nat /\ Low(bits) = Low(x)
  <2>1. s.bits * 32 + v = One(s.bits, v) BY <1>1, <1>3 DEF One
  <2> DEFINE b == s.bits
  <2>2. b \in Nat BY <1>3
  <2> HIDE DEF b
  <2>3. Acc(b * 2 ^ 5 + v) \in Nat /\ Low(Acc(b * 2 ^ 5 + v)) = Low(b * 32 + v)
    BY <1>1, <2>2, ShiftIn
  <2> QED BY <2>1, <2>3 DEF b, v
<1>5. n \in 5 .. 12 BY <1>3
<1> HIDE DEF bits, byte
<1>6. CASE n < 8
  <2>1. n % 8 = n /\ n \div 8 = 0 /\ n \in 0 .. 7 BY <1>5, <1>6
  <2>2. e = [bits |-> bits, n |-> n, out |-> s.out] BY <1>2, <1>3, <1>6
  <2>3. e \in DecodeStates BY <1>3, <1>4, <2>1, <2>2 DEF DecodeStates
  <2>4. e.n = n % 8 /\ Len(e.out) = Len(s.out) + (n \div 8) BY <1>3, <2>1, <2>2
  <2>5. \A k \in 1 .. Len(s.out) : e.out[k] = s.out[k] BY <2>2
  <2>6. \A j \in 1 .. n \div 8 : FALSE BY <2>1
  <2>7. Low(e.bits) = Low(x) BY <1>4, <2>2
  <2> QED BY <2>3, <2>4, <2>5, <2>6, <2>7, Zenon DEF CharTaken
<1>7. CASE ~(n < 8)
  <2>1. n % 8 = n - 8 /\ n \div 8 = 1 /\ n - 8 \in 0 .. 7 /\ n - 8 < 5 BY <1>5, <1>7
  <2>2. e = [bits |-> bits, n |-> n - 8, out |-> Append(s.out, byte)] BY <1>2, <1>7
  <2> DEFINE k == n - 8
  <2>3. k \in 0 .. 7 /\ k < 5 BY <2>1
  <2>4. byte = Eight(bits, k) BY Powers DEF byte, Eight
  <2> HIDE DEF k
  <2>5. byte \in Byte BY <1>4, <2>3, <2>4, FiveEightType DEF Byte
  <2>6. byte = Eight(Low(x), k) BY <1>4, <2>3, <2>4, LowBits
  <2>7. /\ Append(s.out, byte) \in Seq(Byte) /\ Len(Append(s.out, byte)) = Len(s.out) + 1
        /\ Append(s.out, byte)[Len(s.out) + 1] = byte
        /\ \A i \in 1 .. Len(s.out) : Append(s.out, byte)[i] = s.out[i]
    BY <1>3, <2>5
  <2>8. e.out = Append(s.out, byte) /\ e.bits = bits /\ e.n = n - 8 BY <2>2
  <2>9. e \in DecodeStates BY <1>4, <2>1, <2>2, <2>7 DEF DecodeStates
  <2>10. \A j \in 1 .. n \div 8 : e.out[Len(s.out) + j] = Eight(Low(x), n - 8 * j)
    <3>1. \A j \in 1 .. n \div 8 : j = 1 /\ n - 8 * j = k BY <1>5, <2>1 DEF k
    <3> QED BY <2>6, <2>7, <2>8, <3>1
  <2>11. e.n = n % 8 /\ Len(e.out) = Len(s.out) + (n \div 8) BY <2>1, <2>7, <2>8
  <2>12. Low(e.bits) = Low(x) BY <1>4, <2>8
  <2>13. \A i \in 1 .. Len(s.out) : e.out[i] = s.out[i] BY <2>7, <2>8
  <2> QED BY <2>9, <2>10, <2>11, <2>12, <2>13, Zenon DEF CharTaken
<1> QED BY <1>6, <1>7

LEMMA DecodeCharType ==
  ASSUME NEW s \in DecodeStates, NEW ch \in Letters
  PROVE  DecodeChar(s, ch) \in DecodeStates
<1> DEFINE e == DecodeChar(s, ch)
           n == s.n + 5
           x == One(s.bits, Base32Decode[ch])
<1>1. e = DecodeChar(s, ch) /\ n = s.n + 5 /\ x = One(s.bits, Base32Decode[ch]) OBVIOUS
<1> HIDE DEF e, n, x
<1>2. CharTaken(s, e, n, x) BY <1>1, DecodeCharIs, Zenon
<1>3. e \in DecodeStates BY <1>2 DEF CharTaken
<1> QED BY <1>1, <1>3

\* The loop of BytesOf takes one character after the other.
LEMMA BytesOfRuns ==
  ASSUME NEW text, NEW seq \in Seq(Letters), seq = Cleaned(text)
  PROVE  \E s \in [0 .. Len(seq) -> DecodeStates] :
           /\ BytesOf(text) = s[Len(seq)].out
           /\ s[0] = EmptyAcc
           /\ \A i \in 1 .. Len(seq) : s[i] = DecodeChar(s[i - 1], seq[i])
<1> DEFINE Unfolds(s) ==
             s = [i \in 0 .. Len(seq) |-> IF i = 0 THEN EmptyAcc ELSE DecodeChar(s[i - 1], seq[i])]
           F == [i \in 1 .. Len(seq) |-> [x \in DecodeStates |-> DecodeChar(x, seq[i])]]
<1>1. EmptyAcc \in DecodeStates /\ Len(seq) \in Nat
  BY DEF EmptyAcc, DecodeStates
<1>2. \A i \in 1 .. Len(seq), x \in DecodeStates : DecodeChar(x, seq[i]) \in DecodeStates
  <2>1. \A i \in 1 .. Len(seq) : seq[i] \in Letters OBVIOUS
  <2> QED BY <2>1, DecodeCharType, Zenon
<1>3. PICK g \in [0 .. Len(seq) -> DecodeStates] : Runs(g, EmptyAcc, F, Len(seq))
  <2>1. F \in [1 .. Len(seq) -> [DecodeStates -> DecodeStates]] BY <1>2
  <2> HIDE DEF F
  <2> QED BY <1>1, <2>1, LoopRuns
<1>4. Unfolds(g)
  <2>1. g[0] = EmptyAcc BY <1>3 DEF Runs
  <2>2. ASSUME NEW i \in 1 .. Len(seq) PROVE g[i] = DecodeChar(g[i - 1], seq[i])
    <3>1. g[i - 1] \in DecodeStates BY <1>1
    <3>2. \A x \in DecodeStates : F[i][x] = DecodeChar(x, seq[i]) OBVIOUS
    <3> HIDE DEF F
    <3>3. g[i] = F[i][g[i - 1]] BY <1>3 DEF Runs
    <3> QED BY <3>1, <3>2, <3>3
  <2> QED BY <1>1, <2>1, <2>2
<1> DEFINE s == CHOOSE f : Unfolds(f)
<1>5. Unfolds(s) BY <1>4
<1>6. BytesOf(text) = s[Len(seq)].out BY DEF BytesOf
<1> HIDE DEF s
<1>7. s[0] = EmptyAcc /\ \A i \in 1 .. Len(seq) : s[i] = DecodeChar(s[i - 1], seq[i])
  BY <1>1, <1>5
<1>8. \A i \in 0 .. Len(seq) : s[i] \in DecodeStates
  <2> DEFINE S == {i \in Nat : i <= Len(seq) => s[i] \in DecodeStates}
  <2>1. 0 \in S BY <1>1, <1>7
  <2>2. ASSUME NEW i \in Nat, i \in S PROVE i + 1 \in S
    BY <1>2, <1>7, <2>2
  <2> HIDE DEF S
  <2>3. Nat \subseteq S BY <2>1, <2>2, NatSetInduction
  <2> QED BY <2>3 DEF S
<1>9. s \in [0 .. Len(seq) -> DecodeStates] BY <1>5, <1>8
<1> QED BY <1>6, <1>7, <1>9

\* Where the byte that digit i + 1 may complete comes, after K others, n bits on hand.
DecodePlaces(i, K, n) ==
  /\ K \in Nat
  /\ K + (n \div 8) = (5 * (i + 1)) \div 8 /\ n % 8 = (5 * (i + 1)) % 8
  /\ \A j \in 1 .. n \div 8 :
       /\ n - 8 * j \in 0 .. 7 /\ n - 8 * j < 5
       /\ Closes(K + j) = i + 1 /\ 5 * Closes(K + j) - 8 * (K + j) = n - 8 * j
  /\ \A k \in 1 .. (5 * (i + 1)) \div 8 :
       k <= K \/ (k - K \in 1 .. n \div 8 /\ K + (k - K) = k)

LEMMA DecodePlacesIs ==
  ASSUME NEW i \in Nat, NEW K, K = (5 * i) \div 8, NEW r, r = (5 * i) % 8, NEW n, n = r + 5
  PROVE  DecodePlaces(i, K, n)
<1>1. K \in Nat /\ 8 * K + r = 5 * i /\ r \in 0 .. 7
  <2>1. 5 * i \in Nat OBVIOUS
  <2> QED BY <2>1, DivEight
<1>2. n \in 5 .. 12 /\ n \in Nat /\ n = 5 * (i + 1) - 8 * K BY <1>1
<1>3. n \div 8 \in Nat /\ 8 * (n \div 8) + (n % 8) = n /\ n % 8 \in 0 .. 7 BY <1>2, DivEight
<1>4. 5 * (i + 1) = 8 * (K + (n \div 8)) + (n % 8) BY <1>1, <1>2, <1>3
<1>5. \A m \in Nat, k \in 0 .. 7 : (8 * m + k) \div 8 = m /\ (8 * m + k) % 8 = k OBVIOUS
<1>6. K + (n \div 8) = (5 * (i + 1)) \div 8 /\ n % 8 = (5 * (i + 1)) % 8
  BY <1>1, <1>3, <1>4, <1>5
<1>7. ASSUME NEW j \in 1 .. n \div 8
      PROVE  /\ n - 8 * j \in 0 .. 7 /\ n - 8 * j < 5
             /\ Closes(K + j) = i + 1 /\ 5 * Closes(K + j) - 8 * (K + j) = n - 8 * j
  <2>1. n - 8 * j \in 0 .. 7 /\ n - 8 * j < 5 BY <1>2, <1>3
  <2>2. 8 * (K + j) + 4 \in 5 * (i + 1) .. 5 * (i + 1) + 4 BY <1>1, <1>2, <2>1
  <2>3. \A y \in Int : y \in 5 * (i + 1) .. 5 * (i + 1) + 4 => y \div 5 = i + 1 OBVIOUS
  <2>4. Closes(K + j) = i + 1 BY <2>2, <2>3 DEF Closes
  <2> QED BY <1>1, <1>2, <2>1, <2>4
<1>8. ASSUME NEW k \in 1 .. (5 * (i + 1)) \div 8
      PROVE  k <= K \/ (k - K \in 1 .. n \div 8 /\ K + (k - K) = k)
  <2> DEFINE q == n \div 8
             p == (5 * (i + 1)) \div 8
  <2>1. q \in Nat /\ K \in Nat /\ p = K + q /\ k \in 1 .. p BY <1>1, <1>3, <1>6
  <2> HIDE DEF q, p
  <2>2. k <= K \/ (k - K \in 1 .. q /\ K + (k - K) = k) BY <2>1
  <2> QED BY <2>2 DEF q
<1> QED BY <1>1, <1>6, <1>7, <1>8, Zenon DEF DecodePlaces

\* What the loop has after i digits.
Decoded(s, v, i) ==
  /\ s.n = (5 * i) % 8
  /\ Low(s.bits) = Low(Triple(v, i))
  /\ Len(s.out) = (5 * i) \div 8
  /\ \A k \in 1 .. (5 * i) \div 8 : s.out[k] = Octet(v, k)

Digits(seq) == [i \in 1 .. Len(seq) |-> Base32Decode[seq[i]]]

LEMMA DigitsType ==
  ASSUME NEW seq \in Seq(Letters)
  PROVE  /\ Digits(seq) \in Seq(Digit) /\ Len(Digits(seq)) = Len(seq)
         /\ \A i \in 1 .. Len(seq) : Digits(seq)[i] = Base32Decode[seq[i]]
<1>1. \A i \in 1 .. Len(seq) : seq[i] \in Letters OBVIOUS
<1>2. \A i \in 1 .. Len(seq) : Base32Decode[seq[i]] \in Digit BY <1>1, LetterValues
<1>3. Len(seq) \in Nat OBVIOUS
<1> QED BY <1>2, <1>3 DEF Digits

LEMMA DecodedStep ==
  ASSUME NEW seq \in Seq(Letters), NEW v, v = Digits(seq), NEW i \in Nat, i + 1 <= Len(seq),
         NEW s \in DecodeStates, Decoded(s, v, i)
  PROVE  Decoded(DecodeChar(s, seq[i + 1]), v, i + 1)
<1> DEFINE e  == DecodeChar(s, seq[i + 1])
           ch == seq[i + 1]
           d  == Base32Decode[ch]
           n  == s.n + 5
           x  == One(s.bits, d)
           K  == (5 * i) \div 8
           r  == (5 * i) % 8
<1>0. i + 1 \in 1 .. Len(seq) /\ v \in Seq(Digit) /\ Len(v) = Len(seq) BY DigitsType
<1>1. ch \in Letters BY <1>0
<1>2. d \in Nat /\ d = At(v, i + 1) BY <1>0, <1>1, DigitsType, DigitAt, LetterValues
<1>3. e = DecodeChar(s, ch) /\ n = s.n + 5 /\ x = One(s.bits, d) /\ d = Base32Decode[ch] OBVIOUS
<1>4. s.n = r /\ n = r + 5 /\ Len(s.out) = K /\ Low(s.bits) = Low(Triple(v, i))
  BY DEF Decoded
<1>5. \A k \in 1 .. K : s.out[k] = Octet(v, k) BY DEF Decoded
<1>6. s.bits \in Nat BY DEF DecodeStates
<1>7. K = (5 * i) \div 8 /\ r = (5 * i) % 8 OBVIOUS
<1> HIDE DEF e, ch, d, n, K, r, x
<1>8. DecodePlaces(i, K, n) BY <1>4, <1>7, DecodePlacesIs, Zenon
<1>9. CharTaken(s, e, n, x) BY <1>1, <1>3, DecodeCharIs, Zenon
<1>10. Low(x) = Low(Triple(v, i + 1))
  <2> DEFINE o == At(v, i - 2)
             p == At(v, i - 1)
             q == At(v, i)
  <2>1. o \in Nat /\ p \in Nat /\ q \in Nat
    <3>1. i - 2 \in Int /\ i - 1 \in Int /\ i \in Int OBVIOUS
    <3> QED BY <1>0, <3>1, DigitAt, Zenon
  <2>2. Triple(v, i) = One(One(o, p), q) BY DEF Triple
  <2>3. Triple(v, i + 1) = One(One(p, q), d)
    <3>1. (i + 1) - 1 = i /\ (i + 1) - 2 = i - 1 OBVIOUS
    <3> QED BY <1>2, <3>1 DEF Triple
  <2> HIDE DEF o, p, q
  <2>4. Low(One(s.bits, d)) = Low(One(One(p, q), d))
    BY <1>2, <1>4, <1>6, <2>1, <2>2, LowOfThree
  <2> QED BY <1>3, <2>3, <2>4
<1>11. /\ K \in Nat
       /\ K + (n \div 8) = (5 * (i + 1)) \div 8 /\ n % 8 = (5 * (i + 1)) % 8
  BY <1>8 DEF DecodePlaces
<1>12. ASSUME NEW j \in 1 .. n \div 8
       PROVE  Eight(Low(x), n - 8 * j) = Octet(v, K + j)
  <2>1. /\ n - 8 * j \in 0 .. 7 /\ n - 8 * j < 5
        /\ Closes(K + j) = i + 1 /\ 5 * Closes(K + j) - 8 * (K + j) = n - 8 * j
    BY <1>8, Zenon DEF DecodePlaces
  <2> DEFINE k == n - 8 * j
             T == Triple(v, i + 1)
  <2>2. Octet(v, K + j) = Eight(T, k) BY <2>1 DEF Octet
  <2>3. k \in 0 .. 7 /\ k < 5 /\ T \in Nat
    <3>1. i + 1 \in Int OBVIOUS
    <3> QED BY <1>0, <2>1, <3>1, TripleType
  <2>4. Low(x) = Low(T) BY <1>10
  <2> HIDE DEF k, T
  <2>5. Eight(T, k) = Eight(Low(T), k) BY <2>3, LowBits
  <2> QED BY <2>2, <2>4, <2>5 DEF k
<1>13. ASSUME NEW k \in 1 .. (5 * (i + 1)) \div 8
       PROVE  e.out[k] = Octet(v, k)
  <2>1. CASE k <= K
    <3>1. k \in 1 .. K BY <1>11, <2>1
    <3>2. e.out[k] = s.out[k] BY <1>4, <1>9, <3>1 DEF CharTaken
    <3> QED BY <1>5, <3>1, <3>2
  <2>2. CASE k - K \in 1 .. n \div 8 /\ K + (k - K) = k
    <3>1. e.out[K + (k - K)] = Eight(Low(x), n - 8 * (k - K))
      BY <1>4, <1>9, <2>2 DEF CharTaken
    <3>2. Eight(Low(x), n - 8 * (k - K)) = Octet(v, K + (k - K)) BY <1>12, <2>2
    <3> QED BY <2>2, <3>1, <3>2
  <2>3. k <= K \/ (k - K \in 1 .. n \div 8 /\ K + (k - K) = k)
    BY <1>8, Zenon DEF DecodePlaces
  <2> QED BY <2>1, <2>2, <2>3
<1>14. /\ e.n = (5 * (i + 1)) % 8 /\ Len(e.out) = (5 * (i + 1)) \div 8
       /\ Low(e.bits) = Low(Triple(v, i + 1))
  BY <1>4, <1>9, <1>10, <1>11 DEF CharTaken
<1>15. Decoded(e, v, i + 1) BY <1>13, <1>14, Zenon DEF Decoded
<1> QED BY <1>15 DEF e, ch

\* Every byte that is decoded has the eight bits whose turn it is.
LEMMA BytesOfIs ==
  ASSUME NEW text, NEW seq \in Seq(Letters), seq = Cleaned(text)
  PROVE  /\ BytesOf(text) \in Seq(Byte)
         /\ Len(BytesOf(text)) = (5 * Len(seq)) \div 8
         /\ \A k \in 1 .. (5 * Len(seq)) \div 8 : BytesOf(text)[k] = Octet(Digits(seq), k)
<1>1. PICK s \in [0 .. Len(seq) -> DecodeStates] :
        /\ BytesOf(text) = s[Len(seq)].out
        /\ s[0] = EmptyAcc
        /\ \A i \in 1 .. Len(seq) : s[i] = DecodeChar(s[i - 1], seq[i])
  BY BytesOfRuns
<1>2. Len(seq) \in Nat /\ Len(seq) \in 0 .. Len(seq) OBVIOUS
<1> DEFINE v == Digits(seq)
           S == {i \in Nat : i <= Len(seq) => Decoded(s[i], v, i)}
<1> HIDE DEF v
<1>3. 0 \in S
  <2>1. At(v, 0) = 0 /\ At(v, 0 - 1) = 0 /\ At(v, 0 - 2) = 0
    <3>1. Len(v) \in Nat BY DigitsType DEF v
    <3> QED BY <3>1 DEF At
  <2>2. Triple(v, 0) = 0 BY <2>1 DEF Triple, One
  <2>3. s[0].n = 0 /\ s[0].bits = 0 /\ Len(s[0].out) = 0 BY <1>1 DEF EmptyAcc
  <2>4. (5 * 0) % 8 = 0 /\ (5 * 0) \div 8 = 0 OBVIOUS
  <2>5. \A k \in 1 .. (5 * 0) \div 8 : FALSE BY <2>4
  <2>6. Decoded(s[0], v, 0) BY <2>2, <2>3, <2>4, <2>5 DEF Decoded
  <2> QED BY <2>6
<1>4. ASSUME NEW i \in Nat, i \in S PROVE i + 1 \in S
  <2> SUFFICES ASSUME i + 1 <= Len(seq) PROVE Decoded(s[i + 1], v, i + 1) OBVIOUS
  <2>1. s[i] \in DecodeStates /\ Decoded(s[i], v, i) BY <1>2, <1>4
  <2>2. s[i + 1] = DecodeChar(s[i], seq[i + 1])
    <3>1. i + 1 \in 1 .. Len(seq) /\ (i + 1) - 1 = i BY <1>2
    <3> QED BY <1>1, <3>1
  <2> QED BY <2>1, <2>2, DecodedStep DEF v
<1> HIDE DEF S
<1>5. Len(seq) \in S BY <1>2, <1>3, <1>4, NatSetInduction
<1>6. Decoded(s[Len(seq)], v, Len(seq)) /\ s[Len(seq)] \in DecodeStates BY <1>2, <1>5 DEF S
<1> QED BY <1>1, <1>6 DEF Decoded, DecodeStates, v

-----------------------------------------------------------------------------
(* There and back: byte y lies between x and z, in two or three digits.    *)

LEMMA FirstOfFive ==
  ASSUME NEW x \in Byte, NEW y \in Byte, NEW z \in Byte, NEW a \in Nat
  PROVE  Eight(One(One(a, Five(Two(x, y), 3)), Five(Two(y, z), 6)), 2) = y
<1> DEFINE b == Five(Two(x, y), 3)
           c == Five(Two(y, z), 6)
<1>0. x \in 0 .. 255 /\ y \in 0 .. 255 /\ z \in 0 .. 255 BY DEF Byte
<1> DEFINE u == y \div 8
           w == y % 8
           z1 == z \div 64
           z2 == z % 64
<1>1. /\ y = 8 * u + w /\ u \in 0 .. 31 /\ w \in 0 .. 7
      /\ z = 64 * z1 + z2 /\ z1 \in 0 .. 3 /\ z2 \in 0 .. 63
  BY <1>0
<1> HIDE DEF u, w, z1, z2
<1>2. b = u
  <2>1. (256 * x + y) \div 8 = 32 * x + u /\ (32 * x + u) % 32 = u BY <1>0, <1>1
  <2> QED BY <2>1, Powers DEF Five, Two
<1>3. c = 4 * w + z1
  <2>1. (256 * y + z) \div 64 = 4 * y + z1 BY <1>0, <1>1
  <2>2. (4 * y + z1) % 32 = 4 * w + z1 BY <1>0, <1>1
  <2> QED BY <2>1, <2>2, Powers DEF Five, Two
<1>4. (32 * (32 * a + u) + (4 * w + z1)) \div 4 = 256 * a + y BY <1>0, <1>1
<1>5. (256 * a + y) % 256 = y BY <1>0, <1>1
<1> HIDE DEF b, c
<1>6. Eight(One(One(a, b), c), 2) = y BY <1>2, <1>3, <1>4, <1>5, Powers DEF Eight, One
<1> QED BY <1>6 DEF b, c

LEMMA SecondOfFive ==
  ASSUME NEW x \in Byte, NEW y \in Byte, NEW z \in Byte
  PROVE  Eight(One(One(Five(Two(x, y), 6), Five(Two(x, y), 1)), Five(Two(y, z), 4)), 4) = y
<1> DEFINE a == Five(Two(x, y), 6)
           b == Five(Two(x, y), 1)
           c == Five(Two(y, z), 4)
<1>0. x \in 0 .. 255 /\ y \in 0 .. 255 /\ z \in 0 .. 255 BY DEF Byte
<1> DEFINE u == y \div 64
           v == (y % 64) \div 2
           w == y % 2
           x1 == x \div 8
           x2 == x % 8
           z1 == z \div 16
           z2 == z % 16
<1>1. /\ y = 64 * u + 2 * v + w /\ u \in 0 .. 3 /\ v \in 0 .. 31 /\ w \in 0 .. 1
      /\ x = 8 * x1 + x2 /\ x1 \in 0 .. 31 /\ x2 \in 0 .. 7
      /\ z = 16 * z1 + z2 /\ z1 \in 0 .. 15 /\ z2 \in 0 .. 15
  BY <1>0
<1> HIDE DEF u, v, w, x1, x2, z1, z2
<1>2. a = 4 * x2 + u
  <2>1. (256 * x + y) \div 64 = 4 * x + u BY <1>0, <1>1
  <2>2. (4 * x + u) % 32 = 4 * x2 + u BY <1>0, <1>1
  <2> QED BY <2>1, <2>2, Powers DEF Five, Two
<1>3. b = v
  <2>1. (256 * x + y) \div 2 = 128 * x + 32 * u + v BY <1>0, <1>1
  <2>2. (128 * x + 32 * u + v) % 32 = v BY <1>0, <1>1
  <2> QED BY <2>1, <2>2, Powers DEF Five, Two
<1>4. c = 16 * w + z1
  <2>1. (256 * y + z) \div 16 = 16 * y + z1 BY <1>0, <1>1
  <2>2. (16 * y + z1) % 32 = 16 * w + z1 BY <1>0, <1>1
  <2> QED BY <2>1, <2>2, Powers DEF Five, Two
<1>5. (32 * (32 * (4 * x2 + u) + v) + (16 * w + z1)) \div 16 = 256 * x2 + y BY <1>0, <1>1
<1>6. (256 * x2 + y) % 256 = y BY <1>0, <1>1
<1> HIDE DEF a, b, c
<1>7. Eight(One(One(a, b), c), 4) = y BY <1>2, <1>3, <1>4, <1>5, <1>6, Powers DEF Eight, One
<1> QED BY <1>7 DEF a, b, c

LEMMA ThirdOfFive ==
  ASSUME NEW x \in Byte, NEW y \in Byte, NEW z \in Byte, NEW a \in Nat
  PROVE  Eight(One(One(a, Five(Two(x, y), 4)), Five(Two(y, z), 7)), 1) = y
<1> DEFINE b == Five(Two(x, y), 4)
           c == Five(Two(y, z), 7)
<1>0. x \in 0 .. 255 /\ y \in 0 .. 255 /\ z \in 0 .. 255 BY DEF Byte
<1> DEFINE u == y \div 16
           w == y % 16
           x1 == x \div 2
           x2 == x % 2
           z1 == z \div 128
           z2 == z % 128
<1>1. /\ y = 16 * u + w /\ u \in 0 .. 15 /\ w \in 0 .. 15
      /\ x = 2 * x1 + x2 /\ x1 \in 0 .. 127 /\ x2 \in 0 .. 1
      /\ z = 128 * z1 + z2 /\ z1 \in 0 .. 1 /\ z2 \in 0 .. 127
  BY <1>0
<1> HIDE DEF u, w, x1, x2, z1, z2
<1>2. b = 16 * x2 + u
  <2>1. (256 * x + y) \div 16 = 16 * x + u BY <1>0, <1>1
  <2>2. (16 * x + u) % 32 = 16 * x2 + u BY <1>0, <1>1
  <2> QED BY <2>1, <2>2, Powers DEF Five, Two
<1>3. c = 2 * w + z1
  <2>1. (256 * y + z) \div 128 = 2 * y + z1 BY <1>0, <1>1
  <2>2. (2 * y + z1) % 32 = 2 * w + z1 BY <1>0, <1>1
  <2> QED BY <2>1, <2>2, Powers DEF Five, Two
<1>4. (32 * (32 * a + (16 * x2 + u)) + (2 * w + z1)) \div 2 = 256 * (2 * a + x2) + y BY <1>0, <1>1
<1>5. (256 * (2 * a + x2) + y) % 256 = y BY <1>0, <1>1
<1> HIDE DEF b, c
<1>6. Eight(One(One(a, b), c), 1) = y BY <1>2, <1>3, <1>4, <1>5, Powers DEF Eight, One
<1> QED BY <1>6 DEF b, c

LEMMA FourthOfFive ==
  ASSUME NEW x \in Byte, NEW y \in Byte, NEW z \in Byte
  PROVE  Eight(One(One(Five(Two(x, y), 7), Five(Two(x, y), 2)), Five(Two(y, z), 5)), 3) = y
<1> DEFINE a == Five(Two(x, y), 7)
           b == Five(Two(x, y), 2)
           c == Five(Two(y, z), 5)
<1>0. x \in 0 .. 255 /\ y \in 0 .. 255 /\ z \in 0 .. 255 BY DEF Byte
<1> DEFINE u == y \div 128
           v == (y % 128) \div 4
           w == y % 4
           x1 == x \div 16
           x2 == x % 16
           z1 == z \div 32
           z2 == z % 32
<1>1. /\ y = 128 * u + 4 * v + w /\ u \in 0 .. 1 /\ v \in 0 .. 31 /\ w \in 0 .. 3
      /\ x = 16 * x1 + x2 /\ x1 \in 0 .. 15 /\ x2 \in 0 .. 15
      /\ z = 32 * z1 + z2 /\ z1 \in 0 .. 7 /\ z2 \in 0 .. 31
  BY <1>0
<1> HIDE DEF u, v, w, x1, x2, z1, z2
<1>2. a = 2 * x2 + u
  <2>1. (256 * x + y) \div 128 = 2 * x + u BY <1>0, <1>1
  <2>2. (2 * x + u) % 32 = 2 * x2 + u BY <1>0, <1>1
  <2> QED BY <2>1, <2>2, Powers DEF Five, Two
<1>3. b = v
  <2>1. (256 * x + y) \div 4 = 64 * x + 32 * u + v BY <1>0, <1>1
  <2>2. (64 * x + 32 * u + v) % 32 = v BY <1>0, <1>1
  <2> QED BY <2>1, <2>2, Powers DEF Five, Two
<1>4. c = 8 * w + z1
  <2>1. (256 * y + z) \div 32 = 8 * y + z1 BY <1>0, <1>1
  <2>2. (8 * y + z1) % 32 = 8 * w + z1 BY <1>0, <1>1
  <2> QED BY <2>1, <2>2, Powers DEF Five, Two
<1>5. (32 * (32 * (2 * x2 + u) + v) + (8 * w + z1)) \div 8 = 256 * x2 + y BY <1>0, <1>1
<1>6. (256 * x2 + y) % 256 = y BY <1>0, <1>1
<1> HIDE DEF a, b, c
<1>7. Eight(One(One(a, b), c), 3) = y BY <1>2, <1>3, <1>4, <1>5, <1>6, Powers DEF Eight, One
<1> QED BY <1>7 DEF a, b, c

LEMMA FifthOfFive ==
  ASSUME NEW x \in Byte, NEW y \in Byte, NEW a \in Nat
  PROVE  Eight(One(One(a, Five(Two(x, y), 5)), Five(Two(x, y), 0)), 0) = y
<1> DEFINE b == Five(Two(x, y), 5)
           c == Five(Two(x, y), 0)
<1>0. x \in 0 .. 255 /\ y \in 0 .. 255 BY DEF Byte
<1> DEFINE u == y \div 32
           w == y % 32
           x1 == x \div 4
           x2 == x % 4
<1>1. /\ y = 32 * u + w /\ u \in 0 .. 7 /\ w \in 0 .. 31
      /\ x = 4 * x1 + x2 /\ x1 \in 0 .. 63 /\ x2 \in 0 .. 3
  BY <1>0
<1> HIDE DEF u, w, x1, x2
<1>2. b = 8 * x2 + u
  <2>1. (256 * x + y) \div 32 = 8 * x + u BY <1>0, <1>1
  <2>2. (8 * x + u) % 32 = 8 * x2 + u BY <1>0, <1>1
  <2> QED BY <2>1, <2>2, Powers DEF Five, Two
<1>3. c = w
  <2>1. (256 * x + y) \div 1 = 256 * x + 32 * u + w BY <1>0, <1>1
  <2>2. (256 * x + 32 * u + w) % 32 = w BY <1>0, <1>1
  <2> QED BY <2>1, <2>2, Powers DEF Five, Two
<1>4. (32 * (32 * a + (8 * x2 + u)) + w) \div 1 = 256 * (4 * a + x2) + y BY <1>0, <1>1
<1>5. (256 * (4 * a + x2) + y) % 256 = y BY <1>0, <1>1
<1> HIDE DEF b, c
<1>6. Eight(One(One(a, b), c), 0) = y BY <1>2, <1>3, <1>4, <1>5, Powers DEF Eight, One
<1> QED BY <1>6 DEF b, c

\* Which bytes the eight digits of five bytes come from, and where in them they end.
LEMMA DigitPlaces ==
  ASSUME NEW g \in Nat
  PROVE  /\ Ends(8 * g + 1) = 5 * g + 1 /\ 8 * (5 * g + 1) - 5 * (8 * g + 1) = 3
         /\ Ends(8 * g + 2) = 5 * g + 2 /\ 8 * (5 * g + 2) - 5 * (8 * g + 2) = 6
         /\ Ends(8 * g + 3) = 5 * g + 2 /\ 8 * (5 * g + 2) - 5 * (8 * g + 3) = 1
         /\ Ends(8 * g + 4) = 5 * g + 3 /\ 8 * (5 * g + 3) - 5 * (8 * g + 4) = 4
         /\ Ends(8 * g + 5) = 5 * g + 4 /\ 8 * (5 * g + 4) - 5 * (8 * g + 5) = 7
         /\ Ends(8 * g + 6) = 5 * g + 4 /\ 8 * (5 * g + 4) - 5 * (8 * g + 6) = 2
         /\ Ends(8 * g + 7) = 5 * g + 5 /\ 8 * (5 * g + 5) - 5 * (8 * g + 7) = 5
         /\ Ends(8 * g + 8) = 5 * g + 5 /\ 8 * (5 * g + 5) - 5 * (8 * g + 8) = 0
<1>1. \A m \in Nat, k \in 0 .. 7 : (8 * m + k) \div 8 = m OBVIOUS
<1>2. /\ 5 * (8 * g + 1) + 7 = 8 * (5 * g + 1) + 4 /\ 5 * (8 * g + 2) + 7 = 8 * (5 * g + 2) + 1
      /\ 5 * (8 * g + 3) + 7 = 8 * (5 * g + 2) + 6 /\ 5 * (8 * g + 4) + 7 = 8 * (5 * g + 3) + 3
      /\ 5 * (8 * g + 5) + 7 = 8 * (5 * g + 4) + 0 /\ 5 * (8 * g + 6) + 7 = 8 * (5 * g + 4) + 5
      /\ 5 * (8 * g + 7) + 7 = 8 * (5 * g + 5) + 2 /\ 5 * (8 * g + 8) + 7 = 8 * (5 * g + 5) + 7
  OBVIOUS
<1>3. /\ Ends(8 * g + 1) = 5 * g + 1 /\ Ends(8 * g + 2) = 5 * g + 2 /\ Ends(8 * g + 3) = 5 * g + 2
      /\ Ends(8 * g + 4) = 5 * g + 3 /\ Ends(8 * g + 5) = 5 * g + 4 /\ Ends(8 * g + 6) = 5 * g + 4
      /\ Ends(8 * g + 7) = 5 * g + 5 /\ Ends(8 * g + 8) = 5 * g + 5
  BY <1>1, <1>2 DEF Ends
<1> QED BY <1>3

LEMMA BytePlaces ==
  ASSUME NEW g \in Nat
  PROVE  /\ Closes(5 * g + 1) = 8 * g + 2 /\ 5 * (8 * g + 2) - 8 * (5 * g + 1) = 2
         /\ Closes(5 * g + 2) = 8 * g + 4 /\ 5 * (8 * g + 4) - 8 * (5 * g + 2) = 4
         /\ Closes(5 * g + 3) = 8 * g + 5 /\ 5 * (8 * g + 5) - 8 * (5 * g + 3) = 1
         /\ Closes(5 * g + 4) = 8 * g + 7 /\ 5 * (8 * g + 7) - 8 * (5 * g + 4) = 3
         /\ Closes(5 * g + 5) = 8 * g + 8 /\ 5 * (8 * g + 8) - 8 * (5 * g + 5) = 0
<1>1. \A m \in Nat, k \in 0 .. 4 : (5 * m + k) \div 5 = m OBVIOUS
<1>2. /\ 8 * (5 * g + 1) + 4 = 5 * (8 * g + 2) + 2 /\ 8 * (5 * g + 2) + 4 = 5 * (8 * g + 4) + 0
      /\ 8 * (5 * g + 3) + 4 = 5 * (8 * g + 5) + 3 /\ 8 * (5 * g + 4) + 4 = 5 * (8 * g + 7) + 1
      /\ 8 * (5 * g + 5) + 4 = 5 * (8 * g + 8) + 4
  OBVIOUS
<1>3. /\ Closes(5 * g + 1) = 8 * g + 2 /\ Closes(5 * g + 2) = 8 * g + 4
      /\ Closes(5 * g + 3) = 8 * g + 5 /\ Closes(5 * g + 4) = 8 * g + 7
      /\ Closes(5 * g + 5) = 8 * g + 8
  BY <1>1, <1>2 DEF Closes
<1> QED BY <1>3

\* The digits of some bytes, regrouped, are those bytes.
LEMMA BitsBack ==
  ASSUME NEW data \in Seq(Byte), NEW v \in Seq(Digit), NEW L, L = Len(data),
         Len(v) = (8 * L + 4) \div 5,
         \A c \in 1 .. Len(v) : v[c] = Quint(data, c)
  PROVE  /\ (5 * Len(v)) \div 8 = L
         /\ \A k \in 1 .. L : Octet(v, k) = data[k]
<1> DEFINE M == Len(v)
<1>1. L \in Nat /\ M \in Nat OBVIOUS
<1>2. 5 * M \in 8 * L .. 8 * L + 4
  <2>1. 8 * L + 4 \in Nat BY <1>1
  <2> QED BY <1>1, <2>1, DivFive
<1>3. \A c \in 1 .. M : At(v, c) = Quint(data, c) BY DigitAt
<1>4. \A i \in Int : At(v, i) \in Nat BY DigitAt
<1>5. \A i \in Int : At(data, i) \in Byte BY AtType
<1> HIDE DEF M
<1>6. (5 * M) \div 8 = L BY <1>1, <1>2
<1>7. ASSUME NEW g \in Nat, 5 * g + 1 <= L PROVE Octet(v, 5 * g + 1) = At(data, 5 * g + 1)
  <2> DEFINE x == At(data, 5 * g + 0)
             y == At(data, 5 * g + 1)
             z == At(data, 5 * g + 2)
             a == At(v, 8 * g + 0)
  <2>1. 8 * g + 1 \in 1 .. M /\ 8 * g + 2 \in 1 .. M BY <1>1, <1>2, <1>7
  <2>2. /\ At(v, 8 * g + 1) = Quint(data, 8 * g + 1)
        /\ At(v, 8 * g + 2) = Quint(data, 8 * g + 2)
    BY <1>3, <2>1
  <2>3. /\ Pair(data, 5 * g + 1) = Two(x, y)
        /\ Pair(data, 5 * g + 2) = Two(y, z)
    <3>1. (5 * g + 1) - 1 = 5 * g + 0 /\ (5 * g + 2) - 1 = 5 * g + 1 OBVIOUS
    <3> QED BY <3>1 DEF Pair
  <2>4. /\ At(v, 8 * g + 1) = Five(Two(x, y), 3)
        /\ At(v, 8 * g + 2) = Five(Two(y, z), 6)
    BY <2>2, <2>3, DigitPlaces DEF Quint
  <2>5. Triple(v, 8 * g + 2) = One(One(At(v, 8 * g + 0), At(v, 8 * g + 1)), At(v, 8 * g + 2))
    <3>1. (8 * g + 2) - 1 = 8 * g + 1 /\ (8 * g + 2) - 2 = 8 * g + 0 OBVIOUS
    <3> QED BY <3>1 DEF Triple
  <2>6. Octet(v, 5 * g + 1) = Eight(Triple(v, 8 * g + 2), 2) BY BytePlaces DEF Octet
  <2>7. x \in Byte /\ y \in Byte /\ z \in Byte /\ a \in Nat
    <3>1. 5 * g + 0 \in Int /\ 5 * g + 1 \in Int /\ 5 * g + 2 \in Int /\ 8 * g + 0 \in Int OBVIOUS
    <3> QED BY <1>4, <1>5, <3>1, Zenon
  <2>8. Octet(v, 5 * g + 1) = Eight(One(One(a, Five(Two(x, y), 3)), Five(Two(y, z), 6)), 2)
    BY <2>4, <2>5, <2>6
  <2> HIDE DEF x, y, z, a
  <2>9. Octet(v, 5 * g + 1) = y BY <2>7, <2>8, FirstOfFive
  <2> QED BY <2>9 DEF y
<1>8. ASSUME NEW g \in Nat, 5 * g + 2 <= L PROVE Octet(v, 5 * g + 2) = At(data, 5 * g + 2)
  <2> DEFINE x == At(data, 5 * g + 1)
             y == At(data, 5 * g + 2)
             z == At(data, 5 * g + 3)
  <2>1. 8 * g + 2 \in 1 .. M /\ 8 * g + 3 \in 1 .. M /\ 8 * g + 4 \in 1 .. M BY <1>1, <1>2, <1>8
  <2>2. /\ At(v, 8 * g + 2) = Quint(data, 8 * g + 2)
        /\ At(v, 8 * g + 3) = Quint(data, 8 * g + 3)
        /\ At(v, 8 * g + 4) = Quint(data, 8 * g + 4)
    BY <1>3, <2>1
  <2>3. /\ Pair(data, 5 * g + 2) = Two(x, y)
        /\ Pair(data, 5 * g + 3) = Two(y, z)
    <3>1. (5 * g + 2) - 1 = 5 * g + 1 /\ (5 * g + 3) - 1 = 5 * g + 2 OBVIOUS
    <3> QED BY <3>1 DEF Pair
  <2>4. /\ At(v, 8 * g + 2) = Five(Two(x, y), 6)
        /\ At(v, 8 * g + 3) = Five(Two(x, y), 1)
        /\ At(v, 8 * g + 4) = Five(Two(y, z), 4)
    BY <2>2, <2>3, DigitPlaces DEF Quint
  <2>5. Triple(v, 8 * g + 4) = One(One(At(v, 8 * g + 2), At(v, 8 * g + 3)), At(v, 8 * g + 4))
    <3>1. (8 * g + 4) - 1 = 8 * g + 3 /\ (8 * g + 4) - 2 = 8 * g + 2 OBVIOUS
    <3> QED BY <3>1 DEF Triple
  <2>6. Octet(v, 5 * g + 2) = Eight(Triple(v, 8 * g + 4), 4) BY BytePlaces DEF Octet
  <2>7. x \in Byte /\ y \in Byte /\ z \in Byte
    <3>1. 5 * g + 1 \in Int /\ 5 * g + 2 \in Int /\ 5 * g + 3 \in Int OBVIOUS
    <3> QED BY <1>4, <1>5, <3>1, Zenon
  <2>8. Octet(v, 5 * g + 2) = Eight(One(One(Five(Two(x, y), 6), Five(Two(x, y), 1)), Five(Two(y, z), 4)), 4)
    BY <2>4, <2>5, <2>6
  <2> HIDE DEF x, y, z
  <2>9. Octet(v, 5 * g + 2) = y BY <2>7, <2>8, SecondOfFive
  <2> QED BY <2>9 DEF y
<1>9. ASSUME NEW g \in Nat, 5 * g + 3 <= L PROVE Octet(v, 5 * g + 3) = At(data, 5 * g + 3)
  <2> DEFINE x == At(data, 5 * g + 2)
             y == At(data, 5 * g + 3)
             z == At(data, 5 * g + 4)
             a == At(v, 8 * g + 3)
  <2>1. 8 * g + 4 \in 1 .. M /\ 8 * g + 5 \in 1 .. M BY <1>1, <1>2, <1>9
  <2>2. /\ At(v, 8 * g + 4) = Quint(data, 8 * g + 4)
        /\ At(v, 8 * g + 5) = Quint(data, 8 * g + 5)
    BY <1>3, <2>1
  <2>3. /\ Pair(data, 5 * g + 3) = Two(x, y)
        /\ Pair(data, 5 * g + 4) = Two(y, z)
    <3>1. (5 * g + 3) - 1 = 5 * g + 2 /\ (5 * g + 4) - 1 = 5 * g + 3 OBVIOUS
    <3> QED BY <3>1 DEF Pair
  <2>4. /\ At(v, 8 * g + 4) = Five(Two(x, y), 4)
        /\ At(v, 8 * g + 5) = Five(Two(y, z), 7)
    BY <2>2, <2>3, DigitPlaces DEF Quint
  <2>5. Triple(v, 8 * g + 5) = One(One(At(v, 8 * g + 3), At(v, 8 * g + 4)), At(v, 8 * g + 5))
    <3>1. (8 * g + 5) - 1 = 8 * g + 4 /\ (8 * g + 5) - 2 = 8 * g + 3 OBVIOUS
    <3> QED BY <3>1 DEF Triple
  <2>6. Octet(v, 5 * g + 3) = Eight(Triple(v, 8 * g + 5), 1) BY BytePlaces DEF Octet
  <2>7. x \in Byte /\ y \in Byte /\ z \in Byte /\ a \in Nat
    <3>1. 5 * g + 2 \in Int /\ 5 * g + 3 \in Int /\ 5 * g + 4 \in Int /\ 8 * g + 3 \in Int OBVIOUS
    <3> QED BY <1>4, <1>5, <3>1, Zenon
  <2>8. Octet(v, 5 * g + 3) = Eight(One(One(a, Five(Two(x, y), 4)), Five(Two(y, z), 7)), 1)
    BY <2>4, <2>5, <2>6
  <2> HIDE DEF x, y, z, a
  <2>9. Octet(v, 5 * g + 3) = y BY <2>7, <2>8, ThirdOfFive
  <2> QED BY <2>9 DEF y
<1>10. ASSUME NEW g \in Nat, 5 * g + 4 <= L PROVE Octet(v, 5 * g + 4) = At(data, 5 * g + 4)
  <2> DEFINE x == At(data, 5 * g + 3)
             y == At(data, 5 * g + 4)
             z == At(data, 5 * g + 5)
  <2>1. 8 * g + 5 \in 1 .. M /\ 8 * g + 6 \in 1 .. M /\ 8 * g + 7 \in 1 .. M BY <1>1, <1>2, <1>10
  <2>2. /\ At(v, 8 * g + 5) = Quint(data, 8 * g + 5)
        /\ At(v, 8 * g + 6) = Quint(data, 8 * g + 6)
        /\ At(v, 8 * g + 7) = Quint(data, 8 * g + 7)
    BY <1>3, <2>1
  <2>3. /\ Pair(data, 5 * g + 4) = Two(x, y)
        /\ Pair(data, 5 * g + 5) = Two(y, z)
    <3>1. (5 * g + 4) - 1 = 5 * g + 3 /\ (5 * g + 5) - 1 = 5 * g + 4 OBVIOUS
    <3> QED BY <3>1 DEF Pair
  <2>4. /\ At(v, 8 * g + 5) = Five(Two(x, y), 7)
        /\ At(v, 8 * g + 6) = Five(Two(x, y), 2)
        /\ At(v, 8 * g + 7) = Five(Two(y, z), 5)
    BY <2>2, <2>3, DigitPlaces DEF Quint
  <2>5. Triple(v, 8 * g + 7) = One(One(At(v, 8 * g + 5), At(v, 8 * g + 6)), At(v, 8 * g + 7))
    <3>1. (8 * g + 7) - 1 = 8 * g + 6 /\ (8 * g + 7) - 2 = 8 * g + 5 OBVIOUS
    <3> QED BY <3>1 DEF Triple
  <2>6. Octet(v, 5 * g + 4) = Eight(Triple(v, 8 * g + 7), 3) BY BytePlaces DEF Octet
  <2>7. x \in Byte /\ y \in Byte /\ z \in Byte
    <3>1. 5 * g + 3 \in Int /\ 5 * g + 4 \in Int /\ 5 * g + 5 \in Int OBVIOUS
    <3> QED BY <1>4, <1>5, <3>1, Zenon
  <2>8. Octet(v, 5 * g + 4) = Eight(One(One(Five(Two(x, y), 7), Five(Two(x, y), 2)), Five(Two(y, z), 5)), 3)
    BY <2>4, <2>5, <2>6
  <2> HIDE DEF x, y, z
  <2>9. Octet(v, 5 * g + 4) = y BY <2>7, <2>8, FourthOfFive
  <2> QED BY <2>9 DEF y
<1>11. ASSUME NEW g \in Nat, 5 * g + 5 <= L PROVE Octet(v, 5 * g + 5) = At(data, 5 * g + 5)
  <2> DEFINE x == At(data, 5 * g + 4)
             y == At(data, 5 * g + 5)
             a == At(v, 8 * g + 6)
  <2>1. 8 * g + 7 \in 1 .. M /\ 8 * g + 8 \in 1 .. M BY <1>1, <1>2, <1>11
  <2>2. /\ At(v, 8 * g + 7) = Quint(data, 8 * g + 7)
        /\ At(v, 8 * g + 8) = Quint(data, 8 * g + 8)
    BY <1>3, <2>1
  <2>3. /\ Pair(data, 5 * g + 5) = Two(x, y)
    <3>1. (5 * g + 5) - 1 = 5 * g + 4 OBVIOUS
    <3> QED BY <3>1 DEF Pair
  <2>4. /\ At(v, 8 * g + 7) = Five(Two(x, y), 5)
        /\ At(v, 8 * g + 8) = Five(Two(x, y), 0)
    BY <2>2, <2>3, DigitPlaces DEF Quint
  <2>5. Triple(v, 8 * g + 8) = One(One(At(v, 8 * g + 6), At(v, 8 * g + 7)), At(v, 8 * g + 8))
    <3>1. (8 * g + 8) - 1 = 8 * g + 7 /\ (8 * g + 8) - 2 = 8 * g + 6 OBVIOUS
    <3> QED BY <3>1 DEF Triple
  <2>6. Octet(v, 5 * g + 5) = Eight(Triple(v, 8 * g + 8), 0) BY BytePlaces DEF Octet
  <2>7. x \in Byte /\ y \in Byte /\ a \in Nat
    <3>1. 5 * g + 4 \in Int /\ 5 * g + 5 \in Int /\ 8 * g + 6 \in Int OBVIOUS
    <3> QED BY <1>4, <1>5, <3>1, Zenon
  <2>8. Octet(v, 5 * g + 5) = Eight(One(One(a, Five(Two(x, y), 5)), Five(Two(x, y), 0)), 0)
    BY <2>4, <2>5, <2>6
  <2> HIDE DEF x, y, a
  <2>9. Octet(v, 5 * g + 5) = y BY <2>7, <2>8, FifthOfFive
  <2> QED BY <2>9 DEF y
<1>12. ASSUME NEW k \in 1 .. L PROVE Octet(v, k) = data[k]
  <2> DEFINE g == (k - 1) \div 5
  <2>1. g \in Nat /\ k \in {5 * g + 1, 5 * g + 2, 5 * g + 3, 5 * g + 4, 5 * g + 5} BY <1>1
  <2> HIDE DEF g
  <2>2. CASE k = 5 * g + 1 BY <1>1, <1>7, <2>1, <2>2, AtType
  <2>3. CASE k = 5 * g + 2 BY <1>1, <1>8, <2>1, <2>3, AtType
  <2>4. CASE k = 5 * g + 3 BY <1>1, <1>9, <2>1, <2>4, AtType
  <2>5. CASE k = 5 * g + 4 BY <1>1, <1>10, <2>1, <2>5, AtType
  <2>6. CASE k = 5 * g + 5 BY <1>1, <1>11, <2>1, <2>6, AtType
  <2> QED BY <2>1, <2>2, <2>3, <2>4, <2>5, <2>6
<1> QED BY <1>6, <1>12 DEF M

-----------------------------------------------------------------------------
(* The text: letters and dashes.                                           *)

Chars == Letters \cup {"-"}

LEMMA NoDash == "-" \notin Letters
<1>1. "-" \notin ToSet(Base32Chars) /\ "-" \notin ToSet(Base32Small)
  <2>1. /\ DOMAIN Base32Chars = 1 .. 32 /\ DOMAIN Base32Small = 1 .. 32
        /\ \A i \in 1 .. 32 : Base32Chars[i] # "-" /\ Base32Small[i] # "-"
    BY DEF Base32Chars, Base32Small
  <2> QED BY <2>1 DEF ToSet
<1>2. "-" \notin DOMAIN Base32Aliases BY DEF Base32Aliases
<1> QED BY <1>1, <1>2, LettersAre

\* The capital and the small letter of a digit have its value.
LEMMA LetterBack ==
  ASSUME NEW d \in Digit
  PROVE  /\ Base32Chars[d + 1] \in Letters /\ Base32Decode[Base32Chars[d + 1]] = d
         /\ Base32Small[d + 1] \in Letters /\ Base32Decode[Base32Small[d + 1]] = d
<1>0. d \in 0 .. 31 BY DEF Digit
<1>1. \A e \in 0 .. 31 :
        /\ Base32Chars[d + 1] \in {Base32Chars[e + 1], Base32Small[e + 1]} => e = d
        /\ Base32Small[d + 1] \in {Base32Chars[e + 1], Base32Small[e + 1]} => e = d
  BY <1>0 DEF Base32Chars, Base32Small
<1>2. Base32Chars[d + 1] \notin DOMAIN Base32Aliases /\ Base32Small[d + 1] \notin DOMAIN Base32Aliases
  BY <1>0 DEF Base32Chars, Base32Small, Base32Aliases
<1>3. Base32Chars[d + 1] \in Letters /\ Base32Small[d + 1] \in Letters
  <2>1. DOMAIN Base32Chars = 1 .. 32 /\ DOMAIN Base32Small = 1 .. 32
    BY DEF Base32Chars, Base32Small
  <2>2. d + 1 \in 1 .. 32 BY <1>0
  <2> QED BY <2>1, <2>2, LettersAre DEF ToSet
<1>4. ASSUME NEW ch \in {Base32Chars[d + 1], Base32Small[d + 1]} PROVE Base32Decode[ch] = d
  <2>1. Base32Decode[ch] = CHOOSE v \in 0 .. 31 : ch \in {Base32Chars[v + 1], Base32Small[v + 1]}
    BY <1>2, <1>3, LettersAre DEF Base32Decode
  <2>2. \A e \in 0 .. 31 : ch \in {Base32Chars[e + 1], Base32Small[e + 1]} => e = d BY <1>1
  <2>3. \E e \in 0 .. 31 : ch \in {Base32Chars[e + 1], Base32Small[e + 1]} BY <1>0
  <2> QED BY <2>1, <2>2, <2>3
<1> QED BY <1>3, <1>4

\* O and l are read as 0 and 1.
LEMMA AliasValues ==
  /\ "O" \in Letters /\ Base32Decode["O"] = 0 /\ "0" \in Letters /\ Base32Decode["0"] = 0
  /\ "l" \in Letters /\ Base32Decode["l"] = 1 /\ "1" \in Letters /\ Base32Decode["1"] = 1
<1>1. "O" \in DOMAIN Base32Aliases /\ "l" \in DOMAIN Base32Aliases
      /\ Base32Aliases["O"] = 0 /\ Base32Aliases["l"] = 1
  BY DEF Base32Aliases
<1>2. Base32Decode["O"] = 0 /\ Base32Decode["l"] = 1 /\ "O" \in Letters /\ "l" \in Letters
  BY <1>1, LettersAre DEF Base32Decode
<1>3. Base32Chars[0 + 1] = "0" /\ Base32Chars[1 + 1] = "1" /\ 0 \in Digit /\ 1 \in Digit
  BY DEF Base32Chars, Digit
<1> QED BY <1>2, <1>3, LetterBack

\* The loop of Cleaned, and what is left of a text.
LEMMA CleanedRuns ==
  ASSUME NEW T, NEW text \in Seq(T)
  PROVE  \E s \in [0 .. Len(text) -> Seq(T \ {"-"})] :
           /\ Cleaned(text) = s[Len(text)]
           /\ s[0] = <<>>
           /\ \A i \in 1 .. Len(text) :
                s[i] = IF text[i] = "-" THEN s[i - 1] ELSE Append(s[i - 1], text[i])
<1> DEFINE R == Seq(T \ {"-"})
           step(x, ch) == IF ch = "-" THEN x ELSE Append(x, ch)
           Unfolds(s) ==
             s = [i \in 0 .. Len(text) |-> IF i = 0 THEN <<>> ELSE step(s[i - 1], text[i])]
           F == [i \in 1 .. Len(text) |-> [x \in R |-> step(x, text[i])]]
<1>1. <<>> \in R /\ Len(text) \in Nat OBVIOUS
<1>2. \A i \in 1 .. Len(text), x \in R : step(x, text[i]) \in R
  <2> SUFFICES ASSUME NEW i \in 1 .. Len(text), NEW x \in R PROVE step(x, text[i]) \in R OBVIOUS
  <2>1. CASE text[i] = "-" BY <2>1
  <2>2. CASE text[i] # "-"
    <3>1. text[i] \in T \ {"-"} BY <2>2
    <3> QED BY <2>2, <3>1
  <2> QED BY <2>1, <2>2
<1>3. PICK g \in [0 .. Len(text) -> R] : Runs(g, <<>>, F, Len(text))
  <2>1. F \in [1 .. Len(text) -> [R -> R]] BY <1>2
  <2> HIDE DEF F, R
  <2> QED BY <1>1, <2>1, LoopRuns
<1>4. Unfolds(g)
  <2>1. g[0] = <<>> BY <1>3 DEF Runs
  <2>2. ASSUME NEW i \in 1 .. Len(text) PROVE g[i] = step(g[i - 1], text[i])
    <3>1. g[i - 1] \in R BY <1>1
    <3>2. \A x \in R : F[i][x] = step(x, text[i]) OBVIOUS
    <3> HIDE DEF F, R
    <3>3. g[i] = F[i][g[i - 1]] BY <1>3 DEF Runs
    <3> QED BY <3>1, <3>2, <3>3
  <2> HIDE DEF R, F, step
  <2> QED BY <1>1, <2>1, <2>2
<1> DEFINE s == CHOOSE f : Unfolds(f)
<1>5. Unfolds(s) BY <1>4
<1>6. Cleaned(text) = s[Len(text)] BY DEF Cleaned
<1> HIDE DEF s, R, F, step
<1>7. s[0] = <<>> /\ \A i \in 1 .. Len(text) : s[i] = step(s[i - 1], text[i])
  BY <1>1, <1>5
<1>8. \A i \in 0 .. Len(text) : s[i] \in R
  <2> DEFINE S == {i \in Nat : i <= Len(text) => s[i] \in R}
  <2>1. 0 \in S BY <1>1, <1>7
  <2>2. ASSUME NEW i \in Nat, i \in S PROVE i + 1 \in S
    BY <1>2, <1>7, <2>2
  <2> HIDE DEF S
  <2>3. Nat \subseteq S BY <2>1, <2>2, NatSetInduction
  <2> QED BY <2>3 DEF S
<1>9. s \in [0 .. Len(text) -> R] BY <1>5, <1>8
<1> QED BY <1>6, <1>7, <1>9 DEF R, step

\* A text spells the digits v if its letters have their values, dashes anywhere:
\* f counts the letters up to each place.
Spells(text, v, f) ==
  /\ f \in [0 .. Len(text) -> 0 .. Len(v)] /\ f[0] = 0 /\ f[Len(text)] = Len(v)
  /\ \A i \in 1 .. Len(text) :
       IF text[i] = "-" THEN f[i] = f[i - 1]
       ELSE f[i] = f[i - 1] + 1 /\ Base32Decode[text[i]] = v[f[i]]

LEMMA SpellsIs ==
  ASSUME NEW text \in Seq(Chars), NEW v \in Seq(Digit), NEW f, Spells(text, v, f)
  PROVE  Cleaned(text) \in Seq(Letters) /\ Digits(Cleaned(text)) = v
<1>1. Chars \ {"-"} = Letters BY NoDash DEF Chars
<1>2. PICK s \in [0 .. Len(text) -> Seq(Letters)] :
        /\ Cleaned(text) = s[Len(text)]
        /\ s[0] = <<>>
        /\ \A i \in 1 .. Len(text) :
             s[i] = IF text[i] = "-" THEN s[i - 1] ELSE Append(s[i - 1], text[i])
  BY <1>1, CleanedRuns
<1>3. Len(text) \in Nat /\ Len(v) \in Nat OBVIOUS
<1> DEFINE Right(i) == Len(s[i]) = f[i] /\ \A c \in 1 .. f[i] : Base32Decode[s[i][c]] = v[c]
           S == {i \in Nat : i <= Len(text) => Right(i)}
<1>4. 0 \in S
  <2>1. Len(s[0]) = 0 /\ f[0] = 0 BY <1>2 DEF Spells
  <2> QED BY <2>1
<1>5. ASSUME NEW i \in Nat, i \in S PROVE i + 1 \in S
  <2> SUFFICES ASSUME i + 1 <= Len(text) PROVE Right(i + 1) OBVIOUS
  <2>1. i + 1 \in 1 .. Len(text) /\ (i + 1) - 1 = i /\ i \in 0 .. Len(text) BY <1>3
  <2>2. Right(i) BY <1>5, <2>1
  <2>3. s[i + 1] = IF text[i + 1] = "-" THEN s[i] ELSE Append(s[i], text[i + 1])
    BY <1>2, <2>1
  <2>4. s[i] \in Seq(Letters) /\ f[i] \in Nat
    <3> HIDE DEF Right, S
    <3>1. s[i] \in Seq(Letters) BY <2>1
    <3>2. f \in [0 .. Len(text) -> 0 .. Len(v)] BY DEF Spells
    <3>3. f[i] \in 0 .. Len(v) BY <2>1, <3>2
    <3> QED BY <1>3, <3>1, <3>3
  <2>5. CASE text[i + 1] = "-"
    <3>1. f[i + 1] = f[i] BY <2>1, <2>5 DEF Spells
    <3> QED BY <2>2, <2>3, <2>5, <3>1
  <2>6. CASE text[i + 1] # "-"
    <3>1. f[i + 1] = f[i] + 1 /\ Base32Decode[text[i + 1]] = v[f[i + 1]]
      BY <2>1, <2>6 DEF Spells
    <3>2. text[i + 1] \in Letters BY <1>1, <2>1, <2>6
    <3>3. s[i + 1] = Append(s[i], text[i + 1]) BY <2>3, <2>6
    <3>4. /\ Len(s[i + 1]) = f[i] + 1 /\ s[i + 1][f[i] + 1] = text[i + 1]
          /\ \A c \in 1 .. f[i] : s[i + 1][c] = s[i][c]
      BY <2>2, <2>4, <3>2, <3>3
    <3>5. \A c \in 1 .. f[i] + 1 : c \in 1 .. f[i] \/ c = f[i] + 1 BY <2>4
    <3> QED BY <2>2, <3>1, <3>4, <3>5
  <2> QED BY <2>5, <2>6
<1> HIDE DEF S
<1>6. Len(text) \in S BY <1>3, <1>4, <1>5, NatSetInduction
<1> DEFINE seq == s[Len(text)]
<1>7. Len(seq) = Len(v) /\ \A c \in 1 .. Len(v) : Base32Decode[seq[c]] = v[c]
  <2>1. Right(Len(text)) BY <1>6 DEF S
  <2> QED BY <2>1 DEF Spells
<1>8. seq \in Seq(Letters) BY <1>3
<1> HIDE DEF seq
<1>9. Digits(seq) \in Seq(Digit) /\ Len(Digits(seq)) = Len(v)
      /\ \A c \in 1 .. Len(v) : Digits(seq)[c] = v[c]
  BY <1>7, <1>8, DigitsType
<1>10. Digits(seq) = v BY <1>9, SeqEqual
<1> QED BY <1>2, <1>8, <1>10 DEF seq

\* Letters may be replaced by others of the same value.
LEMMA SpellsToo ==
  ASSUME NEW text \in Seq(Chars), NEW v \in Seq(Digit), NEW f, Spells(text, v, f),
         NEW t \in Seq(Chars), Len(t) = Len(text),
         \A i \in 1 .. Len(text) :
           IF text[i] = "-" THEN t[i] = "-"
           ELSE t[i] # "-" /\ Base32Decode[t[i]] = Base32Decode[text[i]]
  PROVE  Spells(t, v, f)
BY DEF Spells

\* A dash before the text is nothing.
LEMMA SpellsAfterDash ==
  ASSUME NEW text \in Seq(Chars), NEW v \in Seq(Digit), NEW f, Spells(text, v, f)
  PROVE  /\ <<"-">> \o text \in Seq(Chars)
         /\ \E g : Spells(<<"-">> \o text, v, g)
<1> DEFINE t == <<"-">> \o text
           g == [i \in 0 .. Len(text) + 1 |-> IF i = 0 THEN 0 ELSE f[i - 1]]
<1>1. Len(text) \in Nat /\ Len(v) \in Nat OBVIOUS
<1>2. <<"-">> \in Seq(Chars) BY DEF Chars
<1>3. t \in Seq(Chars) /\ Len(t) = Len(text) + 1 /\ t[1] = "-"
      /\ \A i \in 2 .. Len(text) + 1 : t[i] = text[i - 1]
  BY <1>2
<1> HIDE DEF t
<1>4. f \in [0 .. Len(text) -> 0 .. Len(v)] /\ f[0] = 0 /\ f[Len(text)] = Len(v) BY DEF Spells
<1>5. g \in [0 .. Len(text) + 1 -> 0 .. Len(v)] BY <1>1, <1>4
<1>6. g[0] = 0 /\ g[Len(text) + 1] = Len(v) /\ g[1] = 0 BY <1>1, <1>4
<1>7. ASSUME NEW i \in 1 .. Len(t)
      PROVE  IF t[i] = "-" THEN g[i] = g[i - 1]
             ELSE g[i] = g[i - 1] + 1 /\ Base32Decode[t[i]] = v[g[i]]
  <2>1. CASE i = 1 BY <1>3, <1>6, <2>1
  <2>2. CASE i # 1
    <3>1. i - 1 \in 1 .. Len(text) /\ i \in 2 .. Len(text) + 1 BY <1>1, <1>3, <2>2
    <3>2. g[i] = f[i - 1] /\ g[i - 1] = f[(i - 1) - 1] /\ t[i] = text[i - 1]
      BY <1>1, <1>3, <3>1
    <3>3. IF text[i - 1] = "-" THEN f[i - 1] = f[(i - 1) - 1]
          ELSE f[i - 1] = f[(i - 1) - 1] + 1 /\ Base32Decode[text[i - 1]] = v[f[i - 1]]
      BY <3>1 DEF Spells
    <3> HIDE DEF g
    <3> QED BY <3>2, <3>3
  <2> QED BY <2>1, <2>2
<1> HIDE DEF g
<1>8. Spells(t, v, g) BY <1>3, <1>5, <1>6, <1>7 DEF Spells
<1> QED BY <1>3, <1>8 DEF t

\* Without its dashes a text spells the same.
LEMMA SpellsCleaned ==
  ASSUME NEW text \in Seq(Chars), NEW v \in Seq(Digit), NEW f, Spells(text, v, f)
  PROVE  /\ Cleaned(text) \in Seq(Chars)
         /\ \E g : Spells(Cleaned(text), v, g)
<1> DEFINE t == Cleaned(text)
           g == [i \in 0 .. Len(t) |-> i]
<1>1. t \in Seq(Letters) /\ Digits(t) = v BY SpellsIs
<1> HIDE DEF t
<1>2. Len(t) = Len(v) /\ \A i \in 1 .. Len(t) : Base32Decode[t[i]] = v[i] BY <1>1, DigitsType
<1>3. \A i \in 1 .. Len(t) : t[i] # "-" BY <1>1, NoDash
<1>4. Spells(t, v, g) BY <1>1, <1>2, <1>3 DEF Spells
<1>5. t \in Seq(Chars) BY <1>1 DEF Chars
<1> QED BY <1>4, <1>5 DEF t

Quints(data) == [c \in 1 .. (8 * Len(data) + 4) \div 5 |-> Quint(data, c)]

LEMMA QuintsType ==
  ASSUME NEW data \in Seq(Byte)
  PROVE  /\ Quints(data) \in Seq(Digit) /\ Len(Quints(data)) = (8 * Len(data) + 4) \div 5
         /\ \A c \in 1 .. Len(Quints(data)) : Quints(data)[c] = Quint(data, c)
<1> DEFINE n == (8 * Len(data) + 4) \div 5
<1>1. n \in Nat
  <2>1. 8 * Len(data) + 4 \in Nat OBVIOUS
  <2> QED BY <2>1, DivFive
<1> HIDE DEF n
<1>2. \A c \in 1 .. n : Quint(data, c) \in Digit
  <2>1. \A c \in 1 .. n : c \in Nat \ {0} BY <1>1
  <2> QED BY <2>1, QuintType DEF Digit
<1>3. [c \in 1 .. n |-> Quint(data, c)] \in [1 .. n -> Digit] BY <1>2
<1>4. Quints(data) = [c \in 1 .. n |-> Quint(data, c)] BY DEF Quints, n
<1> QED BY <1>1, <1>3, <1>4 DEF n

\* With its dashes the encoding spells the same digits.
LEMMA FormatSpells ==
  ASSUME NEW v \in Seq(Digit), Len(v) > 0, NEW raw \in Seq(Base32), Len(raw) = Len(v),
         \A c \in 1 .. Len(v) : raw[c] = Base32Chars[v[c] + 1]
  PROVE  /\ FormatPairingCode(raw) \in Seq(Chars)
         /\ \E f : Spells(FormatPairingCode(raw), v, f)
<1> DEFINE n == Len(v)
           q == (n - 1) \div 5
           r == (n - 1) % 5
           N == n + q
           text == FormatPairingCode(raw)
           f == [i \in 0 .. N |-> i - (i \div 6)]
<1>1. n \in Nat /\ n > 0 OBVIOUS
<1> HIDE DEF n
<1>2. q \in Nat /\ r \in 0 .. 4 /\ n = 5 * q + r + 1 BY <1>1
<1> HIDE DEF q, r
<1>3. N \in Nat /\ N = 6 * q + r + 1 BY <1>1, <1>2
<1>4. text = [i \in 1 .. N |-> IF (i % 6) = 0 THEN "-" ELSE raw[i - (i \div 6)]]
  BY DEF FormatPairingCode, GroupSize, n, q
<1> HIDE DEF text, N
<1>5. \A i \in 0 .. N : i - (i \div 6) \in 0 .. n
  <2> TAKE i \in 0 .. N
  <2> DEFINE a == i \div 6
             b == i % 6
  <2>1. a \in Nat /\ b \in 0 .. 5 /\ i = 6 * a + b BY <1>3
  <2> HIDE DEF a, b
  <2>2. i - a \in 0 .. n BY <1>1, <1>2, <1>3, <2>1
  <2> QED BY <2>2 DEF a
<1>6. f \in [0 .. N -> 0 .. n] BY <1>5
<1>7. f[0] = 0 /\ f[N] = n
  <2>1. 0 \div 6 = 0 /\ N \div 6 = q BY <1>2, <1>3
  <2> QED BY <1>1, <1>2, <1>3, <2>1
<1>8. ASSUME NEW i \in 1 .. N, (i % 6) = 0 PROVE f[i] = f[i - 1]
  <2>1. (i - 1) \div 6 = (i \div 6) - 1 BY <1>3, <1>8
  <2>2. i \in 0 .. N /\ i - 1 \in 0 .. N BY <1>3
  <2> QED BY <1>3, <2>1, <2>2
<1>9. ASSUME NEW i \in 1 .. N, (i % 6) # 0
      PROVE  f[i] = f[i - 1] + 1 /\ f[i] \in 1 .. n /\ f[i] = i - (i \div 6)
  <2>1. (i - 1) \div 6 = i \div 6 BY <1>3, <1>9
  <2>2. i \in 0 .. N /\ i - 1 \in 0 .. N BY <1>3
  <2>3. f[i] = i - (i \div 6) /\ f[i - 1] = (i - 1) - (i \div 6) BY <2>1, <2>2
  <2>4. f[i] \in 0 .. n /\ f[i - 1] \in 0 .. n BY <1>6, <2>2
  <2> DEFINE d == i \div 6
  <2>5. d \in Int /\ i \in Int /\ f[i] = i - d /\ f[i - 1] = (i - 1) - d BY <1>3, <2>3
  <2> HIDE DEF d, f
  <2>6. f[i] = f[i - 1] + 1 BY <2>5
  <2> QED BY <1>1, <2>3, <2>4, <2>6
<1> HIDE DEF f
<1>10. ASSUME NEW c \in 1 .. n
       PROVE  raw[c] \in Letters /\ raw[c] # "-" /\ Base32Decode[raw[c]] = v[c]
  <2>1. v[c] \in Digit /\ raw[c] = Base32Chars[v[c] + 1] BY DEF n
  <2> QED BY <2>1, LetterBack, NoDash
<1>11. \A i \in 1 .. N : IF (i % 6) = 0 THEN text[i] = "-" ELSE text[i] = raw[f[i]]
  BY <1>4, <1>9
<1>12. \A i \in 1 .. N : text[i] \in Chars BY <1>9, <1>10, <1>11 DEF Chars
<1>13. text \in Seq(Chars) /\ Len(text) = N
  <2>1. \E m \in Nat : text \in [1 .. m -> Chars] BY <1>3, <1>4, <1>12
  <2>2. text \in Seq(Chars) BY <2>1
  <2>3. DOMAIN text = 1 .. N BY <1>4
  <2> QED BY <1>3, <2>2, <2>3
<1>14. ASSUME NEW i \in 1 .. N
       PROVE  IF text[i] = "-" THEN f[i] = f[i - 1]
              ELSE f[i] = f[i - 1] + 1 /\ Base32Decode[text[i]] = v[f[i]]
  BY <1>8, <1>9, <1>10, <1>11
<1>15. Spells(text, v, f) BY <1>6, <1>7, <1>13, <1>14 DEF Spells, n
<1> QED BY <1>13, <1>15 DEF text

-----------------------------------------------------------------------------
(* The whole code.                                                         *)

Joined(r, s, n, t, m) ==
  /\ r \in Seq(Byte) /\ Len(r) = n + m
  /\ \A i \in 1 .. n : r[i] = s[i]
  /\ \A i \in 1 .. m : r[i + n] = t[i]

LEMMA JoinTwo ==
  ASSUME NEW s \in Seq(Byte), NEW t \in Seq(Byte), NEW n, n = Len(s), NEW m, m = Len(t),
         NEW r, r = s \o t
  PROVE  Joined(r, s, n, t, m)
<1>1. n \in Nat /\ m \in Nat OBVIOUS
<1>2. \A i \in 1 .. m : i + n \in n + 1 .. n + m /\ (i + n) - n = i BY <1>1
<1>3. r \in Seq(Byte) /\ Len(r) = n + m /\ \A i \in 1 .. n : r[i] = s[i] BY <1>1
<1>4. \A i \in n + 1 .. n + m : r[i] = t[i - n] BY <1>1
<1>5. \A i \in 1 .. m : r[i + n] = t[i]
  <2> TAKE i \in 1 .. m
  <2>1. r[i + n] = t[(i + n) - n] BY <1>2, <1>4
  <2> QED BY <1>2, <2>1
<1> QED BY <1>3, <1>5 DEF Joined

LEMMA FourBytes == \A a \in [1 .. 4 -> Byte] : a \in Seq(Byte) /\ Len(a) = 4
<1> TAKE a \in [1 .. 4 -> Byte]
<1>1. a \in Seq(Byte)
  <2>1. \E m \in Nat : a \in [1 .. m -> Byte] OBVIOUS
  <2> QED BY <2>1
<1>2. DOMAIN a = 1 .. 4 OBVIOUS
<1> QED BY <1>1, <1>2

LEMMA LayoutIs ==
  ASSUME NEW k \in PairingCodes
  PROVE  /\ Layout(k) \in Seq(Byte) /\ Len(Layout(k)) = PairingCodeBytes
         /\ \A i \in 1 .. 4 : /\ Layout(k)[i] = k.ip[i] /\ Layout(k)[i + 6] = k.name[i]
                              /\ Layout(k)[i + 10] = k.secret[i] /\ Layout(k)[i + 14] = k.token[i]
         /\ Layout(k)[5] * 2 ^ 8 + Layout(k)[6] = k.port
<1> DEFINE a == k.ip
           p == k.port
           b == k.name
           c == k.secret
           d == k.token
           hi == p \div 2 ^ 8
           lo == p % 2 ^ 8
           w == <<hi, lo>>
<1>1. p \in 0 .. 2 ^ 16 - 1 BY DEF PairingCodes
<1>2. /\ a \in [1 .. 4 -> Byte] /\ b \in [1 .. 4 -> Byte]
      /\ c \in [1 .. 4 -> Byte] /\ d \in [1 .. 4 -> Byte]
  BY DEF PairingCodes, Bytes, Byte
<1> HIDE DEF a, b, c, d, p
<1>3. hi \in Byte /\ lo \in Byte /\ hi * 2 ^ 8 + lo = p
  <2>1. 2 ^ 8 = 256 /\ 2 ^ 16 = 65536 OBVIOUS
  <2>2. p \in Nat /\ p < 65536 BY <1>1, <2>1
  <2>3. p \div 256 \in 0 .. 255 /\ p % 256 \in 0 .. 255 /\ (p \div 256) * 256 + (p % 256) = p
    BY <2>2
  <2> QED BY <2>1, <2>3 DEF Byte
<1> HIDE DEF hi, lo
<1>4. w \in Seq(Byte) /\ Len(w) = 2 /\ w[1] = hi /\ w[2] = lo BY <1>3
<1> HIDE DEF w
<1>5. /\ a \in Seq(Byte) /\ Len(a) = 4 /\ b \in Seq(Byte) /\ Len(b) = 4
      /\ c \in Seq(Byte) /\ Len(c) = 4 /\ d \in Seq(Byte) /\ Len(d) = 4
  BY <1>2, FourBytes
<1> DEFINE A == a \o w
           B == A \o b
           C == B \o c
           D == C \o d
<1> HIDE DEF D, C, B, A
<1>6. A \in Seq(Byte) /\ Len(A) = 6 /\ A[5] = hi /\ A[6] = lo /\ \A i \in 1 .. 4 : A[i] = a[i]
  <2>1. A = a \o w BY DEF A
  <2>2. Joined(A, a, 4, w, 2) BY <1>4, <1>5, <2>1, JoinTwo
  <2>3. \A i \in 1 .. 2 : A[i + 4] = w[i] BY <2>2 DEF Joined
  <2>4. A[1 + 4] = w[1] /\ A[2 + 4] = w[2] BY <2>3
  <2>5. A[5] = hi /\ A[6] = lo BY <1>4, <2>4
  <2> QED BY <2>2, <2>5 DEF Joined
<1>7. B \in Seq(Byte) /\ Len(B) = 10 /\ (\A i \in 1 .. 6 : B[i] = A[i]) /\ \A i \in 1 .. 4 : B[i + 6] = b[i]
  <2>1. B = A \o b BY DEF B
  <2>2. Joined(B, A, 6, b, 4) BY <1>5, <1>6, <2>1, JoinTwo
  <2> QED BY <2>2 DEF Joined
<1>8. C \in Seq(Byte) /\ Len(C) = 14 /\ (\A i \in 1 .. 10 : C[i] = B[i]) /\ \A i \in 1 .. 4 : C[i + 10] = c[i]
  <2>1. C = B \o c BY DEF C
  <2>2. Joined(C, B, 10, c, 4) BY <1>5, <1>7, <2>1, JoinTwo
  <2> QED BY <2>2 DEF Joined
<1>9. D \in Seq(Byte) /\ Len(D) = 18 /\ (\A i \in 1 .. 14 : D[i] = C[i]) /\ \A i \in 1 .. 4 : D[i + 14] = d[i]
  <2>1. D = C \o d BY DEF D
  <2>2. Joined(D, C, 14, d, 4) BY <1>5, <1>8, <2>1, JoinTwo
  <2> QED BY <2>2 DEF Joined
<1>10. Layout(k) = D BY DEF Layout, A, B, C, D, a, b, c, d, p, w, hi, lo
<1>11. D[5] = hi /\ D[6] = lo BY <1>6, <1>7, <1>8, <1>9
<1>12. \A i \in 1 .. 4 : D[i] = a[i] /\ D[i + 6] = b[i] /\ D[i + 10] = c[i] /\ D[i + 14] = d[i]
  <2> TAKE i \in 1 .. 4
  <2>1. D[i] = a[i] BY <1>6, <1>7, <1>8, <1>9
  <2>2. D[i + 6] = b[i]
    <3>1. i + 6 \in 1 .. 10 /\ i + 6 \in 1 .. 14 OBVIOUS
    <3>2. D[i + 6] = C[i + 6] /\ C[i + 6] = B[i + 6] /\ B[i + 6] = b[i] BY <1>7, <1>8, <1>9, <3>1
    <3> QED BY <3>2
  <2>3. D[i + 10] = c[i]
    <3>1. i + 10 \in 1 .. 14 OBVIOUS
    <3>2. D[i + 10] = C[i + 10] /\ C[i + 10] = c[i] BY <1>8, <1>9, <3>1
    <3> QED BY <3>2
  <2>4. D[i + 14] = d[i] BY <1>9
  <2> QED BY <2>1, <2>2, <2>3, <2>4
<1>13. D[5] * 2 ^ 8 + D[6] = p BY <1>3, <1>11
<1> QED BY <1>9, <1>10, <1>12, <1>13 DEF PairingCodeBytes, a, b, c, d, p

\* A text that spells the digits of a code is decoded to that code.
LEMMA SpelledCode ==
  ASSUME NEW k \in PairingCodes, NEW text \in Seq(Chars), NEW f,
         Spells(text, Quints(Layout(k)), f)
  PROVE  Decodes(text) /\ Decode(text) = k
<1> DEFINE data == Layout(k)
           v == Quints(data)
           seq == Cleaned(text)
           bytes == BytesOf(text)
<1>1. data \in Seq(Byte) /\ Len(data) = 18 BY LayoutIs DEF PairingCodeBytes
<1>2. v \in Seq(Digit) /\ Len(v) = (8 * Len(data) + 4) \div 5
      /\ \A c \in 1 .. Len(v) : v[c] = Quint(data, c)
  BY <1>1, QuintsType
<1> HIDE DEF data, v
<1>3. seq \in Seq(Letters) /\ Digits(seq) = v BY <1>2, SpellsIs DEF v, data
<1>4. /\ (5 * Len(v)) \div 8 = 18 /\ Len(seq) = Len(v)
      /\ \A i \in 1 .. 18 : Octet(v, i) = data[i]
  <2>1. Len(seq) = Len(v)
    <3> HIDE DEF seq
    <3> QED BY <1>3, DigitsType
  <2> HIDE DEF seq, bytes
  <2>2. /\ (5 * Len(v)) \div 8 = Len(data)
        /\ \A i \in 1 .. Len(data) : Octet(v, i) = data[i]
    BY <1>1, <1>2, BitsBack
  <2> QED BY <1>1, <2>1, <2>2
<1>5. seq = Cleaned(text) OBVIOUS
<1> HIDE DEF seq
<1>6. /\ bytes \in Seq(Byte) /\ Len(bytes) = 18
      /\ \A i \in 1 .. 18 : bytes[i] = Octet(v, i)
  <2>1. /\ bytes \in Seq(Byte) /\ Len(bytes) = (5 * Len(seq)) \div 8
        /\ \A i \in 1 .. (5 * Len(seq)) \div 8 : bytes[i] = Octet(Digits(seq), i)
    BY <1>3, <1>5, BytesOfIs
  <2> HIDE DEF bytes
  <2> QED BY <1>3, <1>4, <2>1
<1>7. bytes = data BY <1>1, <1>4, <1>6, SeqEqual
<1>8. Readable(text)
  <2>1. Len(v) = 29 BY <1>1, <1>2
  <2>2. seq # <<>>
    <3>1. Len(seq) # 0 BY <1>4, <2>1
    <3> QED BY <3>1
  <2>3. ToSet(seq) \subseteq Letters BY <1>3 DEF ToSet
  <2> QED BY <1>5, <2>2, <2>3 DEF Readable, Letters
<1>9. Decodes(text) BY <1>6, <1>8 DEF Decodes, PairingCodeBytes
<1> HIDE DEF bytes
<1>10. /\ SubSeq(bytes, 1, 4) = k.ip /\ SubSeq(bytes, 7, 10) = k.name
       /\ SubSeq(bytes, 11, 14) = k.secret /\ SubSeq(bytes, 15, 18) = k.token
       /\ bytes[5] * 2 ^ 8 + bytes[6] = k.port
  <2>1. /\ \A i \in 1 .. 4 : /\ data[i] = k.ip[i] /\ data[i + 6] = k.name[i]
                             /\ data[i + 10] = k.secret[i] /\ data[i + 14] = k.token[i]
        /\ data[5] * 2 ^ 8 + data[6] = k.port
    BY LayoutIs DEF data
  <2>2. /\ k.ip \in Bytes(4) /\ k.name \in Bytes(4) /\ k.secret \in Bytes(4) /\ k.token \in Bytes(4)
    BY DEF PairingCodes
  <2>3. /\ \A s \in Bytes(4) : s = [i \in 1 .. 4 |-> s[i]]
    BY DEF Bytes
  <2>4. /\ SubSeq(bytes, 1, 4) = [i \in 1 .. 4 |-> bytes[i]]
        /\ SubSeq(bytes, 7, 10) = [i \in 1 .. 4 |-> bytes[i + 6]]
        /\ SubSeq(bytes, 11, 14) = [i \in 1 .. 4 |-> bytes[i + 10]]
        /\ SubSeq(bytes, 15, 18) = [i \in 1 .. 4 |-> bytes[i + 14]]
    BY <1>6
  <2>5. /\ [i \in 1 .. 4 |-> data[i]] = k.ip /\ [i \in 1 .. 4 |-> data[i + 6]] = k.name
        /\ [i \in 1 .. 4 |-> data[i + 10]] = k.secret /\ [i \in 1 .. 4 |-> data[i + 14]] = k.token
    BY <2>1, <2>2, <2>3
  <2> QED BY <1>7, <2>1, <2>4, <2>5
<1>11. Decode(text) = [ip |-> k.ip, port |-> k.port, name |-> k.name, secret |-> k.secret, token |-> k.token]
  BY <1>10 DEF Decode, bytes
<1>12. k = [ip |-> k.ip, port |-> k.port, name |-> k.name, secret |-> k.secret, token |-> k.token]
  BY DEF PairingCodes
<1> QED BY <1>9, <1>11, <1>12

\* Encode spells the digits of its code ...
LEMMA EncodeSpells ==
  ASSUME NEW k \in PairingCodes
  PROVE  /\ Encode(k) \in Seq(Chars)
         /\ \E f : Spells(Encode(k), Quints(Layout(k)), f)
<1> DEFINE data == Layout(k)
           v == Quints(data)
           raw == Base32Encode(data)
<1>1. data \in Seq(Byte) /\ Len(data) = 18 BY LayoutIs DEF PairingCodeBytes
<1> HIDE DEF data
<1>2. v \in Seq(Digit) /\ Len(v) = (8 * Len(data) + 4) \div 5
      /\ \A c \in 1 .. Len(v) : v[c] = Quint(data, c)
  BY <1>1, QuintsType
<1>3. /\ raw \in Seq(Base32) /\ Len(raw) = Len(v)
      /\ \A c \in 1 .. Len(v) : raw[c] = Base32Chars[v[c] + 1]
  BY <1>1, <1>2, Base32EncodeIs
<1>4. Len(v) > 0 BY <1>1, <1>2
<1>5. Encode(k) = FormatPairingCode(raw) BY DEF Encode, data
<1> HIDE DEF raw, v
<1> QED BY <1>2, <1>3, <1>4, <1>5, FormatSpells DEF v, data

-----------------------------------------------------------------------------
(* The bytes and the single bits of the digits.                            *)

BitAt(v, i) == Bit(v[((i - 1) \div 5) + 1], 5, ((i - 1) % 5) + 1)

\* The forty bits of eight digits.
BitsAt(v, g) ==
  /\ BitAt(v, 40 * g + 1) = Bit(v[8 * g + 1], 5, 1) /\ BitAt(v, 40 * g + 2) = Bit(v[8 * g + 1], 5, 2)
  /\ BitAt(v, 40 * g + 3) = Bit(v[8 * g + 1], 5, 3) /\ BitAt(v, 40 * g + 4) = Bit(v[8 * g + 1], 5, 4)
  /\ BitAt(v, 40 * g + 5) = Bit(v[8 * g + 1], 5, 5)
  /\ BitAt(v, 40 * g + 6) = Bit(v[8 * g + 2], 5, 1) /\ BitAt(v, 40 * g + 7) = Bit(v[8 * g + 2], 5, 2)
  /\ BitAt(v, 40 * g + 8) = Bit(v[8 * g + 2], 5, 3) /\ BitAt(v, 40 * g + 9) = Bit(v[8 * g + 2], 5, 4)
  /\ BitAt(v, 40 * g + 10) = Bit(v[8 * g + 2], 5, 5)
  /\ BitAt(v, 40 * g + 11) = Bit(v[8 * g + 3], 5, 1) /\ BitAt(v, 40 * g + 12) = Bit(v[8 * g + 3], 5, 2)
  /\ BitAt(v, 40 * g + 13) = Bit(v[8 * g + 3], 5, 3) /\ BitAt(v, 40 * g + 14) = Bit(v[8 * g + 3], 5, 4)
  /\ BitAt(v, 40 * g + 15) = Bit(v[8 * g + 3], 5, 5)
  /\ BitAt(v, 40 * g + 16) = Bit(v[8 * g + 4], 5, 1) /\ BitAt(v, 40 * g + 17) = Bit(v[8 * g + 4], 5, 2)
  /\ BitAt(v, 40 * g + 18) = Bit(v[8 * g + 4], 5, 3) /\ BitAt(v, 40 * g + 19) = Bit(v[8 * g + 4], 5, 4)
  /\ BitAt(v, 40 * g + 20) = Bit(v[8 * g + 4], 5, 5)
  /\ BitAt(v, 40 * g + 21) = Bit(v[8 * g + 5], 5, 1) /\ BitAt(v, 40 * g + 22) = Bit(v[8 * g + 5], 5, 2)
  /\ BitAt(v, 40 * g + 23) = Bit(v[8 * g + 5], 5, 3) /\ BitAt(v, 40 * g + 24) = Bit(v[8 * g + 5], 5, 4)
  /\ BitAt(v, 40 * g + 25) = Bit(v[8 * g + 5], 5, 5)
  /\ BitAt(v, 40 * g + 26) = Bit(v[8 * g + 6], 5, 1) /\ BitAt(v, 40 * g + 27) = Bit(v[8 * g + 6], 5, 2)
  /\ BitAt(v, 40 * g + 28) = Bit(v[8 * g + 6], 5, 3) /\ BitAt(v, 40 * g + 29) = Bit(v[8 * g + 6], 5, 4)
  /\ BitAt(v, 40 * g + 30) = Bit(v[8 * g + 6], 5, 5)
  /\ BitAt(v, 40 * g + 31) = Bit(v[8 * g + 7], 5, 1) /\ BitAt(v, 40 * g + 32) = Bit(v[8 * g + 7], 5, 2)
  /\ BitAt(v, 40 * g + 33) = Bit(v[8 * g + 7], 5, 3) /\ BitAt(v, 40 * g + 34) = Bit(v[8 * g + 7], 5, 4)
  /\ BitAt(v, 40 * g + 35) = Bit(v[8 * g + 7], 5, 5)
  /\ BitAt(v, 40 * g + 36) = Bit(v[8 * g + 8], 5, 1) /\ BitAt(v, 40 * g + 37) = Bit(v[8 * g + 8], 5, 2)
  /\ BitAt(v, 40 * g + 38) = Bit(v[8 * g + 8], 5, 3) /\ BitAt(v, 40 * g + 39) = Bit(v[8 * g + 8], 5, 4)
  /\ BitAt(v, 40 * g + 40) = Bit(v[8 * g + 8], 5, 5)

LEMMA BitPlaces == ASSUME NEW v, NEW g \in Nat PROVE BitsAt(v, g)
<1>1. /\ BitAt(v, 40 * g + 1) = Bit(v[8 * g + 1], 5, 1)
      /\ BitAt(v, 40 * g + 2) = Bit(v[8 * g + 1], 5, 2)
      /\ BitAt(v, 40 * g + 3) = Bit(v[8 * g + 1], 5, 3)
      /\ BitAt(v, 40 * g + 4) = Bit(v[8 * g + 1], 5, 4)
      /\ BitAt(v, 40 * g + 5) = Bit(v[8 * g + 1], 5, 5)
  <2>1. /\ (((40 * g + 1) - 1) \div 5) + 1 = 8 * g + 1 /\ (((40 * g + 1) - 1) % 5) + 1 = 1
        /\ (((40 * g + 2) - 1) \div 5) + 1 = 8 * g + 1 /\ (((40 * g + 2) - 1) % 5) + 1 = 2
        /\ (((40 * g + 3) - 1) \div 5) + 1 = 8 * g + 1 /\ (((40 * g + 3) - 1) % 5) + 1 = 3
        /\ (((40 * g + 4) - 1) \div 5) + 1 = 8 * g + 1 /\ (((40 * g + 4) - 1) % 5) + 1 = 4
        /\ (((40 * g + 5) - 1) \div 5) + 1 = 8 * g + 1 /\ (((40 * g + 5) - 1) % 5) + 1 = 5
    OBVIOUS
  <2> QED BY <2>1 DEF BitAt
<1>2. /\ BitAt(v, 40 * g + 6) = Bit(v[8 * g + 2], 5, 1)
      /\ BitAt(v, 40 * g + 7) = Bit(v[8 * g + 2], 5, 2)
      /\ BitAt(v, 40 * g + 8) = Bit(v[8 * g + 2], 5, 3)
      /\ BitAt(v, 40 * g + 9) = Bit(v[8 * g + 2], 5, 4)
      /\ BitAt(v, 40 * g + 10) = Bit(v[8 * g + 2], 5, 5)
  <2>1. /\ (((40 * g + 6) - 1) \div 5) + 1 = 8 * g + 2 /\ (((40 * g + 6) - 1) % 5) + 1 = 1
        /\ (((40 * g + 7) - 1) \div 5) + 1 = 8 * g + 2 /\ (((40 * g + 7) - 1) % 5) + 1 = 2
        /\ (((40 * g + 8) - 1) \div 5) + 1 = 8 * g + 2 /\ (((40 * g + 8) - 1) % 5) + 1 = 3
        /\ (((40 * g + 9) - 1) \div 5) + 1 = 8 * g + 2 /\ (((40 * g + 9) - 1) % 5) + 1 = 4
        /\ (((40 * g + 10) - 1) \div 5) + 1 = 8 * g + 2 /\ (((40 * g + 10) - 1) % 5) + 1 = 5
    OBVIOUS
  <2> QED BY <2>1 DEF BitAt
<1>3. /\ BitAt(v, 40 * g + 11) = Bit(v[8 * g + 3], 5, 1)
      /\ BitAt(v, 40 * g + 12) = Bit(v[8 * g + 3], 5, 2)
      /\ BitAt(v, 40 * g + 13) = Bit(v[8 * g + 3], 5, 3)
      /\ BitAt(v, 40 * g + 14) = Bit(v[8 * g + 3], 5, 4)
      /\ BitAt(v, 40 * g + 15) = Bit(v[8 * g + 3], 5, 5)
  <2>1. /\ (((40 * g + 11) - 1) \div 5) + 1 = 8 * g + 3 /\ (((40 * g + 11) - 1) % 5) + 1 = 1
        /\ (((40 * g + 12) - 1) \div 5) + 1 = 8 * g + 3 /\ (((40 * g + 12) - 1) % 5) + 1 = 2
        /\ (((40 * g + 13) - 1) \div 5) + 1 = 8 * g + 3 /\ (((40 * g + 13) - 1) % 5) + 1 = 3
        /\ (((40 * g + 14) - 1) \div 5) + 1 = 8 * g + 3 /\ (((40 * g + 14) - 1) % 5) + 1 = 4
        /\ (((40 * g + 15) - 1) \div 5) + 1 = 8 * g + 3 /\ (((40 * g + 15) - 1) % 5) + 1 = 5
    OBVIOUS
  <2> QED BY <2>1 DEF BitAt
<1>4. /\ BitAt(v, 40 * g + 16) = Bit(v[8 * g + 4], 5, 1)
      /\ BitAt(v, 40 * g + 17) = Bit(v[8 * g + 4], 5, 2)
      /\ BitAt(v, 40 * g + 18) = Bit(v[8 * g + 4], 5, 3)
      /\ BitAt(v, 40 * g + 19) = Bit(v[8 * g + 4], 5, 4)
      /\ BitAt(v, 40 * g + 20) = Bit(v[8 * g + 4], 5, 5)
  <2>1. /\ (((40 * g + 16) - 1) \div 5) + 1 = 8 * g + 4 /\ (((40 * g + 16) - 1) % 5) + 1 = 1
        /\ (((40 * g + 17) - 1) \div 5) + 1 = 8 * g + 4 /\ (((40 * g + 17) - 1) % 5) + 1 = 2
        /\ (((40 * g + 18) - 1) \div 5) + 1 = 8 * g + 4 /\ (((40 * g + 18) - 1) % 5) + 1 = 3
        /\ (((40 * g + 19) - 1) \div 5) + 1 = 8 * g + 4 /\ (((40 * g + 19) - 1) % 5) + 1 = 4
        /\ (((40 * g + 20) - 1) \div 5) + 1 = 8 * g + 4 /\ (((40 * g + 20) - 1) % 5) + 1 = 5
    OBVIOUS
  <2> QED BY <2>1 DEF BitAt
<1>5. /\ BitAt(v, 40 * g + 21) = Bit(v[8 * g + 5], 5, 1)
      /\ BitAt(v, 40 * g + 22) = Bit(v[8 * g + 5], 5, 2)
      /\ BitAt(v, 40 * g + 23) = Bit(v[8 * g + 5], 5, 3)
      /\ BitAt(v, 40 * g + 24) = Bit(v[8 * g + 5], 5, 4)
      /\ BitAt(v, 40 * g + 25) = Bit(v[8 * g + 5], 5, 5)
  <2>1. /\ (((40 * g + 21) - 1) \div 5) + 1 = 8 * g + 5 /\ (((40 * g + 21) - 1) % 5) + 1 = 1
        /\ (((40 * g + 22) - 1) \div 5) + 1 = 8 * g + 5 /\ (((40 * g + 22) - 1) % 5) + 1 = 2
        /\ (((40 * g + 23) - 1) \div 5) + 1 = 8 * g + 5 /\ (((40 * g + 23) - 1) % 5) + 1 = 3
        /\ (((40 * g + 24) - 1) \div 5) + 1 = 8 * g + 5 /\ (((40 * g + 24) - 1) % 5) + 1 = 4
        /\ (((40 * g + 25) - 1) \div 5) + 1 = 8 * g + 5 /\ (((40 * g + 25) - 1) % 5) + 1 = 5
    OBVIOUS
  <2> QED BY <2>1 DEF BitAt
<1>6. /\ BitAt(v, 40 * g + 26) = Bit(v[8 * g + 6], 5, 1)
      /\ BitAt(v, 40 * g + 27) = Bit(v[8 * g + 6], 5, 2)
      /\ BitAt(v, 40 * g + 28) = Bit(v[8 * g + 6], 5, 3)
      /\ BitAt(v, 40 * g + 29) = Bit(v[8 * g + 6], 5, 4)
      /\ BitAt(v, 40 * g + 30) = Bit(v[8 * g + 6], 5, 5)
  <2>1. /\ (((40 * g + 26) - 1) \div 5) + 1 = 8 * g + 6 /\ (((40 * g + 26) - 1) % 5) + 1 = 1
        /\ (((40 * g + 27) - 1) \div 5) + 1 = 8 * g + 6 /\ (((40 * g + 27) - 1) % 5) + 1 = 2
        /\ (((40 * g + 28) - 1) \div 5) + 1 = 8 * g + 6 /\ (((40 * g + 28) - 1) % 5) + 1 = 3
        /\ (((40 * g + 29) - 1) \div 5) + 1 = 8 * g + 6 /\ (((40 * g + 29) - 1) % 5) + 1 = 4
        /\ (((40 * g + 30) - 1) \div 5) + 1 = 8 * g + 6 /\ (((40 * g + 30) - 1) % 5) + 1 = 5
    OBVIOUS
  <2> QED BY <2>1 DEF BitAt
<1>7. /\ BitAt(v, 40 * g + 31) = Bit(v[8 * g + 7], 5, 1)
      /\ BitAt(v, 40 * g + 32) = Bit(v[8 * g + 7], 5, 2)
      /\ BitAt(v, 40 * g + 33) = Bit(v[8 * g + 7], 5, 3)
      /\ BitAt(v, 40 * g + 34) = Bit(v[8 * g + 7], 5, 4)
      /\ BitAt(v, 40 * g + 35) = Bit(v[8 * g + 7], 5, 5)
  <2>1. /\ (((40 * g + 31) - 1) \div 5) + 1 = 8 * g + 7 /\ (((40 * g + 31) - 1) % 5) + 1 = 1
        /\ (((40 * g + 32) - 1) \div 5) + 1 = 8 * g + 7 /\ (((40 * g + 32) - 1) % 5) + 1 = 2
        /\ (((40 * g + 33) - 1) \div 5) + 1 = 8 * g + 7 /\ (((40 * g + 33) - 1) % 5) + 1 = 3
        /\ (((40 * g + 34) - 1) \div 5) + 1 = 8 * g + 7 /\ (((40 * g + 34) - 1) % 5) + 1 = 4
        /\ (((40 * g + 35) - 1) \div 5) + 1 = 8 * g + 7 /\ (((40 * g + 35) - 1) % 5) + 1 = 5
    OBVIOUS
  <2> QED BY <2>1 DEF BitAt
<1>8. /\ BitAt(v, 40 * g + 36) = Bit(v[8 * g + 8], 5, 1)
      /\ BitAt(v, 40 * g + 37) = Bit(v[8 * g + 8], 5, 2)
      /\ BitAt(v, 40 * g + 38) = Bit(v[8 * g + 8], 5, 3)
      /\ BitAt(v, 40 * g + 39) = Bit(v[8 * g + 8], 5, 4)
      /\ BitAt(v, 40 * g + 40) = Bit(v[8 * g + 8], 5, 5)
  <2>1. /\ (((40 * g + 36) - 1) \div 5) + 1 = 8 * g + 8 /\ (((40 * g + 36) - 1) % 5) + 1 = 1
        /\ (((40 * g + 37) - 1) \div 5) + 1 = 8 * g + 8 /\ (((40 * g + 37) - 1) % 5) + 1 = 2
        /\ (((40 * g + 38) - 1) \div 5) + 1 = 8 * g + 8 /\ (((40 * g + 38) - 1) % 5) + 1 = 3
        /\ (((40 * g + 39) - 1) \div 5) + 1 = 8 * g + 8 /\ (((40 * g + 39) - 1) % 5) + 1 = 4
        /\ (((40 * g + 40) - 1) \div 5) + 1 = 8 * g + 8 /\ (((40 * g + 40) - 1) % 5) + 1 = 5
    OBVIOUS
  <2> QED BY <2>1 DEF BitAt
<1> QED BY <1>1, <1>2, <1>3, <1>4, <1>5, <1>6, <1>7, <1>8 DEF BitsAt

LEMMA BitsOfDigit ==
  ASSUME NEW d \in Digit
  PROVE  /\ \A i \in 1 .. 5 : Bit(d, 5, i) \in 0 .. 1
         /\ d = 16 * Bit(d, 5, 1) + 8 * Bit(d, 5, 2) + 4 * Bit(d, 5, 3) + 2 * Bit(d, 5, 4) + Bit(d, 5, 5)
<1>0. d \in 0 .. 31 BY DEF Digit
<1>1. /\ Bit(d, 5, 1) = (d \div 16) % 2 /\ Bit(d, 5, 2) = (d \div 8) % 2
      /\ Bit(d, 5, 3) = (d \div 4) % 2 /\ Bit(d, 5, 4) = (d \div 2) % 2
      /\ Bit(d, 5, 5) = (d \div 1) % 2
  BY Powers DEF Bit
<1>2. /\ (d \div 16) % 2 \in 0 .. 1 /\ (d \div 8) % 2 \in 0 .. 1 /\ (d \div 4) % 2 \in 0 .. 1
      /\ (d \div 2) % 2 \in 0 .. 1 /\ (d \div 1) % 2 \in 0 .. 1
  BY <1>0
<1>3. d = 16 * ((d \div 16) % 2) + 8 * ((d \div 8) % 2) + 4 * ((d \div 4) % 2)
          + 2 * ((d \div 2) % 2) + ((d \div 1) % 2)
  BY <1>0
<1>4. \A i \in 1 .. 5 : i = 1 \/ i = 2 \/ i = 3 \/ i = 4 \/ i = 5 OBVIOUS
<1>5. \A i \in 1 .. 5 : Bit(d, 5, i) \in 0 .. 1 BY <1>1, <1>2, <1>4
<1> QED BY <1>1, <1>3, <1>5

LEMMA BitsOfByte1 ==
  ASSUME NEW a \in Nat, NEW b \in Digit, NEW c \in Digit
  PROVE  Eight(One(One(a, b), c), 2) =
           128 * Bit(b, 5, 1) + 64 * Bit(b, 5, 2) + 32 * Bit(b, 5, 3) + 16 * Bit(b, 5, 4) + 8 * Bit(b, 5, 5) + 4 * Bit(c, 5, 1) + 2 * Bit(c, 5, 2) + Bit(c, 5, 3)
<1> DEFINE b1 == Bit(b, 5, 1)
           b2 == Bit(b, 5, 2)
           b3 == Bit(b, 5, 3)
           b4 == Bit(b, 5, 4)
           b5 == Bit(b, 5, 5)
           c1 == Bit(c, 5, 1)
           c2 == Bit(c, 5, 2)
           c3 == Bit(c, 5, 3)
           c4 == Bit(c, 5, 4)
           c5 == Bit(c, 5, 5)
<1>1. /\ b = 16 * b1 + 8 * b2 + 4 * b3 + 2 * b4 + b5
      /\ b1 \in 0 .. 1 /\ b2 \in 0 .. 1 /\ b3 \in 0 .. 1 /\ b4 \in 0 .. 1 /\ b5 \in 0 .. 1
  BY BitsOfDigit
<1>2. /\ c = 16 * c1 + 8 * c2 + 4 * c3 + 2 * c4 + c5
      /\ c1 \in 0 .. 1 /\ c2 \in 0 .. 1 /\ c3 \in 0 .. 1 /\ c4 \in 0 .. 1 /\ c5 \in 0 .. 1
  BY BitsOfDigit
<1> HIDE DEF b1, b2, b3, b4, b5, c1, c2, c3, c4, c5
<1>3. (32 * (32 * a + b) + c) \div 4 = 256 * (a) + (128 * b1 + 64 * b2 + 32 * b3 + 16 * b4 + 8 * b5 + 4 * c1 + 2 * c2 + c3)
  BY <1>1, <1>2
<1>4. a \in Nat /\ 128 * b1 + 64 * b2 + 32 * b3 + 16 * b4 + 8 * b5 + 4 * c1 + 2 * c2 + c3 \in 0 .. 255
  BY <1>1, <1>2
<1>5. \A h \in Nat, s \in 0 .. 255 : (256 * h + s) % 256 = s OBVIOUS
<1>6. (256 * (a) + (128 * b1 + 64 * b2 + 32 * b3 + 16 * b4 + 8 * b5 + 4 * c1 + 2 * c2 + c3)) % 256 = 128 * b1 + 64 * b2 + 32 * b3 + 16 * b4 + 8 * b5 + 4 * c1 + 2 * c2 + c3 BY <1>4, <1>5
<1>7. Eight(One(One(a, b), c), 2) = 128 * b1 + 64 * b2 + 32 * b3 + 16 * b4 + 8 * b5 + 4 * c1 + 2 * c2 + c3 BY <1>3, <1>6, Powers DEF Eight, One
<1> QED BY <1>7 DEF b1, b2, b3, b4, b5, c1, c2, c3, c4, c5

LEMMA BitsOfByte2 ==
  ASSUME NEW a \in Digit, NEW b \in Digit, NEW c \in Digit
  PROVE  Eight(One(One(a, b), c), 4) =
           128 * Bit(a, 5, 4) + 64 * Bit(a, 5, 5) + 32 * Bit(b, 5, 1) + 16 * Bit(b, 5, 2) + 8 * Bit(b, 5, 3) + 4 * Bit(b, 5, 4) + 2 * Bit(b, 5, 5) + Bit(c, 5, 1)
<1> DEFINE a1 == Bit(a, 5, 1)
           a2 == Bit(a, 5, 2)
           a3 == Bit(a, 5, 3)
           a4 == Bit(a, 5, 4)
           a5 == Bit(a, 5, 5)
           b1 == Bit(b, 5, 1)
           b2 == Bit(b, 5, 2)
           b3 == Bit(b, 5, 3)
           b4 == Bit(b, 5, 4)
           b5 == Bit(b, 5, 5)
           c1 == Bit(c, 5, 1)
           c2 == Bit(c, 5, 2)
           c3 == Bit(c, 5, 3)
           c4 == Bit(c, 5, 4)
           c5 == Bit(c, 5, 5)
<1>1. /\ a = 16 * a1 + 8 * a2 + 4 * a3 + 2 * a4 + a5
      /\ a1 \in 0 .. 1 /\ a2 \in 0 .. 1 /\ a3 \in 0 .. 1 /\ a4 \in 0 .. 1 /\ a5 \in 0 .. 1
  BY BitsOfDigit
<1>2. /\ b = 16 * b1 + 8 * b2 + 4 * b3 + 2 * b4 + b5
      /\ b1 \in 0 .. 1 /\ b2 \in 0 .. 1 /\ b3 \in 0 .. 1 /\ b4 \in 0 .. 1 /\ b5 \in 0 .. 1
  BY BitsOfDigit
<1>3. /\ c = 16 * c1 + 8 * c2 + 4 * c3 + 2 * c4 + c5
      /\ c1 \in 0 .. 1 /\ c2 \in 0 .. 1 /\ c3 \in 0 .. 1 /\ c4 \in 0 .. 1 /\ c5 \in 0 .. 1
  BY BitsOfDigit
<1> HIDE DEF a1, a2, a3, a4, a5, b1, b2, b3, b4, b5, c1, c2, c3, c4, c5
<1>4. (32 * (32 * a + b) + c) \div 16 = 256 * (4 * a1 + 2 * a2 + a3) + (128 * a4 + 64 * a5 + 32 * b1 + 16 * b2 + 8 * b3 + 4 * b4 + 2 * b5 + c1)
  BY <1>1, <1>2, <1>3
<1>5. 4 * a1 + 2 * a2 + a3 \in Nat /\ 128 * a4 + 64 * a5 + 32 * b1 + 16 * b2 + 8 * b3 + 4 * b4 + 2 * b5 + c1 \in 0 .. 255
  BY <1>1, <1>2, <1>3
<1>6. \A h \in Nat, s \in 0 .. 255 : (256 * h + s) % 256 = s OBVIOUS
<1>7. (256 * (4 * a1 + 2 * a2 + a3) + (128 * a4 + 64 * a5 + 32 * b1 + 16 * b2 + 8 * b3 + 4 * b4 + 2 * b5 + c1)) % 256 = 128 * a4 + 64 * a5 + 32 * b1 + 16 * b2 + 8 * b3 + 4 * b4 + 2 * b5 + c1 BY <1>5, <1>6
<1>8. Eight(One(One(a, b), c), 4) = 128 * a4 + 64 * a5 + 32 * b1 + 16 * b2 + 8 * b3 + 4 * b4 + 2 * b5 + c1 BY <1>4, <1>7, Powers DEF Eight, One
<1> QED BY <1>8 DEF a1, a2, a3, a4, a5, b1, b2, b3, b4, b5, c1, c2, c3, c4, c5

LEMMA BitsOfByte3 ==
  ASSUME NEW a \in Nat, NEW b \in Digit, NEW c \in Digit
  PROVE  Eight(One(One(a, b), c), 1) =
           128 * Bit(b, 5, 2) + 64 * Bit(b, 5, 3) + 32 * Bit(b, 5, 4) + 16 * Bit(b, 5, 5) + 8 * Bit(c, 5, 1) + 4 * Bit(c, 5, 2) + 2 * Bit(c, 5, 3) + Bit(c, 5, 4)
<1> DEFINE b1 == Bit(b, 5, 1)
           b2 == Bit(b, 5, 2)
           b3 == Bit(b, 5, 3)
           b4 == Bit(b, 5, 4)
           b5 == Bit(b, 5, 5)
           c1 == Bit(c, 5, 1)
           c2 == Bit(c, 5, 2)
           c3 == Bit(c, 5, 3)
           c4 == Bit(c, 5, 4)
           c5 == Bit(c, 5, 5)
<1>1. /\ b = 16 * b1 + 8 * b2 + 4 * b3 + 2 * b4 + b5
      /\ b1 \in 0 .. 1 /\ b2 \in 0 .. 1 /\ b3 \in 0 .. 1 /\ b4 \in 0 .. 1 /\ b5 \in 0 .. 1
  BY BitsOfDigit
<1>2. /\ c = 16 * c1 + 8 * c2 + 4 * c3 + 2 * c4 + c5
      /\ c1 \in 0 .. 1 /\ c2 \in 0 .. 1 /\ c3 \in 0 .. 1 /\ c4 \in 0 .. 1 /\ c5 \in 0 .. 1
  BY BitsOfDigit
<1> HIDE DEF b1, b2, b3, b4, b5, c1, c2, c3, c4, c5
<1>3. (32 * (32 * a + b) + c) \div 2 = 256 * (2 * a + b1) + (128 * b2 + 64 * b3 + 32 * b4 + 16 * b5 + 8 * c1 + 4 * c2 + 2 * c3 + c4)
  BY <1>1, <1>2
<1>4. 2 * a + b1 \in Nat /\ 128 * b2 + 64 * b3 + 32 * b4 + 16 * b5 + 8 * c1 + 4 * c2 + 2 * c3 + c4 \in 0 .. 255
  BY <1>1, <1>2
<1>5. \A h \in Nat, s \in 0 .. 255 : (256 * h + s) % 256 = s OBVIOUS
<1>6. (256 * (2 * a + b1) + (128 * b2 + 64 * b3 + 32 * b4 + 16 * b5 + 8 * c1 + 4 * c2 + 2 * c3 + c4)) % 256 = 128 * b2 + 64 * b3 + 32 * b4 + 16 * b5 + 8 * c1 + 4 * c2 + 2 * c3 + c4 BY <1>4, <1>5
<1>7. Eight(One(One(a, b), c), 1) = 128 * b2 + 64 * b3 + 32 * b4 + 16 * b5 + 8 * c1 + 4 * c2 + 2 * c3 + c4 BY <1>3, <1>6, Powers DEF Eight, One
<1> QED BY <1>7 DEF b1, b2, b3, b4, b5, c1, c2, c3, c4, c5

LEMMA BitsOfByte4 ==
  ASSUME NEW a \in Digit, NEW b \in Digit, NEW c \in Digit
  PROVE  Eight(One(One(a, b), c), 3) =
           128 * Bit(a, 5, 5) + 64 * Bit(b, 5, 1) + 32 * Bit(b, 5, 2) + 16 * Bit(b, 5, 3) + 8 * Bit(b, 5, 4) + 4 * Bit(b, 5, 5) + 2 * Bit(c, 5, 1) + Bit(c, 5, 2)
<1> DEFINE a1 == Bit(a, 5, 1)
           a2 == Bit(a, 5, 2)
           a3 == Bit(a, 5, 3)
           a4 == Bit(a, 5, 4)
           a5 == Bit(a, 5, 5)
           b1 == Bit(b, 5, 1)
           b2 == Bit(b, 5, 2)
           b3 == Bit(b, 5, 3)
           b4 == Bit(b, 5, 4)
           b5 == Bit(b, 5, 5)
           c1 == Bit(c, 5, 1)
           c2 == Bit(c, 5, 2)
           c3 == Bit(c, 5, 3)
           c4 == Bit(c, 5, 4)
           c5 == Bit(c, 5, 5)
<1>1. /\ a = 16 * a1 + 8 * a2 + 4 * a3 + 2 * a4 + a5
      /\ a1 \in 0 .. 1 /\ a2 \in 0 .. 1 /\ a3 \in 0 .. 1 /\ a4 \in 0 .. 1 /\ a5 \in 0 .. 1
  BY BitsOfDigit
<1>2. /\ b = 16 * b1 + 8 * b2 + 4 * b3 + 2 * b4 + b5
      /\ b1 \in 0 .. 1 /\ b2 \in 0 .. 1 /\ b3 \in 0 .. 1 /\ b4 \in 0 .. 1 /\ b5 \in 0 .. 1
  BY BitsOfDigit
<1>3. /\ c = 16 * c1 + 8 * c2 + 4 * c3 + 2 * c4 + c5
      /\ c1 \in 0 .. 1 /\ c2 \in 0 .. 1 /\ c3 \in 0 .. 1 /\ c4 \in 0 .. 1 /\ c5 \in 0 .. 1
  BY BitsOfDigit
<1> HIDE DEF a1, a2, a3, a4, a5, b1, b2, b3, b4, b5, c1, c2, c3, c4, c5
<1>4. (32 * (32 * a + b) + c) \div 8 = 256 * (8 * a1 + 4 * a2 + 2 * a3 + a4) + (128 * a5 + 64 * b1 + 32 * b2 + 16 * b3 + 8 * b4 + 4 * b5 + 2 * c1 + c2)
  BY <1>1, <1>2, <1>3
<1>5. 8 * a1 + 4 * a2 + 2 * a3 + a4 \in Nat /\ 128 * a5 + 64 * b1 + 32 * b2 + 16 * b3 + 8 * b4 + 4 * b5 + 2 * c1 + c2 \in 0 .. 255
  BY <1>1, <1>2, <1>3
<1>6. \A h \in Nat, s \in 0 .. 255 : (256 * h + s) % 256 = s OBVIOUS
<1>7. (256 * (8 * a1 + 4 * a2 + 2 * a3 + a4) + (128 * a5 + 64 * b1 + 32 * b2 + 16 * b3 + 8 * b4 + 4 * b5 + 2 * c1 + c2)) % 256 = 128 * a5 + 64 * b1 + 32 * b2 + 16 * b3 + 8 * b4 + 4 * b5 + 2 * c1 + c2 BY <1>5, <1>6
<1>8. Eight(One(One(a, b), c), 3) = 128 * a5 + 64 * b1 + 32 * b2 + 16 * b3 + 8 * b4 + 4 * b5 + 2 * c1 + c2 BY <1>4, <1>7, Powers DEF Eight, One
<1> QED BY <1>8 DEF a1, a2, a3, a4, a5, b1, b2, b3, b4, b5, c1, c2, c3, c4, c5

LEMMA BitsOfByte5 ==
  ASSUME NEW a \in Nat, NEW b \in Digit, NEW c \in Digit
  PROVE  Eight(One(One(a, b), c), 0) =
           128 * Bit(b, 5, 3) + 64 * Bit(b, 5, 4) + 32 * Bit(b, 5, 5) + 16 * Bit(c, 5, 1) + 8 * Bit(c, 5, 2) + 4 * Bit(c, 5, 3) + 2 * Bit(c, 5, 4) + Bit(c, 5, 5)
<1> DEFINE b1 == Bit(b, 5, 1)
           b2 == Bit(b, 5, 2)
           b3 == Bit(b, 5, 3)
           b4 == Bit(b, 5, 4)
           b5 == Bit(b, 5, 5)
           c1 == Bit(c, 5, 1)
           c2 == Bit(c, 5, 2)
           c3 == Bit(c, 5, 3)
           c4 == Bit(c, 5, 4)
           c5 == Bit(c, 5, 5)
<1>1. /\ b = 16 * b1 + 8 * b2 + 4 * b3 + 2 * b4 + b5
      /\ b1 \in 0 .. 1 /\ b2 \in 0 .. 1 /\ b3 \in 0 .. 1 /\ b4 \in 0 .. 1 /\ b5 \in 0 .. 1
  BY BitsOfDigit
<1>2. /\ c = 16 * c1 + 8 * c2 + 4 * c3 + 2 * c4 + c5
      /\ c1 \in 0 .. 1 /\ c2 \in 0 .. 1 /\ c3 \in 0 .. 1 /\ c4 \in 0 .. 1 /\ c5 \in 0 .. 1
  BY BitsOfDigit
<1> HIDE DEF b1, b2, b3, b4, b5, c1, c2, c3, c4, c5
<1>3. (32 * (32 * a + b) + c) \div 1 = 256 * (4 * a + 2 * b1 + b2) + (128 * b3 + 64 * b4 + 32 * b5 + 16 * c1 + 8 * c2 + 4 * c3 + 2 * c4 + c5)
  BY <1>1, <1>2
<1>4. 4 * a + 2 * b1 + b2 \in Nat /\ 128 * b3 + 64 * b4 + 32 * b5 + 16 * c1 + 8 * c2 + 4 * c3 + 2 * c4 + c5 \in 0 .. 255
  BY <1>1, <1>2
<1>5. \A h \in Nat, s \in 0 .. 255 : (256 * h + s) % 256 = s OBVIOUS
<1>6. (256 * (4 * a + 2 * b1 + b2) + (128 * b3 + 64 * b4 + 32 * b5 + 16 * c1 + 8 * c2 + 4 * c3 + 2 * c4 + c5)) % 256 = 128 * b3 + 64 * b4 + 32 * b5 + 16 * c1 + 8 * c2 + 4 * c3 + 2 * c4 + c5 BY <1>4, <1>5
<1>7. Eight(One(One(a, b), c), 0) = 128 * b3 + 64 * b4 + 32 * b5 + 16 * c1 + 8 * c2 + 4 * c3 + 2 * c4 + c5 BY <1>3, <1>6, Powers DEF Eight, One
<1> QED BY <1>7 DEF b1, b2, b3, b4, b5, c1, c2, c3, c4, c5

ByteAt(v, k) ==
  128 * BitAt(v, 8 * (k - 1) + 1) + 64 * BitAt(v, 8 * (k - 1) + 2)
  + 32 * BitAt(v, 8 * (k - 1) + 3) + 16 * BitAt(v, 8 * (k - 1) + 4)
  + 8 * BitAt(v, 8 * (k - 1) + 5) + 4 * BitAt(v, 8 * (k - 1) + 6)
  + 2 * BitAt(v, 8 * (k - 1) + 7) + BitAt(v, 8 * (k - 1) + 8)

\* An octet is the next eight bits of the digits.
LEMMA OctetBits ==
  ASSUME NEW v \in Seq(Digit), NEW k \in 1 .. (5 * Len(v)) \div 8
  PROVE  Octet(v, k) = ByteAt(v, k)
<1> DEFINE M == Len(v)
           g == (k - 1) \div 5
<1>1. M \in Nat /\ k \in Nat \ {0} /\ 8 * k <= 5 * M
  <2>1. 5 * M \in Nat OBVIOUS
  <2> QED BY <2>1, DivEight
<1>2. \A i \in 1 .. M : At(v, i) = v[i] /\ v[i] \in Digit BY DigitAt
<1>3. \A i \in Int : At(v, i) \in Nat BY DigitAt
<1>4. g \in Nat /\ k \in {5 * g + 1, 5 * g + 2, 5 * g + 3, 5 * g + 4, 5 * g + 5} BY <1>1
<1> HIDE DEF M, g
<1>10. BitsAt(v, g) BY <1>4, BitPlaces
<1>5. CASE k = 5 * g + 1
  <2>1. 8 * g + 1 \in 1 .. M /\ 8 * g + 2 \in 1 .. M BY <1>1, <1>4, <1>5
  <2> DEFINE a == At(v, 8 * g)
             b == At(v, 8 * g + 1)
             c == At(v, 8 * g + 2)
  <2>2. b \in Digit /\ v[8 * g + 1] = b /\ c \in Digit /\ v[8 * g + 2] = c /\ a \in Nat
    <3>1. 8 * g \in Int BY <1>4
    <3> QED BY <1>2, <1>3, <2>1, <3>1
  <2>3. Triple(v, 8 * g + 2) = One(One(a, b), c)
    <3>1. (8 * g + 2) - 1 = 8 * g + 1 /\ (8 * g + 2) - 2 = 8 * g BY <1>4
    <3> QED BY <3>1 DEF Triple
  <2>4. Octet(v, k) = Eight(One(One(a, b), c), 2) BY <1>4, <1>5, <2>3, BytePlaces DEF Octet
  <2>5. /\ BitAt(v, 8 * (k - 1) + 1) = Bit(v[8 * g + 1], 5, 1)
        /\ BitAt(v, 8 * (k - 1) + 2) = Bit(v[8 * g + 1], 5, 2)
        /\ BitAt(v, 8 * (k - 1) + 3) = Bit(v[8 * g + 1], 5, 3)
        /\ BitAt(v, 8 * (k - 1) + 4) = Bit(v[8 * g + 1], 5, 4)
        /\ BitAt(v, 8 * (k - 1) + 5) = Bit(v[8 * g + 1], 5, 5)
        /\ BitAt(v, 8 * (k - 1) + 6) = Bit(v[8 * g + 2], 5, 1)
        /\ BitAt(v, 8 * (k - 1) + 7) = Bit(v[8 * g + 2], 5, 2)
        /\ BitAt(v, 8 * (k - 1) + 8) = Bit(v[8 * g + 2], 5, 3)
    <3>1. /\ 8 * (k - 1) + 1 = 40 * g + 1 /\ 8 * (k - 1) + 2 = 40 * g + 2 /\ 8 * (k - 1) + 3 = 40 * g + 3 /\ 8 * (k - 1) + 4 = 40 * g + 4
          /\ 8 * (k - 1) + 5 = 40 * g + 5 /\ 8 * (k - 1) + 6 = 40 * g + 6 /\ 8 * (k - 1) + 7 = 40 * g + 7 /\ 8 * (k - 1) + 8 = 40 * g + 8
      BY <1>4, <1>5
    <3>2. /\ BitAt(v, 40 * g + 1) = Bit(v[8 * g + 1], 5, 1)
          /\ BitAt(v, 40 * g + 2) = Bit(v[8 * g + 1], 5, 2)
          /\ BitAt(v, 40 * g + 3) = Bit(v[8 * g + 1], 5, 3)
          /\ BitAt(v, 40 * g + 4) = Bit(v[8 * g + 1], 5, 4)
          /\ BitAt(v, 40 * g + 5) = Bit(v[8 * g + 1], 5, 5)
          /\ BitAt(v, 40 * g + 6) = Bit(v[8 * g + 2], 5, 1)
          /\ BitAt(v, 40 * g + 7) = Bit(v[8 * g + 2], 5, 2)
          /\ BitAt(v, 40 * g + 8) = Bit(v[8 * g + 2], 5, 3)
      BY <1>10 DEF BitsAt
    <3> QED BY <3>1, <3>2
  <2> HIDE DEF a, b, c
  <2>6. Octet(v, k) =
          128 * Bit(b, 5, 1) + 64 * Bit(b, 5, 2) + 32 * Bit(b, 5, 3) + 16 * Bit(b, 5, 4) + 8 * Bit(b, 5, 5) + 4 * Bit(c, 5, 1) + 2 * Bit(c, 5, 2) + Bit(c, 5, 3)
    BY <2>2, <2>4, BitsOfByte1
  <2> QED BY <2>2, <2>5, <2>6 DEF ByteAt
<1>6. CASE k = 5 * g + 2
  <2>1. 8 * g + 2 \in 1 .. M /\ 8 * g + 3 \in 1 .. M /\ 8 * g + 4 \in 1 .. M BY <1>1, <1>4, <1>6
  <2> DEFINE a == At(v, 8 * g + 2)
             b == At(v, 8 * g + 3)
             c == At(v, 8 * g + 4)
  <2>2. a \in Digit /\ v[8 * g + 2] = a /\ b \in Digit /\ v[8 * g + 3] = b /\ c \in Digit /\ v[8 * g + 4] = c
    BY <1>2, <2>1
  <2>3. Triple(v, 8 * g + 4) = One(One(a, b), c)
    <3>1. (8 * g + 4) - 1 = 8 * g + 3 /\ (8 * g + 4) - 2 = 8 * g + 2 BY <1>4
    <3> QED BY <3>1 DEF Triple
  <2>4. Octet(v, k) = Eight(One(One(a, b), c), 4) BY <1>4, <1>6, <2>3, BytePlaces DEF Octet
  <2>5. /\ BitAt(v, 8 * (k - 1) + 1) = Bit(v[8 * g + 2], 5, 4)
        /\ BitAt(v, 8 * (k - 1) + 2) = Bit(v[8 * g + 2], 5, 5)
        /\ BitAt(v, 8 * (k - 1) + 3) = Bit(v[8 * g + 3], 5, 1)
        /\ BitAt(v, 8 * (k - 1) + 4) = Bit(v[8 * g + 3], 5, 2)
        /\ BitAt(v, 8 * (k - 1) + 5) = Bit(v[8 * g + 3], 5, 3)
        /\ BitAt(v, 8 * (k - 1) + 6) = Bit(v[8 * g + 3], 5, 4)
        /\ BitAt(v, 8 * (k - 1) + 7) = Bit(v[8 * g + 3], 5, 5)
        /\ BitAt(v, 8 * (k - 1) + 8) = Bit(v[8 * g + 4], 5, 1)
    <3>1. /\ 8 * (k - 1) + 1 = 40 * g + 9 /\ 8 * (k - 1) + 2 = 40 * g + 10 /\ 8 * (k - 1) + 3 = 40 * g + 11 /\ 8 * (k - 1) + 4 = 40 * g + 12
          /\ 8 * (k - 1) + 5 = 40 * g + 13 /\ 8 * (k - 1) + 6 = 40 * g + 14 /\ 8 * (k - 1) + 7 = 40 * g + 15 /\ 8 * (k - 1) + 8 = 40 * g + 16
      BY <1>4, <1>6
    <3>2. /\ BitAt(v, 40 * g + 9) = Bit(v[8 * g + 2], 5, 4)
          /\ BitAt(v, 40 * g + 10) = Bit(v[8 * g + 2], 5, 5)
          /\ BitAt(v, 40 * g + 11) = Bit(v[8 * g + 3], 5, 1)
          /\ BitAt(v, 40 * g + 12) = Bit(v[8 * g + 3], 5, 2)
          /\ BitAt(v, 40 * g + 13) = Bit(v[8 * g + 3], 5, 3)
          /\ BitAt(v, 40 * g + 14) = Bit(v[8 * g + 3], 5, 4)
          /\ BitAt(v, 40 * g + 15) = Bit(v[8 * g + 3], 5, 5)
          /\ BitAt(v, 40 * g + 16) = Bit(v[8 * g + 4], 5, 1)
      BY <1>10 DEF BitsAt
    <3> QED BY <3>1, <3>2
  <2> HIDE DEF a, b, c
  <2>6. Octet(v, k) =
          128 * Bit(a, 5, 4) + 64 * Bit(a, 5, 5) + 32 * Bit(b, 5, 1) + 16 * Bit(b, 5, 2) + 8 * Bit(b, 5, 3) + 4 * Bit(b, 5, 4) + 2 * Bit(b, 5, 5) + Bit(c, 5, 1)
    BY <2>2, <2>4, BitsOfByte2
  <2> QED BY <2>2, <2>5, <2>6 DEF ByteAt
<1>7. CASE k = 5 * g + 3
  <2>1. 8 * g + 4 \in 1 .. M /\ 8 * g + 5 \in 1 .. M BY <1>1, <1>4, <1>7
  <2> DEFINE a == At(v, 8 * g + 3)
             b == At(v, 8 * g + 4)
             c == At(v, 8 * g + 5)
  <2>2. b \in Digit /\ v[8 * g + 4] = b /\ c \in Digit /\ v[8 * g + 5] = c /\ a \in Nat
    <3>1. 8 * g + 3 \in Int BY <1>4
    <3> QED BY <1>2, <1>3, <2>1, <3>1
  <2>3. Triple(v, 8 * g + 5) = One(One(a, b), c)
    <3>1. (8 * g + 5) - 1 = 8 * g + 4 /\ (8 * g + 5) - 2 = 8 * g + 3 BY <1>4
    <3> QED BY <3>1 DEF Triple
  <2>4. Octet(v, k) = Eight(One(One(a, b), c), 1) BY <1>4, <1>7, <2>3, BytePlaces DEF Octet
  <2>5. /\ BitAt(v, 8 * (k - 1) + 1) = Bit(v[8 * g + 4], 5, 2)
        /\ BitAt(v, 8 * (k - 1) + 2) = Bit(v[8 * g + 4], 5, 3)
        /\ BitAt(v, 8 * (k - 1) + 3) = Bit(v[8 * g + 4], 5, 4)
        /\ BitAt(v, 8 * (k - 1) + 4) = Bit(v[8 * g + 4], 5, 5)
        /\ BitAt(v, 8 * (k - 1) + 5) = Bit(v[8 * g + 5], 5, 1)
        /\ BitAt(v, 8 * (k - 1) + 6) = Bit(v[8 * g + 5], 5, 2)
        /\ BitAt(v, 8 * (k - 1) + 7) = Bit(v[8 * g + 5], 5, 3)
        /\ BitAt(v, 8 * (k - 1) + 8) = Bit(v[8 * g + 5], 5, 4)
    <3>1. /\ 8 * (k - 1) + 1 = 40 * g + 17 /\ 8 * (k - 1) + 2 = 40 * g + 18 /\ 8 * (k - 1) + 3 = 40 * g + 19 /\ 8 * (k - 1) + 4 = 40 * g + 20
          /\ 8 * (k - 1) + 5 = 40 * g + 21 /\ 8 * (k - 1) + 6 = 40 * g + 22 /\ 8 * (k - 1) + 7 = 40 * g + 23 /\ 8 * (k - 1) + 8 = 40 * g + 24
      BY <1>4, <1>7
    <3>2. /\ BitAt(v, 40 * g + 17) = Bit(v[8 * g + 4], 5, 2)
          /\ BitAt(v, 40 * g + 18) = Bit(v[8 * g + 4], 5, 3)
          /\ BitAt(v, 40 * g + 19) = Bit(v[8 * g + 4], 5, 4)
          /\ BitAt(v, 40 * g + 20) = Bit(v[8 * g + 4], 5, 5)
          /\ BitAt(v, 40 * g + 21) = Bit(v[8 * g + 5], 5, 1)
          /\ BitAt(v, 40 * g + 22) = Bit(v[8 * g + 5], 5, 2)
          /\ BitAt(v, 40 * g + 23) = Bit(v[8 * g + 5], 5, 3)
          /\ BitAt(v, 40 * g + 24) = Bit(v[8 * g + 5], 5, 4)
      BY <1>10 DEF BitsAt
    <3> QED BY <3>1, <3>2
  <2> HIDE DEF a, b, c
  <2>6. Octet(v, k) =
          128 * Bit(b, 5, 2) + 64 * Bit(b, 5, 3) + 32 * Bit(b, 5, 4) + 16 * Bit(b, 5, 5) + 8 * Bit(c, 5, 1) + 4 * Bit(c, 5, 2) + 2 * Bit(c, 5, 3) + Bit(c, 5, 4)
    BY <2>2, <2>4, BitsOfByte3
  <2> QED BY <2>2, <2>5, <2>6 DEF ByteAt
<1>8. CASE k = 5 * g + 4
  <2>1. 8 * g + 5 \in 1 .. M /\ 8 * g + 6 \in 1 .. M /\ 8 * g + 7 \in 1 .. M BY <1>1, <1>4, <1>8
  <2> DEFINE a == At(v, 8 * g + 5)
             b == At(v, 8 * g + 6)
             c == At(v, 8 * g + 7)
  <2>2. a \in Digit /\ v[8 * g + 5] = a /\ b \in Digit /\ v[8 * g + 6] = b /\ c \in Digit /\ v[8 * g + 7] = c
    BY <1>2, <2>1
  <2>3. Triple(v, 8 * g + 7) = One(One(a, b), c)
    <3>1. (8 * g + 7) - 1 = 8 * g + 6 /\ (8 * g + 7) - 2 = 8 * g + 5 BY <1>4
    <3> QED BY <3>1 DEF Triple
  <2>4. Octet(v, k) = Eight(One(One(a, b), c), 3) BY <1>4, <1>8, <2>3, BytePlaces DEF Octet
  <2>5. /\ BitAt(v, 8 * (k - 1) + 1) = Bit(v[8 * g + 5], 5, 5)
        /\ BitAt(v, 8 * (k - 1) + 2) = Bit(v[8 * g + 6], 5, 1)
        /\ BitAt(v, 8 * (k - 1) + 3) = Bit(v[8 * g + 6], 5, 2)
        /\ BitAt(v, 8 * (k - 1) + 4) = Bit(v[8 * g + 6], 5, 3)
        /\ BitAt(v, 8 * (k - 1) + 5) = Bit(v[8 * g + 6], 5, 4)
        /\ BitAt(v, 8 * (k - 1) + 6) = Bit(v[8 * g + 6], 5, 5)
        /\ BitAt(v, 8 * (k - 1) + 7) = Bit(v[8 * g + 7], 5, 1)
        /\ BitAt(v, 8 * (k - 1) + 8) = Bit(v[8 * g + 7], 5, 2)
    <3>1. /\ 8 * (k - 1) + 1 = 40 * g + 25 /\ 8 * (k - 1) + 2 = 40 * g + 26 /\ 8 * (k - 1) + 3 = 40 * g + 27 /\ 8 * (k - 1) + 4 = 40 * g + 28
          /\ 8 * (k - 1) + 5 = 40 * g + 29 /\ 8 * (k - 1) + 6 = 40 * g + 30 /\ 8 * (k - 1) + 7 = 40 * g + 31 /\ 8 * (k - 1) + 8 = 40 * g + 32
      BY <1>4, <1>8
    <3>2. /\ BitAt(v, 40 * g + 25) = Bit(v[8 * g + 5], 5, 5)
          /\ BitAt(v, 40 * g + 26) = Bit(v[8 * g + 6], 5, 1)
          /\ BitAt(v, 40 * g + 27) = Bit(v[8 * g + 6], 5, 2)
          /\ BitAt(v, 40 * g + 28) = Bit(v[8 * g + 6], 5, 3)
          /\ BitAt(v, 40 * g + 29) = Bit(v[8 * g + 6], 5, 4)
          /\ BitAt(v, 40 * g + 30) = Bit(v[8 * g + 6], 5, 5)
          /\ BitAt(v, 40 * g + 31) = Bit(v[8 * g + 7], 5, 1)
          /\ BitAt(v, 40 * g + 32) = Bit(v[8 * g + 7], 5, 2)
      BY <1>10 DEF BitsAt
    <3> QED BY <3>1, <3>2
  <2> HIDE DEF a, b, c
  <2>6. Octet(v, k) =
          128 * Bit(a, 5, 5) + 64 * Bit(b, 5, 1) + 32 * Bit(b, 5, 2) + 16 * Bit(b, 5, 3) + 8 * Bit(b, 5, 4) + 4 * Bit(b, 5, 5) + 2 * Bit(c, 5, 1) + Bit(c, 5, 2)
    BY <2>2, <2>4, BitsOfByte4
  <2> QED BY <2>2, <2>5, <2>6 DEF ByteAt
<1>9. CASE k = 5 * g + 5
  <2>1. 8 * g + 7 \in 1 .. M /\ 8 * g + 8 \in 1 .. M BY <1>1, <1>4, <1>9
  <2> DEFINE a == At(v, 8 * g + 6)
             b == At(v, 8 * g + 7)
             c == At(v, 8 * g + 8)
  <2>2. b \in Digit /\ v[8 * g + 7] = b /\ c \in Digit /\ v[8 * g + 8] = c /\ a \in Nat
    <3>1. 8 * g + 6 \in Int BY <1>4
    <3> QED BY <1>2, <1>3, <2>1, <3>1
  <2>3. Triple(v, 8 * g + 8) = One(One(a, b), c)
    <3>1. (8 * g + 8) - 1 = 8 * g + 7 /\ (8 * g + 8) - 2 = 8 * g + 6 BY <1>4
    <3> QED BY <3>1 DEF Triple
  <2>4. Octet(v, k) = Eight(One(One(a, b), c), 0) BY <1>4, <1>9, <2>3, BytePlaces DEF Octet
  <2>5. /\ BitAt(v, 8 * (k - 1) + 1) = Bit(v[8 * g + 7], 5, 3)
        /\ BitAt(v, 8 * (k - 1) + 2) = Bit(v[8 * g + 7], 5, 4)
        /\ BitAt(v, 8 * (k - 1) + 3) = Bit(v[8 * g + 7], 5, 5)
        /\ BitAt(v, 8 * (k - 1) + 4) = Bit(v[8 * g + 8], 5, 1)
        /\ BitAt(v, 8 * (k - 1) + 5) = Bit(v[8 * g + 8], 5, 2)
        /\ BitAt(v, 8 * (k - 1) + 6) = Bit(v[8 * g + 8], 5, 3)
        /\ BitAt(v, 8 * (k - 1) + 7) = Bit(v[8 * g + 8], 5, 4)
        /\ BitAt(v, 8 * (k - 1) + 8) = Bit(v[8 * g + 8], 5, 5)
    <3>1. /\ 8 * (k - 1) + 1 = 40 * g + 33 /\ 8 * (k - 1) + 2 = 40 * g + 34 /\ 8 * (k - 1) + 3 = 40 * g + 35 /\ 8 * (k - 1) + 4 = 40 * g + 36
          /\ 8 * (k - 1) + 5 = 40 * g + 37 /\ 8 * (k - 1) + 6 = 40 * g + 38 /\ 8 * (k - 1) + 7 = 40 * g + 39 /\ 8 * (k - 1) + 8 = 40 * g + 40
      BY <1>4, <1>9
    <3>2. /\ BitAt(v, 40 * g + 33) = Bit(v[8 * g + 7], 5, 3)
          /\ BitAt(v, 40 * g + 34) = Bit(v[8 * g + 7], 5, 4)
          /\ BitAt(v, 40 * g + 35) = Bit(v[8 * g + 7], 5, 5)
          /\ BitAt(v, 40 * g + 36) = Bit(v[8 * g + 8], 5, 1)
          /\ BitAt(v, 40 * g + 37) = Bit(v[8 * g + 8], 5, 2)
          /\ BitAt(v, 40 * g + 38) = Bit(v[8 * g + 8], 5, 3)
          /\ BitAt(v, 40 * g + 39) = Bit(v[8 * g + 8], 5, 4)
          /\ BitAt(v, 40 * g + 40) = Bit(v[8 * g + 8], 5, 5)
      BY <1>10 DEF BitsAt
    <3> QED BY <3>1, <3>2
  <2> HIDE DEF a, b, c
  <2>6. Octet(v, k) =
          128 * Bit(b, 5, 3) + 64 * Bit(b, 5, 4) + 32 * Bit(b, 5, 5) + 16 * Bit(c, 5, 1) + 8 * Bit(c, 5, 2) + 4 * Bit(c, 5, 3) + 2 * Bit(c, 5, 4) + Bit(c, 5, 5)
    BY <2>2, <2>4, BitsOfByte5
  <2> QED BY <2>2, <2>5, <2>6 DEF ByteAt
<1> QED BY <1>4, <1>5, <1>6, <1>7, <1>8, <1>9

-----------------------------------------------------------------------------
(* What the codec promises.                                                *)

\* A readable text has letters between its dashes.
LEMMA ReadableLetters ==
  ASSUME NEW T, NEW text \in Seq(T), Readable(text)
  PROVE  Cleaned(text) \in Seq(Letters) /\ Cleaned(text) # <<>>
<1> DEFINE seq == Cleaned(text)
<1>1. seq \in Seq(T \ {"-"})
  <2>1. PICK s \in [0 .. Len(text) -> Seq(T \ {"-"})] : seq = s[Len(text)] BY CleanedRuns
  <2>2. Len(text) \in 0 .. Len(text) OBVIOUS
  <2> QED BY <2>1, <2>2
<1>2. ToSet(seq) \subseteq Letters /\ seq # <<>> BY DEF Readable, Letters
<1> HIDE DEF seq
<1>3. \A i \in 1 .. Len(seq) : seq[i] \in Letters BY <1>1, <1>2 DEF ToSet
<1>4. seq \in Seq(Letters) BY <1>1, <1>3
<1> QED BY <1>2, <1>4 DEF seq

Port == 0 .. 2 ^ 16 - 1

\* Two bytes make a port.
LEMMA TwoBytes == ASSUME NEW x \in Byte, NEW y \in Byte PROVE x * 2 ^ 8 + y \in Port
<1>1. x \in Nat /\ x <= 255 /\ y \in Nat /\ y <= 255 BY DEF Byte
<1>2. x * 256 + y \in Nat /\ x * 256 + y <= 255 * 256 + 255 BY <1>1
<1>3. 2 ^ 8 = 256 /\ 2 ^ 16 - 1 = 255 * 256 + 255 OBVIOUS
<1>4. x * 2 ^ 8 + y \in Nat /\ x * 2 ^ 8 + y <= 2 ^ 16 - 1 BY <1>2, <1>3
<1> QED BY <1>4 DEF Port

\* The fields of what decodes are bytes and a port.
LEMMA DecodedType ==
  ASSUME NEW T, NEW text \in Seq(T), Decodes(text)
  PROVE  Decode(text) \in PairingCodes
<1> DEFINE b == BytesOf(text)
<1>1. b \in Seq(Byte)
  <2>1. Cleaned(text) \in Seq(Letters) BY ReadableLetters DEF Decodes
  <2> QED BY <2>1, BytesOfIs
<1>2. Len(b) = 18 BY DEF Decodes, PairingCodeBytes
<1>3. Decode(text) = [ip |-> SubSeq(b, 1, 4), port |-> b[5] * 2 ^ 8 + b[6],
                      name |-> SubSeq(b, 7, 10), secret |-> SubSeq(b, 11, 14),
                      token |-> SubSeq(b, 15, 18)]
  BY DEF Decode
<1> HIDE DEF b
<1>4. \A i \in 1 .. 18 : b[i] \in Byte
  <2>1. \A i \in 1 .. Len(b) : b[i] \in Byte BY <1>1
  <2> QED BY <1>2, <2>1
<1>5. /\ SubSeq(b, 1, 4) = [i \in 1 .. 4 |-> b[i]]
      /\ SubSeq(b, 7, 10) = [i \in 1 .. 4 |-> b[i + 6]]
      /\ SubSeq(b, 11, 14) = [i \in 1 .. 4 |-> b[i + 10]]
      /\ SubSeq(b, 15, 18) = [i \in 1 .. 4 |-> b[i + 14]]
  BY <1>1, <1>2
<1>6. /\ SubSeq(b, 1, 4) \in [1 .. 4 -> Byte] /\ SubSeq(b, 7, 10) \in [1 .. 4 -> Byte]
      /\ SubSeq(b, 11, 14) \in [1 .. 4 -> Byte] /\ SubSeq(b, 15, 18) \in [1 .. 4 -> Byte]
  <2>1. \A i \in 1 .. 4 : b[i] \in Byte /\ b[i + 6] \in Byte /\ b[i + 10] \in Byte /\ b[i + 14] \in Byte
    BY <1>4
  <2> QED BY <1>5, <2>1
<1>7. b[5] * 2 ^ 8 + b[6] \in Port
  <2>1. b[5] \in Byte /\ b[6] \in Byte BY <1>4
  <2> QED BY <2>1, TwoBytes
<1>8. PairingCodes = [ip : [1 .. 4 -> Byte], port : Port, name : [1 .. 4 -> Byte],
                      secret : [1 .. 4 -> Byte], token : [1 .. 4 -> Byte]]
  BY DEF PairingCodes, Bytes, Byte, Port
<1> QED BY <1>3, <1>6, <1>7, <1>8

\* Whatever readable text is decoded, right or wrong, its bytes are the bits of its
\* characters regrouped (pairing.rs:102-113).
THEOREM DecodingRegroupsBits ==
  ASSUME NEW T, NEW text \in Seq(T), Readable(text)
  PROVE  BytesOf(text) = Regrouped(text)
<1> DEFINE seq == Cleaned(text)
           v   == Digits(seq)
           n   == (5 * Len(seq)) \div 8
           bit(i) == Bit(Base32Decode[seq[((i - 1) \div 5) + 1]], 5, ((i - 1) % 5) + 1)
<1>1. seq \in Seq(Letters) BY ReadableLetters
<1>2. seq = Cleaned(text) OBVIOUS
<1> HIDE DEF seq
<1>3. /\ BytesOf(text) \in Seq(Byte) /\ Len(BytesOf(text)) = n
      /\ \A k \in 1 .. n : BytesOf(text)[k] = Octet(v, k)
  BY <1>1, <1>2, BytesOfIs
<1>4. v \in Seq(Digit) /\ Len(v) = Len(seq) /\ \A i \in 1 .. Len(seq) : v[i] = Base32Decode[seq[i]]
  BY <1>1, DigitsType
<1>5. Len(seq) \in Nat /\ n \in Nat /\ 8 * n <= 5 * Len(seq)
  <2>1. Len(seq) \in Nat /\ 5 * Len(seq) \in Nat BY <1>1
  <2> QED BY <2>1, DivEight
<1> HIDE DEF v
<1>6. ASSUME NEW i \in 1 .. 8 * n PROVE bit(i) = BitAt(v, i)
  <2>1. i - 1 \in Nat /\ 5 * ((i - 1) \div 5) <= i - 1 /\ (i - 1) \div 5 \in Nat
    <3>1. i - 1 \in Nat BY <1>5
    <3> QED BY <3>1, DivFive
  <2> DEFINE q == (i - 1) \div 5
  <2>2. q \in Nat /\ 5 * q <= i - 1 BY <2>1
  <2> HIDE DEF q
  <2>3. q + 1 \in 1 .. Len(seq) BY <1>5, <2>2
  <2>4. v[q + 1] = Base32Decode[seq[q + 1]] BY <1>4, <2>3
  <2> QED BY <2>4 DEF q, BitAt
<1> DEFINE R(k) == LET b(j) == bit(8 * (k - 1) + j)
                   IN 128 * b(1) + 64 * b(2) + 32 * b(3) + 16 * b(4) + 8 * b(5) + 4 * b(6) + 2 * b(7) + b(8)
<1>7. Regrouped(text) = [k \in 1 .. n |-> R(k)] BY <1>2 DEF Regrouped
<1> HIDE DEF n
<1>8. ASSUME NEW k \in 1 .. n PROVE R(k) = BytesOf(text)[k]
  <2>1. /\ 8 * (k - 1) + 1 \in 1 .. 8 * n /\ 8 * (k - 1) + 2 \in 1 .. 8 * n
        /\ 8 * (k - 1) + 3 \in 1 .. 8 * n /\ 8 * (k - 1) + 4 \in 1 .. 8 * n
        /\ 8 * (k - 1) + 5 \in 1 .. 8 * n /\ 8 * (k - 1) + 6 \in 1 .. 8 * n
        /\ 8 * (k - 1) + 7 \in 1 .. 8 * n /\ 8 * (k - 1) + 8 \in 1 .. 8 * n
    BY <1>5
  <2> HIDE DEF bit
  <2>2. R(k) = ByteAt(v, k) BY <1>6, <2>1 DEF ByteAt
  <2>3. Octet(v, k) = ByteAt(v, k) BY <1>4, OctetBits DEF n
  <2> QED BY <1>3, <2>2, <2>3 DEF n
<1> HIDE DEF R
<1>9. [k \in 1 .. n |-> R(k)] = BytesOf(text)
  <2>1. DOMAIN BytesOf(text) = 1 .. n /\ BytesOf(text) = [k \in 1 .. n |-> BytesOf(text)[k]]
    BY <1>3, <1>5 DEF n
  <2> QED BY <1>8, <2>1
<1> QED BY <1>7, <1>9

\* For every code, what Encode writes is decoded to that code again, whatever its
\* bytes and its port (pairing.rs:66-116, 176-214).
THEOREM EncodedCodeDecodes ==
  \A k \in PairingCodes : Decodes(Encode(k)) /\ Decode(Encode(k)) = k
<1> TAKE k \in PairingCodes
<1>1. Encode(k) \in Seq(Chars) /\ \E f : Spells(Encode(k), Quints(Layout(k)), f) BY EncodeSpells
<1> QED BY <1>1, SpelledCode

=============================================================================
