---------------------------- MODULE CerealProofs ----------------------------
(***************************************************************************)
(* What is written with a Cerealiser is what a Decerealiser reads, for     *)
(* every set of fields and sessions of every length.  First what every     *)
(* proof about the library needs: the powers of two and quotients that its *)
(* shifts and masks are, that |= on bits not set yet adds, and that        *)
(* writeBits and readBitsHelper solve their recursions.  Then one call of  *)
(* each does its part, and the invariant says where the bits of the fields *)
(* are between the calls.                                                  *)
(***************************************************************************)
EXTENDS CerealSession, SequenceLemmas

-----------------------------------------------------------------------------
(* Numbers.                                                                *)

\* The powers of two that widths and shifts are, one by one.
LEMMA Powers ==
  /\ \A k \in 0 .. 9 : 2^k \in Nat \ {0}
  /\ \A k \in 0 .. 17 : 2^(k + 1) = 2 * 2^k
<1>1. ASSUME NEW k \in 0 .. 17
      PROVE  2^(k + 1) = 2 * 2^k /\ 2^k \in Nat \ {0}
  <2>1. CASE k = 0  BY <2>1
  <2>2. CASE k = 1  BY <2>2
  <2>3. CASE k = 2  BY <2>3
  <2>4. CASE k = 3  BY <2>4
  <2>5. CASE k = 4  BY <2>5
  <2>6. CASE k = 5  BY <2>6
  <2>7. CASE k = 6  BY <2>7
  <2>8. CASE k = 7  BY <2>8
  <2>9. CASE k = 8  BY <2>9
  <2>10. CASE k = 9  BY <2>10
  <2>11. CASE k = 10  BY <2>11
  <2>12. CASE k = 11  BY <2>12
  <2>13. CASE k = 12  BY <2>13
  <2>14. CASE k = 13  BY <2>14
  <2>15. CASE k = 14  BY <2>15
  <2>16. CASE k = 15  BY <2>16
  <2>17. CASE k = 16  BY <2>17
  <2>18. CASE k = 17  BY <2>18
  <2>. QED
    BY <2>1, <2>2, <2>3, <2>4, <2>5, <2>6, <2>7, <2>8, <2>9, <2>10, <2>11, <2>12,
       <2>13, <2>14, <2>15, <2>16, <2>17, <2>18
<1>2. ASSUME NEW k \in 0 .. 9
      PROVE  2^k \in Nat \ {0}
  <2>1. k \in 0 .. 17
    OBVIOUS
  <2>. QED  BY <1>1, <2>1
<1>. QED  BY <1>1, <1>2

\* A shift by m + n is one by m and one by n.
LEMMA PowerSum ==
  ASSUME NEW m \in 0 .. 8
  PROVE  \A n \in 0 .. 9 : 2^(m + n) = 2^m * 2^n
<1>. DEFINE M(n) == 2^(m + n)
<1>1. M(0) = 2^m /\ M(0) \in Nat
  <2>1. m + 0 = m /\ m \in 0 .. 9
    OBVIOUS
  <2>. QED  BY <2>1, Powers
<1>2. \A n \in 0 .. 8 : M(n + 1) = 2 * M(n)
  <2>1. \A n \in 0 .. 8 : m + n \in 0 .. 17 /\ m + (n + 1) = (m + n) + 1
    OBVIOUS
  <2>. QED  BY <2>1, Powers
<1>. HIDE DEF M
<1>3. /\ M(1) = 2 * M(0) /\ M(2) = 4 * M(0) /\ M(3) = 8 * M(0) /\ M(4) = 16 * M(0)
      /\ M(5) = 32 * M(0) /\ M(6) = 64 * M(0) /\ M(7) = 128 * M(0) /\ M(8) = 256 * M(0)
      /\ M(9) = 512 * M(0)
  <2>1. /\ M(0 + 1) = 2 * M(0) /\ M(1 + 1) = 2 * M(1) /\ M(2 + 1) = 2 * M(2)
        /\ M(3 + 1) = 2 * M(3) /\ M(4 + 1) = 2 * M(4) /\ M(5 + 1) = 2 * M(5)
        /\ M(6 + 1) = 2 * M(6) /\ M(7 + 1) = 2 * M(7) /\ M(8 + 1) = 2 * M(8)
    BY <1>2
  <2>. QED  BY <1>1, <2>1
<1>4. ASSUME NEW n \in 0 .. 9
      PROVE  M(n) = 2^n * M(0)
  <2>. USE <1>1, <1>3
  <2>1. CASE n = 0  BY <2>1
  <2>2. CASE n = 1  BY <2>2
  <2>3. CASE n = 2  BY <2>3
  <2>4. CASE n = 3  BY <2>4
  <2>5. CASE n = 4  BY <2>5
  <2>6. CASE n = 5  BY <2>6
  <2>7. CASE n = 6  BY <2>7
  <2>8. CASE n = 7  BY <2>8
  <2>9. CASE n = 8  BY <2>9
  <2>10. CASE n = 9  BY <2>10
  <2>. QED
    BY <2>1, <2>2, <2>3, <2>4, <2>5, <2>6, <2>7, <2>8, <2>9, <2>10
<1>5. ASSUME NEW n \in 0 .. 9
      PROVE  2^(m + n) = 2^m * 2^n
  <2>1. 2^n \in Nat
    BY Powers
  <2>2. M(n) = 2^n * M(0)
    BY <1>4
  <2>. QED  BY <1>1, <2>1, <2>2 DEF M
<1>. QED  BY <1>5

\* Quotient and remainders.
LEMMA Quotient ==
  ASSUME NEW x \in Nat, NEW d \in Nat \ {0}
  PROVE  /\ x \div d \in Nat /\ x % d \in Nat /\ x % d < d
         /\ x = (x \div d) * d + (x % d)
         /\ x < d => x \div d = 0
OBVIOUS

\* Shifting twice.
LEMMA QuotientOfQuotient ==
  ASSUME NEW x \in Nat, NEW d \in Nat \ {0}, NEW e \in Nat \ {0}
  PROVE  (x \div d) \div e = x \div (d * e)
OBVIOUS

\* Shifting the low part out.
LEMMA QuotientOfSum ==
  ASSUME NEW x \in Nat, NEW y \in Nat, NEW d \in Nat \ {0}
  PROVE  (x * d + y) \div d = x + (y \div d)
OBVIOUS

\* A bit is 0 or 1.
LEMMA Bit01 == ASSUME NEW x \in Nat, NEW i \in 0 .. 9 PROVE Bit(x, i) \in {0, 1}
<1>1. 2^i \in Nat \ {0}
  BY Powers
<1>2. x \div 2^i \in Nat
  BY <1>1, Quotient
<1>. QED BY <1>2 DEF Bit

\* A byte is the sum of its bits.
LEMMA BitsSum ==
  ASSUME NEW x \in Byte
  PROVE  x = Bit(x, 0) + 2 * Bit(x, 1) + 4 * Bit(x, 2) + 8 * Bit(x, 3)
             + 16 * Bit(x, 4) + 32 * Bit(x, 5) + 64 * Bit(x, 6) + 128 * Bit(x, 7)
BY DEF Byte, Bit

\* A byte that ends with k zeros and one that has k bits at most have no bit
\* in common, and | adds them.
LEMMA OrAdds ==
  ASSUME NEW k \in 0 .. 8, NEW x \in Byte, NEW y \in Byte, x % 2^k = 0, y < 2^k
  PROVE  (x | y) = x + y
<1>1. ASSUME NEW i \in 0 .. 7
      PROVE  Bit(x, i) = 0 \/ Bit(y, i) = 0
  <2>0. x \in Nat /\ y \in Nat
    BY DEF Byte
  <2>2. 2^i \in Nat \ {0} /\ 2^k \in Nat \ {0}
    <3>1. i \in 0 .. 9 /\ k \in 0 .. 9
      OBVIOUS
    <3>. QED  BY <3>1, Powers
  <2>3. CASE i < k
    <3>. DEFINE d == k - i - 1
    <3>1. d \in 0 .. 9 /\ d \in 0 .. 17 /\ d + 1 \in 0 .. 9 /\ i \in 0 .. 8 /\ i + (d + 1) = k
      BY <2>3
    <3>2. 2^k = 2^i * 2^(d + 1)
      BY <3>1, PowerSum
    <3>3. 2^(d + 1) = 2 * 2^d /\ 2^d \in Nat
      BY <3>1, Powers
    <3>. HIDE DEF d
    <3>. DEFINE q == x \div 2^k
                n == 2 * (q * 2^d)
    <3>4. q \in Nat /\ x = q * 2^k
      <4>1. q \in Nat /\ x = q * 2^k + (x % 2^k)
        BY <2>0, <2>2, Quotient
      <4>. QED  BY <2>2, <4>1
    <3>5. n \in Nat /\ x = n * 2^i + 0
      <4>. HIDE DEF q
      <4>1. q * 2^d \in Nat
        BY <3>3, <3>4
      <4>2. q * (2^i * (2 * 2^d)) = (2 * (q * 2^d)) * 2^i
        BY <2>2, <3>3, <3>4
      <4>. QED  BY <2>2, <3>2, <3>3, <3>4, <4>1, <4>2
    <3>. HIDE DEF n, q
    <3>6. (n * 2^i + 0) \div 2^i = n + (0 \div 2^i) /\ 0 \div 2^i = 0
      BY <2>2, <3>5, Quotient, QuotientOfSum
    <3>7. n % 2 = 0
      BY <3>3, <3>4 DEF n
    <3>8. x \div 2^i = n
      BY <3>5, <3>6
    <3>9. Bit(x, i) = 0
      BY <3>7, <3>8 DEF Bit
    <3>. QED  BY <3>9
  <2>4. CASE k <= i
    <3>. DEFINE d == i - k
    <3>1. d \in 0 .. 9 /\ k + d = i
      BY <2>4
    <3>2. 2^i = 2^k * 2^d /\ 2^d \in Nat \ {0}
      BY <3>1, PowerSum, Powers
    <3>. HIDE DEF d
    <3>3. y < 2^i
      BY <2>0, <2>2, <3>2
    <3>4. y \div 2^i = 0
      BY <2>0, <2>2, <3>3, Quotient
    <3>5. 0 % 2 = 0
      OBVIOUS
    <3>6. Bit(y, i) = 0
      BY <2>0, <2>2, <3>4, <3>5 DEF Bit
    <3>. QED  BY <3>6
  <2>. QED  BY <2>3, <2>4
<1>. DEFINE bx(i) == Bit(x, i)
            by(i) == Bit(y, i)
            either(i) == IF bx(i) = 1 \/ by(i) = 1 THEN 2^i ELSE 0
<1>5. \A i \in 0 .. 7 : bx(i) \in {0, 1} /\ by(i) \in {0, 1}
  <2>1. x \in Nat /\ y \in Nat /\ \A i \in 0 .. 7 : i \in 0 .. 9
    BY DEF Byte
  <2>. QED  BY <2>1, Bit01
<1>2. \A i \in 0 .. 7 : either(i) = 2^i * bx(i) + 2^i * by(i)
  <2>1. \A i \in 0 .. 7 : i \in 0 .. 9
    OBVIOUS
  <2>2. \A i \in 0 .. 7 : 2^i \in Nat
    BY <2>1, Powers
  <2>. QED  BY <1>1, <1>5, <2>2
<1>3. (x | y) = either(0) + either(1) + either(2) + either(3)
                  + either(4) + either(5) + either(6) + either(7)
  BY DEF |
<1>4. /\ x = bx(0) + 2 * bx(1) + 4 * bx(2) + 8 * bx(3)
               + 16 * bx(4) + 32 * bx(5) + 64 * bx(6) + 128 * bx(7)
      /\ y = by(0) + 2 * by(1) + 4 * by(2) + 8 * by(3)
               + 16 * by(4) + 32 * by(5) + 64 * by(6) + 128 * by(7)
  BY BitsSum
<1>. HIDE DEF bx, by, either
<1>6. /\ either(0) = bx(0) + by(0)            /\ either(1) = 2 * bx(1) + 2 * by(1)
      /\ either(2) = 4 * bx(2) + 4 * by(2)    /\ either(3) = 8 * bx(3) + 8 * by(3)
      /\ either(4) = 16 * bx(4) + 16 * by(4)  /\ either(5) = 32 * bx(5) + 32 * by(5)
      /\ either(6) = 64 * bx(6) + 64 * by(6)  /\ either(7) = 128 * bx(7) + 128 * by(7)
  BY <1>2, <1>5
<1>7. /\ bx(0) \in Int /\ bx(1) \in Int /\ bx(2) \in Int /\ bx(3) \in Int
      /\ bx(4) \in Int /\ bx(5) \in Int /\ bx(6) \in Int /\ bx(7) \in Int
      /\ by(0) \in Int /\ by(1) \in Int /\ by(2) \in Int /\ by(3) \in Int
      /\ by(4) \in Int /\ by(5) \in Int /\ by(6) \in Int /\ by(7) \in Int
  BY <1>5
<1>. QED  BY <1>3, <1>4, <1>6, <1>7

-----------------------------------------------------------------------------
(* Cerealiser::writeBits.                                                  *)

\* The calls of writeBits: how far the bits reach over the current byte, and
\* what a call for the bits that do returns and what it calls next.
Calls == [writer : Writer, value : Nat, bits : 1..MaxBits]

Over(c) == c.writer.bitIndex + c.bits - BitsInByte
FilledBy(c) == Filled(c.writer, c.value \div 2^Over(c))
NextCall(c) ==
  [writer |-> FilledBy(c), value |-> Carried(c.value, Over(c)), bits |-> Over(c)]

\* The right-hand side of writeBits.
WritingBits(f) ==
  [c \in Calls |->
     IF Over(c) < 0 THEN Pending(c.writer, c.value, c.bits)
     ELSE IF Over(c) = 0 THEN Pending(FilledBy(c), c.value, c.bits)
     ELSE f[NextCall(c)]]

\* What _currentByte becomes is a byte.
LEMMA OrType ==
  ASSUME NEW x, NEW y
  PROVE  (x | y) \in Byte
<1>. DEFINE e(i, p) == IF Bit(x, i) = 1 \/ Bit(y, i) = 1 THEN p ELSE 0
<1>1. (x | y) = e(0, 1) + e(1, 2) + e(2, 4) + e(3, 8) + e(4, 16) + e(5, 32) + e(6, 64) + e(7, 128)
  BY DEF |
<1>2. \A i, p \in Nat : e(i, p) \in {0, p}
  OBVIOUS
<1>. HIDE DEF e
<1>3. /\ e(0, 1) \in {0, 1}   /\ e(1, 2) \in {0, 2}   /\ e(2, 4) \in {0, 4}
      /\ e(3, 8) \in {0, 8}   /\ e(4, 16) \in {0, 16} /\ e(5, 32) \in {0, 32}
      /\ e(6, 64) \in {0, 64} /\ e(7, 128) \in {0, 128}
  BY <1>2
<1>. QED  BY <1>1, <1>3 DEF Byte

\* A call for the bits left over is a call of writeBits, for eight bits fewer:
\* the writer it finds has no bits waiting.
LEMMA CallsNext ==
  ASSUME NEW c \in Calls
  PROVE  /\ Over(c) \in Int /\ Over(c) <= MaxBits
         /\ Over(c) > 0 => /\ NextCall(c) \in Calls /\ NextCall(c).writer.bitIndex = 0
                           /\ Over(NextCall(c)) = Over(c) - 8
<1>1. /\ c.writer \in Writer /\ c.value \in Nat /\ c.bits \in 1 .. 9
  BY DEF Calls, MaxBits
<1>2. c.writer.bitIndex \in 0 .. 8 /\ c.writer.bytes \in Seq(Byte)
  BY <1>1 DEF Writer, BitsInByte
<1>3. Over(c) \in Int /\ Over(c) <= 9
  <2>1. Over(c) = c.writer.bitIndex + c.bits - 8
    BY DEF Over, BitsInByte
  <2>. DEFINE b == c.writer.bitIndex
              k == c.bits
  <2>2. b \in 0 .. 8 /\ k \in 1 .. 9
    BY <1>1, <1>2
  <2>. HIDE DEF b, k
  <2>3. b + k - 8 \in Int /\ b + k - 8 <= 9
    BY <2>2
  <2>. QED  BY <2>1, <2>3 DEF b, k
<1>4. ASSUME Over(c) > 0
      PROVE  /\ NextCall(c) \in Calls /\ NextCall(c).writer.bitIndex = 0
             /\ Over(NextCall(c)) = Over(c) - 8
  <2>. DEFINE n == c.writer.currentByte | (c.value \div 2^Over(c))
  <2>1. FilledBy(c) = [bytes |-> Append(c.writer.bytes, n), currentByte |-> 0, bitIndex |-> 0]
    BY DEF FilledBy, Filled
  <2>2. n \in Byte
    BY OrType
  <2>. HIDE DEF n
  <2>3. FilledBy(c) \in Writer /\ FilledBy(c).bitIndex = 0
    <3>1. Append(c.writer.bytes, n) \in Seq(Byte) /\ 0 \in Byte /\ 0 \in 0 .. BitsInByte
      BY <1>2, <2>2, AppendProperties DEF Byte, BitsInByte
    <3>. QED  BY <2>1, <3>1 DEF Writer
  <2>4. Carried(c.value, Over(c)) \in Nat
    <3>1. Over(c) \in 0 .. 9
      BY <1>3, <1>4
    <3>2. 2^Over(c) \in Nat \ {0}
      BY <3>1, Powers
    <3>3. c.value % 2^Over(c) \in Nat
      BY <1>1, <3>2, Quotient
    <3>. QED  BY <3>3 DEF Carried
  <2>5. NextCall(c) \in Calls
    BY <1>3, <1>4, <2>3, <2>4 DEF NextCall, Calls, MaxBits
  <2>6. Over(NextCall(c)) = Over(c) - 8
    <3>1. NextCall(c).writer.bitIndex = 0 /\ NextCall(c).bits = Over(c)
      BY <2>3 DEF NextCall
    <3>2. Over(NextCall(c)) = NextCall(c).writer.bitIndex + NextCall(c).bits - 8
      BY DEF Over, BitsInByte
    <3>. QED  BY <1>3, <3>1, <3>2
  <2>. QED  BY <2>3, <2>5, <2>6 DEF NextCall
<1>. QED  BY <1>3, <1>4 DEF MaxBits

\* The three cases of writeBits.
LEMMA WritingBitsAt ==
  ASSUME NEW f, NEW c \in Calls
  PROVE  /\ Over(c) < 0 => WritingBits(f)[c] = Pending(c.writer, c.value, c.bits)
         /\ Over(c) = 0 => WritingBits(f)[c] = Pending(FilledBy(c), c.value, c.bits)
         /\ Over(c) > 0 => WritingBits(f)[c] = f[NextCall(c)]
<1>1. Over(c) \in Int
  BY CallsNext
<1>. DEFINE rhs == IF Over(c) < 0 THEN Pending(c.writer, c.value, c.bits)
                   ELSE IF Over(c) = 0 THEN Pending(FilledBy(c), c.value, c.bits)
                   ELSE f[NextCall(c)]
<1>2. WritingBits(f)[c] = rhs
  BY DEF WritingBits
<1>3. Over(c) < 0 => rhs = Pending(c.writer, c.value, c.bits)
  BY <1>1
<1>4. Over(c) = 0 => rhs = Pending(FilledBy(c), c.value, c.bits)
  BY <1>1
<1>5. Over(c) > 0 => rhs = f[NextCall(c)]
  BY <1>1
<1>. HIDE DEF rhs
<1>. QED  BY <1>2, <1>3, <1>4, <1>5

\* A field of nine bits or fewer takes at most three calls, so that the
\* recursion has a solution.
LEMMA WriteBitsExists == \E f : f = WritingBits(f)
<1>. DEFINE f1 == WritingBits(<<>>)
            f2 == WritingBits(f1)
            f3 == WritingBits(f2)
            f4 == WritingBits(f3)
<1>1. ASSUME NEW c \in Calls
      PROVE  f3[c] = f4[c]
  <2>. DEFINE d == NextCall(c)
              e == NextCall(d)
  <2>0. Over(c) \in Int /\ Over(c) <= 9
    BY CallsNext DEF MaxBits
  <2>1. CASE Over(c) > 0
    <3>1. d \in Calls /\ Over(d) = Over(c) - 8
      BY <2>1, CallsNext
    <3>2. f3[c] = f2[d] /\ f4[c] = f3[d]
      BY <2>1, WritingBitsAt
    <3>3. f2[d] = f3[d]
      <4>. HIDE DEF d
      <4>1. CASE Over(d) > 0
        <5>1. e \in Calls /\ Over(e) = Over(d) - 8
          BY <3>1, <4>1, CallsNext
        <5>2. f2[d] = f1[e] /\ f3[d] = f2[e]
          BY <3>1, <4>1, WritingBitsAt
        <5>3. Over(e) < 0
          BY <2>0, <3>1, <5>1
        <5>. HIDE DEF e
        <5>4. f1[e] = f2[e]
          BY <5>1, <5>3, WritingBitsAt
        <5>. QED  BY <5>2, <5>4
      <4>2. CASE Over(d) < 0
        BY <3>1, <4>2, WritingBitsAt
      <4>3. CASE Over(d) = 0
        BY <3>1, <4>3, WritingBitsAt
      <4>. QED  BY <2>0, <3>1, <4>1, <4>2, <4>3
    <3>. QED  BY <3>2, <3>3
  <2>2. CASE Over(c) < 0
    BY <2>2, WritingBitsAt
  <2>3. CASE Over(c) = 0
    BY <2>3, WritingBitsAt
  <2>. QED  BY <2>0, <2>1, <2>2, <2>3
<1>2. ASSUME NEW f
      PROVE  WritingBits(f) = [c \in Calls |-> WritingBits(f)[c]]
  <2>. DEFINE rhs(c) == IF Over(c) < 0 THEN Pending(c.writer, c.value, c.bits)
                        ELSE IF Over(c) = 0 THEN Pending(FilledBy(c), c.value, c.bits)
                        ELSE f[NextCall(c)]
  <2>1. WritingBits(f) = [c \in Calls |-> rhs(c)]
    BY DEF WritingBits
  <2>. HIDE DEF rhs
  <2>. QED  BY <2>1
<1>3. f3 = f4
  <2>1. f3 = [c \in Calls |-> f3[c]] /\ f4 = [c \in Calls |-> f4[c]]
    BY <1>2
  <2>. HIDE DEF f3, f4
  <2>. QED  BY <1>1, <2>1
<1>4. f3 = WritingBits(f3)
  BY <1>3
<1>. HIDE DEF f3
<1>. QED  BY <1>4

\* writeBits solves its recursion, so that the cases above describe it.
LEMMA WriteBitsChosen ==
  \E f : /\ f = WritingBits(f)
         /\ \A w, v, k : WriteBits(w, v, k) = f[[writer |-> w, value |-> v, bits |-> k]]
<1>. DEFINE f == CHOOSE g : g = WritingBits(g)
<1>1. f = WritingBits(f)
  BY WriteBitsExists, Zenon
<1>2. ASSUME NEW w, NEW v, NEW k
      PROVE  WriteBits(w, v, k) = f[[writer |-> w, value |-> v, bits |-> k]]
  BY DEF WriteBits, WritingBits, Calls, Over, FilledBy, NextCall
<1>. HIDE DEF f
<1>. QED  BY <1>1, <1>2

-----------------------------------------------------------------------------
(* Decerealiser::readBitsHelper.                                           *)

\* Its calls: how far the bits reach into the current byte or over it, what a
\* call returns for bits of one byte, and the two calls it makes otherwise.
ReadCalls == [reader : ReaderState, bits : 0..MaxBits]

Reach(c) == c.reader.bitIndex + c.bits

OneByteRead(c) ==
  [value |-> (c.reader.currentByte \div 2^(BitsInByte - Reach(c))) % 2^c.bits,
   reader |-> [c.reader EXCEPT !.bitIndex = Reach(c)]]

FirstCall(c) == [reader |-> c.reader, bits |-> BitsInByte - c.reader.bitIndex]
SecondCall(c, first) ==
  [reader |-> Loaded(first.reader), bits |-> Reach(c) - BitsInByte]

BothReads(c, first, second) ==
  [value |-> first.value * 2^(Reach(c) - BitsInByte) + second.value,
   reader |-> second.reader]

\* The right-hand side of readBitsHelper.
ReadingBits(f) ==
  [c \in ReadCalls |->
     IF Reach(c) > BitsInByte
     THEN BothReads(c, f[FirstCall(c)], f[SecondCall(c, f[FirstCall(c)])])
     ELSE OneByteRead(c)]

\* The first call is for bits of one byte.
Second(c) == SecondCall(c, OneByteRead(FirstCall(c)))

\* What the members of a call are.
LEMMA ReadCallType ==
  ASSUME NEW c \in ReadCalls
  PROVE  /\ c.reader \in ReaderState /\ c.bits \in 0 .. 9
         /\ c.reader.bitIndex \in 0 .. 8 /\ c.reader.currentByte \in Byte
         /\ c.reader.iterator \in Nat \ {0} /\ c.reader.bytes \in Seq(Byte)
         /\ Reach(c) = c.reader.bitIndex + c.bits /\ Reach(c) \in 0 .. 17
<1>1. c.reader \in ReaderState /\ c.bits \in 0 .. 9
  BY DEF ReadCalls, MaxBits
<1>2. /\ c.reader.bitIndex \in 0 .. 8 /\ c.reader.currentByte \in Byte
      /\ c.reader.iterator \in Nat \ {0} /\ c.reader.bytes \in Seq(Byte)
  BY <1>1 DEF ReaderState, BitsInByte
<1>3. Reach(c) = c.reader.bitIndex + c.bits
  BY DEF Reach
<1>4. Reach(c) \in 0 .. 17
  <2>. DEFINE b == c.reader.bitIndex
              k == c.bits
  <2>1. b \in 0 .. 8 /\ k \in 0 .. 9
    BY <1>1, <1>2
  <2>. HIDE DEF b, k
  <2>2. b + k \in 0 .. 17
    BY <2>1
  <2>. QED  BY <1>3, <2>2 DEF b, k
<1>. QED  BY <1>1, <1>2, <1>3, <1>4

\* The reader when the next byte is the current one.
LEMMA LoadedType ==
  ASSUME NEW r \in ReaderState
  PROVE  /\ Loaded(r) \in ReaderState
         /\ Loaded(r) = [bytes |-> r.bytes, iterator |-> r.iterator + 1,
                         currentByte |-> ByteAt(r, r.iterator), bitIndex |-> 0]
<1>. DEFINE i == r.iterator
            b == ByteAt(r, i)
<1>1. r.bytes \in Seq(Byte) /\ i \in Nat \ {0}
  BY DEF ReaderState
<1>2. b \in Byte
  <2>1. CASE i <= Len(r.bytes)
    <3>1. i \in 1 .. Len(r.bytes)
      <4>. HIDE DEF i
      <4>. QED  BY <1>1, <2>1, LenProperties
    <3>2. r.bytes[i] \in Byte
      BY <1>1, <3>1, ElementOfSeq
    <3>. QED  BY <2>1, <3>2 DEF ByteAt
  <2>2. CASE ~ i <= Len(r.bytes)
    BY <2>2 DEF ByteAt, Byte
  <2>. QED  BY <2>1, <2>2
<1>. HIDE DEF b
<1>3. Loaded(r) = [bytes |-> r.bytes, iterator |-> i + 1, currentByte |-> b, bitIndex |-> 0]
  <2>1. Loaded(r) = [r EXCEPT !.currentByte = b, !.iterator = i + 1, !.bitIndex = 0]
    BY DEF Loaded, b
  <2>2. r = [bytes |-> r.bytes, iterator |-> r.iterator, currentByte |-> r.currentByte,
             bitIndex |-> r.bitIndex]
    BY DEF ReaderState
  <2>. HIDE DEF i
  <2>. QED  BY <2>1, <2>2
<1>4. i + 1 \in Nat \ {0}
  <2>. HIDE DEF i
  <2>. QED  BY <1>1
<1>. HIDE DEF i
<1>5. Loaded(r) \in ReaderState
  BY <1>1, <1>2, <1>3, <1>4 DEF ReaderState, BitsInByte
<1>. QED  BY <1>3, <1>5 DEF b, i

\* What is read from one byte fits the bits that are asked for.
LEMMA OneByteReadType ==
  ASSUME NEW c \in ReadCalls, Reach(c) <= 8
  PROVE  /\ OneByteRead(c).reader \in ReaderState
         /\ OneByteRead(c).reader = [bytes |-> c.reader.bytes, iterator |-> c.reader.iterator,
                                     currentByte |-> c.reader.currentByte, bitIndex |-> Reach(c)]
         /\ OneByteRead(c).value \in Nat /\ OneByteRead(c).value < 2^c.bits
<1>1. /\ c.reader \in ReaderState /\ c.bits \in 0 .. 9 /\ Reach(c) \in 0 .. 17
      /\ c.reader.currentByte \in Nat
  <2>1. \A x \in Byte : x \in Nat
    BY DEF Byte
  <2>. QED  BY <2>1, ReadCallType
<1>2. OneByteRead(c).reader = [c.reader EXCEPT !.bitIndex = Reach(c)]
  BY DEF OneByteRead
<1>3. Reach(c) \in 0 .. BitsInByte /\ BitsInByte - Reach(c) \in 0 .. 9
  BY <1>1 DEF BitsInByte
<1>4. OneByteRead(c).reader \in ReaderState
  BY <1>1, <1>2, <1>3 DEF ReaderState
<1>5. OneByteRead(c).reader = [bytes |-> c.reader.bytes, iterator |-> c.reader.iterator,
                               currentByte |-> c.reader.currentByte, bitIndex |-> Reach(c)]
  BY <1>1, <1>2 DEF ReaderState
<1>. DEFINE d == 2^(BitsInByte - Reach(c))
            e == 2^c.bits
            x == c.reader.currentByte \div d
<1>6. d \in Nat \ {0} /\ e \in Nat \ {0}
  BY <1>1, <1>3, Powers
<1>7. x \in Nat
  <2>. HIDE DEF d
  <2>. QED  BY <1>1, <1>6, Quotient
<1>8. x % e \in Nat /\ x % e < e
  <2>. HIDE DEF x, e
  <2>. QED  BY <1>6, <1>7, Quotient
<1>9. OneByteRead(c).value = x % e
  BY DEF OneByteRead
<1>. HIDE DEF x
<1>. QED  BY <1>4, <1>5, <1>8, <1>9

\* The first call of the two is for bits of one byte, and the second one reaches
\* eight bits less far.
LEMMA ReadCallsNext ==
  ASSUME NEW c \in ReadCalls, Reach(c) > 8
  PROVE  /\ FirstCall(c) \in ReadCalls /\ Reach(FirstCall(c)) = 8
         /\ Second(c) \in ReadCalls /\ Reach(Second(c)) = Reach(c) - 8
<1>1. /\ c.reader \in ReaderState /\ c.reader.bitIndex \in 0 .. 8
      /\ Reach(c) = c.reader.bitIndex + c.bits /\ Reach(c) \in 0 .. 17
  BY ReadCallType
<1>2. FirstCall(c) \in ReadCalls /\ Reach(FirstCall(c)) = 8
  <2>. DEFINE b == c.reader.bitIndex
  <2>1. 8 - b \in 0 .. 9 /\ b + (8 - b) = 8
    <3>1. b \in 0 .. 8
      BY <1>1
    <3>. HIDE DEF b
    <3>. QED  BY <3>1
  <2>. QED  BY <1>1, <2>1 DEF FirstCall, ReadCalls, Reach, BitsInByte, MaxBits
<1>. DEFINE r == OneByteRead(FirstCall(c)).reader
<1>3. r \in ReaderState
  <2>1. Reach(FirstCall(c)) <= 8
    BY <1>2
  <2>. QED  BY <1>2, <2>1, OneByteReadType
<1>. HIDE DEF r
<1>4. Loaded(r) \in ReaderState /\ Loaded(r).bitIndex = 0
  BY <1>3, LoadedType
<1>5. Second(c) = [reader |-> Loaded(r), bits |-> Reach(c) - 8]
  BY DEF Second, SecondCall, r, BitsInByte
<1>6. Reach(c) - 8 \in 0 .. 9
  BY <1>1
<1>7. Second(c) \in ReadCalls
  BY <1>4, <1>5, <1>6 DEF ReadCalls, MaxBits
<1>8. Reach(Second(c)) = 0 + (Reach(c) - 8)
  <2>1. Second(c).reader.bitIndex = 0 /\ Second(c).bits = Reach(c) - 8
    BY <1>4, <1>5
  <2>2. Reach(Second(c)) = Second(c).reader.bitIndex + Second(c).bits
    BY <1>7, ReadCallType
  <2>. QED  BY <2>1, <2>2
<1>. QED  BY <1>1, <1>2, <1>7, <1>8

\* The two cases of readBitsHelper.
LEMMA ReadingBitsAt ==
  ASSUME NEW f, NEW c \in ReadCalls
  PROVE  /\ Reach(c) <= 8 => ReadingBits(f)[c] = OneByteRead(c)
         /\ Reach(c) > 8 /\ f[FirstCall(c)] = OneByteRead(FirstCall(c))
              => ReadingBits(f)[c] = BothReads(c, OneByteRead(FirstCall(c)), f[Second(c)])
<1>. DEFINE rhs == IF Reach(c) > 8
                   THEN BothReads(c, f[FirstCall(c)], f[SecondCall(c, f[FirstCall(c)])])
                   ELSE OneByteRead(c)
<1>1. Reach(c) \in Int
  BY ReadCallType
<1>2. ReadingBits(f)[c] = rhs
  BY DEF ReadingBits, BitsInByte
<1>3. Reach(c) <= 8 => rhs = OneByteRead(c)
  BY <1>1
<1>4. Reach(c) > 8 /\ f[FirstCall(c)] = OneByteRead(FirstCall(c))
        => rhs = BothReads(c, OneByteRead(FirstCall(c)), f[Second(c)])
  BY DEF Second
<1>. HIDE DEF rhs
<1>. QED  BY <1>2, <1>3, <1>4

\* A field of up to nine bits reaches over two ends of bytes at most.
LEMMA ReadBitsExists == \E f : f = ReadingBits(f)
<1>. DEFINE f1 == ReadingBits(<<>>)
            f2 == ReadingBits(f1)
            f3 == ReadingBits(f2)
            f4 == ReadingBits(f3)
<1>0. ASSUME NEW f, NEW g, NEW c \in ReadCalls, Reach(c) > 8,
             ReadingBits(f)[Second(c)] = ReadingBits(g)[Second(c)]
      PROVE  ReadingBits(ReadingBits(f))[c] = ReadingBits(ReadingBits(g))[c]
  <2>. DEFINE p == ReadingBits(f)
              q == ReadingBits(g)
              s == Second(c)
              o == OneByteRead(FirstCall(c))
  <2>1. FirstCall(c) \in ReadCalls /\ Reach(FirstCall(c)) <= 8
    BY <1>0, ReadCallsNext
  <2>2. p[FirstCall(c)] = o /\ q[FirstCall(c)] = o
    BY <2>1, ReadingBitsAt
  <2>3. p[s] = q[s]
    BY <1>0
  <2>. HIDE DEF p, q
  <2>4. ReadingBits(p)[c] = BothReads(c, o, p[s]) /\ ReadingBits(q)[c] = BothReads(c, o, q[s])
    BY <1>0, <2>2, ReadingBitsAt
  <2>. QED  BY <2>3, <2>4 DEF p, q
<1>1. ASSUME NEW c \in ReadCalls
      PROVE  f3[c] = f4[c]
  <2>. DEFINE d == Second(c)
              e == Second(d)
  <2>0. Reach(c) \in 0 .. 17
    BY ReadCallType
  <2>1. CASE Reach(c) > 8
    <3>1. d \in ReadCalls /\ Reach(d) = Reach(c) - 8
      BY <2>1, ReadCallsNext
    <3>2. f2[d] = f3[d]
      <4>. HIDE DEF d
      <4>1. CASE Reach(d) > 8
        <5>1. e \in ReadCalls /\ Reach(e) = Reach(d) - 8
          BY <3>1, <4>1, ReadCallsNext
        <5>2. Reach(e) <= 8
          BY <2>0, <3>1, <5>1
        <5>. HIDE DEF e
        <5>3. f1[e] = f2[e]
          BY <5>1, <5>2, ReadingBitsAt
        <5>. QED  BY <1>0, <3>1, <4>1, <5>3 DEF e
      <4>2. CASE Reach(d) <= 8
        BY <3>1, <4>2, ReadingBitsAt
      <4>. QED  BY <2>0, <3>1, <4>1, <4>2
    <3>. QED  BY <1>0, <2>1, <3>2
  <2>2. CASE Reach(c) <= 8
    BY <2>2, ReadingBitsAt
  <2>. QED  BY <2>0, <2>1, <2>2
<1>2. ASSUME NEW f
      PROVE  ReadingBits(f) = [c \in ReadCalls |-> ReadingBits(f)[c]]
  <2>. DEFINE rhs(c) == IF Reach(c) > BitsInByte
                        THEN BothReads(c, f[FirstCall(c)], f[SecondCall(c, f[FirstCall(c)])])
                        ELSE OneByteRead(c)
  <2>1. ReadingBits(f) = [c \in ReadCalls |-> rhs(c)]
    BY DEF ReadingBits
  <2>. HIDE DEF rhs
  <2>. QED  BY <2>1
<1>3. f3 = f4
  <2>1. f3 = [c \in ReadCalls |-> f3[c]] /\ f4 = [c \in ReadCalls |-> f4[c]]
    BY <1>2
  <2>. HIDE DEF f3, f4
  <2>. QED  BY <1>1, <2>1
<1>4. f3 = ReadingBits(f3)
  BY <1>3
<1>. HIDE DEF f3
<1>. QED  BY <1>4

\* readBitsHelper solves its recursion, so that the cases above describe it.
LEMMA ReadBitsChosen ==
  \E f : /\ f = ReadingBits(f)
         /\ \A r, k : ReadBitsHelper(r, k) = f[[reader |-> r, bits |-> k]]
<1>. DEFINE f == CHOOSE g : g = ReadingBits(g)
<1>1. f = ReadingBits(f)
  BY ReadBitsExists, Zenon
<1>2. ASSUME NEW r, NEW k
      PROVE  ReadBitsHelper(r, k) = f[[reader |-> r, bits |-> k]]
  BY DEF ReadBitsHelper, ReadingBits, ReadCalls, Reach, OneByteRead, FirstCall, SecondCall,
         BothReads
<1>. HIDE DEF f
<1>. QED  BY <1>1, <1>2

-----------------------------------------------------------------------------
(* The bits of numbers, and of numbers one after another.                  *)

BitSeq == Seq({0, 1})

\* The bits of a number are as many as asked for.
LEMMA BitsType ==
  ASSUME NEW v \in Nat, NEW n \in 0 .. 9
  PROVE  Bits(v, n) \in BitSeq /\ Len(Bits(v, n)) = n
<1>1. ASSUME NEW i \in 1 .. n
      PROVE  (v \div 2^(n - i)) % 2 \in {0, 1}
  <2>1. n - i \in 0 .. 9
    OBVIOUS
  <2>2. 2^(n - i) \in Nat \ {0}
    BY <2>1, Powers
  <2>. DEFINE w == v \div 2^(n - i)
  <2>3. w \in Nat
    BY <2>2, Quotient
  <2>. HIDE DEF w
  <2>4. w % 2 \in {0, 1}
    BY <2>3
  <2>. QED  BY <2>4 DEF w
<1>. DEFINE b(i) == (v \div 2^(n - i)) % 2
<1>2. Bits(v, n) = [i \in 1 .. n |-> b(i)]
  BY DEF Bits
<1>3. \A i \in 1 .. n : b(i) \in {0, 1}
  BY <1>1
<1>. HIDE DEF b
<1>. QED  BY <1>2, <1>3 DEF BitSeq

\* Of no bits there are none.
LEMMA NoBits ==
  ASSUME NEW v PROVE Bits(v, 0) = <<>>
BY DEF Bits

\* The bits of a number put together from two.
LEMMA BitsJoin ==
  ASSUME NEW n \in 0 .. 9, NEW m \in 0 .. 9, n + m <= 9,
         NEW x \in Nat, NEW y \in Nat, y < 2^m
  PROVE  Bits(x * 2^m + y, n + m) = Bits(x, n) \o Bits(y, m)
<1>. DEFINE v == x * 2^m + y
<1>0. 2^m \in Nat \ {0} /\ v \in Nat /\ n + m \in 0 .. 9
  <2>1. 2^m \in Nat \ {0}
    BY Powers
  <2>. QED  BY <2>1
<1>1. ASSUME NEW i \in 1 .. n
      PROVE  v \div 2^(n + m - i) = x \div 2^(n - i)
  <2>1. n - i \in 0 .. 9 /\ m \in 0 .. 8 /\ m + (n - i) = n + m - i
    OBVIOUS
  <2>2. 2^(n + m - i) = 2^m * 2^(n - i) /\ 2^(n - i) \in Nat \ {0}
    BY <2>1, PowerSum, Powers
  <2>3. v \div 2^m = x
    <3>1. v \div 2^m = x + (y \div 2^m)
      BY <1>0, QuotientOfSum
    <3>2. y \div 2^m = 0
      BY <1>0, Quotient
    <3>. QED  BY <3>1, <3>2
  <2>. HIDE DEF v
  <2>4. (v \div 2^m) \div 2^(n - i) = v \div (2^m * 2^(n - i))
    BY <1>0, <2>2, QuotientOfQuotient
  <2>. QED  BY <2>2, <2>3, <2>4
<1>2. ASSUME NEW j \in 1 .. m
      PROVE  (v \div 2^(m - j)) % 2 = (y \div 2^(m - j)) % 2
  <2>1. m - j \in 0 .. 8 /\ j \in 0 .. 9 /\ j - 1 \in 0 .. 17 /\ j - 1 \in 0 .. 9
        /\ m - j \in 0 .. 9 /\ (m - j) + j = m /\ (j - 1) + 1 = j
    OBVIOUS
  <2>. DEFINE d == 2^(m - j)
              e == 2^(j - 1)
  <2>2. 2^m = d * 2^j /\ 2^j = 2 * e /\ d \in Nat \ {0} /\ e \in Nat
    <3>1. 2^((m - j) + j) = 2^(m - j) * 2^j
      BY <2>1, PowerSum
    <3>2. 2^((j - 1) + 1) = 2 * 2^(j - 1)
      BY <2>1, Powers
    <3>3. d \in Nat \ {0} /\ e \in Nat
      BY <2>1, Powers
    <3>. QED  BY <2>1, <3>1, <3>2, <3>3
  <2>. HIDE DEF d, e
  <2>3. v = (2 * (x * e)) * d + y /\ x * e \in Nat
    <3>1. x * (d * (2 * e)) = (2 * (x * e)) * d /\ x * e \in Nat
      BY <2>2
    <3>. QED  BY <2>2, <3>1
  <2>. HIDE DEF v
  <2>4. v \div d = 2 * (x * e) + (y \div d) /\ y \div d \in Nat
    <3>. DEFINE c == 2 * (x * e)
    <3>1. c \in Nat /\ v = c * d + y
      BY <2>3
    <3>. HIDE DEF c
    <3>2. v \div d = c + (y \div d) /\ y \div d \in Nat
      BY <2>2, <3>1, QuotientOfSum, Quotient
    <3>. QED  BY <3>2 DEF c
  <2>. DEFINE w == y \div d
              z == x * e
  <2>5. w \in Nat /\ z \in Nat /\ v \div d = 2 * z + w
    BY <2>3, <2>4
  <2>. HIDE DEF w, z
  <2>6. (v \div d) % 2 = w % 2
    BY <2>5
  <2>. QED  BY <2>6 DEF w, d
<1>. DEFINE l == Bits(v, n + m)
            a == Bits(x, n)
            b == Bits(y, m)
<1>3. /\ l \in BitSeq /\ Len(l) = n + m
      /\ a \in BitSeq /\ Len(a) = n
      /\ b \in BitSeq /\ Len(b) = m
  BY <1>0, BitsType
<1>4. ASSUME NEW i \in 1 .. n
      PROVE  l[i] = a[i]
  <2>1. i \in 1 .. n + m
    OBVIOUS
  <2>2. l[i] = (v \div 2^(n + m - i)) % 2
    BY <2>1 DEF Bits
  <2>3. a[i] = (x \div 2^(n - i)) % 2
    BY DEF Bits
  <2>. QED  BY <1>1, <2>2, <2>3
<1>5. ASSUME NEW j \in 1 .. m
      PROVE  l[n + j] = b[j]
  <2>1. n + j \in 1 .. n + m /\ n + m - (n + j) = m - j
    OBVIOUS
  <2>2. l[n + j] = (v \div 2^(n + m - (n + j))) % 2
    BY <2>1 DEF Bits
  <2>3. b[j] = (y \div 2^(m - j)) % 2
    BY DEF Bits
  <2>. QED  BY <1>2, <2>1, <2>2, <2>3
<1>. HIDE DEF l, a, b, v
<1>6. a \o b \in BitSeq /\ Len(a \o b) = n + m
      /\ \A i \in 1 .. n + m : (a \o b)[i] = IF i <= n THEN a[i] ELSE b[i - n]
  BY <1>3, ConcatProperties DEF BitSeq
<1>7. ASSUME NEW i \in 1 .. n + m
      PROVE  l[i] = (a \o b)[i]
  <2>1. CASE i <= n
    <3>1. i \in 1 .. n
      BY <2>1
    <3>2. l[i] = a[i]
      BY <1>4, <3>1
    <3>3. (a \o b)[i] = a[i]
      BY <1>6, <2>1
    <3>. QED  BY <3>2, <3>3
  <2>2. CASE i > n
    <3>. DEFINE j == i - n
    <3>1. j \in 1 .. m /\ i = n + j
      BY <2>2
    <3>. HIDE DEF j
    <3>2. i - n = j /\ ~ i <= n
      BY <2>2, <3>1
    <3>3. (a \o b)[i] = b[j]
      BY <1>6, <3>2
    <3>4. l[n + j] = b[j]
      BY <1>5, <3>1
    <3>5. l[i] = l[n + j]
      BY <3>1
    <3>. QED  BY <3>3, <3>4, <3>5
  <2>3. i <= n \/ i > n
    OBVIOUS
  <2>. QED  BY <2>1, <2>2, <2>3
<1>8. l = a \o b
  BY <1>3, <1>6, <1>7, SeqEqual DEF BitSeq
<1>. QED  BY <1>8 DEF l, a, b, v

\* A number taken apart into its high bits and its low ones.
LEMMA BitsSplit ==
  ASSUME NEW n \in 0 .. 9, NEW m \in 0 .. 9, n + m <= 9, NEW v \in Nat
  PROVE  Bits(v, n + m) = Bits(v \div 2^m, n) \o Bits(v % 2^m, m)
<1>1. 2^m \in Nat \ {0}
  BY Powers
<1>2. v \div 2^m \in Nat /\ v % 2^m \in Nat /\ v % 2^m < 2^m
      /\ v = (v \div 2^m) * 2^m + (v % 2^m)
  BY <1>1, Quotient
<1>. DEFINE x == v \div 2^m
            y == v % 2^m
<1>. HIDE DEF x, y
<1>3. Bits(x * 2^m + y, n + m) = Bits(x, n) \o Bits(y, m)
  BY <1>2, BitsJoin DEF x, y
<1>. QED  BY <1>2, <1>3 DEF x, y

\* The bits that are taken from the middle of a byte.
LEMMA PieceOfByte ==
  ASSUME NEW c \in Byte, NEW b \in Nat, NEW k \in Nat, b + k <= BitsInByte
  PROVE  Bits((c \div 2^(BitsInByte - (b + k))) % 2^k, k) =
           SubSeq(Bits(c, BitsInByte), b + 1, b + k)
<1>. DEFINE m == BitsInByte - (b + k)
            x == c \div 2^m
            y == x % 2^k
<1>1. /\ m \in 0 .. 9 /\ b + k \in 0 .. 9 /\ (b + k) + m = 8 /\ (b + k) + m <= 9
      /\ b \in 0 .. 9 /\ k \in 0 .. 9 /\ b + k <= 9 /\ c \in Nat /\ BitsInByte = 8
  BY DEF BitsInByte, Byte
<1>2. 2^m \in Nat \ {0} /\ 2^k \in Nat \ {0}
  BY <1>1, Powers
<1>. HIDE DEF m
<1>3. x \in Nat /\ c % 2^m \in Nat
  BY <1>1, <1>2, Quotient
<1>. HIDE DEF x
<1>4. y \in Nat /\ x \div 2^k \in Nat
  BY <1>2, <1>3, Quotient
<1>. DEFINE u == Bits(x \div 2^k, b)
            v == Bits(y, k)
            z == Bits(c % 2^m, m)
<1>5. Bits(c, (b + k) + m) = Bits(x, b + k) \o z
  BY <1>1, BitsSplit DEF x
<1>6. Bits(x, b + k) = u \o v
  BY <1>1, <1>3, BitsSplit
<1>7. u \in BitSeq /\ Len(u) = b /\ v \in BitSeq /\ Len(v) = k /\ z \in BitSeq /\ Len(z) = m
  BY <1>1, <1>3, <1>4, BitsType
<1>8. Bits(c, 8) = (u \o v) \o z
  BY <1>1, <1>5, <1>6
<1>. HIDE DEF u, v, z, y
<1>9. u \o v \in BitSeq /\ Len(u \o v) = b + k
  BY <1>7, ConcatProperties DEF BitSeq
<1>10. SubSeq((u \o v) \o z, b + 1, b + k) = SubSeq(u \o v, b + 1, b + k)
  <2>. DEFINE e == b + k
              s == u \o v
  <2>1. s \in Seq({0, 1}) /\ z \in Seq({0, 1}) /\ e \in Nat /\ b <= e /\ e <= Len(s)
    BY <1>1, <1>7, <1>9 DEF BitSeq
  <2>. HIDE DEF e, s
  <2>2. SubSeq(s \o z, b + 1, e) = SubSeq(s, b + 1, e)
    BY <2>1, PieceOfConcat
  <2>. QED  BY <2>2 DEF e, s
<1>11. SubSeq(u \o v, b + 1, b + k) = v
  BY <1>7, PieceAppended DEF BitSeq
<1>12. Bits(c, 8) = (u \o v) \o z => SubSeq(Bits(c, 8), b + 1, b + k) = v
  BY <1>10, <1>11
<1>. QED  BY <1>1, <1>8, <1>12 DEF v, y, x, m

-----------------------------------------------------------------------------

IsFields(F) == \A f \in F : f.value \in Nat /\ f.bits \in 0 .. 9

\* Nothing has no bits.
LEMMA BitsOfEmpty == BitsOf(<<>>) = <<>> /\ BitsOfBytes(<<>>) = <<>>
<1>1. [i \in 1 .. Len(<<>>) |-> Bits(<<>>[i].value, <<>>[i].bits)] = <<>>
  OBVIOUS
<1>2. [i \in 1 .. Len(<<>>) |-> Bits(<<>>[i], BitsInByte)] = <<>>
  OBVIOUS
<1>. QED  BY <1>1, <1>2, FlattenEmpty DEF BitsOf, BitsOfBytes

Maps(G, F, X) == G \in [F -> X]
Mapped(G, s) == [i \in 1 .. Len(s) |-> G[s[i]]]

\* The images of one element more.
LEMMA MappedAppend ==
  ASSUME NEW X, NEW F, NEW G, Maps(G, F, X), NEW s \in Seq(F), NEW x \in F
  PROVE  /\ Mapped(G, s) \in Seq(X)
         /\ Mapped(G, Append(s, x)) = Append(Mapped(G, s), G[x])
<1>. DEFINE t == Append(s, x)
            g == Mapped(G, s)
            h == Append(g, G[x])
<1>1. /\ t \in Seq(F) /\ Len(t) = Len(s) + 1 /\ t[Len(s) + 1] = x
      /\ \A i \in 1 .. Len(s) : t[i] = s[i]
      /\ Len(s) \in Nat /\ \A i \in 1 .. Len(s) : s[i] \in F
  BY AppendProperties, LenProperties, ElementOfSeq
<1>. HIDE DEF t
<1>2. g \in Seq(X) /\ Len(g) = Len(s) /\ G[x] \in X
  BY <1>1 DEF Mapped, Maps
<1>3. /\ h \in Seq(X) /\ Len(h) = Len(s) + 1 /\ h[Len(s) + 1] = G[x]
      /\ \A i \in 1 .. Len(s) : h[i] = g[i]
  BY <1>2, AppendProperties
<1>4. Mapped(G, t) = h
  <2>1. \A i \in 1 .. Len(s) : g[i] = G[s[i]]
    BY DEF Mapped
  <2>. HIDE DEF h, g
  <2>2. ASSUME NEW i \in 1 .. Len(s) + 1
        PROVE  h[i] = G[t[i]]
    <3>1. CASE i = Len(s) + 1
      BY <1>1, <1>3, <3>1
    <3>2. CASE i # Len(s) + 1
      <4>1. i \in 1 .. Len(s)
        BY <1>1, <3>2
      <4>. QED  BY <1>1, <1>3, <2>1, <4>1
    <3>. QED  BY <3>1, <3>2
  <2>3. h = [i \in 1 .. Len(s) + 1 |-> h[i]]
    BY <1>3, LenProperties
  <2>. QED  BY <1>1, <2>2, <2>3 DEF Mapped
<1>. QED  BY <1>2, <1>4 DEF t

\* One element more adds its image behind the others.
LEMMA FlattenMapped ==
  ASSUME NEW F, NEW G, Maps(G, F, BitSeq), NEW s \in Seq(F), NEW x \in F
  PROVE  LET u == FlattenSeq(Mapped(G, s))
             v == FlattenSeq(Mapped(G, Append(s, x)))
         IN  u \in BitSeq /\ v = u \o G[x] /\ Len(v) = Len(u) + Len(G[x])
<1>. DEFINE u == FlattenSeq(Mapped(G, s))
            v == FlattenSeq(Mapped(G, Append(s, x)))
<1>1. Mapped(G, s) \in Seq(BitSeq) /\ Mapped(G, Append(s, x)) = Append(Mapped(G, s), G[x])
  BY MappedAppend
<1>2. u \in BitSeq
  BY <1>1, FlattenType DEF BitSeq
<1>3. G[x] \in BitSeq
  BY DEF Maps
<1>4. v = u \o G[x]
  <2>. DEFINE g == Mapped(G, s)
              y == G[x]
  <2>1. g \in Seq(Seq({0, 1})) /\ y \in Seq({0, 1})
    BY <1>1, <1>3 DEF BitSeq
  <2>. HIDE DEF g, y
  <2>2. FlattenSeq(Append(g, y)) = FlattenSeq(g) \o y
    BY <2>1, FlattenAppend
  <2>. QED  BY <1>1, <2>2 DEF g, y
<1>. HIDE DEF u, v
<1>5. Len(u \o G[x]) = Len(u) + Len(G[x])
  BY <1>2, <1>3, ConcatProperties DEF BitSeq
<1>. QED  BY <1>2, <1>4, <1>5 DEF u, v

\* A field more adds its bits behind those of the others.
LEMMA BitsOfAppend ==
  ASSUME NEW F, IsFields(F), NEW s \in Seq(F), NEW f \in F
  PROVE  /\ BitsOf(s) \in BitSeq
         /\ BitsOf(Append(s, f)) = BitsOf(s) \o Bits(f.value, f.bits)
         /\ Len(BitsOf(Append(s, f))) = Len(BitsOf(s)) + f.bits
<1>. DEFINE G == [x \in F |-> Bits(x.value, x.bits)]
            Flat(t) == FlattenSeq(Mapped(G, t))
<1>1. \A x \in F : Bits(x.value, x.bits) \in BitSeq /\ Len(Bits(x.value, x.bits)) = x.bits
  BY BitsType DEF IsFields
<1>2. Maps(G, F, BitSeq)
  BY <1>1 DEF Maps
<1>3. ASSUME NEW t \in Seq(F)
      PROVE  BitsOf(t) = Flat(t)
  <2>1. \A i \in 1 .. Len(t) : G[t[i]] = Bits(t[i].value, t[i].bits)
    BY ElementOfSeq
  <2>. HIDE DEF G
  <2>. QED  BY <2>1 DEF BitsOf, Mapped
<1>4. G[f] = Bits(f.value, f.bits) /\ Len(G[f]) = f.bits /\ Append(s, f) \in Seq(F)
  BY <1>1, AppendProperties
<1>. HIDE DEF G
<1>5. /\ Flat(s) \in BitSeq /\ Flat(Append(s, f)) = Flat(s) \o G[f]
      /\ Len(Flat(Append(s, f))) = Len(Flat(s)) + Len(G[f])
  BY <1>2, FlattenMapped
<1>. HIDE DEF Flat
<1>. QED  BY <1>3, <1>4, <1>5

\* The bytes are fields of eight bits.
LEMMA BytesAppend ==
  ASSUME NEW s \in Seq(Byte), NEW c \in Byte
  PROVE  /\ BitsOfBytes(s) \in BitSeq
         /\ BitsOfBytes(Append(s, c)) = BitsOfBytes(s) \o Bits(c, BitsInByte)
         /\ Len(BitsOfBytes(Append(s, c))) = Len(BitsOfBytes(s)) + BitsInByte
<1>. DEFINE G == [x \in Byte |-> Bits(x, BitsInByte)]
            Flat(t) == FlattenSeq(Mapped(G, t))
<1>1. \A x \in Byte : Bits(x, BitsInByte) \in BitSeq /\ Len(Bits(x, BitsInByte)) = BitsInByte
  <2>1. \A x \in Byte : x \in Nat
    BY DEF Byte
  <2>2. BitsInByte \in 0 .. 9
    BY DEF BitsInByte
  <2>. QED  BY <2>1, <2>2, BitsType
<1>2. Maps(G, Byte, BitSeq)
  BY <1>1 DEF Maps
<1>3. ASSUME NEW t \in Seq(Byte)
      PROVE  BitsOfBytes(t) = Flat(t)
  <2>1. \A i \in 1 .. Len(t) : G[t[i]] = Bits(t[i], BitsInByte)
    BY ElementOfSeq
  <2>. HIDE DEF G
  <2>. QED  BY <2>1 DEF BitsOfBytes, Mapped
<1>4. G[c] = Bits(c, BitsInByte) /\ Len(G[c]) = BitsInByte /\ Append(s, c) \in Seq(Byte)
  BY <1>1, AppendProperties
<1>. HIDE DEF G
<1>5. /\ Flat(s) \in BitSeq /\ Flat(Append(s, c)) = Flat(s) \o G[c]
      /\ Len(Flat(Append(s, c))) = Len(Flat(s)) + Len(G[c])
  BY <1>2, FlattenMapped
<1>. HIDE DEF Flat
<1>. QED  BY <1>3, <1>4, <1>5

\* Where the bits of a byte are.
LEMMA BytesLength ==
  \A s \in Seq(Byte) : BitsOfBytes(s) \in BitSeq /\ Len(BitsOfBytes(s)) = BitsInByte * Len(s)
<1>. DEFINE P == {s \in Seq(Byte) :
                    BitsOfBytes(s) \in BitSeq /\ Len(BitsOfBytes(s)) = BitsInByte * Len(s)}
<1>1. <<>> \in P
  <2>1. <<>> \in Seq(Byte) /\ Len(<<>>) = 0 /\ <<>> \in BitSeq /\ BitsInByte * 0 = 0
    BY DEF BitSeq, BitsInByte
  <2>. QED  BY <2>1, BitsOfEmpty
<1>2. ASSUME NEW s \in Seq(Byte), NEW c \in Byte, s \in P
      PROVE  Append(s, c) \in P
  <2>1. Append(s, c) \in Seq(Byte) /\ Len(Append(s, c)) = Len(s) + 1 /\ Len(s) \in Nat
    BY AppendProperties
  <2>2. Len(BitsOfBytes(Append(s, c))) = BitsInByte * Len(s) + BitsInByte
    <3>1. Len(BitsOfBytes(Append(s, c))) = Len(BitsOfBytes(s)) + BitsInByte
      BY BytesAppend
    <3>2. Len(BitsOfBytes(s)) = BitsInByte * Len(s)
      BY <1>2
    <3>. QED  BY <3>1, <3>2
  <2>3. BitsInByte * Len(s) + BitsInByte = BitsInByte * (Len(s) + 1)
    BY <2>1 DEF BitsInByte
  <2>4. BitsOfBytes(Append(s, c)) \in BitSeq
    BY <2>1, BytesAppend
  <2>. QED  BY <2>1, <2>2, <2>3, <2>4
<1>3. \A s \in Seq(Byte) : s \in P
  <2>. HIDE DEF P
  <2>. QED  BY <1>1, <1>2, SeqInduction
<1>. QED  BY <1>3

\* Byte n has its bits behind those of the n - 1 before.
LEMMA ByteAmongBits ==
  \A s \in Seq(Byte) : \A n \in 1 .. Len(s) :
    SubSeq(BitsOfBytes(s), BitsInByte * (n - 1) + 1, BitsInByte * n) = Bits(s[n], BitsInByte)
<1>. DEFINE Right(s, n) ==
              SubSeq(BitsOfBytes(s), BitsInByte * (n - 1) + 1, BitsInByte * n)
                = Bits(s[n], BitsInByte)
            P == {s \in Seq(Byte) : \A n \in 1 .. Len(s) : Right(s, n)}
<1>1. <<>> \in P
  OBVIOUS
<1>2. ASSUME NEW s \in Seq(Byte), NEW c \in Byte, s \in P
      PROVE  Append(s, c) \in P
  <2>. DEFINE t == Append(s, c)
              B == BitsOfBytes(s)
              C == Bits(c, BitsInByte)
  <2>1. /\ t \in Seq(Byte) /\ Len(t) = Len(s) + 1 /\ t[Len(s) + 1] = c
        /\ \A i \in 1 .. Len(s) : t[i] = s[i]
        /\ Len(s) \in Nat
    BY AppendProperties
  <2>2. /\ B \in Seq({0, 1}) /\ Len(B) = BitsInByte * Len(s)
        /\ C \in Seq({0, 1}) /\ Len(C) = BitsInByte
    <3>1. c \in Nat /\ BitsInByte \in 0 .. 9
      BY DEF Byte, BitsInByte
    <3>. QED  BY <3>1, BytesLength, BitsType DEF BitSeq
  <2>3. BitsOfBytes(t) = B \o C
    BY BytesAppend
  <2>. HIDE DEF t, B, C
  <2>4. ASSUME NEW n \in 1 .. Len(s)
        PROVE  Right(t, n)
    <3>. DEFINE a == BitsInByte * (n - 1)
                b == BitsInByte * n
    <3>1. a \in Nat /\ b \in Nat /\ a <= b /\ b <= Len(B)
      BY <2>1, <2>2 DEF BitsInByte
    <3>. HIDE DEF a, b
    <3>2. SubSeq(B \o C, a + 1, b) = SubSeq(B, a + 1, b)
      BY <2>2, <3>1, PieceOfConcat
    <3>3. SubSeq(B, a + 1, b) = Bits(s[n], BitsInByte)
      <4>1. Right(s, n)
        BY <1>2
      <4>. QED  BY <4>1 DEF a, b, B
    <3>. QED  BY <2>1, <2>3, <3>2, <3>3 DEF a, b
  <2>5. Right(t, Len(s) + 1)
    <3>1. SubSeq(B \o C, Len(B) + 1, Len(B) + Len(C)) = C
      BY <2>2, PieceAppended
    <3>2. BitsInByte * ((Len(s) + 1) - 1) = Len(B)
          /\ BitsInByte * (Len(s) + 1) = Len(B) + Len(C)
      BY <2>1, <2>2 DEF BitsInByte
    <3>. QED  BY <2>1, <2>3, <3>1, <3>2 DEF C
  <2>6. \A n \in 1 .. Len(t) : n \in 1 .. Len(s) \/ n = Len(s) + 1
    BY <2>1
  <2>7. \A n \in 1 .. Len(t) : Right(t, n)
    <3>. HIDE DEF Right
    <3>. QED  BY <2>4, <2>5, <2>6
  <2>. QED  BY <2>1, <2>7 DEF t
<1>3. \A s \in Seq(Byte) : s \in P
  <2>. HIDE DEF P
  <2>. QED  BY <1>1, <1>2, SeqInduction
<1>. QED  BY <1>3

-----------------------------------------------------------------------------
(* The current byte.                                                       *)

\* _currentByte |= value << n: as the bits that are not written yet are zero, it
\* puts the bits of value behind the b bits the byte has.
LEMMA OrRight ==
  ASSUME NEW c \in Byte, NEW b \in 0 .. 8, NEW k \in 0 .. 8, b + k <= 8,
         c % 2^(8 - b) = 0, NEW v \in Nat, v < 2^k
  PROVE  LET m == 8 - (b + k)
             n == c | (v * 2^m)
         IN  /\ n \in Byte /\ n % 2^m = 0
             /\ Bits(n \div 2^m, b + k) = Bits(c \div 2^(8 - b), b) \o Bits(v, k)
<1>. DEFINE m == 8 - (b + k)
            d == 2^(8 - b)
            e == 2^m
            f == 2^k
            p == c \div d
            y == v * e
<1>1. /\ m \in 0 .. 8 /\ m \in 0 .. 9 /\ 8 - b \in 0 .. 9 /\ 8 - b \in 0 .. 8 /\ k \in 0 .. 9
      /\ b \in 0 .. 9 /\ b + k <= 9 /\ k + m = 8 - b /\ b + (8 - b) = 8
  OBVIOUS
<1>2. d = f * e /\ 2^b * d = 256
  <2>1. 2^(k + m) = 2^k * 2^m
    BY <1>1, PowerSum
  <2>2. 2^(b + (8 - b)) = 2^b * 2^(8 - b)
    BY <1>1, PowerSum
  <2>3. 2^8 = 256
    OBVIOUS
  <2>. QED  BY <1>1, <2>1, <2>2, <2>3
<1>3. d \in Nat \ {0} /\ e \in Nat \ {0} /\ f \in Nat \ {0} /\ 2^b \in Nat \ {0}
  BY <1>1, Powers
<1>4. c \in Nat /\ c <= 255
  BY DEF Byte
<1>. HIDE DEF m
<1>5. c % d = 0 /\ v < f
  OBVIOUS
<1>. HIDE DEF d, e, f
<1>6. p \in Nat /\ c = p * d
  <2>1. p \in Nat /\ c = p * d + (c % d)
    BY <1>3, <1>4, Quotient
  <2>. HIDE DEF p
  <2>2. p * d \in Nat
    BY <1>3, <2>1
  <2>. QED  BY <1>5, <2>1, <2>2
<1>. HIDE DEF p
<1>7. y \in Nat /\ y < d
  BY <1>2, <1>3, <1>5
<1>. HIDE DEF y
<1>8. c + d <= 256
  <2>1. p < 2^b
    BY <1>2, <1>3, <1>4, <1>6
  <2>. DEFINE q == 2^b
  <2>2. q \in Nat /\ p + 1 <= q /\ q * d = 256
    BY <1>2, <1>3, <1>6, <2>1
  <2>. HIDE DEF q
  <2>3. (p + 1) * d <= q * d
    BY <1>3, <1>6, <2>2
  <2>4. (p + 1) * d = p * d + d
    BY <1>3, <1>6
  <2>. QED  BY <1>6, <2>2, <2>3, <2>4
<1>9. y \in Byte /\ c + y \in Byte
  BY <1>4, <1>7, <1>8, <1>3 DEF Byte
<1>10. (c | y) = c + y
  BY <1>1, <1>5, <1>7, <1>9, OrAdds DEF d
<1>11. c + y = (p * f + v) * e
  <2>1. p * (f * e) + v * e = (p * f + v) * e
    BY <1>3, <1>6
  <2>. QED  BY <1>2, <1>6, <2>1 DEF y
<1>12. p * f + v \in Nat
  BY <1>3, <1>6
<1>. DEFINE x == p * f + v
<1>13. x \in Nat /\ c + y = x * e /\ x * e \in Nat
  <2>1. x \in Nat
    BY <1>12
  <2>. HIDE DEF x
  <2>2. x * e \in Nat
    BY <1>3, <2>1
  <2>. QED  BY <1>11, <2>1, <2>2 DEF x
<1>14. Bits(x, b + k) = Bits(p, b) \o Bits(v, k)
  <2>1. v < 2^k
    OBVIOUS
  <2>2. Bits(p * 2^k + v, b + k) = Bits(p, b) \o Bits(v, k)
    BY <1>1, <1>6, <2>1, BitsJoin
  <2>. QED  BY <2>2 DEF f
<1>. HIDE DEF x
<1>15. (c + y) \div e = x /\ (c + y) % e = 0
  BY <1>3, <1>13
<1>. QED  BY <1>9, <1>10, <1>14, <1>15 DEF m, e, y, p, d

-----------------------------------------------------------------------------
(* Cerealiser::writeBits.                                                  *)

\* The bits that are not written yet, and a writer all of whose other bits of
\* the current byte are zero.
Rest(w) == Bits(w.currentByte \div 2^(BitsInByte - w.bitIndex), w.bitIndex)

WriterOK(w) == w \in Writer /\ w.currentByte % 2^(BitsInByte - w.bitIndex) = 0

\* As many bits wait to be written as bitIndex says.
LEMMA RestType ==
  ASSUME NEW w, WriterOK(w)
  PROVE  Rest(w) \in BitSeq /\ Len(Rest(w)) = w.bitIndex
<1>1. /\ BitsInByte - w.bitIndex \in 0 .. 9 /\ w.bitIndex \in 0 .. 9
      /\ w.currentByte \in Nat
  <2>1. w.bitIndex \in 0 .. BitsInByte /\ w.currentByte \in Byte
    BY DEF WriterOK, Writer
  <2>. QED  BY <2>1 DEF BitsInByte, Byte
<1>2. 2^(BitsInByte - w.bitIndex) \in Nat \ {0}
  BY <1>1, Powers
<1>. DEFINE x == w.currentByte \div 2^(BitsInByte - w.bitIndex)
<1>3. x \in Nat
  BY <1>1, <1>2, Quotient
<1>. HIDE DEF x
<1>4. Bits(x, w.bitIndex) \in BitSeq /\ Len(Bits(x, w.bitIndex)) = w.bitIndex
  BY <1>1, <1>3, BitsType
<1>. QED  BY <1>4 DEF Rest, x

\* The end of writeBits: the bits wait behind those that do.
LEMMA PendingRight ==
  ASSUME NEW w, WriterOK(w), NEW k \in 0 .. 8, w.bitIndex + k <= 8,
         NEW v \in Nat, v < 2^k
  PROVE  /\ WriterOK(Pending(w, v, k))
         /\ Pending(w, v, k).bytes = w.bytes
         /\ Pending(w, v, k).bitIndex = w.bitIndex + k
         /\ Rest(Pending(w, v, k)) = Rest(w) \o Bits(v, k)
<1>. DEFINE b == w.bitIndex
            c == w.currentByte
            m == 8 - (b + k)
            n == c | (v * 2^m)
            new == Pending(w, v, k)
<1>1. w \in Writer /\ b \in 0 .. 8 /\ c \in Byte /\ c % 2^(8 - b) = 0 /\ w.bytes \in Seq(Byte)
  BY DEF WriterOK, Writer, BitsInByte
<1>2. /\ n \in Byte /\ n % 2^m = 0
      /\ Bits(n \div 2^m, b + k) = Bits(c \div 2^(8 - b), b) \o Bits(v, k)
  BY <1>1, OrRight
<1>3. 8 - k - b = m
  <2>1. b \in Int /\ k \in Int
    BY <1>1
  <2>. HIDE DEF b
  <2>. QED  BY <2>1
<1>4. new = [w EXCEPT !.currentByte = c | (v * 2^(8 - k - b)), !.bitIndex = b + k]
  BY DEF Pending, BitsInByte
<1>5. new = [bytes |-> w.bytes, currentByte |-> n, bitIndex |-> b + k]
  <2>. HIDE DEF n, m
  <2>1. c | (v * 2^(8 - k - b)) = n
    BY <1>3 DEF n
  <2>. QED  BY <1>1, <1>4, <2>1 DEF Writer
<1>. HIDE DEF new, n
<1>6. new \in Writer
  <2>1. w.bytes \in Seq(Byte) /\ n \in Byte
    BY <1>1, <1>2 DEF n
  <2>2. b + k \in 0 .. BitsInByte
    <3>1. b \in 0 .. 8 /\ k \in 0 .. 8 /\ b + k <= 8
      BY <1>1
    <3>. HIDE DEF b
    <3>. QED  BY <3>1 DEF BitsInByte
  <2>. HIDE DEF b
  <2>. QED  BY <1>5, <2>1, <2>2 DEF Writer
<1>. QED  BY <1>2, <1>5, <1>6 DEF WriterOK, Rest, new, n, BitsInByte

\* The byte that is completed has the bits that waited and the new ones.
LEMMA FilledRight ==
  ASSUME NEW w, WriterOK(w), NEW y \in Nat, y < 2^(8 - w.bitIndex)
  PROVE  /\ WriterOK(Filled(w, y)) /\ Filled(w, y).bitIndex = 0
         /\ Rest(Filled(w, y)) = <<>>
         /\ BitsOfBytes(Filled(w, y).bytes) =
              BitsOfBytes(w.bytes) \o (Rest(w) \o Bits(y, 8 - w.bitIndex))
<1>. DEFINE b == w.bitIndex
            c == w.currentByte
            k == 8 - b
            n == c | y
            new == Filled(w, y)
<1>1. w \in Writer /\ b \in 0 .. 8 /\ c \in Byte /\ c % 2^(8 - b) = 0 /\ w.bytes \in Seq(Byte)
  BY DEF WriterOK, Writer, BitsInByte
<1>2. /\ n \in Byte
      /\ Bits(n, 8) = Bits(c \div 2^(8 - b), b) \o Bits(y, k)
  <2>. DEFINE m == 8 - (b + k)
              i == c | (y * 2^m)
  <2>1. k \in 0 .. 8 /\ b + k <= 8 /\ y < 2^k
    BY <1>1
  <2>2. /\ i \in Byte
        /\ Bits(i \div 2^m, b + k) = Bits(c \div 2^(8 - b), b) \o Bits(y, k)
    <3>. HIDE DEF k
    <3>. QED  BY <1>1, <2>1, OrRight
  <2>3. m = 0 /\ b + k = 8 /\ 2^0 = 1
    BY <1>1
  <2>. HIDE DEF k, m
  <2>4. i = n /\ \A j \in Nat : j \div 2^m = j
    BY <2>3
  <2>. HIDE DEF i, n
  <2>5. n \in Byte /\ n \in Nat
    BY <2>2, <2>4 DEF Byte
  <2>. QED  BY <2>2, <2>3, <2>4, <2>5
<1>3. new = [bytes |-> Append(w.bytes, n), currentByte |-> 0, bitIndex |-> 0]
  BY DEF Filled
<1>4. /\ Append(w.bytes, n) \in Seq(Byte)
      /\ BitsOfBytes(Append(w.bytes, n)) = BitsOfBytes(w.bytes) \o Bits(n, 8)
  <2>. HIDE DEF n
  <2>. QED  BY <1>1, <1>2, AppendProperties, BytesAppend DEF BitsInByte
<1>. HIDE DEF new, n
<1>5. new \in Writer /\ new.bitIndex = 0
  BY <1>3, <1>4 DEF Writer, Byte, BitsInByte
<1>6. 0 % 2^BitsInByte = 0
  <2>1. 2^8 = 256
    OBVIOUS
  <2>. QED  BY <2>1 DEF BitsInByte
<1>7. WriterOK(new)
  <2>1. new.currentByte = 0 /\ BitsInByte - 0 = BitsInByte
    BY <1>3 DEF BitsInByte
  <2>. QED  BY <1>5, <1>6, <2>1 DEF WriterOK
<1>8. Rest(new) = <<>>
  BY <1>5, NoBits DEF Rest
<1>9. BitsOfBytes(new.bytes) = BitsOfBytes(w.bytes) \o (Rest(w) \o Bits(y, 8 - b))
  BY <1>2, <1>3, <1>4 DEF Rest, BitsInByte
<1>. QED  BY <1>5, <1>7, <1>8, <1>9 DEF new

\* The bits a writer was given that are in its bytes or wait to be written, and
\* what a call is to add to them: the bits of its value, behind those, where
\* bits that fill the current byte exactly are in the bytes and wait as well.
AllBits(w) == BitsOfBytes(w.bytes) \o Rest(w)

Fits(c) == c \in Calls /\ WriterOK(c.writer) /\ c.value < 2^c.bits

Added(c, w) ==
  LET after == AllBits(c.writer) \o Bits(c.value, c.bits)
  IN  /\ WriterOK(w)
      /\ c.writer.bitIndex < 8 =>
           \/ w.bitIndex < 8 /\ AllBits(w) = after
           \/ BitsOfBytes(w.bytes) = after

\* How many bits a writer was given.
LEMMA AllBitsType ==
  ASSUME NEW w, WriterOK(w)
  PROVE  /\ AllBits(w) \in BitSeq /\ BitsOfBytes(w.bytes) \in BitSeq /\ Rest(w) \in BitSeq
         /\ Len(AllBits(w)) = 8 * Len(w.bytes) + w.bitIndex
<1>1. w.bytes \in Seq(Byte)
  BY DEF WriterOK, Writer
<1>2. BitsOfBytes(w.bytes) \in BitSeq /\ Len(BitsOfBytes(w.bytes)) = 8 * Len(w.bytes)
  BY <1>1, BytesLength DEF BitsInByte
<1>3. Rest(w) \in BitSeq /\ Len(Rest(w)) = w.bitIndex
  BY RestType
<1>4. /\ BitsOfBytes(w.bytes) \o Rest(w) \in BitSeq
      /\ Len(BitsOfBytes(w.bytes) \o Rest(w)) = Len(BitsOfBytes(w.bytes)) + Len(Rest(w))
  BY <1>2, <1>3, ConcatProperties DEF BitSeq
<1>. QED  BY <1>2, <1>3, <1>4 DEF AllBits

\* What the members of a call are.
LEMMA CallType ==
  ASSUME NEW c, Fits(c)
  PROVE  /\ WriterOK(c.writer) /\ c.value \in Nat /\ c.bits \in 1 .. 9 /\ c.value < 2^c.bits
         /\ c.writer.bitIndex \in 0 .. 8 /\ Over(c) = c.writer.bitIndex + c.bits - 8
         /\ Bits(c.value, c.bits) \in BitSeq
<1>1. WriterOK(c.writer) /\ c.value \in Nat /\ c.bits \in 1 .. 9 /\ c.value < 2^c.bits
  BY DEF Fits, Calls, MaxBits
<1>2. c.writer.bitIndex \in 0 .. 8
  BY <1>1 DEF WriterOK, Writer, BitsInByte
<1>3. Bits(c.value, c.bits) \in BitSeq
  <2>1. c.bits \in 0 .. 9
    BY <1>1
  <2>. QED  BY <1>1, <2>1, BitsType
<1>. QED  BY <1>1, <1>2, <1>3 DEF Over, BitsInByte

\* The bits that fill the current byte.
LEMMA FilledByRight ==
  ASSUME NEW c, Fits(c), Over(c) >= 0
  PROVE  /\ WriterOK(FilledBy(c)) /\ FilledBy(c).bitIndex = 0
         /\ c.value \div 2^Over(c) \in Nat
         /\ AllBits(FilledBy(c)) = BitsOfBytes(FilledBy(c).bytes)
         /\ AllBits(FilledBy(c)) =
              AllBits(c.writer) \o Bits(c.value \div 2^Over(c), 8 - c.writer.bitIndex)
<1>. DEFINE w == c.writer
            b == w.bitIndex
            k == c.bits
            v == c.value
            o == Over(c)
            y == v \div 2^o
            n == FilledBy(c)
<1>1. /\ WriterOK(w) /\ v \in Nat /\ k \in 1 .. 9 /\ v < 2^k
      /\ b \in 0 .. 8 /\ o = b + k - 8
  BY CallType
<1>2. o \in 0 .. 9 /\ 8 - b \in 0 .. 8 /\ (8 - b) + o = k /\ 8 - b \in 0 .. 9
  <2>. HIDE DEF b, k
  <2>. QED  BY <1>1
<1>3. y \in Nat /\ y < 2^(8 - b)
  <2>. DEFINE d == 2^o
              e == 2^(8 - b)
  <2>1. d \in Nat \ {0} /\ e \in Nat \ {0}
    BY <1>2, Powers
  <2>2. 2^((8 - b) + o) = e * d
    BY <1>2, PowerSum
  <2>3. v < e * d
    BY <1>1, <1>2, <2>2
  <2>4. y \in Nat
    BY <1>1, <2>1, Quotient
  <2>5. y * d <= v
    <3>1. v = (v \div d) * d + (v % d) /\ v % d \in Nat
      BY <1>1, <2>1, Quotient
    <3>. HIDE DEF d
    <3>. DEFINE z == y * d
    <3>2. z \in Nat
      BY <2>1, <2>4
    <3>3. v = z + (v % d)
      BY <3>1 DEF d
    <3>. HIDE DEF z
    <3>4. z <= v
      BY <3>1, <3>2, <3>3
    <3>. QED  BY <3>4 DEF z
  <2>. HIDE DEF d, e, y
  <2>6. y * d < e * d
    BY <1>1, <2>1, <2>3, <2>4, <2>5
  <2>7. y < e
    <3>1. SUFFICES ASSUME e <= y PROVE FALSE
      BY <2>1, <2>4
    <3>2. e * d <= y * d
      BY <2>1, <2>4, <3>1
    <3>. QED  BY <2>1, <2>4, <2>6, <3>2
  <2>. QED  BY <2>4, <2>7 DEF e
<1>. HIDE DEF y
<1>4. n = Filled(w, y)
  BY DEF FilledBy, y
<1>. HIDE DEF n, o, v, k
<1>5. /\ WriterOK(Filled(w, y)) /\ Filled(w, y).bitIndex = 0
      /\ Rest(Filled(w, y)) = <<>>
      /\ BitsOfBytes(Filled(w, y).bytes) =
              BitsOfBytes(w.bytes) \o (Rest(w) \o Bits(y, 8 - w.bitIndex))
  BY <1>1, <1>3, FilledRight
<1>6. WriterOK(n) /\ n.bitIndex = 0 /\ Rest(n) = <<>>
      /\ BitsOfBytes(n.bytes) = BitsOfBytes(w.bytes) \o (Rest(w) \o Bits(y, 8 - b))
  BY <1>4, <1>5
<1>7. AllBits(n) = BitsOfBytes(n.bytes)
  <2>1. BitsOfBytes(n.bytes) \in BitSeq
    BY <1>6, AllBitsType
  <2>2. BitsOfBytes(n.bytes) \o <<>> = BitsOfBytes(n.bytes)
    BY <2>1, ConcatEmptySeq DEF BitSeq
  <2>. QED  BY <1>6, <2>2 DEF AllBits
<1>8. BitsOfBytes(n.bytes) = AllBits(w) \o Bits(y, 8 - b)
  <2>. DEFINE r == BitsOfBytes(w.bytes)
              t == Rest(w)
              u == Bits(y, 8 - b)
  <2>1. r \in BitSeq /\ t \in BitSeq /\ u \in BitSeq
    BY <1>1, <1>2, <1>3, AllBitsType, BitsType
  <2>2. BitsOfBytes(n.bytes) = r \o (t \o u) /\ AllBits(w) = r \o t
    BY <1>6 DEF AllBits
  <2>. HIDE DEF r, t, u
  <2>3. (r \o t) \o u = r \o (t \o u)
    BY <2>1, ConcatRegroup DEF BitSeq
  <2>. QED  BY <2>2, <2>3 DEF u
<1>. QED  BY <1>3, <1>6, <1>7, <1>8 DEF n, y, v, o

\* A call of writeBits that calls no other does its part,
LEMMA LastCall ==
  ASSUME NEW f, f = WritingBits(f), NEW c, Fits(c), Over(c) <= 0
  PROVE  Added(c, f[c])
<1>. DEFINE w == c.writer
            b == w.bitIndex
            k == c.bits
            v == c.value
            B == Bits(v, k)
<1>1. /\ WriterOK(w) /\ v \in Nat /\ k \in 1 .. 9 /\ v < 2^k
      /\ b \in 0 .. 8 /\ Over(c) = b + k - 8 /\ B \in BitSeq /\ c \in Calls
  BY CallType DEF Fits
<1>2. k \in 0 .. 8 /\ b + k <= 8 /\ Over(c) \in Int
  <2>. HIDE DEF b, k
  <2>. QED  BY <1>1
<1>. HIDE DEF v, k
<1>3. CASE Over(c) < 0
  <2>. DEFINE n == Pending(w, v, k)
  <2>1. f[c] = n
    BY <1>1, <1>3, WritingBitsAt DEF v, k
  <2>2. /\ WriterOK(n) /\ n.bytes = w.bytes /\ n.bitIndex = b + k
        /\ Rest(n) = Rest(w) \o B
    BY <1>1, <1>2, PendingRight
  <2>. HIDE DEF n, b
  <2>3. n.bitIndex < 8
    BY <1>1, <1>3, <2>2
  <2>. HIDE DEF w, B
  <2>4. AllBits(n) = AllBits(w) \o B
    <3>. DEFINE r == BitsOfBytes(w.bytes)
                t == Rest(w)
    <3>1. r \in BitSeq /\ t \in BitSeq
      BY <1>1, AllBitsType
    <3>2. AllBits(n) = r \o (t \o B) /\ AllBits(w) = r \o t
      BY <2>2 DEF AllBits
    <3>. HIDE DEF r, t
    <3>3. (r \o t) \o B = r \o (t \o B)
      BY <1>1, <3>1, ConcatRegroup DEF BitSeq
    <3>. QED  BY <3>2, <3>3
  <2>. QED  BY <2>1, <2>2, <2>3, <2>4 DEF Added, w, B, v, k
<1>4. CASE Over(c) = 0
  <2>. DEFINE n == FilledBy(c)
              p == Pending(n, v, k)
  <2>1. f[c] = p
    BY <1>1, <1>4, WritingBitsAt DEF v, k
  <2>2. /\ WriterOK(n) /\ n.bitIndex = 0
        /\ AllBits(n) = BitsOfBytes(n.bytes)
        /\ AllBits(n) = AllBits(w) \o Bits(v \div 2^Over(c), 8 - b)
    BY <1>4, FilledByRight DEF v
  <2>3. v \div 2^Over(c) = v
    <3>1. 2^0 = 1
      OBVIOUS
    <3>2. 2^Over(c) = 1
      BY <1>4, <3>1
    <3>. QED  BY <1>1, <3>2
  <2>4. 8 - b = k
    <3>. HIDE DEF b
    <3>. QED  BY <1>1, <1>4
  <2>5. AllBits(n) = AllBits(w) \o B
    BY <2>2, <2>3, <2>4
  <2>. HIDE DEF n
  <2>6. n.bitIndex + k <= 8
    BY <1>2, <2>2
  <2>7. WriterOK(p) /\ p.bytes = n.bytes
    BY <1>1, <1>2, <2>2, <2>6, PendingRight
  <2>. HIDE DEF p, B
  <2>8. BitsOfBytes(p.bytes) = AllBits(w) \o B
    BY <2>2, <2>5, <2>7
  <2>. QED  BY <2>1, <2>7, <2>8 DEF Added, w, B, v, k
<1>. QED  BY <1>2, <1>3, <1>4

\* ... one that does calls it with what fits,
LEMMA NextFits ==
  ASSUME NEW c, Fits(c), Over(c) > 0
  PROVE  Fits(NextCall(c)) /\ NextCall(c).writer = FilledBy(c)
<1>1. c \in Calls /\ c.value \in Nat
  BY CallType DEF Fits
<1>2. Over(c) \in Int /\ Over(c) <= 9 /\ NextCall(c) \in Calls
  BY <1>1, CallsNext DEF MaxBits
<1>3. Over(c) \in 0 .. 9 /\ Over(c) >= 0
  BY <1>2
<1>4. WriterOK(FilledBy(c))
  BY <1>3, FilledByRight
<1>. DEFINE d == 2^Over(c)
<1>5. d \in Nat \ {0}
  BY <1>3, Powers
<1>6. c.value % d < d
  BY <1>1, <1>5, Quotient
<1>. HIDE DEF d
<1>7. Carried(c.value, Over(c)) < d
  <2>1. Carried(c.value, Over(c)) \in {0, c.value % d}
    BY DEF Carried, d
  <2>. QED  BY <1>5, <1>6, <2>1
<1>8. NextCall(c).writer = FilledBy(c) /\ NextCall(c).value = Carried(c.value, Over(c))
      /\ NextCall(c).bits = Over(c)
  BY DEF NextCall
<1>. QED  BY <1>2, <1>4, <1>7, <1>8 DEF Fits, d

\* ... and does its part when that one does.
LEMMA EarlierCall ==
  ASSUME NEW f, f = WritingBits(f), NEW c, Fits(c), Over(c) > 0,
         Added(NextCall(c), f[NextCall(c)])
  PROVE  Added(c, f[c])
<1>. DEFINE n == NextCall(c)
            w == c.writer
            b == w.bitIndex
            k == c.bits
            v == c.value
            o == Over(c)
            p == f[n]
<1>1. /\ WriterOK(w) /\ v \in Nat /\ k \in 1 .. 9
      /\ b \in 0 .. 8 /\ o = b + k - 8 /\ c \in Calls
  BY CallType DEF Fits
<1>2. f[c] = p
  BY <1>1, WritingBitsAt
<1>3. WriterOK(p)
  BY DEF Added
<1>4. ASSUME b < 8
      PROVE  \/ p.bitIndex < 8 /\ AllBits(p) = AllBits(w) \o Bits(v, k)
             \/ BitsOfBytes(p.bytes) = AllBits(w) \o Bits(v, k)
  <2>. DEFINE x == AllBits(w)
              y == Bits(v \div 2^o, 8 - b)
              z == Bits(v % 2^o, o)
  <2>1. o \in 0 .. 8 /\ o \in 0 .. 9 /\ 8 - b \in 0 .. 9 /\ (8 - b) + o = k /\ k <= 9 /\ o <= 8 /\ o >= 0
    <3>1. o > 0
      OBVIOUS
    <3>. HIDE DEF b, k, o
    <3>. QED  BY <1>1, <1>4, <3>1
  <2>2. n.writer = FilledBy(c) /\ n.value = v % 2^o /\ n.bits = o
    <3>1. ~ o > BitsInByte
      <4>. HIDE DEF o
      <4>. QED  BY <2>1 DEF BitsInByte
    <3>. QED  BY <3>1 DEF NextCall, Carried
  <2>3. FilledBy(c).bitIndex = 0 /\ AllBits(FilledBy(c)) = x \o y
    BY <2>1, FilledByRight
  <2>4. \/ p.bitIndex < 8 /\ AllBits(p) = (x \o y) \o z
        \/ BitsOfBytes(p.bytes) = (x \o y) \o z
    <3>1. n.writer.bitIndex < 8
      BY <2>2, <2>3
    <3>2. AllBits(n.writer) \o Bits(n.value, n.bits) = (x \o y) \o z
      BY <2>2, <2>3
    <3>. HIDE DEF n, p, x, y, z
    <3>3. Added(n, p)
      BY DEF n, p
    <3>. QED  BY <3>1, <3>2, <3>3 DEF Added
  <2>5. y \o z = Bits(v, k)
    <3>. DEFINE a == 8 - b
    <3>1. a \in 0 .. 9 /\ a + o = k /\ a + o <= 9
      BY <2>1
    <3>. HIDE DEF a, k, o, v
    <3>2. Bits(v, a + o) = Bits(v \div 2^o, a) \o Bits(v % 2^o, o)
      BY <1>1, <2>1, <3>1, BitsSplit
    <3>. QED  BY <3>1, <3>2 DEF a
  <2>6. x \in BitSeq /\ y \in BitSeq /\ z \in BitSeq
    <3>1. 2^o \in Nat \ {0}
      BY <2>1, Powers
    <3>2. v \div 2^o \in Nat /\ v % 2^o \in Nat
      BY <1>1, <3>1, Quotient
    <3>. QED  BY <1>1, <2>1, <3>2, AllBitsType, BitsType
  <2>. HIDE DEF x, y, z
  <2>7. (x \o y) \o z = x \o (y \o z)
    BY <2>6, ConcatRegroup DEF BitSeq
  <2>. QED  BY <2>4, <2>5, <2>7 DEF x
<1>. QED  BY <1>2, <1>3, <1>4 DEF Added

\* Cerealiser::writeBits writes the bits it is given behind those it has
\* written: for a field of up to nine bits that is at most three calls.
LEMMA WriteBitsRight ==
  ASSUME NEW w, WriterOK(w), NEW k \in 1 .. MaxBits, NEW v \in Nat, v < 2^k
  PROVE  Added([writer |-> w, value |-> v, bits |-> k], WriteBits(w, v, k))
<1>. DEFINE c == [writer |-> w, value |-> v, bits |-> k]
            d == NextCall(c)
            e == NextCall(d)
<1>1. PICK f : /\ f = WritingBits(f)
               /\ \A x, y, z : WriteBits(x, y, z) = f[[writer |-> x, value |-> y, bits |-> z]]
  BY WriteBitsChosen
<1>2. WriteBits(w, v, k) = f[c]
  BY <1>1
<1>3. Fits(c)
  BY DEF Fits, Calls, WriterOK
<1>. HIDE DEF c
<1>4. Over(c) \in Int /\ Over(c) <= 9
  BY <1>3, CallsNext DEF Fits, MaxBits
<1>5. ASSUME Over(c) > 0
      PROVE  Added(d, f[d])
  <2>1. Fits(d) /\ Over(d) = Over(c) - 8
    BY <1>3, <1>5, NextFits, CallsNext DEF Fits
  <2>. HIDE DEF d
  <2>2. ASSUME Over(d) > 0
        PROVE  Added(e, f[e])
    <3>1. Fits(e) /\ Over(e) = Over(d) - 8
      BY <2>1, <2>2, NextFits, CallsNext DEF Fits
    <3>2. Over(e) <= 0
      BY <1>4, <2>1, <3>1
    <3>. HIDE DEF e
    <3>. QED  BY <1>1, <3>1, <3>2, LastCall
  <2>3. Over(d) > 0 \/ Over(d) <= 0
    BY <1>4, <2>1
  <2>. QED  BY <1>1, <2>1, <2>2, <2>3, LastCall, EarlierCall
<1>6. Over(c) > 0 \/ Over(c) <= 0
  BY <1>4
<1>7. Added(c, f[c])
  BY <1>1, <1>3, <1>5, <1>6, LastCall, EarlierCall
<1>. QED  BY <1>2, <1>7 DEF c

-----------------------------------------------------------------------------
(* Decerealiser::readBitsHelper.                                           *)

\* A reader whose current byte is the one before its iterator (or is used up),
\* and how many bits it has read.
OnByte(r) ==
  /\ r \in ReaderState /\ r.iterator \in 2 .. Len(r.bytes) + 1
  /\ r.bitIndex < 8 => r.currentByte = r.bytes[r.iterator - 1]

BitsPassed(r) == 8 * (r.iterator - 2) + r.bitIndex

\* Value n is the next k bits behind the first p of the bytes.
IsRead(bytes, p, k, n) ==
  /\ n \in Nat /\ n < 2^k
  /\ Bits(n, k) = SubSeq(BitsOfBytes(bytes), p + 1, p + k)

\* A call that stays within the bytes, and what it is to return.
Within(c) ==
  c \in ReadCalls /\ OnByte(c.reader) /\ BitsPassed(c.reader) + c.bits <= 8 * Len(c.reader.bytes)

Gives(c, read) ==
  /\ OnByte(read.reader) /\ read.reader.bytes = c.reader.bytes
  /\ BitsPassed(read.reader) = BitsPassed(c.reader) + c.bits
  /\ Reach(c) > 0 => read.reader.bitIndex > 0
  /\ IsRead(c.reader.bytes, BitsPassed(c.reader), c.bits, read.value)

\* A call for bits of one byte gives the next bits,
LEMMA OneByteReadRight ==
  ASSUME NEW c, Within(c), Reach(c) <= 8
  PROVE  Gives(c, OneByteRead(c))
<1>. DEFINE r == c.reader
            s == r.bytes
            i == r.iterator
            b == r.bitIndex
            k == c.bits
            x == OneByteRead(c)
            B == BitsOfBytes(s)
<1>1. /\ c \in ReadCalls /\ r \in ReaderState /\ k \in 0 .. 9 /\ b \in 0 .. 8
      /\ Reach(c) = b + k /\ s \in Seq(Byte) /\ r.currentByte \in Byte
      /\ i \in 2 .. Len(s) + 1 /\ (b < 8 => r.currentByte = s[i - 1])
  BY ReadCallType DEF Within, OnByte
<1>2. /\ x.reader \in ReaderState
      /\ x.reader = [bytes |-> s, iterator |-> i, currentByte |-> r.currentByte, bitIndex |-> Reach(c)]
      /\ x.value \in Nat /\ x.value < 2^k
  BY <1>1, OneByteReadType
<1>3. x.value = (r.currentByte \div 2^(8 - (b + k))) % 2^k
  BY <1>1 DEF OneByteRead, BitsInByte
<1>4. Len(s) \in Nat /\ i - 1 \in 1 .. Len(s)
  <2>. HIDE DEF i
  <2>. QED  BY <1>1, LenProperties
<1>. HIDE DEF x
<1>5. OnByte(x.reader)
  <2>1. x.reader.bitIndex < 8 => b < 8
    <3>1. x.reader.bitIndex = b + k
      BY <1>1, <1>2
    <3>. HIDE DEF b, k
    <3>. QED  BY <1>1, <3>1
  <2>2. x.reader.bytes = s /\ x.reader.iterator = i /\ x.reader.currentByte = r.currentByte
    BY <1>2
  <2>. QED  BY <1>1, <1>2, <2>1, <2>2 DEF OnByte
<1>6. BitsPassed(x.reader) = BitsPassed(r) + k
  <2>1. BitsPassed(x.reader) = 8 * (i - 2) + (b + k) /\ BitsPassed(r) = 8 * (i - 2) + b
    BY <1>1, <1>2 DEF BitsPassed
  <2>. HIDE DEF i, b, k
  <2>. QED  BY <1>1, <2>1
<1>7. Bits(x.value, k) = SubSeq(B, BitsPassed(r) + 1, BitsPassed(r) + k)
  <2>0. BitsPassed(r) = 8 * (i - 2) + b /\ BitsPassed(r) \in Nat /\ BitsPassed(r) + k \in Nat
    <3>1. BitsPassed(r) = 8 * (i - 2) + b
      BY DEF BitsPassed
    <3>. HIDE DEF i, b, k
    <3>. QED  BY <1>1, <3>1
  <2>1. CASE b = 8
    <3>1. k = 0
      <4>. HIDE DEF b, k
      <4>. QED  BY <1>1, <2>1
    <3>2. SubSeq(B, BitsPassed(r) + 1, BitsPassed(r) + 0) = <<>>
      BY <2>0
    <3>. QED  BY <3>1, <3>2, NoBits
  <2>2. CASE b < 8
    <3>. DEFINE a == 8 * (i - 2)
    <3>1. r.currentByte = s[i - 1] /\ s[i - 1] \in Byte
      BY <1>1, <2>2
    <3>2. b \in Nat /\ k \in Nat /\ b + k <= 8
      <4>1. b \in 0 .. 8 /\ k \in 0 .. 9 /\ b + k = Reach(c) /\ Reach(c) <= 8
        BY <1>1
      <4>. HIDE DEF b, k
      <4>. QED  BY <4>1
    <3>3. Bits(x.value, k) = SubSeq(Bits(s[i - 1], 8), b + 1, b + k)
      <4>. DEFINE y == s[i - 1]
      <4>1. y \in Byte /\ x.value = (y \div 2^(8 - (b + k))) % 2^k
        BY <1>3, <3>1
      <4>. HIDE DEF y, b, k
      <4>2. Bits((y \div 2^(8 - (b + k))) % 2^k, k) = SubSeq(Bits(y, 8), b + 1, b + k)
        BY <3>2, <4>1, PieceOfByte DEF BitsInByte
      <4>. QED  BY <4>1, <4>2 DEF y
    <3>4. SubSeq(B, a + 1, a + 8) = Bits(s[i - 1], 8)
      <4>. DEFINE n == i - 1
      <4>1. n \in 1 .. Len(s)
        BY <1>4
      <4>2. 8 * (n - 1) = a /\ 8 * n = a + 8
        <5>. HIDE DEF i
        <5>. QED  BY <1>1
      <4>. HIDE DEF n, a
      <4>3. SubSeq(BitsOfBytes(s), 8 * (n - 1) + 1, 8 * n) = Bits(s[n], 8)
        BY <1>1, <4>1, ByteAmongBits DEF BitsInByte
      <4>. QED  BY <4>2, <4>3 DEF n
    <3>5. SubSeq(SubSeq(B, a + 1, a + 8), b + 1, b + k) = SubSeq(B, a + b + 1, a + (b + k))
      <4>1. B \in Seq({0, 1}) /\ Len(B) = 8 * Len(s)
        BY <1>1, BytesLength DEF BitSeq, BitsInByte
      <4>2. a \in Nat /\ a + 8 <= 8 * Len(s)
        <5>. HIDE DEF i
        <5>. QED  BY <1>1, <1>4
      <4>. DEFINE d == a + 8
                  e == b + k
      <4>3. d \in Nat /\ a <= d /\ d <= Len(B) /\ b <= e /\ e <= d - a /\ e \in Nat
        <5>. HIDE DEF a, b, k
        <5>. QED  BY <3>2, <4>1, <4>2
      <4>. HIDE DEF a, b, k, d, e, B
      <4>4. SubSeq(SubSeq(B, a + 1, d), b + 1, e) = SubSeq(B, a + b + 1, a + e)
        BY <3>2, <4>1, <4>2, <4>3, PieceOfPiece
      <4>. QED  BY <4>4 DEF d, e
    <3>6. a + b = BitsPassed(r) /\ a + (b + k) = BitsPassed(r) + k
      <4>1. a \in Int
        <5>. HIDE DEF i
        <5>. QED  BY <1>1
      <4>2. BitsPassed(r) = a + b
        BY <2>0
      <4>. HIDE DEF a, b, k
      <4>. QED  BY <3>2, <4>1, <4>2
    <3>. HIDE DEF a, b, k, B
    <3>. QED  BY <3>3, <3>4, <3>5, <3>6
  <2>. HIDE DEF b
  <2>3. b < 8 \/ b = 8
    BY <1>1
  <2>. QED  BY <2>1, <2>2, <2>3
<1>8. Reach(c) > 0 => x.reader.bitIndex > 0
  BY <1>2
<1>. QED  BY <1>2, <1>5, <1>6, <1>7, <1>8 DEF Gives, IsRead, x

\* Loading the next byte reads no bits.
LEMMA LoadedRight ==
  ASSUME NEW r \in ReaderState, r.iterator <= Len(r.bytes)
  PROVE  /\ Loaded(r) \in ReaderState /\ OnByte(Loaded(r)) /\ Loaded(r).bytes = r.bytes
         /\ Loaded(r).bitIndex = 0 /\ BitsPassed(Loaded(r)) = 8 * (r.iterator - 1)
<1>. DEFINE i == r.iterator
            l == Loaded(r)
<1>1. i \in Nat \ {0} /\ r.bytes \in Seq(Byte)
  BY DEF ReaderState
<1>2. /\ l \in ReaderState
      /\ l = [bytes |-> r.bytes, iterator |-> i + 1,
              currentByte |-> ByteAt(r, i), bitIndex |-> 0]
  BY LoadedType
<1>3. ByteAt(r, i) = r.bytes[i]
  BY DEF ByteAt
<1>. HIDE DEF l
<1>4. l.iterator - 1 = i /\ l.iterator \in 2 .. Len(r.bytes) + 1 /\ l.iterator - 2 = i - 1
  <2>1. l.iterator = i + 1 /\ i <= Len(r.bytes)
    BY <1>2
  <2>. HIDE DEF i
  <2>. QED  BY <1>1, <2>1, LenProperties
<1>5. OnByte(l)
  BY <1>2, <1>3, <1>4 DEF OnByte
<1>6. BitsPassed(l) = 8 * (i - 1)
  <2>1. BitsPassed(l) = 8 * (i - 1) + 0
    BY <1>2, <1>4 DEF BitsPassed
  <2>. HIDE DEF i
  <2>. QED  BY <1>1, <2>1
<1>. QED  BY <1>2, <1>5, <1>6 DEF l

\* Two values one after the other are one value.
LEMMA IsReadJoin ==
  ASSUME NEW s \in Seq(Byte), NEW p \in Nat, NEW n \in 0 .. 9, NEW m \in 0 .. 9,
         n + m <= 9, (p + n) + m <= 8 * Len(s),
         NEW x, NEW y, IsRead(s, p, n, x), IsRead(s, p + n, m, y)
  PROVE  IsRead(s, p, n + m, x * 2^m + y)
<1>. DEFINE d == 2^m
            e == 2^n
            B == BitsOfBytes(s)
<1>1. x \in Nat /\ y \in Nat /\ x < e /\ y < d
  BY DEF IsRead
<1>2. d \in Nat \ {0} /\ e \in Nat \ {0}
  BY Powers
<1>3. 2^(n + m) = e * d
  <2>1. n \in 0 .. 8 \/ n = 9
    OBVIOUS
  <2>2. CASE n \in 0 .. 8
    BY <2>2, PowerSum
  <2>3. CASE n = 9
    <3>1. m = 0 /\ n + m = 9
      BY <2>3
    <3>2. 2^0 = 1 /\ 2^9 = 512
      OBVIOUS
    <3>. QED  BY <2>3, <3>1, <3>2
  <2>. QED  BY <2>1, <2>2, <2>3
<1>4. x * d + y \in Nat /\ x * d + y < 2^(n + m)
  <2>. HIDE DEF d, e
  <2>1. (x + 1) * d <= e * d
    BY <1>1, <1>2
  <2>2. (x + 1) * d = x * d + d /\ x * d \in Nat
    BY <1>1, <1>2
  <2>. DEFINE z == x * d
              u == e * d
  <2>3. z \in Nat /\ u \in Nat /\ z + d <= u /\ 2^(n + m) = u
    BY <1>2, <1>3, <2>1, <2>2
  <2>. HIDE DEF z, u
  <2>4. z + y \in Nat /\ z + y < u
    BY <1>1, <1>2, <2>3
  <2>. QED  BY <2>3, <2>4 DEF z
<1>5. Bits(x * d + y, n + m) = Bits(x, n) \o Bits(y, m)
  BY <1>1, BitsJoin
<1>6. Bits(x, n) = SubSeq(B, p + 1, p + n) /\ Bits(y, m) = SubSeq(B, (p + n) + 1, (p + n) + m)
  BY DEF IsRead
<1>7. SubSeq(B, p + 1, p + n) \o SubSeq(B, (p + n) + 1, (p + n) + m) = SubSeq(B, p + 1, p + (n + m))
  <2>1. B \in Seq({0, 1}) /\ Len(B) = 8 * Len(s)
    BY BytesLength DEF BitSeq, BitsInByte
  <2>. DEFINE q == p + n
              o == q + m
  <2>2. q \in Nat /\ o \in Nat /\ p <= q /\ q <= o /\ o <= Len(B)
    BY <2>1
  <2>3. o = p + (n + m)
    OBVIOUS
  <2>. HIDE DEF q, o, B
  <2>4. SubSeq(B, p + 1, q) \o SubSeq(B, q + 1, o) = SubSeq(B, p + 1, o)
    BY <2>1, <2>2, AdjacentPieces
  <2>. QED  BY <2>3, <2>4 DEF q, o
<1>. QED  BY <1>4, <1>5, <1>6, <1>7 DEF IsRead

\* ... both calls of one that reaches over the byte stay within the bytes, and the
\* second goes on where the first ends,
LEMMA SecondWithin ==
  ASSUME NEW c, Within(c), Reach(c) > 8
  PROVE  /\ Within(FirstCall(c)) /\ Within(Second(c))
         /\ BitsPassed(Second(c).reader) = BitsPassed(c.reader) + FirstCall(c).bits
         /\ Second(c).reader.bytes = c.reader.bytes
         /\ FirstCall(c).bits \in 0 .. 9 /\ Second(c).bits \in 1 .. 9
         /\ FirstCall(c).bits + Second(c).bits = c.bits
<1>. DEFINE r == c.reader
            i == r.iterator
            b == r.bitIndex
            k == c.bits
            N == Len(r.bytes)
            f == FirstCall(c)
            q == OneByteRead(f).reader
            g == Second(c)
<1>1. /\ c \in ReadCalls /\ r \in ReaderState /\ k \in 0 .. 9 /\ b \in 0 .. 8
      /\ Reach(c) = b + k /\ OnByte(r) /\ BitsPassed(r) + k <= 8 * N
      /\ i \in 2 .. N + 1 /\ r.bytes \in Seq(Byte)
  BY ReadCallType DEF Within, OnByte
<1>2. N \in Nat /\ b + k > 8
  BY <1>1, LenProperties
<1>3. BitsPassed(r) = 8 * (i - 2) + b
  BY DEF BitsPassed
<1>4. /\ i + 1 \in 2 .. N + 1 /\ i <= N
      /\ BitsPassed(r) + (8 - b) <= 8 * N /\ BitsPassed(r) + (8 - b) = 8 * (i - 1)
      /\ 8 * (i - 1) + (b + k - 8) <= 8 * N
      /\ 8 - b \in 0 .. 9 /\ b + k - 8 \in 1 .. 9 /\ (8 - b) + (b + k - 8) = k
  <2>. HIDE DEF i, b, k, N
  <2>. QED  BY <1>1, <1>2, <1>3
<1>5. f \in ReadCalls /\ Reach(f) = 8 /\ f.reader = r /\ f.bits = 8 - b
  BY <1>1, ReadCallsNext DEF FirstCall, BitsInByte
<1>6. Within(f)
  BY <1>1, <1>4, <1>5 DEF Within
<1>7. /\ q \in ReaderState
      /\ q = [bytes |-> r.bytes, iterator |-> i, currentByte |-> r.currentByte, bitIndex |-> 8]
  <2>. HIDE DEF f
  <2>1. Reach(f) <= 8
    BY <1>5
  <2>. QED  BY <1>5, <2>1, OneByteReadType
<1>8. q.iterator = i /\ q.bytes = r.bytes
  BY <1>7
<1>9. g = [reader |-> Loaded(q), bits |-> b + k - 8]
  <2>1. g = [reader |-> Loaded(q), bits |-> Reach(c) - 8]
    BY DEF Second, SecondCall, BitsInByte
  <2>2. Reach(c) - 8 = b + k - 8
    <3>1. Reach(c) = b + k /\ b \in 0 .. 8 /\ k \in 0 .. 9
      BY <1>1
    <3>. HIDE DEF b, k
    <3>. QED  BY <3>1
  <2>. HIDE DEF q, g, b, k
  <2>. QED  BY <2>1, <2>2
<1>. HIDE DEF q
<1>10. /\ OnByte(Loaded(q)) /\ Loaded(q).bytes = r.bytes
       /\ BitsPassed(Loaded(q)) = 8 * (i - 1)
  BY <1>4, <1>7, <1>8, LoadedRight
<1>11. g \in ReadCalls
  BY <1>1, ReadCallsNext
<1>12. Within(g)
  BY <1>4, <1>9, <1>10, <1>11 DEF Within
<1>. QED  BY <1>4, <1>5, <1>6, <1>9, <1>10, <1>12

\* ... and their values put together are the next bits.
LEMMA BothReadsRight ==
  ASSUME NEW c, Within(c), Reach(c) > 8, NEW second, Gives(Second(c), second)
  PROVE  Gives(c, BothReads(c, OneByteRead(FirstCall(c)), second))
<1>. DEFINE f == FirstCall(c)
            g == Second(c)
            first == OneByteRead(f)
            s == c.reader.bytes
            p == BitsPassed(c.reader)
            n == f.bits
            m == g.bits
            x == BothReads(c, first, second)
<1>1. /\ Within(f) /\ BitsPassed(g.reader) = p + n /\ g.reader.bytes = s
      /\ n \in 0 .. 9 /\ m \in 1 .. 9 /\ n + m = c.bits
  BY SecondWithin
<1>2. c \in ReadCalls /\ s \in Seq(Byte) /\ c.bits \in 0 .. 9 /\ Reach(f) = 8 /\ f.reader = c.reader
  BY ReadCallType, ReadCallsNext DEF Within, FirstCall
<1>3. Gives(f, first)
  <2>. HIDE DEF f
  <2>1. Reach(f) <= 8
    BY <1>2
  <2>. QED  BY <1>1, <2>1, OneByteReadRight
<1>4. m = Reach(c) - 8 /\ Reach(g) = Reach(c) - 8
  BY <1>2, ReadCallsNext DEF Second, SecondCall, BitsInByte
<1>5. x.value = first.value * 2^m + second.value /\ x.reader = second.reader
  BY <1>4 DEF BothReads, BitsInByte
<1>6. p \in Nat /\ (p + n) + m <= 8 * Len(s)
  <2>1. p + c.bits <= 8 * Len(s)
    BY DEF Within
  <2>2. p \in Nat
    <3>. DEFINE i == c.reader.iterator
                b == c.reader.bitIndex
    <3>1. p = 8 * (i - 2) + b /\ b \in 0 .. 8 /\ i \in 2 .. Len(s) + 1
      BY <1>2, ReadCallType DEF Within, OnByte, BitsPassed
    <3>. HIDE DEF i, b, p
    <3>. QED  BY <3>1
  <2>. HIDE DEF p, n, m
  <2>. QED  BY <1>1, <1>2, <2>1, <2>2
<1>. HIDE DEF first, g, x
<1>7. IsRead(s, p, n, first.value)
  <2>1. IsRead(f.reader.bytes, BitsPassed(f.reader), f.bits, first.value)
    BY <1>3 DEF Gives
  <2>. QED  BY <1>2, <2>1
<1>8. IsRead(s, p + n, m, second.value)
  <2>1. IsRead(g.reader.bytes, BitsPassed(g.reader), g.bits, second.value)
    BY DEF Gives, g
  <2>. QED  BY <1>1, <2>1
<1>9. IsRead(s, p, c.bits, x.value)
  <2>1. m \in 0 .. 9 /\ n + m <= 9
    BY <1>1, <1>2
  <2>. HIDE DEF p, n, m, s
  <2>2. IsRead(s, p, n + m, first.value * 2^m + second.value)
    BY <1>1, <1>2, <1>6, <1>7, <1>8, <2>1, IsReadJoin
  <2>. QED  BY <1>1, <1>5, <2>2
<1>10. BitsPassed(x.reader) = p + c.bits
  <2>1. BitsPassed(second.reader) = BitsPassed(g.reader) + m
    BY DEF Gives, g
  <2>2. BitsPassed(second.reader) = (p + n) + m
    BY <1>1, <2>1
  <2>3. (p + n) + m = p + (n + m)
    <3>. HIDE DEF p, n, m
    <3>. QED  BY <1>1, <1>6
  <2>. QED  BY <1>1, <1>5, <2>2, <2>3
<1>11. OnByte(x.reader) /\ x.reader.bytes = s /\ x.reader.bitIndex > 0
  <2>1. Reach(g) > 0
    <3>1. Reach(c) \in Int
      BY <1>2, ReadCallType
    <3>. QED  BY <1>4, <3>1
  <2>. QED  BY <1>1, <1>5, <2>1 DEF Gives, g
<1>. QED  BY <1>9, <1>10, <1>11 DEF Gives, x, first

\* A call gives the next bits when the second call it makes does.
LEMMA DeeperRead ==
  ASSUME NEW f, f = ReadingBits(f), NEW c, Within(c),
         Reach(c) > 8 => Gives(Second(c), f[Second(c)])
  PROVE  Gives(c, f[c])
<1>1. c \in ReadCalls /\ Reach(c) \in 0 .. 17
  BY ReadCallType DEF Within
<1>2. CASE Reach(c) <= 8
  BY <1>1, <1>2, ReadingBitsAt, OneByteReadRight
<1>3. CASE Reach(c) > 8
  <2>1. FirstCall(c) \in ReadCalls /\ Reach(FirstCall(c)) <= 8
    BY <1>1, <1>3, ReadCallsNext
  <2>2. f[FirstCall(c)] = OneByteRead(FirstCall(c))
    BY <2>1, ReadingBitsAt
  <2>3. f[c] = BothReads(c, OneByteRead(FirstCall(c)), f[Second(c)])
    BY <1>1, <1>3, <2>2, ReadingBitsAt
  <2>. QED  BY <1>3, <2>3, BothReadsRight
<1>. QED  BY <1>1, <1>2, <1>3

\* Decerealiser::readBitsHelper gives the next bits of the bytes.
LEMMA ReadBitsHelperRight ==
  ASSUME NEW r, NEW k \in 0 .. 9, Within([reader |-> r, bits |-> k])
  PROVE  Gives([reader |-> r, bits |-> k], ReadBitsHelper(r, k))
<1>. DEFINE c == [reader |-> r, bits |-> k]
            d == Second(c)
            e == Second(d)
<1>1. PICK f : /\ f = ReadingBits(f)
               /\ \A x, y : ReadBitsHelper(x, y) = f[[reader |-> x, bits |-> y]]
  BY ReadBitsChosen
<1>2. ReadBitsHelper(r, k) = f[c] /\ Within(c)
  BY <1>1
<1>. HIDE DEF c
<1>3. c \in ReadCalls /\ Reach(c) \in 0 .. 17
  BY <1>2, ReadCallType DEF Within
<1>4. ASSUME Reach(c) > 8
      PROVE  Gives(d, f[d])
  <2>1. Within(d) /\ d \in ReadCalls /\ Reach(d) = Reach(c) - 8
    BY <1>2, <1>3, <1>4, SecondWithin, ReadCallsNext
  <2>. HIDE DEF d
  <2>2. ASSUME Reach(d) > 8
        PROVE  Gives(e, f[e])
    <3>1. Within(e) /\ Reach(e) = Reach(d) - 8
      BY <2>1, <2>2, SecondWithin, ReadCallsNext
    <3>2. ~ Reach(e) > 8
      BY <1>3, <2>1, <3>1
    <3>. HIDE DEF e
    <3>. QED  BY <1>1, <3>1, <3>2, DeeperRead
  <2>. QED  BY <1>1, <2>1, <2>2, DeeperRead
<1>5. Gives(c, f[c])
  BY <1>1, <1>2, <1>4, DeeperRead
<1>. QED  BY <1>2, <1>5 DEF c

-----------------------------------------------------------------------------
(* Where the bits of a field are among those of all.                       *)

WidthOf(s, n) == Len(BitsOf(SubSeq(s, 1, n)))

\* A number that fits its width is known by its bits.
LEMMA BitsInjective ==
  \A k \in 0 .. 9 : \A x, y \in Nat :
    x < 2^k /\ y < 2^k /\ Bits(x, k) = Bits(y, k) => x = y
<1>. DEFINE Inj(k) == \A x, y \in Nat : x < 2^k /\ y < 2^k /\ Bits(x, k) = Bits(y, k) => x = y
            S == {k \in Nat : k > 9 \/ Inj(k)}
<1>1. 0 \in S
  <2>1. 2^0 = 1
    OBVIOUS
  <2>. QED  BY <2>1
<1>2. ASSUME NEW k \in Nat, k \in S
      PROVE  k + 1 \in S
  <2>1. SUFFICES ASSUME k <= 8, NEW x \in Nat, NEW y \in Nat, x < 2^(k + 1), y < 2^(k + 1),
                        Bits(x, k + 1) = Bits(y, k + 1)
                 PROVE  x = y
    OBVIOUS
  <2>2. k \in 0 .. 9 /\ k \in 0 .. 17 /\ 1 \in 0 .. 9 /\ k + 1 <= 9 /\ 2^1 = 2
    BY <2>1
  <2>3. 2^(k + 1) = 2 * 2^k /\ 2^k \in Nat \ {0}
    BY <2>2, Powers
  <2>. DEFINE a == x \div 2
              b == y \div 2
              c == x % 2
              d == y % 2
  <2>4. /\ a \in Nat /\ b \in Nat /\ c \in {0, 1} /\ d \in {0, 1} /\ x = 2 * a + c /\ y = 2 * b + d
    OBVIOUS
  <2>5. Bits(x, k + 1) = Bits(a, k) \o Bits(c, 1) /\ Bits(y, k + 1) = Bits(b, k) \o Bits(d, 1)
    <3>1. \A z \in Nat : Bits(z, k + 1) = Bits(z \div 2^1, k) \o Bits(z % 2^1, 1)
      BY <2>2, BitsSplit
    <3>. QED  BY <2>2, <3>1
  <2>6. a < 2^k /\ b < 2^k
    <3>. DEFINE e == 2^k
    <3>1. e \in Nat /\ x < 2 * e /\ y < 2 * e
      BY <2>1, <2>3
    <3>. HIDE DEF e, a, b, c, d
    <3>2. a < e /\ b < e
      BY <2>4, <3>1
    <3>. QED  BY <3>2 DEF e
  <2>. HIDE DEF a, b, c, d
  <2>7. /\ Bits(a, k) \in BitSeq /\ Len(Bits(a, k)) = k
        /\ Bits(b, k) \in BitSeq /\ Len(Bits(b, k)) = k
        /\ Bits(c, 1) \in BitSeq /\ Len(Bits(c, 1)) = 1
        /\ Bits(d, 1) \in BitSeq /\ Len(Bits(d, 1)) = 1
    <3>1. c \in Nat /\ d \in Nat
      BY <2>4
    <3>. QED  BY <2>2, <2>4, <3>1, BitsType
  <2>. DEFINE p == Bits(a, k)
              q == Bits(b, k)
              u == Bits(c, 1)
              v == Bits(d, 1)
  <2>8. p \o u = q \o v
    BY <2>1, <2>5
  <2>9. u[1] = c /\ v[1] = d
    <3>1. 2^0 = 1 /\ 1 - 1 = 0
      OBVIOUS
    <3>2. u[1] = (c \div 2^(1 - 1)) % 2 /\ v[1] = (d \div 2^(1 - 1)) % 2
      BY DEF Bits
    <3>3. u[1] = (c \div 1) % 2 /\ v[1] = (d \div 1) % 2
      BY <3>1, <3>2
    <3>. HIDE DEF u, v
    <3>. QED  BY <2>4, <3>3
  <2>. HIDE DEF p, q, u, v
  <2>10. /\ p \in Seq({0, 1}) /\ q \in Seq({0, 1}) /\ u \in Seq({0, 1}) /\ v \in Seq({0, 1})
         /\ Len(p) = k /\ Len(q) = k /\ Len(u) = 1 /\ Len(v) = 1
    BY <2>7 DEF p, q, u, v, BitSeq
  <2>11. p = q /\ u = v
    <3>1. SubSeq(p \o u, Len(p) + 1, Len(p) + Len(u)) = u
      BY <2>10, PieceAppended
    <3>2. SubSeq(q \o v, Len(q) + 1, Len(q) + Len(v)) = v
      BY <2>10, PieceAppended
    <3>3. 0 \in Nat /\ 0 <= k
      OBVIOUS
    <3>4. SubSeq(p \o u, 0 + 1, k) = SubSeq(p, 0 + 1, k)
      BY <2>10, <3>3, PieceOfConcat
    <3>5. SubSeq(q \o v, 0 + 1, k) = SubSeq(q, 0 + 1, k)
      BY <2>10, <3>3, PieceOfConcat
    <3>6. SubSeq(p, 1, Len(p)) = p /\ SubSeq(q, 1, Len(q)) = q
      BY <2>10, SubSeqFull
    <3>7. 0 + 1 = 1
      OBVIOUS
    <3>. QED  BY <2>8, <2>10, <3>1, <3>2, <3>4, <3>5, <3>6, <3>7
  <2>12. a = b
    <3>1. Inj(k)
      BY <1>2, <2>1
    <3>. QED  BY <2>4, <2>6, <2>11, <3>1 DEF p, q
  <2>13. c = d
    BY <2>9, <2>11
  <2>. QED  BY <2>4, <2>12, <2>13
<1>3. \A k \in Nat : k \in S
  <2>. HIDE DEF S
  <2>. QED  BY <1>1, <1>2, SetInduction
<1>4. \A k \in 0 .. 9 : Inj(k)
  <2>. HIDE DEF Inj
  <2>1. \A k \in 0 .. 9 : k \in Nat /\ ~ k > 9
    OBVIOUS
  <2>. QED  BY <1>3, <2>1
<1>. QED  BY <1>4

\* A field more leaves the widths of those before as they are.
LEMMA WidthAppend ==
  ASSUME NEW F, IsFields(F), NEW s \in Seq(F), NEW f \in F
  PROVE  LET t == Append(s, f)
         IN  /\ t \in Seq(F) /\ Len(t) = Len(s) + 1 /\ t[Len(t)] = f
             /\ \A n \in 0 .. Len(s) : WidthOf(t, n) = WidthOf(s, n)
             /\ \A n \in 1 .. Len(s) : t[n] = s[n]
             /\ WidthOf(s, Len(s)) = Len(BitsOf(s)) /\ WidthOf(t, Len(t)) = Len(BitsOf(t))
             /\ WidthOf(t, Len(t)) = WidthOf(s, Len(s)) + f.bits
             /\ BitsOf(t) = BitsOf(s) \o Bits(f.value, f.bits)
             /\ BitsOf(s) \in BitSeq
<1>. DEFINE t == Append(s, f)
<1>1. /\ t \in Seq(F) /\ Len(t) = Len(s) + 1 /\ t[Len(s) + 1] = f
      /\ \A n \in 1 .. Len(s) : t[n] = s[n]
      /\ Len(s) \in Nat
  BY AppendProperties, LenProperties
<1>2. \A n \in 0 .. Len(s) : SubSeq(t, 1, n) = SubSeq(s, 1, n)
  <2>. HIDE DEF t
  <2>. QED  BY <1>1
<1>3. SubSeq(t, 1, Len(t)) = t /\ SubSeq(s, 1, Len(s)) = s
  <2>. HIDE DEF t
  <2>. QED  BY <1>1, SubSeqFull
<1>4. /\ BitsOf(s) \in BitSeq /\ BitsOf(t) = BitsOf(s) \o Bits(f.value, f.bits)
      /\ Len(BitsOf(t)) = Len(BitsOf(s)) + f.bits
  BY BitsOfAppend
<1>. HIDE DEF t
<1>. QED  BY <1>1, <1>2, <1>3, <1>4 DEF WidthOf, t

\* Field n has its bits behind those of the n - 1 before.
LEMMA FieldAmongBits ==
  ASSUME NEW F, IsFields(F)
  PROVE  \A s \in Seq(F) :
           /\ BitsOf(s) \in BitSeq /\ WidthOf(s, 0) = 0
           /\ \A n \in 1 .. Len(s) :
                /\ WidthOf(s, n - 1) \in Nat
                /\ WidthOf(s, n) = WidthOf(s, n - 1) + s[n].bits
                /\ WidthOf(s, n) <= Len(BitsOf(s))
                /\ SubSeq(BitsOf(s), WidthOf(s, n - 1) + 1, WidthOf(s, n)) =
                     Bits(s[n].value, s[n].bits)
<1>. DEFINE Right(s, n) ==
              /\ WidthOf(s, n - 1) \in Nat
              /\ WidthOf(s, n) = WidthOf(s, n - 1) + s[n].bits
              /\ WidthOf(s, n) <= Len(BitsOf(s))
              /\ SubSeq(BitsOf(s), WidthOf(s, n - 1) + 1, WidthOf(s, n)) =
                   Bits(s[n].value, s[n].bits)
            P == {s \in Seq(F) : /\ BitsOf(s) \in BitSeq /\ WidthOf(s, 0) = 0
                                 /\ \A n \in 1 .. Len(s) : Right(s, n)}
<1>0. \A f \in F : f.bits \in 0 .. 9 /\ f.value \in Nat
  BY DEF IsFields
<1>1. <<>> \in P
  <2>1. SubSeq(<<>>, 1, 0) = <<>> /\ <<>> \in Seq(F) /\ <<>> \in BitSeq /\ Len(<<>>) = 0
    BY DEF BitSeq
  <2>2. 1 .. Len(<<>>) = {}
    OBVIOUS
  <2>. QED  BY <2>1, <2>2, BitsOfEmpty DEF WidthOf
<1>2. ASSUME NEW s \in Seq(F), NEW f \in F, s \in P
      PROVE  Append(s, f) \in P
  <2>. DEFINE t == Append(s, f)
              B == BitsOf(s)
              C == Bits(f.value, f.bits)
  <2>1. /\ t \in Seq(F) /\ Len(t) = Len(s) + 1 /\ t[Len(t)] = f
        /\ \A n \in 0 .. Len(s) : WidthOf(t, n) = WidthOf(s, n)
        /\ \A n \in 1 .. Len(s) : t[n] = s[n]
        /\ WidthOf(s, Len(s)) = Len(B) /\ WidthOf(t, Len(t)) = Len(BitsOf(t))
        /\ WidthOf(t, Len(t)) = WidthOf(s, Len(s)) + f.bits
        /\ BitsOf(t) = B \o C /\ B \in BitSeq
    BY WidthAppend
  <2>2. C \in BitSeq /\ Len(C) = f.bits /\ f.bits \in 0 .. 9
    BY <1>0, BitsType
  <2>3. Len(s) \in Nat /\ Len(B) \in Nat /\ B \in Seq({0, 1}) /\ C \in Seq({0, 1})
    BY <2>1, <2>2, LenProperties DEF BitSeq
  <2>4. BitsOf(t) \in BitSeq /\ Len(BitsOf(t)) = Len(B) + f.bits
    <3>. HIDE DEF t, B, C
    <3>. QED  BY <2>1, <2>2, <2>3, ConcatProperties DEF BitSeq
  <2>5. WidthOf(t, 0) = 0
    <3>1. 0 \in 0 .. Len(s) /\ WidthOf(s, 0) = 0
      BY <1>2, <2>3
    <3>. HIDE DEF t
    <3>. QED  BY <2>1, <3>1
  <2>. HIDE DEF t, B, C
  <2>6. ASSUME NEW n \in 1 .. Len(s)
        PROVE  Right(t, n)
    <3>. DEFINE a == WidthOf(s, n - 1)
                b == WidthOf(s, n)
    <3>1. n - 1 \in 0 .. Len(s) /\ n \in 0 .. Len(s)
      BY <2>3
    <3>2. WidthOf(t, n - 1) = a /\ WidthOf(t, n) = b /\ t[n] = s[n]
      BY <2>1, <3>1
    <3>3. /\ a \in Nat /\ b = a + s[n].bits /\ b <= Len(B)
          /\ SubSeq(B, a + 1, b) = Bits(s[n].value, s[n].bits)
      <4>1. Right(s, n)
        BY <1>2
      <4>. QED  BY <4>1 DEF B
    <3>4. s[n].bits \in 0 .. 9
      BY <1>0, ElementOfSeq
    <3>. HIDE DEF a, b
    <3>5. b \in Nat /\ a <= b /\ b <= Len(B) + f.bits
      <4>. DEFINE m == s[n].bits
                  o == f.bits
                  l == Len(B)
      <4>0. m \in 0 .. 9 /\ o \in 0 .. 9
        BY <2>2, <3>4
      <4>1. l \in Nat /\ a \in Nat /\ b = a + m /\ b <= l
        BY <2>3, <3>3
      <4>. HIDE DEF m, o, l
      <4>2. b \in Nat /\ a <= b /\ b <= l + o
        BY <4>0, <4>1
      <4>. QED  BY <4>2 DEF l, o
    <3>6. SubSeq(B \o C, a + 1, b) = SubSeq(B, a + 1, b)
      <4>1. B \in Seq({0, 1}) /\ C \in Seq({0, 1})
        BY <2>3
      <4>2. a \in Nat /\ b \in Nat /\ a <= b /\ b <= Len(B)
        BY <3>3, <3>5
      <4>. QED  BY <4>1, <4>2, PieceOfConcat
    <3>. QED  BY <2>1, <2>4, <3>2, <3>3, <3>5, <3>6
  <2>7. Right(t, Len(s) + 1)
    <3>1. SubSeq(B \o C, Len(B) + 1, Len(B) + Len(C)) = C
      BY <2>3, PieceAppended
    <3>2. (Len(s) + 1) - 1 = Len(s) /\ Len(s) \in 0 .. Len(s)
      BY <2>3
    <3>3. WidthOf(t, Len(s)) = Len(B) /\ WidthOf(t, Len(s) + 1) = Len(B) + f.bits
          /\ t[Len(s) + 1] = f
      BY <2>1, <3>2
    <3>4. SubSeq(BitsOf(t), Len(B) + 1, Len(B) + f.bits) = Bits(f.value, f.bits)
      <4>1. BitsOf(t) = B \o C /\ Len(C) = f.bits
        BY <2>1, <2>2
      <4>. QED  BY <3>1, <4>1 DEF C
    <3>5. Len(B) + f.bits <= Len(BitsOf(t))
      <4>. DEFINE z == Len(B) + f.bits
      <4>1. z \in Nat /\ Len(BitsOf(t)) = z
        BY <2>2, <2>3, <2>4
      <4>. HIDE DEF z
      <4>2. z <= Len(BitsOf(t))
        BY <4>1
      <4>. QED  BY <4>2 DEF z
    <3>. QED  BY <2>3, <3>2, <3>3, <3>4, <3>5
  <2>8. \A n \in 1 .. Len(t) : n \in 1 .. Len(s) \/ n = Len(s) + 1
    BY <2>1, <2>3
  <2>9. \A n \in 1 .. Len(t) : Right(t, n)
    <3>. HIDE DEF Right
    <3>. QED  BY <2>6, <2>7, <2>8
  <2>. QED  BY <2>1, <2>4, <2>5, <2>9 DEF t
<1>3. \A s \in Seq(F) : s \in P
  <2>. HIDE DEF P
  <2>. QED  BY <1>1, <1>2, SeqInduction
<1>. QED  BY <1>3

-----------------------------------------------------------------------------
(* What the reader gives for a field.                                      *)

\* A byte that is used up, or none at all, may be the current one.
ReaderOK(r) ==
  /\ r \in ReaderState /\ r.iterator \in 1 .. Len(r.bytes) + 1
  /\ r.bitIndex > 0 => OnByte(r)

Position(r) == IF r.bitIndex = 0 THEN 8 * (r.iterator - 1) ELSE BitsPassed(r)

FieldRead(r, f) == IF f.whole THEN ReadByte(r) ELSE ReadBits(r, f.bits)

ReadsOn(r, f, read) ==
  /\ ReaderOK(read.reader) /\ read.reader.bytes = r.bytes
  /\ Position(read.reader) = Position(r) + f.bits
  /\ IsRead(r.bytes, Position(r), f.bits, read.value)

\* Where a reader is.
LEMMA ReaderType ==
  ASSUME NEW r, ReaderOK(r)
  PROVE  /\ r.bytes \in Seq(Byte) /\ Len(r.bytes) \in Nat
         /\ r.iterator \in 1 .. Len(r.bytes) + 1 /\ r.bitIndex \in 0 .. 8
         /\ r.bitIndex > 0 => r.iterator \in 2 .. Len(r.bytes) + 1
         /\ Position(r) \in Nat /\ Position(r) <= 8 * Len(r.bytes)
         /\ r.bitIndex = 0 => Position(r) = 8 * (r.iterator - 1)
         /\ r.bitIndex > 0 => Position(r) = 8 * (r.iterator - 2) + r.bitIndex
<1>. DEFINE i == r.iterator
            b == r.bitIndex
            n == Len(r.bytes)
            p == Position(r)
<1>1. r.bytes \in Seq(Byte) /\ b \in 0 .. 8 /\ i \in 1 .. n + 1
  BY DEF ReaderOK, ReaderState, BitsInByte
<1>2. n \in Nat
  BY <1>1, LenProperties
<1>3. b > 0 => i \in 2 .. n + 1
  BY DEF ReaderOK, OnByte
<1>4. b = 0 => p = 8 * (i - 1)
  BY DEF Position
<1>5. b > 0 => p = 8 * (i - 2) + b
  BY DEF Position, BitsPassed
<1>. HIDE DEF i, b, n, p
<1>6. p \in Nat /\ p <= 8 * n
  <2>1. CASE b = 0
    BY <1>1, <1>2, <1>4, <2>1
  <2>2. CASE b > 0
    BY <1>1, <1>2, <1>3, <1>5, <2>2
  <2>. QED  BY <1>1, <2>1, <2>2
<1>. QED  BY <1>1, <1>2, <1>3, <1>4, <1>5, <1>6 DEF i, b, n, p

\* grain of a byte, at the start of one.
LEMMA ReadByteRight ==
  ASSUME NEW r, ReaderOK(r), NEW f, f.whole, f.bits = 8,
         Position(r) % 8 = 0, Position(r) + 8 <= 8 * Len(r.bytes)
  PROVE  ReadsOn(r, f, FieldRead(r, f))
<1>. DEFINE i == r.iterator
            b == r.bitIndex
            n == Len(r.bytes)
            s == r.bytes
            p == Position(r)
            x == FieldRead(r, f)
<1>1. /\ s \in Seq(Byte) /\ n \in Nat /\ i \in 1 .. n + 1 /\ b \in 0 .. 8
      /\ b > 0 => i \in 2 .. n + 1
      /\ p \in Nat
      /\ b = 0 => p = 8 * (i - 1)
      /\ b > 0 => p = 8 * (i - 2) + b
  BY ReaderType
<1>2. (b = 0 \/ b = 8) /\ p = 8 * (i - 1) /\ i <= n
  <2>1. p % 8 = 0 /\ p + 8 <= 8 * n
    OBVIOUS
  <2>. HIDE DEF i, b, n, p
  <2>2. CASE b = 0
    BY <1>1, <2>1, <2>2
  <2>3. CASE b > 0
    <3>1. (8 * (i - 2) + b) % 8 = 0
      BY <1>1, <2>1, <2>3
    <3>2. b = 8
      BY <1>1, <2>3, <3>1
    <3>. QED  BY <1>1, <2>1, <2>3, <3>2
  <2>. QED  BY <1>1, <2>2, <2>3
<1>3. x = [value |-> ByteAt(r, i), reader |-> [r EXCEPT !.iterator = i + 1]]
  BY DEF FieldRead, ReadByte
<1>4. x.value = s[i] /\ x.reader = [r EXCEPT !.iterator = i + 1]
  BY <1>2, <1>3 DEF ByteAt
<1>. HIDE DEF x
<1>5. r \in ReaderState
  BY DEF ReaderOK
<1>6. /\ x.reader = [bytes |-> s, iterator |-> i + 1, currentByte |-> r.currentByte, bitIndex |-> b]
      /\ r.currentByte \in Byte
  BY <1>4, <1>5 DEF ReaderState
<1>7. i + 1 \in 2 .. n + 1 /\ i + 1 \in 1 .. n + 1 /\ i + 1 \in Nat \ {0} /\ i \in 1 .. n
  <2>. HIDE DEF i, n
  <2>. QED  BY <1>1, <1>2
<1>8. x.reader \in ReaderState
  BY <1>1, <1>6, <1>7 DEF ReaderState, BitsInByte
<1>9. b > 0 => OnByte(x.reader)
  <2>1. b > 0 => ~ b < 8
    BY <1>1, <1>2
  <2>. QED  BY <1>6, <1>7, <1>8, <2>1 DEF OnByte
<1>10. ReaderOK(x.reader) /\ x.reader.bytes = s
  BY <1>6, <1>7, <1>8, <1>9 DEF ReaderOK
<1>11. Position(x.reader) = p + 8
  <2>1. CASE b = 0
    <3>1. Position(x.reader) = 8 * ((i + 1) - 1)
      BY <1>6, <2>1 DEF Position
    <3>. HIDE DEF i, p
    <3>. QED  BY <1>1, <1>2, <3>1
  <2>2. CASE b = 8
    <3>1. Position(x.reader) = 8 * ((i + 1) - 2) + b
      BY <1>6, <2>2 DEF Position, BitsPassed
    <3>. HIDE DEF i, p, b
    <3>. QED  BY <1>1, <1>2, <2>2, <3>1
  <2>. QED  BY <1>2, <2>1, <2>2
<1>12. IsRead(s, p, 8, x.value)
  <2>1. s[i] \in Byte
    BY <1>1, <1>7, ElementOfSeq
  <2>2. x.value \in Nat /\ x.value < 2^8
    <3>1. 2^8 = 256
      OBVIOUS
    <3>2. \A y \in Byte : y \in Nat /\ y < 256
      BY DEF Byte
    <3>. QED  BY <1>4, <2>1, <3>1, <3>2
  <2>3. SubSeq(BitsOfBytes(s), 8 * (i - 1) + 1, 8 * i) = Bits(s[i], 8)
    BY <1>1, <1>7, ByteAmongBits DEF BitsInByte
  <2>4. 8 * i = p + 8
    <3>. HIDE DEF i, p
    <3>. QED  BY <1>1, <1>2
  <2>. QED  BY <1>2, <1>4, <2>2, <2>3, <2>4 DEF IsRead
<1>. QED  BY <1>10, <1>11, <1>12 DEF ReadsOn, x

\* Decerealiser::readBits.
LEMMA ReadBitsRight ==
  ASSUME NEW r, ReaderOK(r), NEW f, ~f.whole, f.bits \in 1 .. 9,
         Position(r) + f.bits <= 8 * Len(r.bytes)
  PROVE  ReadsOn(r, f, FieldRead(r, f))
<1>. DEFINE i == r.iterator
            b == r.bitIndex
            n == Len(r.bytes)
            p == Position(r)
            k == f.bits
            q == IF b = 0 THEN Loaded(r) ELSE r
            c == [reader |-> q, bits |-> k]
            x == FieldRead(r, f)
<1>1. /\ r.bytes \in Seq(Byte) /\ n \in Nat /\ i \in 1 .. n + 1 /\ b \in 0 .. 8
      /\ p \in Nat
      /\ b = 0 => p = 8 * (i - 1)
      /\ r \in ReaderState /\ k \in 1 .. 9 /\ p + k <= 8 * n
  BY ReaderType DEF ReaderOK
<1>2. /\ OnByte(q) /\ q \in ReaderState /\ q.bytes = r.bytes /\ BitsPassed(q) = p
  <2>1. CASE b = 0
    <3>1. i <= n
      <4>. HIDE DEF i, b, n, p, k
      <4>. QED  BY <1>1, <2>1
    <3>. HIDE DEF p
    <3>. QED  BY <1>1, <2>1, <3>1, LoadedRight
  <2>2. CASE b > 0
    BY <1>1, <2>2 DEF ReaderOK, Position
  <2>3. b = 0 \/ b > 0
    <3>. HIDE DEF b
    <3>. QED  BY <1>1
  <2>. QED  BY <2>1, <2>2, <2>3
<1>3. x = ReadBitsHelper(q, k)
  BY DEF FieldRead, ReadBits
<1>. HIDE DEF q, x
<1>4. k \in 0 .. 9
  <2>. HIDE DEF k
  <2>. QED  BY <1>1
<1>5. Within(c)
  BY <1>1, <1>2, <1>4 DEF Within, ReadCalls, MaxBits
<1>6. Gives(c, x)
  BY <1>3, <1>4, <1>5, ReadBitsHelperRight
<1>7. q.bitIndex \in 0 .. 8
  BY <1>2 DEF ReaderState, BitsInByte
<1>8. Reach(c) > 0
  <2>. DEFINE d == q.bitIndex
  <2>1. Reach(c) = d + k /\ d \in 0 .. 8 /\ k \in 1 .. 9
    BY <1>1, <1>7 DEF Reach
  <2>. HIDE DEF d, k
  <2>. QED  BY <2>1
<1>9. /\ OnByte(x.reader) /\ x.reader.bytes = r.bytes /\ x.reader.bitIndex > 0
      /\ BitsPassed(x.reader) = p + k /\ IsRead(r.bytes, p, k, x.value)
  BY <1>2, <1>6, <1>8 DEF Gives
<1>10. ReaderOK(x.reader)
  <2>1. x.reader.iterator \in 2 .. n + 1 /\ x.reader \in ReaderState
    BY <1>9 DEF OnByte
  <2>2. x.reader.iterator \in 1 .. n + 1
    <3>. DEFINE j == x.reader.iterator
    <3>. HIDE DEF j, n
    <3>1. j \in 1 .. n + 1
      BY <1>1, <2>1 DEF j
    <3>. QED  BY <3>1 DEF j
  <2>. QED  BY <1>9, <2>1, <2>2 DEF ReaderOK
<1>11. Position(x.reader) = p + k
  <2>1. ~ x.reader.bitIndex = 0
    BY <1>9
  <2>. QED  BY <1>9, <2>1 DEF Position
<1>. QED  BY <1>9, <1>10, <1>11 DEF ReadsOn, x

\* Both ways to read a field give its bits.
LEMMA FieldReadRight ==
  ASSUME NEW r, ReaderOK(r), NEW f, IsField(f), f.whole => Position(r) % 8 = 0,
         Position(r) + f.bits <= 8 * Len(r.bytes)
  PROVE  ReadsOn(r, f, FieldRead(r, f))
<1>1. f.bits \in 1 .. 9 /\ (f.whole => f.bits = 8)
  BY DEF IsField, MaxBits, BitsInByte
<1>2. CASE f.whole
  BY <1>1, <1>2, ReadByteRight
<1>3. CASE ~f.whole
  BY <1>1, <1>3, ReadBitsRight
<1>. QED  BY <1>2, <1>3

-----------------------------------------------------------------------------
(* The inductive invariant.                                                *)

\* Bits were written behind a field of bits that had filled a byte.
Past(s) ==
  \E i, j \in 1 .. Len(s) :
    /\ i < j /\ ~s[i].whole /\ ~s[j].whole
    /\ WidthOf(s, i) % 8 = 0

Aligned(s) == \A j \in 1 .. Len(s) : s[j].whole => WidthOf(s, j - 1) % 8 = 0

WrittenOK(s) == s \in Seq(Field) /\ Len(s) <= MaxFields /\ Aligned(s)

\* All bits of the fields are in the bytes or wait to be written; or a field has
\* just filled its byte, and they are all in the bytes.
Waiting(w, s) == w.bitIndex < 8 /\ BitsOf(s) = AllBits(w)
JustFilled(w, s) ==
  /\ BitsOf(s) = BitsOfBytes(w.bytes)
  /\ \E i \in 1 .. Len(s) : ~s[i].whole /\ WidthOf(s, i) % 8 = 0

WriterInv ==
  /\ WriterOK(writer)
  /\ ~Past(written) => Waiting(writer, written) \/ JustFilled(writer, written)

\* The values read, as fields.
Values == [i \in 1 .. Len(got) |-> [value |-> got[i], bits |-> written[i].bits]]

ReaderInv ==
  /\ ReaderOK(reader)
  /\ reading \in BOOLEAN
  /\ ~reading => reader = Reader(<<>>) /\ got = <<>>
  /\ reading => reader.bytes = writer.bytes
  /\ got \in Seq(Nat) /\ Len(got) <= Len(written)
  /\ Position(reader) = WidthOf(written, Len(got))
  /\ BitsOf(Values) = SubSeq(BitsOfBytes(reader.bytes), 1, Position(reader))

GotInv == ~Past(written) => \A i \in 1 .. Len(got) : got[i] = written[i].value

SessionInv == WrittenOK(written) /\ WriterInv /\ ReaderInv /\ GotInv

\* The fields to write are fields of up to nine bits,
LEMMA FieldIsFields == IsFields(Field)
<1>1. ASSUME NEW f \in Field
      PROVE  f.value \in Nat /\ f.bits \in 0 .. 9
  <2>1. f.bits \in 1 .. 9 /\ f.value \in 0 .. (2^f.bits - 1)
    BY FieldAssumption DEF IsField, MaxBits
  <2>2. f.bits \in 0 .. 9
    BY <2>1
  <2>3. 2^f.bits \in Nat \ {0}
    BY <2>2, Powers
  <2>. QED  BY <2>1, <2>2, <2>3
<1>. QED  BY <1>1 DEF IsFields

\* ... and their values fit them.
LEMMA FieldType ==
  ASSUME NEW f \in Field
  PROVE  /\ f.bits \in 1 .. 9 /\ f.value \in Nat /\ f.value < 2^f.bits
         /\ f.whole \in BOOLEAN /\ (f.whole => f.bits = 8) /\ IsField(f)
         /\ (f.whole => f.value \in Byte)
<1>1. /\ f.bits \in 1 .. 9 /\ f.value \in 0 .. (2^f.bits - 1)
      /\ f.whole \in BOOLEAN /\ (f.whole => f.bits = 8) /\ IsField(f)
  BY FieldAssumption DEF IsField, MaxBits, BitsInByte
<1>2. f.bits \in 0 .. 9
  BY <1>1
<1>3. 2^f.bits \in Nat \ {0}
  BY <1>2, Powers
<1>4. f.value \in Nat /\ f.value < 2^f.bits
  <2>. DEFINE d == 2^f.bits
  <2>1. d \in Nat \ {0} /\ f.value \in 0 .. (d - 1)
    BY <1>1, <1>3
  <2>. HIDE DEF d
  <2>2. f.value \in Nat /\ f.value < d
    BY <2>1
  <2>. QED  BY <2>2 DEF d
<1>5. ASSUME f.whole PROVE f.value \in Byte
  <2>1. 2^8 = 256
    OBVIOUS
  <2>2. f.value < 256
    <3>1. 2^f.bits = 256
      BY <1>1, <1>5, <2>1
    <3>. QED  BY <1>4, <3>1
  <2>. QED  BY <1>4, <2>2 DEF Byte
<1>. QED  BY <1>1, <1>4, <1>5

\* The invariant holds of a new writer.
LEMMA SessionInitInv == SessionInit => SessionInv
<1>. SUFFICES ASSUME SessionInit PROVE SessionInv
  OBVIOUS
<1>1. /\ writer = EmptyWriter /\ written = <<>> /\ reading = FALSE
      /\ reader = Reader(<<>>) /\ got = <<>>
  BY DEF SessionInit
<1>2. /\ <<>> \in Seq(Field) /\ Len(<<>>) = 0 /\ <<>> \in Seq(Byte) /\ <<>> \in Seq(Nat)
      /\ WidthOf(<<>>, 0) = 0 /\ 1 .. 0 = {}
  <2>1. <<>> \in Seq(Field)
    OBVIOUS
  <2>2. WidthOf(<<>>, 0) = 0
    BY <2>1, FieldIsFields, FieldAmongBits
  <2>. QED  BY <2>1, <2>2
<1>3. WrittenOK(written)
  BY <1>1, <1>2, MaxFieldsAssumption DEF WrittenOK, Aligned
<1>4. WriterOK(writer)
  <2>1. 2^8 = 256 /\ 0 % 256 = 0 /\ 8 - 0 = 8
    OBVIOUS
  <2>. QED  BY <1>1, <1>2, <2>1 DEF WriterOK, EmptyWriter, Writer, Byte, BitsInByte
<1>5. Waiting(writer, written)
  <2>1. writer.bitIndex = 0 /\ writer.bytes = <<>>
    BY <1>1 DEF EmptyWriter
  <2>2. Rest(writer) = <<>>
    BY <2>1, NoBits DEF Rest
  <2>3. AllBits(writer) = <<>>
    BY <2>1, <2>2, BitsOfEmpty DEF AllBits
  <2>. QED  BY <1>1, <2>1, <2>3, BitsOfEmpty DEF Waiting
<1>6. WriterInv
  BY <1>4, <1>5 DEF WriterInv
<1>7. ReaderInv
  <2>1. reader = [bytes |-> <<>>, iterator |-> 1, currentByte |-> 0, bitIndex |-> 0]
    BY <1>1 DEF Reader
  <2>2. ReaderOK(reader)
    BY <1>2, <2>1 DEF ReaderOK, ReaderState, Byte, BitsInByte
  <2>3. Position(reader) = 0
    BY <2>1 DEF Position
  <2>4. Values = <<>>
    BY <1>1 DEF Values
  <2>5. SubSeq(BitsOfBytes(reader.bytes), 1, 0) = <<>>
    OBVIOUS
  <2>6. WidthOf(written, Len(got)) = 0
    BY <1>1, <1>2
  <2>7. BitsOf(Values) = SubSeq(BitsOfBytes(reader.bytes), 1, Position(reader))
    BY <2>3, <2>4, <2>5, BitsOfEmpty
  <2>8. got \in Seq(Nat) /\ Len(got) <= Len(written)
    BY <1>1, <1>2
  <2>9. /\ reading \in BOOLEAN /\ ~reading /\ reader = Reader(<<>>) /\ got = <<>>
    BY <1>1, Zenon
  <2>. QED  BY <2>2, <2>3, <2>6, <2>7, <2>8, <2>9 DEF ReaderInv
<1>8. GotInv
  BY <1>1, <1>2 DEF GotInv
<1>. QED  BY <1>3, <1>6, <1>7, <1>8 DEF SessionInv

\* What is written behind the fields there are: their widths stay, and a session
\* that has gone past a full byte has.
LEMMA WrittenNext ==
  ASSUME NEW s, WrittenOK(s), Len(s) < MaxFields, NEW f \in Field,
         f.whole => WidthOf(s, Len(s)) % 8 = 0
  PROVE  LET t == Append(s, f)
         IN  /\ WrittenOK(t) /\ Len(t) = Len(s) + 1 /\ Len(s) \in Nat
             /\ \A n \in 0 .. Len(s) : WidthOf(t, n) = WidthOf(s, n)
             /\ \A n \in 1 .. Len(s) : t[n] = s[n]
             /\ t[Len(t)] = f
             /\ WidthOf(t, Len(t)) = Len(BitsOf(t))
             /\ WidthOf(s, Len(s)) = Len(BitsOf(s))
             /\ BitsOf(t) = BitsOf(s) \o Bits(f.value, f.bits)
             /\ BitsOf(s) \in BitSeq
             /\ Past(s) => Past(t)
<1>. DEFINE t == Append(s, f)
<1>1. /\ t \in Seq(Field) /\ Len(t) = Len(s) + 1 /\ t[Len(t)] = f
      /\ \A n \in 0 .. Len(s) : WidthOf(t, n) = WidthOf(s, n)
      /\ \A n \in 1 .. Len(s) : t[n] = s[n]
      /\ WidthOf(s, Len(s)) = Len(BitsOf(s)) /\ WidthOf(t, Len(t)) = Len(BitsOf(t))
      /\ BitsOf(t) = BitsOf(s) \o Bits(f.value, f.bits)
      /\ BitsOf(s) \in BitSeq
  BY FieldIsFields, WidthAppend DEF WrittenOK
<1>2. Len(s) \in Nat /\ Len(s) + 1 <= MaxFields
  BY LenProperties, MaxFieldsAssumption DEF WrittenOK
<1>. HIDE DEF t
<1>3. Aligned(t)
  <2>1. ASSUME NEW j \in 1 .. Len(t), t[j].whole
        PROVE  WidthOf(t, j - 1) % 8 = 0
    <3>1. CASE j = Len(t)
      <4>1. j - 1 = Len(s) /\ Len(s) \in 0 .. Len(s)
        BY <1>1, <1>2, <3>1
      <4>2. f.whole
        BY <1>1, <2>1, <3>1
      <4>. QED  BY <1>1, <4>1, <4>2
    <3>2. CASE j # Len(t)
      <4>1. j \in 1 .. Len(s) /\ j - 1 \in 0 .. Len(s)
        BY <1>1, <1>2, <3>2
      <4>2. s[j].whole /\ WidthOf(t, j - 1) = WidthOf(s, j - 1)
        BY <1>1, <2>1, <4>1
      <4>. QED  BY <4>1, <4>2 DEF WrittenOK, Aligned
    <3>. QED  BY <3>1, <3>2
  <2>. QED  BY <2>1 DEF Aligned
<1>4. Past(s) => Past(t)
  <2>1. \A i \in 1 .. Len(s) : i \in 1 .. Len(t) /\ i \in 0 .. Len(s)
    BY <1>1, <1>2
  <2>. QED  BY <1>1, <2>1 DEF Past
<1>5. WrittenOK(t)
  BY <1>1, <1>2, <1>3 DEF WrittenOK
<1>. QED  BY <1>1, <1>2, <1>4, <1>5 DEF t

\* Writing a field keeps the writer's part of the invariant: grainBits through
\* writeBits, grain of a byte behind full bytes only.
LEMMA WriterNext ==
  ASSUME NEW w, WriterOK(w), NEW s, WrittenOK(s), Len(s) < MaxFields,
         ~Past(s) => Waiting(w, s) \/ JustFilled(w, s),
         NEW f \in Field, f.whole => WidthOf(s, Len(s)) % 8 = 0
  PROVE  LET v == IF f.whole THEN WriteByte(w, f.value) ELSE WriteBits(w, f.value, f.bits)
             t == Append(s, f)
         IN  WriterOK(v) /\ (~Past(t) => Waiting(v, t) \/ JustFilled(v, t))
<1>. DEFINE v == IF f.whole THEN WriteByte(w, f.value) ELSE WriteBits(w, f.value, f.bits)
            t == Append(s, f)
            C == Bits(f.value, f.bits)
<1>1. /\ WrittenOK(t) /\ Len(t) = Len(s) + 1 /\ Len(s) \in Nat
      /\ \A n \in 0 .. Len(s) : WidthOf(t, n) = WidthOf(s, n)
      /\ \A n \in 1 .. Len(s) : t[n] = s[n]
      /\ t[Len(t)] = f
      /\ WidthOf(t, Len(t)) = Len(BitsOf(t))
      /\ WidthOf(s, Len(s)) = Len(BitsOf(s))
      /\ BitsOf(t) = BitsOf(s) \o C
      /\ BitsOf(s) \in BitSeq
      /\ Past(s) => Past(t)
  BY WrittenNext
<1>2. /\ f.bits \in 1 .. 9 /\ f.value \in Nat /\ f.value < 2^f.bits
      /\ f.whole \in BOOLEAN /\ (f.whole => f.bits = 8) /\ (f.whole => f.value \in Byte)
  BY FieldType
<1>3. /\ w \in Writer /\ w.bytes \in Seq(Byte) /\ w.bitIndex \in 0 .. 8
      /\ w.currentByte \in Byte
  BY DEF WriterOK, Writer, BitsInByte
<1>4. /\ AllBits(w) \in BitSeq /\ BitsOfBytes(w.bytes) \in BitSeq
      /\ Len(AllBits(w)) = 8 * Len(w.bytes) + w.bitIndex
  BY AllBitsType
<1>5. Len(w.bytes) \in Nat
  BY <1>3, LenProperties
<1>. HIDE DEF t, C
<1>6. ASSUME f.whole
      PROVE  WriterOK(v) /\ (~Past(t) => Waiting(v, t) \/ JustFilled(v, t))
  <2>1. /\ v = [bytes |-> Append(w.bytes, f.value), currentByte |-> w.currentByte,
                bitIndex |-> w.bitIndex]
        /\ Append(w.bytes, f.value) \in Seq(Byte)
    <3>1. v = [w EXCEPT !.bytes = Append(w.bytes, f.value)]
      BY <1>6 DEF WriteByte
    <3>. HIDE DEF v
    <3>. QED  BY <1>2, <1>3, <1>6, <3>1, AppendProperties DEF Writer
  <2>. HIDE DEF v
  <2>2. WriterOK(v)
    BY <1>3, <2>1 DEF WriterOK, Writer, BitsInByte
  <2>3. BitsOfBytes(v.bytes) = BitsOfBytes(w.bytes) \o C
    <3>1. f.value \in Byte /\ f.bits = 8
      BY <1>2, <1>6
    <3>2. BitsOfBytes(Append(w.bytes, f.value)) = BitsOfBytes(w.bytes) \o Bits(f.value, BitsInByte)
      BY <1>3, <3>1, BytesAppend
    <3>. QED  BY <2>1, <3>1, <3>2 DEF C, BitsInByte
  <2>4. ASSUME Waiting(w, s)
        PROVE  Waiting(v, t)
    <3>1. w.bitIndex = 0
      <4>. DEFINE b == w.bitIndex
                  n == Len(w.bytes)
      <4>1. (8 * n + b) % 8 = 0
        BY <1>1, <1>4, <1>6, <2>4 DEF Waiting
      <4>2. b \in 0 .. 7 /\ n \in Nat
        <5>1. b < 8
          BY <2>4 DEF Waiting
        <5>. HIDE DEF b
        <5>. QED  BY <1>3, <1>5, <5>1 DEF b
      <4>. HIDE DEF b, n
      <4>3. b = 0
        BY <4>1, <4>2
      <4>. QED  BY <4>3 DEF b
    <3>2. Rest(w) = <<>> /\ Rest(v) = <<>>
      BY <2>1, <3>1, NoBits DEF Rest
    <3>3. BitsOfBytes(v.bytes) \in BitSeq
      BY <2>2, AllBitsType
    <3>4. AllBits(w) = BitsOfBytes(w.bytes) /\ AllBits(v) = BitsOfBytes(v.bytes)
      BY <1>4, <3>2, <3>3, ConcatEmptySeq DEF AllBits, BitSeq
    <3>. QED  BY <1>1, <2>1, <2>3, <2>4, <3>1, <3>4 DEF Waiting
  <2>5. ASSUME JustFilled(w, s)
        PROVE  JustFilled(v, t)
    <3>1. PICK i \in 1 .. Len(s) : ~s[i].whole /\ WidthOf(s, i) % 8 = 0
      BY <2>5 DEF JustFilled
    <3>2. i \in 1 .. Len(t) /\ i \in 0 .. Len(s)
      BY <1>1
    <3>3. ~t[i].whole /\ WidthOf(t, i) % 8 = 0
      BY <1>1, <3>1, <3>2
    <3>. QED  BY <1>1, <2>3, <2>5, <3>2, <3>3 DEF JustFilled
  <2>. QED  BY <1>1, <2>2, <2>4, <2>5
<1>7. ASSUME ~f.whole
      PROVE  WriterOK(v) /\ (~Past(t) => Waiting(v, t) \/ JustFilled(v, t))
  <2>. DEFINE c == [writer |-> w, value |-> f.value, bits |-> f.bits]
  <2>1. v = WriteBits(w, f.value, f.bits)
    BY <1>7
  <2>. HIDE DEF v
  <2>2. Added(c, v)
    BY <1>2, <2>1, WriteBitsRight DEF MaxBits
  <2>3. /\ WriterOK(v)
        /\ w.bitIndex < 8 => \/ v.bitIndex < 8 /\ AllBits(v) = AllBits(w) \o C
                             \/ BitsOfBytes(v.bytes) = AllBits(w) \o C
    BY <2>2 DEF Added, C
  <2>4. ASSUME Waiting(w, s)
        PROVE  Waiting(v, t) \/ JustFilled(v, t)
    <3>1. CASE v.bitIndex < 8 /\ AllBits(v) = AllBits(w) \o C
      BY <1>1, <2>4, <3>1 DEF Waiting
    <3>2. CASE BitsOfBytes(v.bytes) = AllBits(w) \o C
      <4>1. BitsOf(t) = BitsOfBytes(v.bytes)
        BY <1>1, <2>4, <3>2 DEF Waiting
      <4>2. v.bytes \in Seq(Byte)
        BY <2>3 DEF WriterOK, Writer
      <4>3. Len(BitsOfBytes(v.bytes)) = 8 * Len(v.bytes) /\ Len(v.bytes) \in Nat
        BY <4>2, BytesLength, LenProperties DEF BitsInByte
      <4>4. WidthOf(t, Len(t)) % 8 = 0
        BY <1>1, <4>1, <4>3
      <4>5. Len(t) \in 1 .. Len(t) /\ ~t[Len(t)].whole
        BY <1>1, <1>7
      <4>. QED  BY <4>1, <4>4, <4>5 DEF JustFilled
    <3>. QED  BY <2>3, <2>4, <3>1, <3>2 DEF Waiting
  <2>5. ASSUME JustFilled(w, s)
        PROVE  Past(t)
    <3>1. PICK i \in 1 .. Len(s) : ~s[i].whole /\ WidthOf(s, i) % 8 = 0
      BY <2>5 DEF JustFilled
    <3>2. i \in 1 .. Len(t) /\ i \in 0 .. Len(s) /\ Len(t) \in 1 .. Len(t) /\ i < Len(t)
      BY <1>1
    <3>3. ~t[i].whole /\ WidthOf(t, i) % 8 = 0 /\ ~t[Len(t)].whole
      BY <1>1, <1>7, <3>1, <3>2
    <3>. QED  BY <3>2, <3>3 DEF Past
  <2>. QED  BY <1>1, <2>3, <2>4, <2>5
<1>8. WriterOK(v) /\ (~Past(t) => Waiting(v, t) \/ JustFilled(v, t))
  <2>. HIDE DEF v
  <2>. QED  BY <1>2, <1>6, <1>7
<1>. QED  BY <1>8 DEF t

\* Writing a field,
LEMMA WriteFieldInv ==
  ASSUME SessionInv, NEW f \in Field, WriteField(f)
  PROVE  SessionInv'
<1>1. /\ ~reading /\ Len(written) < MaxFields
      /\ f.whole => WidthOf(written, Len(written)) % 8 = 0
      /\ writer' = IF f.whole THEN WriteByte(writer, f.value)
                              ELSE WriteBits(writer, f.value, f.bits)
      /\ written' = Append(written, f)
      /\ reading' = reading /\ reader' = reader /\ got' = got
  BY DEF WriteField, Width, WidthOf, BitsInByte
<1>2. WrittenOK(written) /\ WriterOK(writer)
      /\ (~Past(written) => Waiting(writer, written) \/ JustFilled(writer, written))
  BY DEF SessionInv, WriterInv
<1>3. /\ WrittenOK(written')
      /\ \A n \in 0 .. Len(written) : WidthOf(written', n) = WidthOf(written, n)
      /\ Len(written) \in Nat
  BY <1>1, <1>2, WrittenNext
<1>4. WriterOK(writer')
      /\ (~Past(written') => Waiting(writer', written') \/ JustFilled(writer', written'))
  BY <1>1, <1>2, WriterNext
<1>5. /\ ReaderOK(reader) /\ reading \in BOOLEAN /\ reader = Reader(<<>>) /\ got = <<>>
      /\ got \in Seq(Nat) /\ Position(reader) = WidthOf(written, Len(got))
      /\ BitsOf(Values) = SubSeq(BitsOfBytes(reader.bytes), 1, Position(reader))
  BY <1>1 DEF SessionInv, ReaderInv
<1>6. Len(got) = 0 /\ Len(written') = Len(written) + 1 /\ 1 .. 0 = {}
  <2>1. Len(<<>>) = 0 /\ 1 .. 0 = {}
    OBVIOUS
  <2>2. Len(written') = Len(written) + 1
    BY <1>1, <1>2, WrittenNext
  <2>. QED  BY <1>5, <2>1, <2>2
<1>7. ReaderInv'
  <2>1. Values' = Values
    <3>1. Values = <<>>
      BY <1>6 DEF Values
    <3>2. Values' = <<>>
      BY <1>1, <1>6 DEF Values
    <3>. QED  BY <3>1, <3>2
  <2>2. Len(got) <= Len(written') /\ WidthOf(written', Len(got)) = WidthOf(written, Len(got))
    BY <1>3, <1>6
  <2>. QED  BY <1>1, <1>5, <2>1, <2>2 DEF ReaderInv
<1>8. GotInv'
  BY <1>1, <1>6 DEF GotInv
<1>. QED  BY <1>3, <1>4, <1>7, <1>8 DEF SessionInv, WriterInv

\* The reader starts with the first of the bytes, whenever it starts.
LEMMA AtStart ==
  ASSUME SessionInv, NEW r, r.bytes = writer.bytes, r.iterator = 1, r.currentByte = 0, r.bitIndex = 0,
         r \in ReaderState,
         reader' = r, got' = <<>>, writer' = writer, written' = written, reading' = TRUE
  PROVE  SessionInv'
<1>1. WrittenOK(written) /\ written \in Seq(Field) /\ WriterOK(writer) /\ r.bytes \in Seq(Byte)
  BY DEF SessionInv, WrittenOK, WriterInv, WriterOK, Writer
<1>2. Len(r.bytes) \in Nat /\ Len(written) \in Nat
  BY <1>1, LenProperties
<1>3. ReaderOK(r)
  BY <1>2 DEF ReaderOK
<1>4. Position(r) = 0
  BY DEF Position
<1>5. WidthOf(written, 0) = 0
  BY <1>1, FieldIsFields, FieldAmongBits
<1>6. Len(<<>>) = 0 /\ <<>> \in Seq(Nat) /\ 1 .. 0 = {}
      /\ SubSeq(BitsOfBytes(r.bytes), 1, 0) = <<>>
  OBVIOUS
<1>7. BitsOf(Values') = <<>>
  <2>1. Values' = <<>>
    BY <1>6 DEF Values
  <2>. QED  BY <2>1, BitsOfEmpty
<1>8. ReaderInv'
  <2>1. got' \in Seq(Nat) /\ Len(got') = 0 /\ Len(got') <= Len(written')
    BY <1>2, <1>6
  <2>2. Position(reader') = WidthOf(written', Len(got'))
    BY <1>4, <1>5, <2>1
  <2>3. BitsOf(Values') = SubSeq(BitsOfBytes(reader'.bytes), 1, Position(reader'))
    BY <1>4, <1>6, <1>7
  <2>4. reading' \in BOOLEAN /\ reading'
    BY Zenon
  <2>. QED  BY <1>3, <2>1, <2>2, <2>3, <2>4 DEF ReaderInv
<1>9. GotInv'
  BY <1>6 DEF GotInv
<1>. QED  BY <1>8, <1>9 DEF SessionInv, WriterInv

\* ... starting to read,
LEMMA StartReadingInv ==
  ASSUME SessionInv, StartReading
  PROVE  SessionInv'
<1>1. /\ ~reading /\ reading' = TRUE /\ reader' = Reader(writer.bytes)
      /\ writer' = writer /\ written' = written /\ got' = got
  BY DEF StartReading
<1>2. got = <<>> /\ writer.bytes \in Seq(Byte)
  BY <1>1 DEF SessionInv, ReaderInv, WriterInv, WriterOK, Writer
<1>. DEFINE r == Reader(writer.bytes)
<1>3. /\ r.bytes = writer.bytes /\ r.iterator = 1 /\ r.currentByte = 0 /\ r.bitIndex = 0
      /\ r \in ReaderState
  BY <1>2 DEF Reader, ReaderState, Byte, BitsInByte
<1>. HIDE DEF r
<1>4. reader' = r
  BY <1>1 DEF r
<1>. QED  BY <1>1, <1>2, <1>3, <1>4, AtStart

\* ... starting again after reset,
LEMMA ReadAgainInv ==
  ASSUME SessionInv, ReadAgain
  PROVE  SessionInv'
<1>1. /\ reading /\ reader' = Reset(reader) /\ got' = <<>>
      /\ writer' = writer /\ written' = written /\ reading' = reading
  BY DEF ReadAgain
<1>2. reader.bytes = writer.bytes /\ reader \in ReaderState /\ reading \in BOOLEAN
  BY <1>1 DEF SessionInv, ReaderInv, ReaderOK
<1>. DEFINE r == Reset(reader)
<1>3. r = [bytes |-> reader.bytes, iterator |-> 1, currentByte |-> 0, bitIndex |-> 0]
      /\ reader.bytes \in Seq(Byte)
  <2>1. r = [reader EXCEPT !.currentByte = 0, !.iterator = 1, !.bitIndex = 0]
    BY DEF Reset
  <2>2. /\ reader.bytes \in Seq(Byte)
        /\ reader = [bytes |-> reader.bytes, iterator |-> reader.iterator,
                     currentByte |-> reader.currentByte, bitIndex |-> reader.bitIndex]
    BY <1>2 DEF ReaderState
  <2>. HIDE DEF r
  <2>. QED  BY <2>1, <2>2
<1>4. r \in ReaderState
  BY <1>3 DEF ReaderState, Byte, BitsInByte
<1>. HIDE DEF r
<1>5. reader' = r /\ reading' = TRUE
  BY <1>1, <1>2, Zenon DEF r
<1>. QED  BY <1>1, <1>2, <1>3, <1>4, <1>5, AtStart

\* The bits of a field that is read from the bytes are those it was written as.
LEMMA ReadIsWritten ==
  ASSUME NEW w, WriterOK(w), NEW s, WrittenOK(s), Waiting(w, s) \/ JustFilled(w, s),
         NEW n \in 1 .. Len(s), NEW v,
         IsRead(w.bytes, WidthOf(s, n - 1), s[n].bits, v),
         WidthOf(s, n) <= 8 * Len(w.bytes)
  PROVE  v = s[n].value
<1>. DEFINE a == WidthOf(s, n - 1)
            b == WidthOf(s, n)
            B == BitsOfBytes(w.bytes)
            k == s[n].bits
<1>1. /\ a \in Nat /\ b = a + k /\ BitsOf(s) \in BitSeq
      /\ SubSeq(BitsOf(s), a + 1, b) = Bits(s[n].value, k)
  BY FieldIsFields, FieldAmongBits DEF WrittenOK
<1>2. s[n] \in Field
  BY ElementOfSeq DEF WrittenOK
<1>3. k \in 0 .. 9 /\ s[n].value \in Nat /\ s[n].value < 2^k
  <2>1. k \in 1 .. 9 /\ s[n].value \in Nat /\ s[n].value < 2^k
    BY <1>2, FieldType
  <2>. HIDE DEF k
  <2>. QED  BY <2>1
<1>4. v \in Nat /\ v < 2^k /\ Bits(v, k) = SubSeq(B, a + 1, a + k)
  BY DEF IsRead
<1>5. w.bytes \in Seq(Byte)
  BY DEF WriterOK, Writer
<1>6. B \in Seq({0, 1}) /\ Len(B) = 8 * Len(w.bytes)
  BY <1>5, BytesLength DEF BitSeq, BitsInByte
<1>7. a <= b /\ b \in Nat /\ b <= Len(B)
  <2>1. b <= 8 * Len(w.bytes)
    OBVIOUS
  <2>. HIDE DEF a, b, k
  <2>. QED  BY <1>1, <1>3, <1>6, <2>1
<1>8. SubSeq(BitsOf(s), a + 1, b) = SubSeq(B, a + 1, b)
  <2>1. CASE JustFilled(w, s)
    BY <2>1 DEF JustFilled
  <2>2. CASE Waiting(w, s)
    <3>1. BitsOf(s) = B \o Rest(w) /\ Rest(w) \in Seq({0, 1})
      BY <2>2, RestType DEF Waiting, AllBits, BitSeq
    <3>. DEFINE r == Rest(w)
    <3>2. B \in Seq({0, 1}) /\ r \in Seq({0, 1}) /\ a \in Nat /\ b \in Nat /\ a <= b /\ b <= Len(B)
      BY <1>1, <1>6, <1>7, <3>1
    <3>. HIDE DEF a, b, B, r
    <3>3. SubSeq(B \o r, a + 1, b) = SubSeq(B, a + 1, b)
      BY <3>2, PieceOfConcat
    <3>. QED  BY <3>1, <3>3 DEF r
  <2>. QED  BY <2>1, <2>2
<1>9. Bits(v, k) = Bits(s[n].value, k)
  <2>. HIDE DEF a, b, B, k
  <2>. QED  BY <1>1, <1>4, <1>8
<1>. HIDE DEF k
<1>. QED  BY <1>3, <1>4, <1>9, BitsInjective

\* ... and reading a field keep the invariant,
LEMMA ReadFieldInv ==
  ASSUME SessionInv, ReadField
  PROVE  SessionInv'
<1>. DEFINE n == Len(got) + 1
            f == written[n]
            x == FieldRead(reader, f)
            p == Position(reader)
            B == BitsOfBytes(reader.bytes)
<1>1. /\ reading /\ Len(got) < Len(written)
      /\ f.bits <= Ahead
      /\ got' = Append(got, x.value) /\ reader' = x.reader
      /\ writer' = writer /\ written' = written /\ reading' = reading
  BY DEF ReadField, FieldRead
<1>2. /\ ReaderOK(reader) /\ reader.bytes = writer.bytes
      /\ got \in Seq(Nat) /\ Len(got) <= Len(written)
      /\ p = WidthOf(written, Len(got))
      /\ BitsOf(Values) = SubSeq(B, 1, p)
  BY <1>1 DEF SessionInv, ReaderInv
<1>3. /\ WrittenOK(written) /\ WriterOK(writer) /\ written \in Seq(Field)
      /\ ~Past(written) => Waiting(writer, written) \/ JustFilled(writer, written)
  BY DEF SessionInv, WriterInv, WrittenOK
<1>4. Len(got) \in Nat /\ Len(written) \in Nat /\ n \in 1 .. Len(written) /\ n - 1 = Len(got)
  <2>1. Len(got) \in Nat /\ Len(written) \in Nat
    BY <1>2, <1>3, LenProperties
  <2>. QED  BY <1>1, <2>1
<1>. HIDE DEF n
<1>5. f \in Field
  BY <1>3, <1>4, ElementOfSeq
<1>6. IsField(f) /\ f.bits \in 1 .. 9
  BY <1>5, FieldType
<1>7. f.whole => p % 8 = 0
  BY <1>2, <1>3, <1>4 DEF WrittenOK, Aligned
<1>8. p + f.bits <= 8 * Len(reader.bytes)
  <2>. DEFINE i == reader.iterator
              b == reader.bitIndex
              l == Len(reader.bytes)
              k == f.bits
  <2>1. /\ l \in Nat /\ i \in 1 .. l + 1 /\ b \in 0 .. 8 /\ p \in Nat
        /\ b = 0 => p = 8 * (i - 1)
        /\ b > 0 => p = 8 * (i - 2) + b
    BY <1>2, ReaderType
  <2>2. k <= 8 * (l + 1 - i) + (IF b = 0 THEN 0 ELSE 8 - b) /\ k \in 1 .. 9
    BY <1>1, <1>6 DEF Ahead, BytesLeft, BitsInByte
  <2>. HIDE DEF f, i, b, l, k, p
  <2>3. CASE b = 0
    <3>1. k <= 8 * (l + 1 - i) + 0
      BY <2>2, <2>3
    <3>2. p + k <= 8 * l
      BY <2>1, <2>2, <2>3, <3>1
    <3>. QED  BY <3>2 DEF l, k
  <2>4. CASE b > 0
    <3>1. k <= 8 * (l + 1 - i) + (8 - b)
      BY <2>2, <2>4
    <3>2. p + k <= 8 * l
      BY <2>1, <2>2, <2>4, <3>1
    <3>. QED  BY <3>2 DEF l, k
  <2>5. b = 0 \/ b > 0
    BY <2>1
  <2>. QED  BY <2>3, <2>4, <2>5
<1>9. /\ ReaderOK(x.reader) /\ x.reader.bytes = reader.bytes
      /\ Position(x.reader) = p + f.bits
      /\ IsRead(reader.bytes, p, f.bits, x.value)
  <2>. HIDE DEF f
  <2>1. ReadsOn(reader, f, x)
    BY <1>2, <1>6, <1>7, <1>8, FieldReadRight
  <2>. QED  BY <2>1 DEF ReadsOn
<1>. HIDE DEF x
<1>10. x.value \in Nat
  BY <1>9 DEF IsRead
<1>11. WidthOf(written, n) = p + f.bits
  <2>1. WidthOf(written, n) = WidthOf(written, n - 1) + f.bits
    BY <1>3, <1>4, FieldIsFields, FieldAmongBits
  <2>. QED  BY <1>2, <1>4, <2>1
<1>12. /\ got' \in Seq(Nat) /\ Len(got') = n /\ got'[n] = x.value
       /\ \A i \in 1 .. Len(got) : got'[i] = got[i]
  <2>1. n = Len(got) + 1
    BY DEF n
  <2>. QED  BY <1>1, <1>2, <1>10, <2>1, AppendProperties
<1>13. BitsOf(Values') = SubSeq(BitsOfBytes(reader'.bytes), 1, Position(reader'))
  <2>. DEFINE F == [value : Nat, bits : 0 .. 9]
              e == [value |-> x.value, bits |-> f.bits]
  <2>1. \A i \in 1 .. Len(written) : written[i].bits \in 0 .. 9
    <3>1. ASSUME NEW i \in 1 .. Len(written)
          PROVE  written[i].bits \in 0 .. 9
      <4>1. written[i] \in Field
        BY <1>3, ElementOfSeq
      <4>. QED  BY <4>1, FieldIsFields DEF IsFields
    <3>. QED  BY <3>1
  <2>2. Values \in Seq(F) /\ Len(Values) = Len(got)
    <3>1. \A i \in 1 .. Len(got) : got[i] \in Nat /\ written[i].bits \in 0 .. 9
      <4>1. \A i \in 1 .. Len(got) : i \in 1 .. Len(written)
        BY <1>2, <1>4
      <4>. QED  BY <1>2, <2>1, <4>1, ElementOfSeq
    <3>2. \A i \in 1 .. Len(got) : [value |-> got[i], bits |-> written[i].bits] \in F
      BY <3>1
    <3>. QED  BY <1>4, <3>2 DEF Values
  <2>3. e \in F
    <3>1. f.bits \in 0 .. 9
      BY <1>4, <2>1
    <3>. QED  BY <1>10, <3>1
  <2>4. IsFields(F)
    BY DEF IsFields
  <2>5. Values' = Append(Values, e)
    <3>. DEFINE V(i) == [value |-> got'[i], bits |-> written[i].bits]
    <3>1. Values' = [i \in 1 .. n |-> V(i)]
      BY <1>1, <1>12 DEF Values
    <3>2. \A i \in 1 .. Len(got) : Values[i] = V(i)
      BY <1>12 DEF Values
    <3>3. V(n) = e
      BY <1>12
    <3>. DEFINE A == Append(Values, e)
    <3>. HIDE DEF V, e, F
    <3>4. /\ A \in Seq(F) /\ Len(A) = Len(Values) + 1 /\ A[Len(Values) + 1] = e
          /\ \A i \in 1 .. Len(Values) : A[i] = Values[i]
      BY <2>2, <2>3, AppendProperties
    <3>. HIDE DEF A
    <3>5. Len(Values) + 1 = n /\ Len(A) = n
      BY <2>2, <3>4 DEF n
    <3>6. \A i \in 1 .. n : i \in 1 .. Len(got) \/ i = n
      BY <1>4 DEF n
    <3>7. \A i \in 1 .. n : A[i] = V(i)
      BY <2>2, <3>2, <3>3, <3>4, <3>5, <3>6
    <3>8. A = [i \in 1 .. n |-> A[i]]
      BY <3>4, <3>5, LenProperties
    <3>. QED  BY <3>1, <3>7, <3>8 DEF A
  <2>6. BitsOf(Values') = BitsOf(Values) \o Bits(x.value, f.bits)
    <3>1. e.value = x.value /\ e.bits = f.bits
      OBVIOUS
    <3>. HIDE DEF e, F
    <3>. QED  BY <2>2, <2>3, <2>4, <2>5, <3>1, BitsOfAppend
  <2>7. Bits(x.value, f.bits) = SubSeq(B, p + 1, p + f.bits)
    BY <1>9 DEF IsRead
  <2>8. SubSeq(B, 1, p) \o SubSeq(B, p + 1, p + f.bits) = SubSeq(B, 1, p + f.bits)
    <3>. DEFINE q == p + f.bits
    <3>1. reader.bytes \in Seq(Byte) /\ p \in Nat
      BY <1>2, ReaderType
    <3>2. B \in Seq({0, 1}) /\ Len(B) = 8 * Len(reader.bytes)
      BY <3>1, BytesLength DEF BitSeq, BitsInByte
    <3>3. q \in Nat /\ p <= q
      <4>. DEFINE k == f.bits
      <4>1. k \in 1 .. 9 /\ p \in Nat
        BY <1>6, <3>1
      <4>. HIDE DEF k, p
      <4>2. p + k \in Nat /\ p <= p + k
        BY <4>1
      <4>. QED  BY <4>2 DEF k
    <3>4. q <= Len(B)
      BY <1>8, <3>2
    <3>5. 0 \in Nat /\ 0 <= p /\ 0 + 1 = 1
      BY <3>1
    <3>. HIDE DEF p, q, B
    <3>6. SubSeq(B, 0 + 1, p) \o SubSeq(B, p + 1, q) = SubSeq(B, 0 + 1, q)
      BY <3>1, <3>2, <3>3, <3>4, <3>5, AdjacentPieces
    <3>. QED  BY <3>5, <3>6 DEF q
  <2>9. BitsOfBytes(reader'.bytes) = B /\ Position(reader') = p + f.bits
    BY <1>1, <1>9
  <2>. HIDE DEF B, p, f, e, F
  <2>. QED  BY <1>2, <2>6, <2>7, <2>8, <2>9
<1>14. ReaderInv'
  <2>1. Position(reader') = WidthOf(written', Len(got'))
    BY <1>1, <1>9, <1>11, <1>12
  <2>2. reading' \in BOOLEAN /\ reading'
    <3>1. reading \in BOOLEAN
      BY DEF SessionInv, ReaderInv
    <3>. QED  BY <1>1, <3>1, Zenon
  <2>3. ReaderOK(reader') /\ reader'.bytes = writer'.bytes
    BY <1>1, <1>2, <1>9
  <2>4. Len(got') <= Len(written')
    BY <1>1, <1>4, <1>12
  <2>. QED  BY <1>12, <1>13, <2>1, <2>2, <2>3, <2>4 DEF ReaderInv
<1>15. ASSUME ~Past(written)
       PROVE  x.value = f.value
  <2>1. WidthOf(written, n) <= 8 * Len(writer.bytes)
    BY <1>2, <1>8, <1>11
  <2>2. IsRead(writer.bytes, WidthOf(written, n - 1), written[n].bits, x.value)
    BY <1>2, <1>4, <1>9
  <2>. HIDE DEF x
  <2>. QED  BY <1>3, <1>4, <1>15, <2>1, <2>2, ReadIsWritten
<1>16. GotInv'
  <2>1. ASSUME ~Past(written), NEW i \in 1 .. n
        PROVE  got'[i] = written[i].value
    <3>1. i = n \/ i \in 1 .. Len(got)
      BY <1>4 DEF n
    <3>2. CASE i = n
      BY <1>12, <1>15, <2>1, <3>2
    <3>3. CASE i \in 1 .. Len(got)
      <4>1. got[i] = written[i].value
        BY <2>1, <3>3 DEF SessionInv, GotInv
      <4>. QED  BY <1>12, <3>3, <4>1
    <3>. QED  BY <3>1, <3>2, <3>3
  <2>. QED  BY <1>1, <1>12, <2>1 DEF GotInv
<1>17. WrittenOK(written') /\ WriterInv'
  <2>1. WriterInv
    BY DEF SessionInv
  <2>. QED  BY <1>1, <1>3, <2>1 DEF WriterInv
<1>. QED  BY <1>14, <1>16, <1>17 DEF SessionInv

\* ... and so does every step.
LEMMA SessionNextInv == SessionInv /\ [SessionNext]_sessionVars => SessionInv'
<1>. SUFFICES ASSUME SessionInv, [SessionNext]_sessionVars PROVE SessionInv'
  OBVIOUS
<1>1. ASSUME NEW f \in Field, WriteField(f) PROVE SessionInv'
  BY <1>1, WriteFieldInv
<1>2. CASE StartReading
  BY <1>2, StartReadingInv
<1>3. CASE ReadField
  BY <1>3, ReadFieldInv
<1>4. CASE ReadAgain
  BY <1>4, ReadAgainInv
<1>5. CASE UNCHANGED sessionVars
  BY <1>5 DEF sessionVars, SessionInv, WriterInv, ReaderInv, GotInv, Values
<1>. QED  BY <1>1, <1>2, <1>3, <1>4, <1>5 DEF SessionNext

\* The invariant holds in every state.
LEMMA SessionInvariant == SessionSpec => []SessionInv
<1>. QED  BY SessionInitInv, SessionNextInv, PTL DEF SessionSpec

\* The condition of the properties, in the terms of the invariant.
LEMMA PastMeans == WrittenPastFullByte <=> Past(written)
BY DEF WrittenPastFullByte, Past, Width, WidthOf, BitsInByte

-----------------------------------------------------------------------------
(* The properties.                                                         *)

\* The members of a Cerealiser and a Decerealiser stay in their ranges, the bits
\* that |= is still to set are zero, and the reader stays within its bytes.
THEOREM CerealTypeOK == SessionSpec => []SessionTypeOK
<1>1. ASSUME SessionInv PROVE SessionTypeOK
  <2>1. /\ WrittenOK(written) /\ WriterOK(writer) /\ ReaderOK(reader) /\ reading \in BOOLEAN
        /\ got \in Seq(Nat) /\ Len(got) <= Len(written)
    BY <1>1 DEF SessionInv, WriterInv, ReaderInv
  <2>2. /\ writer.bytes \in Seq(Byte) /\ writer.currentByte \in Byte
        /\ writer.bitIndex \in 0..BitsInByte
        /\ writer.currentByte % 2^(BitsInByte - writer.bitIndex) = 0
    BY <2>1 DEF WriterOK, Writer
  <2>3. /\ reader.iterator \in 1..(Len(reader.bytes) + 1)
        /\ reader.bitIndex \in 0..BitsInByte
    BY <2>1 DEF ReaderOK, ReaderState
  <2>. QED  BY <2>1, <2>2, <2>3 DEF SessionTypeOK, WrittenOK
<1>. QED  BY <1>1, SessionInvariant, PTL

\* The reader gives every bit of its bytes once and in order, whatever the
\* widths of the fields it is asked for and however often it is reset.
THEOREM CerealReadsInOrder == SessionSpec => []ReadsInOrder
<1>1. ASSUME SessionInv PROVE ReadsInOrder
  <2>. DEFINE B == BitsOfBytes(reader.bytes)
              p == Position(reader)
              V == BitsOf(Values)
  <2>1. ReaderOK(reader) /\ V = SubSeq(B, 1, p)
    BY <1>1 DEF SessionInv, ReaderInv
  <2>2. reader.bytes \in Seq(Byte) /\ p \in Nat /\ p <= 8 * Len(reader.bytes)
    BY <2>1, ReaderType
  <2>3. B \in Seq({0, 1}) /\ Len(B) = 8 * Len(reader.bytes)
    BY <2>2, BytesLength DEF BitSeq, BitsInByte
  <2>4. ReadsInOrder <=> IsPrefix(V, B)
    BY DEF ReadsInOrder, Values
  <2>5. p <= Len(B)
    BY <2>2, <2>3
  <2>. HIDE DEF V, B, p
  <2>6. Len(V) = p
    BY <2>1, <2>2, <2>3, <2>5
  <2>7. SubSeq(V, 1, p) = V
    <3>1. V \in Seq({0, 1})
      BY <2>1, <2>2, <2>3, <2>5
    <3>. QED  BY <2>6, <3>1, SubSeqFull
  <2>8. IsPrefix(V, B)
    BY <2>1, <2>5, <2>6, <2>7 DEF IsPrefix
  <2>. QED  BY <2>4, <2>8
<1>. QED  BY <1>1, SessionInvariant, PTL

\* Until bits are written behind a field of bits that filled a byte, the
\* writer's bytes are all the bits it was given, but for those of the last byte.
THEOREM CerealWritesInOrder == SessionSpec => []WritesInOrder
<1>1. ASSUME SessionInv PROVE WritesInOrder
  <2>. DEFINE B == BitsOfBytes(writer.bytes)
              A == BitsOf(written)
              b == writer.bitIndex
              n == Len(writer.bytes)
  <2>0. SUFFICES ASSUME ~Past(written)
                 PROVE  IsPrefix(B, A) /\ Width(Len(written)) - 8 * n \in 0 .. 7
    BY PastMeans DEF WritesInOrder, BitsInByte
  <2>1. WriterOK(writer) /\ (Waiting(writer, written) \/ JustFilled(writer, written))
        /\ written \in Seq(Field)
    BY <1>1, <2>0 DEF SessionInv, WriterInv, WrittenOK
  <2>2. writer.bytes \in Seq(Byte) /\ b \in 0 .. 8
    BY <2>1 DEF WriterOK, Writer, BitsInByte
  <2>3. B \in Seq({0, 1}) /\ Len(B) = 8 * n /\ n \in Nat
    BY <2>2, BytesLength, LenProperties DEF BitSeq, BitsInByte
  <2>4. Width(Len(written)) = Len(A)
    <3>1. SubSeq(written, 1, Len(written)) = written
      BY <2>1, SubSeqFull
    <3>. QED  BY <3>1 DEF Width
  <2>5. SubSeq(B, 1, Len(B)) = B
    BY <2>3, SubSeqFull
  <2>6. CASE JustFilled(writer, written)
    <3>1. A = B
      BY <2>6 DEF JustFilled
    <3>2. IsPrefix(B, A)
      <4>. HIDE DEF A, B
      <4>. QED  BY <2>3, <3>1 DEF IsPrefix
    <3>. QED  BY <2>3, <2>4, <3>1, <3>2
  <2>7. CASE Waiting(writer, written)
    <3>. DEFINE r == Rest(writer)
    <3>1. A = B \o r /\ r \in Seq({0, 1}) /\ Len(r) = b /\ b < 8
      BY <2>1, <2>7, RestType DEF Waiting, AllBits, BitSeq
    <3>. HIDE DEF A, B, r, b, n
    <3>2. Len(A) = Len(B) + b /\ 0 \in Nat /\ Len(B) \in Nat /\ 0 <= Len(B) /\ 0 + 1 = 1
      BY <2>2, <2>3, <3>1, ConcatProperties, LenProperties
    <3>3. SubSeq(B \o r, 0 + 1, Len(B)) = SubSeq(B, 0 + 1, Len(B))
      BY <2>3, <3>1, <3>2, PieceOfConcat
    <3>4. IsPrefix(B, A)
      BY <2>2, <2>5, <3>1, <3>2, <3>3 DEF IsPrefix
    <3>5. Len(A) - 8 * n \in 0 .. 7
      BY <2>2, <2>3, <3>1, <3>2
    <3>. QED  BY <2>4, <3>4, <3>5
  <2>. QED  BY <2>1, <2>6, <2>7
<1>. QED  BY <1>1, SessionInvariant, PTL

\* Until then every field that can be read is read back as the number that was
\* written, whatever the fields are: the reader undoes what the writer does.
THEOREM CerealReadBack == SessionSpec => []ReadBack
<1>1. ASSUME SessionInv PROVE ReadBack
  BY <1>1, PastMeans DEF SessionInv, GotInv, ReadBack
<1>. QED  BY <1>1, SessionInvariant, PTL
=============================================================================
