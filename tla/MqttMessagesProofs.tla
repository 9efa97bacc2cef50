------------------------ MODULE MqttMessagesProofs ------------------------
(***************************************************************************)
(* What the messages are as bytes and what is read of them, for every set  *)
(* of well-formed messages: where each part of a message lies in its       *)
(* bytes, and that each read starts where the one before has ended.        *)
(***************************************************************************)
EXTENDS MqttMessages, CerealProofs

-----------------------------------------------------------------------------
(* The bits of the fixed header.                                           *)

\* Bits that do not fill the current byte, and bits that do.
LEMMA WriteBitsAt ==
  ASSUME NEW w \in Writer, NEW v \in Nat, NEW k \in 1 .. 4
  PROVE  /\ w.bitIndex + k < 8 => WriteBits(w, v, k) = Pending(w, v, k)
         /\ w.bitIndex + k = 8 => WriteBits(w, v, k) = Pending(Filled(w, v), v, k)
<1>. DEFINE c == [writer |-> w, value |-> v, bits |-> k]
<1>1. c \in Calls
  BY DEF Calls, MaxBits
<1>2. PICK f : f = WritingBits(f) /\ WriteBits(w, v, k) = f[c]
  BY WriteBitsChosen
<1>3. Over(c) = w.bitIndex + k - 8 /\ w.bitIndex \in Int
  BY DEF Over, BitsInByte, Writer
<1>4. CASE w.bitIndex + k < 8
  <2>1. Over(c) < 0
    BY <1>3, <1>4
  <2>2. WritingBits(f)[c] = Pending(c.writer, c.value, c.bits)
    BY <1>1, <2>1, WritingBitsAt
  <2>. QED  BY <1>2, <1>4, <2>2
<1>5. CASE w.bitIndex + k = 8
  <2>1. Over(c) = 0
    BY <1>3, <1>5
  <2>2. WritingBits(f)[c] = Pending(FilledBy(c), c.value, c.bits)
    BY <1>1, <2>1, WritingBitsAt
  <2>3. FilledBy(c) = Filled(w, v)
    <3>1. v \div 2^0 = v
      OBVIOUS
    <3>. QED  BY <2>1, <3>1 DEF FilledBy
  <2>. QED  BY <1>2, <1>5, <2>2, <2>3
<1>. QED  BY <1>4, <1>5

\* Bits added to a byte that ends with zeros.
LEMMA PendingAdds ==
  ASSUME NEW w \in Writer, NEW j \in 0 .. 7, NEW k \in 1 .. 4, j + k <= 8, w.bitIndex = j,
         NEW v \in Nat, v < 2^k, w.currentByte % 2^(8 - j) = 0
  PROVE  /\ w.currentByte + v * 2^(8 - k - j) \in Byte
         /\ (w.currentByte | (v * 2^(8 - k - j))) = w.currentByte + v * 2^(8 - k - j)
         /\ Pending(w, v, k) = [bytes |-> w.bytes, bitIndex |-> j + k,
                                currentByte |-> w.currentByte + v * 2^(8 - k - j)]
<1>. DEFINE y == v * 2^(8 - k - j)
            x == w.currentByte
<1>1. 2^(8 - j) = 2^k * 2^(8 - k - j) /\ 2^k \in Nat \ {0} /\ 2^(8 - k - j) \in Nat \ {0}
  <2>. DEFINE n == 8 - k - j
  <2>1. k \in 0 .. 8 /\ k \in 0 .. 9 /\ n \in 0 .. 9 /\ k + n = 8 - j
    OBVIOUS
  <2>. HIDE DEF n
  <2>2. 2^(k + n) = 2^k * 2^n
    <3>1. \A i \in 0 .. 9 : 2^(k + i) = 2^k * 2^i
      BY <2>1, PowerSum
    <3>. QED  BY <2>1, <3>1
  <2>3. 2^k \in Nat \ {0} /\ 2^n \in Nat \ {0}
    BY <2>1, Powers
  <2>. QED  BY <2>1, <2>2, <2>3 DEF n
<1>2. y \in Nat /\ y < 2^(8 - j)
  <2>. DEFINE p == 2^k
              q == 2^(8 - k - j)
  <2>1. p \in Nat \ {0} /\ q \in Nat \ {0} /\ v < p
    BY <1>1
  <2>. HIDE DEF p, q
  <2>2. v * q \in Nat /\ v * q < p * q
    BY <2>1
  <2>. QED  BY <1>1, <2>2 DEF p, q
<1>3. x \in Byte /\ x % 2^(8 - j) = 0
  BY DEF Writer
<1>4. 2^(8 - j) <= 256
  <2>1. \A i \in 1 .. 8 : 2^i <= 256
    <3>. SUFFICES ASSUME NEW i \in 1 .. 8 PROVE 2^i <= 256
      OBVIOUS
    <3>1. CASE i = 1  BY <3>1
    <3>2. CASE i = 2  BY <3>2
    <3>3. CASE i = 3  BY <3>3
    <3>4. CASE i = 4  BY <3>4
    <3>5. CASE i = 5  BY <3>5
    <3>6. CASE i = 6  BY <3>6
    <3>7. CASE i = 7  BY <3>7
    <3>8. CASE i = 8  BY <3>8
    <3>. QED  BY <3>1, <3>2, <3>3, <3>4, <3>5, <3>6, <3>7, <3>8
  <2>2. 8 - j \in 1 .. 8
    OBVIOUS
  <2>. QED  BY <2>1, <2>2
<1>5. y \in Byte
  BY <1>1, <1>2, <1>4 DEF Byte
<1>6. (x | y) = x + y
  <2>1. 8 - j \in 0 .. 8
    OBVIOUS
  <2>. HIDE DEF x, y
  <2>. QED  BY <1>2, <1>3, <1>5, <2>1, OrAdds
<1>7. (x | y) \in Byte
  BY OrType
<1>8. Pending(w, v, k) = [w EXCEPT !.currentByte = x | y, !.bitIndex = j + k]
  BY DEF Pending, BitsInByte
<1>9. w = [bytes |-> w.bytes, currentByte |-> w.currentByte, bitIndex |-> w.bitIndex]
  BY DEF Writer
<1>. QED  BY <1>6, <1>7, <1>8, <1>9

\* The first byte of a message.
IsHeader(h) ==
  /\ TypeCode[h.type] \in 0 .. 15 /\ h.dup \in 0 .. 1 /\ h.qos \in 0 .. 3 /\ h.retain \in 0 .. 1
  /\ h.remaining \in 0 .. MaxRemaining

FirstByte(h) == 16 * TypeCode[h.type] + 8 * h.dup + 2 * h.qos + h.retain

\* A writer whose current byte is begun.
Begun(byte, n) == [bytes |-> <<>>, currentByte |-> byte, bitIndex |-> n]

LEMMA BegunWrite ==
  ASSUME NEW byte \in Byte, NEW j \in 0 .. 6, NEW k \in 1 .. 4, j + k < 8,
         NEW v \in Nat, v < 2^k, byte % 2^(8 - j) = 0
  PROVE  WriteBits(Begun(byte, j), v, k) = Begun(byte + v * 2^(8 - k - j), j + k)
<1>. DEFINE w == Begun(byte, j)
<1>1. w \in Writer /\ w.bitIndex = j /\ w.currentByte = byte /\ w.bytes = <<>>
  BY EmptySeq DEF Begun, Writer, BitsInByte
<1>2. WriteBits(w, v, k) = Pending(w, v, k)
  <2>. HIDE DEF w
  <2>1. w.bitIndex + k < 8
    BY <1>1
  <2>. QED  BY <1>1, <2>1, WriteBitsAt
<1>3. Pending(w, v, k) = [bytes |-> w.bytes, bitIndex |-> j + k,
                          currentByte |-> w.currentByte + v * 2^(8 - k - j)]
  <2>. HIDE DEF w
  <2>1. j \in 0 .. 7 /\ j + k <= 8
    OBVIOUS
  <2>. QED  BY <1>1, <2>1, PendingAdds
<1>. QED  BY <1>1, <1>2, <1>3 DEF Begun

\* The four fields fill one byte.
LEMMA HeaderByte ==
  ASSUME NEW h, IsHeader(h)
  PROVE  /\ FirstByte(h) \in Byte
         /\ \E w \in Writer : /\ WriteHeader(EmptyWriter, h) = SetRemainingSize(w, h.remaining)
                              /\ w.bytes = <<FirstByte(h)>>
<1>. DEFINE t == TypeCode[h.type]
            d == h.dup
            q == h.qos
            r == h.retain
            w1 == WriteBits(EmptyWriter, t, 4)
            w2 == WriteBits(w1, d, 1)
            w3 == WriteBits(w2, q, 2)
            w4 == WriteBits(w3, r, 1)
            b3 == 16 * t + 8 * d + 2 * q
<1>1. t \in 0 .. 15 /\ d \in 0 .. 1 /\ q \in 0 .. 3 /\ r \in 0 .. 1
  BY DEF IsHeader
<1>2. WriteHeader(EmptyWriter, h) = SetRemainingSize(w4, h.remaining)
  BY DEF WriteHeader
<1>3. FirstByte(h) = b3 + r
  BY DEF FirstByte
<1>. HIDE DEF t, d, q, r
<1>4. w1 = Begun(16 * t, 4)
  <2>1. EmptyWriter = Begun(0, 0)
    BY DEF EmptyWriter, Begun
  <2>2. 0 \in Byte /\ 0 % 2^(8 - 0) = 0 /\ t < 2^4
    BY <1>1 DEF Byte
  <2>3. WriteBits(Begun(0, 0), t, 4) = Begun(0 + t * 2^(8 - 4 - 0), 0 + 4)
    BY <1>1, <2>2, BegunWrite
  <2>4. 0 + t * 2^(8 - 4 - 0) = 16 * t
    BY <1>1
  <2>. QED  BY <2>1, <2>3, <2>4
<1>5. w2 = Begun(16 * t + 8 * d, 5)
  <2>1. 16 * t \in Byte /\ (16 * t) % 2^(8 - 4) = 0 /\ d < 2^1
    BY <1>1 DEF Byte
  <2>2. WriteBits(Begun(16 * t, 4), d, 1) = Begun(16 * t + d * 2^(8 - 1 - 4), 4 + 1)
    <3>. DEFINE x == 16 * t
    <3>1. x \in Byte /\ x % 2^(8 - 4) = 0 /\ d \in Nat
      BY <1>1, <2>1
    <3>. HIDE DEF x
    <3>2. WriteBits(Begun(x, 4), d, 1) = Begun(x + d * 2^(8 - 1 - 4), 4 + 1)
      BY <2>1, <3>1, BegunWrite
    <3>. QED  BY <3>2 DEF x
  <2>3. 16 * t + d * 2^(8 - 1 - 4) = 16 * t + 8 * d
    BY <1>1
  <2>. HIDE DEF w1
  <2>. QED  BY <1>4, <2>2, <2>3
<1>6. w3 = Begun(b3, 7)
  <2>1. 16 * t + 8 * d \in Byte /\ (16 * t + 8 * d) % 2^(8 - 5) = 0 /\ q < 2^2
    BY <1>1 DEF Byte
  <2>2. WriteBits(Begun(16 * t + 8 * d, 5), q, 2)
          = Begun(16 * t + 8 * d + q * 2^(8 - 2 - 5), 5 + 2)
    BY <1>1, <2>1, BegunWrite
  <2>3. 16 * t + 8 * d + q * 2^(8 - 2 - 5) = b3
    BY <1>1
  <2>. HIDE DEF w2, b3
  <2>. QED  BY <1>5, <2>2, <2>3
<1>7. b3 \in Byte /\ b3 % 2^1 = 0 /\ b3 + r \in Byte
  BY <1>1 DEF Byte
<1>8. w4.bytes = <<b3 + r>> /\ w4 \in Writer
  <2>. HIDE DEF b3, w3
  <2>. DEFINE w == Begun(b3, 7)
  <2>1. w \in Writer /\ w.bitIndex + 1 = 8 /\ w.bytes = <<>> /\ w.currentByte = b3
    BY <1>7, EmptySeq DEF Begun, Writer, BitsInByte
  <2>2. w4 = Pending(Filled(w, r), r, 1)
    <3>. HIDE DEF w
    <3>1. 1 \in 1 .. 4 /\ r \in Nat
      BY <1>1
    <3>2. WriteBits(w, r, 1) = Pending(Filled(w, r), r, 1)
      BY <2>1, <3>1, WriteBitsAt
    <3>. QED  BY <1>6, <3>2 DEF w
  <2>3. (b3 | r) = b3 + r
    <3>1. 1 \in 0 .. 8 /\ r \in Byte /\ r < 2^1
      BY <1>1 DEF Byte
    <3>. QED  BY <1>7, <3>1, OrAdds
  <2>4. Filled(w, r) = [bytes |-> Append(<<>>, b3 + r), currentByte |-> 0, bitIndex |-> 0]
    BY <2>1, <2>3 DEF Filled
  <2>5. Append(<<>>, b3 + r) = <<b3 + r>> /\ <<b3 + r>> \in Seq(Byte)
    BY <1>7
  <2>. DEFINE y == Filled(w, r)
  <2>6. y.bytes = <<b3 + r>> /\ y.bitIndex = 0 /\ y \in Writer
    <3>. DEFINE bs == <<b3 + r>>
    <3>1. bs \in Seq(Byte) /\ y = [bytes |-> bs, currentByte |-> 0, bitIndex |-> 0]
      BY <2>4, <2>5
    <3>2. 0 \in Byte /\ 0 \in 0 .. BitsInByte
      BY DEF Byte, BitsInByte
    <3>. HIDE DEF bs, y
    <3>3. y \in Writer
      BY <3>1, <3>2 DEF Writer
    <3>. QED  BY <3>1, <3>3 DEF bs
  <2>. DEFINE c == y.currentByte | (r * 2^(8 - 1 - y.bitIndex))
  <2>7. c \in Byte
    BY OrType
  <2>8. Pending(y, r, 1) = [y EXCEPT !.currentByte = c, !.bitIndex = y.bitIndex + 1]
    BY DEF Pending, BitsInByte
  <2>. HIDE DEF w4, w, y, c
  <2>9. Pending(y, r, 1) \in Writer /\ Pending(y, r, 1).bytes = y.bytes
    <3>. DEFINE k == y.bitIndex + 1
    <3>1. k \in 0 .. BitsInByte
      BY <2>6 DEF BitsInByte
    <3>. HIDE DEF k
    <3>2. [y EXCEPT !.currentByte = c, !.bitIndex = k] \in Writer
      BY <2>6, <2>7, <3>1 DEF Writer
    <3>3. [y EXCEPT !.currentByte = c, !.bitIndex = k].bytes = y.bytes
      BY <2>6 DEF Writer
    <3>. QED  BY <2>8, <3>2, <3>3 DEF k
  <2>. QED  BY <2>2, <2>6, <2>9 DEF y
<1>. HIDE DEF w4, b3
<1>. QED  BY <1>2, <1>3, <1>7, <1>8

-----------------------------------------------------------------------------
(* The length behind the first byte.                                       *)

\* The digits of a length, the low ones first.
Third(x) == (x \div 128) \div 128
Fourth(x) == Third(x) \div 128

Digits(x) ==
  IF x < 128 THEN <<x>>
  ELSE IF x \div 128 < 128 THEN <<128 + (x % 128), x \div 128>>
  ELSE IF Third(x) < 128 THEN <<128 + (x % 128), 128 + ((x \div 128) % 128), Third(x)>>
  ELSE <<128 + (x % 128), 128 + ((x \div 128) % 128), 128 + (Third(x) % 128), Fourth(x)>>

\* A length has four digits at most.
LEMMA MaxRemainingIs ==
  \A x \in Int : x \in 0 .. MaxRemaining <=> x \in Nat /\ Fourth(x) < 128
<1>1. MaxRemaining = 268435455
  BY SMT DEF MaxRemaining, MaxDigits
<1>2. ASSUME NEW x \in Nat
      PROVE  Fourth(x) < 128 <=> x <= 268435455
  <2>1. x \div 128 <= 2097151 <=> x <= 268435455
    BY SMT
  <2>. DEFINE y == x \div 128
  <2>2. y \in Nat
    BY SMT
  <2>. HIDE DEF y
  <2>3. y \div 128 <= 16383 <=> y <= 2097151
    BY <2>2, SMT
  <2>. DEFINE z == y \div 128
  <2>4. z \in Nat
    BY <2>2, SMT
  <2>. HIDE DEF z
  <2>5. z \div 128 < 128 <=> z <= 16383
    BY <2>4, SMT
  <2>6. Fourth(x) = z \div 128
    BY DEF Fourth, Third, y, z
  <2>. QED  BY <2>1, <2>3, <2>5, <2>6, SMT DEF y, z
<1>3. MaxRemaining \in Int
  BY <1>1, SMT
<1>4. \A x \in Nat : Fourth(x) < 128 <=> x <= MaxRemaining
  <2>. SUFFICES ASSUME NEW x \in Nat PROVE Fourth(x) < 128 <=> x <= MaxRemaining
    OBVIOUS
  <2>1. x <= MaxRemaining <=> x <= 268435455
    BY <1>1, SMT
  <2>. QED  BY <1>2, <2>1, SMT
<1>. QED  BY <1>3, <1>4

LEMMA LengthType ==
  ASSUME NEW x \in 0 .. MaxRemaining
  PROVE  x \in Nat /\ Third(x) \in Nat /\ Fourth(x) \in Nat /\ Fourth(x) < 128
<1>1. MaxRemaining \in Int
  BY SMT DEF MaxRemaining, MaxDigits
<1>2. x \in Nat
  BY <1>1
<1>3. Fourth(x) < 128
  BY <1>2, MaxRemainingIs
<1>. QED  BY <1>2, <1>3 DEF Third, Fourth

LEMMA DigitIs ==
  ASSUME NEW x \in Nat
  PROVE  /\ x < 128 => Digit(x) = x
         /\ x >= 128 => Digit(x) = 128 + (x % 128)
         /\ x \div 128 > 0 <=> x >= 128
<1>1. x \div 128 > 0 <=> x >= 128
  OBVIOUS
<1>2. (x % 128) \in Byte /\ 128 \in Byte /\ x % 128 < 128 /\ (x < 128 => x % 128 = x)
  BY DEF Byte
<1>3. ((x % 128) | 128) = 128 + (x % 128)
  <2>. DEFINE a == x % 128
  <2>1. a \in Byte /\ 128 \in Byte /\ a < 2^7 /\ 128 % 2^7 = 0 /\ 7 \in 0 .. 8
    BY <1>2
  <2>. HIDE DEF a
  <2>2. (128 | a) = 128 + a
    BY <2>1, OrAdds
  <2>3. (a | 128) = (128 | a)
    BY DEF |
  <2>. QED  BY <2>2, <2>3 DEF a
<1>. QED  BY <1>1, <1>2, <1>3 DEF Digit

\* The recursion of setRemainingSize gives the digits.
DigitsStep(f) ==
  [x \in 0 .. MaxRemaining |->
     <<Digit(x)>> \o (IF x \div 128 > 0 THEN f[x \div 128] ELSE <<>>)]

LEMMA DigitsUnroll ==
  ASSUME NEW x \in 0 .. MaxRemaining
  PROVE  /\ x < 128 => Digits(x) = <<Digit(x)>>
         /\ x >= 128 => /\ x \div 128 \in 0 .. MaxRemaining /\ x \div 128 > 0
                        /\ Digits(x) = <<Digit(x)>> \o Digits(x \div 128)
<1>0. x \in Nat /\ Third(x) \in Nat /\ Fourth(x) \in Nat /\ Fourth(x) < 128
  BY LengthType
<1>. DEFINE y == x \div 128
<1>1. CASE x < 128
  BY <1>0, <1>1, DigitIs DEF Digits
<1>2. CASE x >= 128
  <2>1. y \in Nat /\ y > 0
    BY <1>0, <1>2
  <2>2. y \div 128 = Third(x) /\ Third(y) = Fourth(x)
    BY DEF Third, Fourth
  <2>3. Digit(x) = 128 + (x % 128)
    BY <1>0, <1>2, DigitIs
  <2>4. Fourth(y) = 0
    BY <1>0, <2>2 DEF Fourth
  <2>5. y \in 0 .. MaxRemaining
    BY <2>1, <2>4, MaxRemainingIs
  <2>. DEFINE d == 128 + (x % 128)
              e == 128 + (y % 128)
              g == 128 + (Third(x) % 128)
  <2>6. Digits(x) = IF y < 128 THEN <<d, y>>
                    ELSE IF Third(x) < 128 THEN <<d, e, Third(x)>>
                    ELSE <<d, e, g, Fourth(x)>>
    BY <1>0, <1>2 DEF Digits
  <2>7. Digits(y) = IF y < 128 THEN <<y>>
                    ELSE IF Third(x) < 128 THEN <<e, Third(x)>>
                    ELSE <<e, g, Fourth(x)>>
    BY <1>0, <2>2 DEF Digits
  <2>. HIDE DEF d, e, g, y
  <2>8. Digits(x) = <<d>> \o Digits(y)
    <3>1. CASE y < 128
      BY <2>6, <2>7, <3>1
    <3>2. CASE ~(y < 128) /\ Third(x) < 128
      BY <2>6, <2>7, <3>2
    <3>3. CASE ~(y < 128) /\ ~(Third(x) < 128)
      BY <2>6, <2>7, <3>3
    <3>. QED  BY <3>1, <3>2, <3>3
  <2>. QED  BY <1>2, <2>1, <2>3, <2>5, <2>8 DEF d, y
<1>. QED  BY <1>0, <1>1, <1>2

LEMMA DigitsSolve == \E f : f = DigitsStep(f)
<1>. DEFINE f == [x \in 0 .. MaxRemaining |-> Digits(x)]
            g == DigitsStep(f)
<1>1. ASSUME NEW x \in 0 .. MaxRemaining
      PROVE  g[x] = Digits(x)
  <2>1. g[x] = <<Digit(x)>> \o (IF x \div 128 > 0 THEN f[x \div 128] ELSE <<>>)
    BY DEF DigitsStep
  <2>2. x \in Nat
    BY LengthType
  <2>3. CASE x < 128
    <3>1. ~(x \div 128 > 0) /\ <<Digit(x)>> \o <<>> = <<Digit(x)>>
      BY <2>2, <2>3, DigitIs
    <3>. HIDE DEF f, g
    <3>. QED  BY <2>1, <2>3, <3>1, DigitsUnroll
  <2>4. CASE x >= 128
    <3>1. x \div 128 > 0 /\ x \div 128 \in 0 .. MaxRemaining
      BY <2>4, DigitsUnroll
    <3>2. f[x \div 128] = Digits(x \div 128)
      BY <3>1
    <3>. HIDE DEF f, g
    <3>. QED  BY <2>1, <2>4, <3>1, <3>2, DigitsUnroll
  <2>. QED  BY <2>2, <2>3, <2>4
<1>2. g = [x \in 0 .. MaxRemaining |-> g[x]]
  BY DEF DigitsStep
<1>3. g = f
  <2>. HIDE DEF g
  <2>. QED  BY <1>1, <1>2
<1>4. f = DigitsStep(f)
  BY <1>3
<1>. HIDE DEF f
<1>. QED  BY <1>4

LEMMA SetRemainingSizeIs ==
  ASSUME NEW w, NEW n \in 0 .. MaxRemaining
  PROVE  SetRemainingSize(w, n) = WriteBytes(w, Digits(n))
<1>. DEFINE f == CHOOSE g : g = DigitsStep(g)
<1>1. f = DigitsStep(f)
  BY DigitsSolve, Zenon
<1>2. SetRemainingSize(w, n) = WriteBytes(w, f[n])
  BY DEF SetRemainingSize, DigitsStep
<1>. HIDE DEF f
<1>3. ASSUME NEW x \in 0 .. MaxRemaining
      PROVE  /\ x < 128 => f[x] = Digits(x)
             /\ x >= 128 /\ f[x \div 128] = Digits(x \div 128) => f[x] = Digits(x)
  <2>1. f[x] = <<Digit(x)>> \o (IF x \div 128 > 0 THEN f[x \div 128] ELSE <<>>)
    BY <1>1 DEF DigitsStep
  <2>2. x \in Nat
    BY LengthType
  <2>3. ASSUME x < 128
        PROVE  f[x] = Digits(x)
    <3>1. ~(x \div 128 > 0) /\ <<Digit(x)>> \o <<>> = <<Digit(x)>>
      BY <2>2, <2>3, DigitIs
    <3>. QED  BY <2>1, <2>3, <3>1, DigitsUnroll
  <2>4. ASSUME x >= 128, f[x \div 128] = Digits(x \div 128)
        PROVE  f[x] = Digits(x)
    <3>1. x \div 128 > 0
      BY <2>4, DigitsUnroll
    <3>. QED  BY <2>1, <2>4, <3>1, DigitsUnroll
  <2>. QED  BY <2>3, <2>4
<1>4. ASSUME NEW x \in 0 .. MaxRemaining, x >= 128 => f[x \div 128] = Digits(x \div 128)
      PROVE  f[x] = Digits(x)
  BY <1>3, <1>4, LengthType
<1>. DEFINE x2 == n \div 128
            x3 == x2 \div 128
            x4 == x3 \div 128
<1>5. /\ x4 < 128
      /\ n >= 128 => x2 \in 0 .. MaxRemaining
      /\ n >= 128 /\ x2 >= 128 => x3 \in 0 .. MaxRemaining
      /\ n >= 128 /\ x2 >= 128 /\ x3 >= 128 => x4 \in 0 .. MaxRemaining
  BY DigitsUnroll, LengthType DEF Fourth, Third
<1>. HIDE DEF x4
<1>6. n >= 128 /\ x2 >= 128 /\ x3 >= 128 => f[x4] = Digits(x4)
  BY <1>3, <1>5
<1>7. n >= 128 /\ x2 >= 128 => f[x3] = Digits(x3)
  <2>. HIDE DEF x3
  <2>. QED  BY <1>4, <1>5, <1>6 DEF x4
<1>8. n >= 128 => f[x2] = Digits(x2)
  <2>. HIDE DEF x2, x3
  <2>. QED  BY <1>4, <1>5, <1>7 DEF x3
<1>9. f[n] = Digits(n)
  BY <1>4, <1>8
<1>. QED  BY <1>2, <1>9

\* What the digits are, and how many: a byte each, the last one below 128.
LEMMA DigitsType ==
  ASSUME NEW x \in 0 .. MaxRemaining
  PROVE  /\ Digits(x) \in Seq(Byte) /\ Len(Digits(x)) \in 1 .. 4
         /\ x < 128 <=> Len(Digits(x)) = 1
         /\ Digits(x)[1] = IF x < 128 THEN x ELSE 128 + (x % 128)
<1>1. x \in Nat /\ Third(x) \in Nat /\ Fourth(x) \in Nat /\ Fourth(x) < 128 /\ x \div 128 \in Nat
  BY LengthType
<1>2. /\ \A n \in Nat : 128 + (n % 128) \in Byte /\ (n < 128 => n \in Byte)
  BY DEF Byte
<1>3. CASE x < 128
  BY <1>1, <1>2, <1>3 DEF Digits
<1>4. CASE x >= 128 /\ x \div 128 < 128
  BY <1>1, <1>2, <1>4 DEF Digits
<1>5. CASE x >= 128 /\ ~(x \div 128 < 128) /\ Third(x) < 128
  BY <1>1, <1>2, <1>5 DEF Digits
<1>6. CASE x >= 128 /\ ~(x \div 128 < 128) /\ ~(Third(x) < 128)
  BY <1>1, <1>2, <1>6 DEF Digits
<1>. QED  BY <1>1, <1>3, <1>4, <1>5, <1>6

\* Bytes are written behind those that are there.
LEMMA WriteBytesIs ==
  ASSUME NEW w \in Writer, NEW s \in Seq(Byte)
  PROVE  WriteBytes(w, s) \in Writer /\ WriteBytes(w, s).bytes = w.bytes \o s
<1>1. w.bytes \o s \in Seq(Byte)
  BY ConcatProperties DEF Writer
<1>2. WriteBytes(w, s) = [w EXCEPT !.bytes = w.bytes \o s]
  BY DEF WriteBytes
<1>. DEFINE b == w.bytes \o s
<1>. HIDE DEF b
<1>3. [w EXCEPT !.bytes = b] \in Writer /\ [w EXCEPT !.bytes = b].bytes = b
  BY <1>1 DEF Writer, b
<1>. QED  BY <1>2, <1>3 DEF b

\* The fixed header, in bytes.
LEMMA WriteHeaderIs ==
  ASSUME NEW h, IsHeader(h)
  PROVE  /\ WriteHeader(EmptyWriter, h).bytes = <<FirstByte(h)>> \o Digits(h.remaining)
         /\ WriteHeader(EmptyWriter, h) \in Writer
         /\ FirstByte(h) \in Byte
<1>1. PICK w \in Writer : WriteHeader(EmptyWriter, h) = SetRemainingSize(w, h.remaining)
                          /\ w.bytes = <<FirstByte(h)>> /\ FirstByte(h) \in Byte
  BY HeaderByte
<1>2. SetRemainingSize(w, h.remaining) = WriteBytes(w, Digits(h.remaining))
  BY SetRemainingSizeIs DEF IsHeader
<1>3. Digits(h.remaining) \in Seq(Byte)
  BY DigitsType DEF IsHeader
<1>. QED  BY <1>1, <1>2, <1>3, WriteBytesIs

-----------------------------------------------------------------------------
(* Reading bits and bytes.                                                 *)

\* A reader in front of byte p, with its current byte and how much of that is
\* used up.
ReaderAt(s, p, byte, n) == [bytes |-> s, iterator |-> p, currentByte |-> byte, bitIndex |-> n]

LEMMA ReaderAtType ==
  ASSUME NEW s \in Seq(Byte), NEW p \in Nat \ {0}, NEW byte \in Byte, NEW n \in 0 .. 8
  PROVE  ReaderAt(s, p, byte, n) \in ReaderState
BY DEF ReaderAt, ReaderState, BitsInByte

\* Bits of the current byte.
LEMMA ReadBitsWithin ==
  ASSUME NEW s \in Seq(Byte), NEW p \in Nat \ {0}, NEW byte \in Byte, NEW n \in 0 .. 8,
         NEW k \in 0 .. 4, n + k <= 8
  PROVE  ReadBitsHelper(ReaderAt(s, p, byte, n), k)
           = [value |-> (byte \div 2^(8 - (n + k))) % 2^k, reader |-> ReaderAt(s, p, byte, n + k)]
<1>. DEFINE r == ReaderAt(s, p, byte, n)
            c == [reader |-> r, bits |-> k]
<1>1. r \in ReaderState
  BY ReaderAtType
<1>2. c \in ReadCalls /\ Reach(c) = n + k
  <2>1. r.bitIndex = n
    BY DEF ReaderAt
  <2>. HIDE DEF r
  <2>. QED  BY <1>1, <2>1 DEF ReadCalls, MaxBits, Reach
<1>3. PICK f : f = ReadingBits(f) /\ ReadBitsHelper(r, k) = f[c]
  BY ReadBitsChosen
<1>4. f[c] = OneByteRead(c)
  <2>. HIDE DEF c
  <2>1. Reach(c) <= 8
    BY <1>2
  <2>. QED  BY <1>2, <1>3, <2>1, ReadingBitsAt
<1>5. OneByteRead(c) = [value |-> (byte \div 2^(8 - (n + k))) % 2^k,
                        reader |-> ReaderAt(s, p, byte, n + k)]
  <2>1. c.reader = ReaderAt(s, p, byte, n) /\ c.bits = k /\ c.reader.currentByte = byte
    BY DEF ReaderAt
  <2>2. [c.reader EXCEPT !.bitIndex = n + k] = ReaderAt(s, p, byte, n + k)
    BY DEF ReaderAt
  <2>. HIDE DEF c
  <2>. QED  BY <1>2, <2>1, <2>2 DEF OneByteRead, BitsInByte
<1>. QED  BY <1>3, <1>4, <1>5

LEMMA ReadBitsAt ==
  ASSUME NEW s \in Seq(Byte), NEW p \in Nat \ {0}, NEW byte \in Byte, NEW n \in 1 .. 7,
         NEW k \in 1 .. 4, n + k <= 8
  PROVE  ReadBits(ReaderAt(s, p, byte, n), k)
           = [value |-> (byte \div 2^(8 - (n + k))) % 2^k, reader |-> ReaderAt(s, p, byte, n + k)]
<1>1. ReadBits(ReaderAt(s, p, byte, n), k) = ReadBitsHelper(ReaderAt(s, p, byte, n), k)
  BY DEF ReadBits, ReaderAt
<1>2. n \in 0 .. 8 /\ k \in 0 .. 4
  OBVIOUS
<1>. QED  BY <1>1, <1>2, ReadBitsWithin

\* Bits of the next byte, when the current one is used up.
LEMMA LoadedAt ==
  ASSUME NEW s \in Seq(Byte), NEW p \in 1 .. Len(s), NEW byte \in Byte, NEW n \in 0 .. 8
  PROVE  Loaded(ReaderAt(s, p, byte, n)) = ReaderAt(s, p + 1, s[p], 0) /\ s[p] \in Byte
<1>1. p \in Nat \ {0} /\ s[p] \in Byte /\ Len(s) \in Nat
  BY ElementOfSeq, LenProperties
<1>2. ByteAt(ReaderAt(s, p, byte, n), p) = s[p]
  BY DEF ByteAt, ReaderAt
<1>3. ReaderAt(s, p, byte, n) \in ReaderState
  BY <1>1, ReaderAtType
<1>4. ReaderAt(s, p, byte, n).iterator = p /\ ReaderAt(s, p, byte, n).bytes = s
  BY DEF ReaderAt
<1>5. Loaded(ReaderAt(s, p, byte, n))
        = [bytes |-> s, iterator |-> p + 1, currentByte |-> s[p], bitIndex |-> 0]
  BY <1>2, <1>3, <1>4, LoadedType
<1>. QED  BY <1>1, <1>5 DEF ReaderAt

LEMMA ReadBitsNext ==
  ASSUME NEW s \in Seq(Byte), NEW p \in 1 .. Len(s), NEW byte \in Byte, NEW n \in {0, 8},
         NEW k \in 1 .. 4
  PROVE  ReadBits(ReaderAt(s, p, byte, n), k)
           = [value |-> (s[p] \div 2^(8 - k)) % 2^k, reader |-> ReaderAt(s, p + 1, s[p], k)]
<1>. DEFINE r == ReaderAt(s, p, byte, n)
            l == ReaderAt(s, p + 1, s[p], 0)
            read == [value |-> (s[p] \div 2^(8 - k)) % 2^k, reader |-> ReaderAt(s, p + 1, s[p], k)]
            i == [reader |-> l, bits |-> k]
            c == [reader |-> r, bits |-> k]
<1>1. Loaded(r) = l /\ s[p] \in Byte /\ p \in Nat \ {0} /\ p + 1 \in Nat \ {0}
  BY LoadedAt, LenProperties
<1>2. ReadBitsHelper(l, k) = read
  <2>1. 0 \in 0 .. 8 /\ k \in 0 .. 4 /\ 0 + k <= 8 /\ 0 + k = k
    OBVIOUS
  <2>2. ReadBitsHelper(l, k) = [value |-> (s[p] \div 2^(8 - (0 + k))) % 2^k,
                                reader |-> ReaderAt(s, p + 1, s[p], 0 + k)]
    BY <1>1, <2>1, ReadBitsWithin
  <2>. QED  BY <2>1, <2>2
<1>3. CASE n = 0
  <2>1. ReadBits(r, k) = ReadBitsHelper(l, k)
    BY <1>1, <1>3 DEF ReadBits, ReaderAt
  <2>. QED  BY <1>2, <2>1
<1>4. CASE n = 8
  <2>0. ReadBits(r, k) = ReadBitsHelper(r, k)
    BY <1>4 DEF ReadBits, ReaderAt
  <2>1. PICK f : f = ReadingBits(f) /\ \A x, b : ReadBitsHelper(x, b) = f[[reader |-> x, bits |-> b]]
    BY ReadBitsChosen
  <2>2. c \in ReadCalls /\ Reach(c) = 8 + k /\ Reach(c) > 8
    <3>1. r \in ReaderState
      BY <1>1, ReaderAtType
    <3>2. r.bitIndex = 8
      BY <1>4 DEF ReaderAt
    <3>. HIDE DEF r
    <3>. QED  BY <3>1, <3>2 DEF ReadCalls, MaxBits, Reach
  <2>3. FirstCall(c) = [reader |-> r, bits |-> 0] /\ FirstCall(c) \in ReadCalls
        /\ Reach(FirstCall(c)) <= 8
    <3>1. FirstCall(c) \in ReadCalls /\ Reach(FirstCall(c)) <= 8
      <4>. HIDE DEF c
      <4>. QED  BY <2>2, ReadCallsNext
    <3>2. FirstCall(c) = [reader |-> r, bits |-> 8 - r.bitIndex]
      BY DEF FirstCall, BitsInByte
    <3>3. 8 - r.bitIndex = 0
      BY <1>4 DEF ReaderAt
    <3>. QED  BY <3>1, <3>2, <3>3
  <2>4. OneByteRead(FirstCall(c)) = [value |-> 0, reader |-> r]
    <3>1. f[FirstCall(c)] = OneByteRead(FirstCall(c))
      <4>. HIDE DEF c
      <4>. QED  BY <2>1, <2>3, ReadingBitsAt
    <3>2. ReadBitsHelper(r, 0) = [value |-> (byte \div 2^(8 - (8 + 0))) % 2^0,
                                  reader |-> ReaderAt(s, p, byte, 8 + 0)]
      <4>1. 8 \in 0 .. 8 /\ 0 \in 0 .. 4 /\ 8 + 0 <= 8
        OBVIOUS
      <4>. QED  BY <1>1, <1>4, <4>1, ReadBitsWithin
    <3>3. (byte \div 2^(8 - (8 + 0))) % 2^0 = 0 /\ 8 + 0 = 8
      BY DEF Byte
    <3>4. f[FirstCall(c)] = ReadBitsHelper(r, 0)
      BY <2>1, <2>3
    <3>. QED  BY <1>4, <3>1, <3>2, <3>3, <3>4
  <2>5. Second(c) = i
    <3>1. Second(c) = [reader |-> Loaded(r), bits |-> Reach(c) - 8]
      <4>. HIDE DEF c
      <4>. QED  BY <2>4 DEF Second, SecondCall, BitsInByte
    <3>2. Reach(c) - 8 = k
      BY <2>2
    <3>. HIDE DEF c
    <3>. QED  BY <1>1, <3>1, <3>2
  <2>6. f[c] = BothReads(c, OneByteRead(FirstCall(c)), f[i])
    <3>1. f[FirstCall(c)] = OneByteRead(FirstCall(c))
      <4>. HIDE DEF c
      <4>. QED  BY <2>1, <2>3, ReadingBitsAt
    <3>. HIDE DEF c, i
    <3>. QED  BY <2>1, <2>2, <2>5, <3>1, ReadingBitsAt
  <2>7. f[i] = read
    BY <1>2, <2>1
  <2>8. BothReads(c, [value |-> 0, reader |-> r], read) = read
    <3>1. BothReads(c, [value |-> 0, reader |-> r], read)
            = [value |-> 0 * 2^(Reach(c) - 8) + read.value, reader |-> read.reader]
      BY DEF BothReads, BitsInByte
    <3>2. Reach(c) - 8 = k
      BY <2>2
    <3>3. 2^k \in Nat \ {0} /\ 2^(8 - k) \in Nat \ {0}
      <4>1. k \in 0 .. 9 /\ 8 - k \in 0 .. 9
        OBVIOUS
      <4>. QED  BY <4>1, Powers
    <3>4. read.value \in Nat
      <4>. DEFINE b == s[p]
                  g == 2^(8 - k)
                  m == 2^k
      <4>0. \A x \in Byte : x \in Nat
        BY DEF Byte
      <4>1. b \in Nat /\ g \in Nat \ {0} /\ m \in Nat \ {0}
        BY <1>1, <3>3, <4>0
      <4>2. read.value = (b \div g) % m
        OBVIOUS
      <4>. HIDE DEF b, g, m, read
      <4>3. b \div g \in Nat
        BY <4>1, Quotient
      <4>. QED  BY <4>1, <4>2, <4>3, Quotient
    <3>. HIDE DEF c, r
    <3>5. 0 * 2^k + read.value = read.value
      BY <3>3, <3>4
    <3>. QED  BY <3>1, <3>2, <3>5
  <2>. QED  BY <2>0, <2>1, <2>4, <2>6, <2>7, <2>8
<1>. QED  BY <1>3, <1>4

\* What comes from p on in some bytes.
Has(s, p, piece) ==
  /\ p \in Nat \ {0} /\ p + Len(piece) <= Len(s) + 1
  /\ \A i \in 1 .. Len(piece) : s[p + i - 1] = piece[i]

LEMMA HasAll ==
  ASSUME NEW s \in Seq(Byte)
  PROVE  Has(s, 1, s)
BY LenProperties DEF Has

LEMMA HasConcat ==
  ASSUME NEW s \in Seq(Byte), NEW p, NEW a \in Seq(Byte), NEW b \in Seq(Byte)
  PROVE  Has(s, p, a \o b) <=> Has(s, p, a) /\ Has(s, p + Len(a), b)
<1>. DEFINE ab == a \o b
            m == Len(a)
            n == Len(b)
<1>1. /\ m \in Nat /\ n \in Nat /\ Len(ab) = m + n /\ Len(s) \in Nat
      /\ \A i \in 1 .. m + n : ab[i] = IF i <= m THEN a[i] ELSE b[i - m]
  BY ConcatProperties, LenProperties
<1>. HIDE DEF ab, m, n
<1>2. ASSUME Has(s, p, ab)
      PROVE  Has(s, p, a) /\ Has(s, p + m, b)
  <2>1. p \in Nat \ {0} /\ p + (m + n) <= Len(s) + 1 /\ \A i \in 1 .. m + n : s[p + i - 1] = ab[i]
    BY <1>1, <1>2 DEF Has
  <2>2. ASSUME NEW i \in 1 .. m
        PROVE  s[p + i - 1] = a[i]
    <3>1. i \in 1 .. m + n /\ i <= m
      BY <1>1
    <3>2. s[p + i - 1] = ab[i] /\ ab[i] = a[i]
      BY <1>1, <2>1, <3>1
    <3>. QED  BY <3>2
  <2>3. ASSUME NEW i \in 1 .. n
        PROVE  s[p + m + i - 1] = b[i]
    <3>1. m + i \in 1 .. m + n /\ ~(m + i <= m) /\ (m + i) - m = i /\ p + (m + i) - 1 = p + m + i - 1
      BY <1>1, <2>1
    <3>2. s[p + (m + i) - 1] = ab[m + i]
      BY <2>1, <3>1
    <3>. QED  BY <1>1, <3>1, <3>2
  <2>. QED  BY <1>1, <2>1, <2>2, <2>3 DEF Has, m, n
<1>3. ASSUME Has(s, p, a), Has(s, p + m, b)
      PROVE  Has(s, p, ab)
  <2>1. /\ p \in Nat \ {0} /\ p + m + n <= Len(s) + 1
        /\ \A i \in 1 .. m : s[p + i - 1] = a[i]
        /\ \A i \in 1 .. n : s[p + m + i - 1] = b[i]
    BY <1>3 DEF Has, m, n
  <2>2. ASSUME NEW i \in 1 .. m + n
        PROVE  s[p + i - 1] = ab[i]
    <3>1. CASE i <= m
      <4>1. i \in 1 .. m
        BY <1>1, <3>1
      <4>2. ab[i] = a[i]
        BY <1>1, <3>1
      <4>. QED  BY <2>1, <4>1, <4>2
    <3>2. CASE ~(i <= m)
      <4>1. i - m \in 1 .. n /\ p + m + (i - m) - 1 = p + i - 1
        BY <1>1, <2>1, <3>2
      <4>. QED  BY <1>1, <2>1, <3>2, <4>1
    <3>. QED  BY <3>1, <3>2
  <2>. QED  BY <1>1, <2>1, <2>2 DEF Has
<1>. QED  BY <1>2, <1>3 DEF ab, m

LEMMA HasType ==
  ASSUME NEW s \in Seq(Byte), NEW p, NEW a \in Seq(Byte), Has(s, p, a)
  PROVE  /\ p \in Nat \ {0} /\ Len(a) \in Nat /\ p + Len(a) \in Nat \ {0}
         /\ p + Len(a) <= Len(s) + 1
         /\ \A i \in 1 .. Len(a) : p + i - 1 \in 1 .. Len(s) /\ s[p + i - 1] = a[i]
<1>1. Len(a) \in Nat /\ Len(s) \in Nat
  BY LenProperties
<1>2. /\ p \in Nat \ {0} /\ p + Len(a) <= Len(s) + 1
      /\ \A i \in 1 .. Len(a) : s[p + i - 1] = a[i]
  BY DEF Has
<1>. QED  BY <1>1, <1>2

\* A byte, two that are a number, and characters behind their number.
LEMMA ReadByteAt ==
  ASSUME NEW s \in Seq(Byte), NEW p \in 1 .. Len(s), NEW byte, NEW n
  PROVE  ReadByte(ReaderAt(s, p, byte, n)) = [value |-> s[p], reader |-> ReaderAt(s, p + 1, byte, n)]
<1>1. p <= Len(s)
  BY LenProperties
<1>2. ByteAt(ReaderAt(s, p, byte, n), p) = s[p]
  BY <1>1 DEF ByteAt, ReaderAt
<1>3. [ReaderAt(s, p, byte, n) EXCEPT !.iterator = @ + 1] = ReaderAt(s, p + 1, byte, n)
  BY DEF ReaderAt
<1>4. ReaderAt(s, p, byte, n).iterator = p
  BY DEF ReaderAt
<1>. QED  BY <1>2, <1>3, <1>4 DEF ReadByte

LEMMA ReadByteHas ==
  ASSUME NEW s \in Seq(Byte), NEW p, NEW byte, NEW n, NEW b \in Byte, Has(s, p, <<b>>)
  PROVE  ReadByte(ReaderAt(s, p, byte, n)) = [value |-> b, reader |-> ReaderAt(s, p + 1, byte, n)]
<1>1. <<b>> \in Seq(Byte) /\ Len(<<b>>) = 1 /\ 1 \in 1 .. Len(<<b>>) /\ <<b>>[1] = b
  OBVIOUS
<1>2. p + 1 - 1 \in 1 .. Len(s) /\ s[p + 1 - 1] = b /\ p \in Nat
  <2>. DEFINE a == <<b>>
  <2>1. a \in Seq(Byte) /\ 1 \in 1 .. Len(a) /\ a[1] = b
    BY <1>1
  <2>2. Has(s, p, a)
    OBVIOUS
  <2>. HIDE DEF a
  <2>. QED  BY <2>1, <2>2, HasType
<1>3. p \in 1 .. Len(s) /\ s[p] = b
  BY <1>2
<1>. QED  BY <1>3, ReadByteAt

ShortBytes(x) == <<x \div 256, x % 256>>

LEMMA ShortBytesType ==
  ASSUME NEW x \in Shorts
  PROVE  ShortBytes(x) \in Seq(Byte) /\ Len(ShortBytes(x)) = 2
<1>0. x \in Nat /\ x <= 65535
  BY SMTT(30) DEF Shorts
<1>1. x \div 256 \in 0 .. 255 /\ x % 256 \in 0 .. 255
  BY <1>0, SMT
<1>. DEFINE a == x \div 256
            b == x % 256
<1>. HIDE DEF a, b
<1>2. <<a, b>> \in Seq(Byte) /\ Len(<<a, b>>) = 2
  BY <1>1 DEF a, b, Byte
<1>. QED  BY <1>2 DEF ShortBytes, a, b

LEMMA ReadShortHas ==
  ASSUME NEW s \in Seq(Byte), NEW p, NEW byte, NEW n, NEW x \in Shorts, Has(s, p, ShortBytes(x))
  PROVE  ReadShort(ReaderAt(s, p, byte, n)) = [value |-> x, reader |-> ReaderAt(s, p + 2, byte, n)]
<1>. DEFINE a == x \div 256
            b == x % 256
<1>1. p \in Nat /\ p + 1 - 1 \in 1 .. Len(s) /\ p + 2 - 1 \in 1 .. Len(s)
      /\ s[p + 1 - 1] = ShortBytes(x)[1] /\ s[p + 2 - 1] = ShortBytes(x)[2]
  <2>0. Len(ShortBytes(x)) = 2
    BY ShortBytesType
  <2>1. 1 \in 1 .. Len(ShortBytes(x)) /\ 2 \in 1 .. Len(ShortBytes(x))
    BY <2>0
  <2>. QED  BY <2>1, ShortBytesType, HasType
<1>2. p \in 1 .. Len(s) /\ p + 1 \in 1 .. Len(s) /\ s[p] = a /\ s[p + 1] = b
  <2>1. p + 1 - 1 = p /\ p + 2 - 1 = p + 1
    BY <1>1
  <2>2. ShortBytes(x)[1] = a /\ ShortBytes(x)[2] = b
    BY DEF ShortBytes
  <2>. QED  BY <1>1, <2>1, <2>2
<1>3. a * 256 + b = x
  BY SMTT(30) DEF Shorts
<1>4. (p + 1) + 1 = p + 2
  BY <1>1
<1>. HIDE DEF a, b
<1>5. ReadByte(ReaderAt(s, p, byte, n)) = [value |-> a, reader |-> ReaderAt(s, p + 1, byte, n)]
  BY <1>2, ReadByteAt
<1>6. ReadByte(ReaderAt(s, p + 1, byte, n)) = [value |-> b, reader |-> ReaderAt(s, p + 2, byte, n)]
  BY <1>2, <1>4, ReadByteAt
<1>. QED  BY <1>3, <1>5, <1>6 DEF ReadShort

LEMMA ReadBytesHas ==
  ASSUME NEW s \in Seq(Byte), NEW p, NEW byte, NEW n, NEW a \in Seq(Byte), Has(s, p, a)
  PROVE  ReadBytes(ReaderAt(s, p, byte, n), Len(a))
           = [value |-> a, reader |-> ReaderAt(s, p + Len(a), byte, n)]
<1>. DEFINE r == ReaderAt(s, p, byte, n)
            v == [i \in 1 .. Len(a) |-> ByteAt(r, p + i - 1)]
<1>1. ReadBytes(r, Len(a)) = [value |-> v, reader |-> ReaderAt(s, p + Len(a), byte, n)]
  <2>1. r.iterator = p /\ [r EXCEPT !.iterator = @ + Len(a)] = ReaderAt(s, p + Len(a), byte, n)
    BY DEF ReaderAt
  <2>. HIDE DEF r
  <2>. QED  BY <2>1 DEF ReadBytes
<1>2. ASSUME NEW i \in 1 .. Len(a)
      PROVE  v[i] = a[i]
  <2>1. p + i - 1 \in 1 .. Len(s) /\ s[p + i - 1] = a[i]
    BY HasType
  <2>2. p + i - 1 <= Len(s)
    BY <2>1, LenProperties
  <2>. QED  BY <2>1, <2>2 DEF ByteAt, ReaderAt
<1>3. a = [i \in 1 .. Len(a) |-> a[i]]
  BY LenProperties
<1>4. v = a
  BY <1>2, <1>3
<1>. QED  BY <1>1, <1>4

LEMMA StringBytesIs ==
  ASSUME NEW chars \in Strings
  PROVE  /\ StringBytes(chars) = ShortBytes(Len(chars)) \o chars
         /\ chars \in Seq(Byte) /\ Len(chars) \in Shorts
         /\ StringBytes(chars) \in Seq(Byte) /\ Len(StringBytes(chars)) = Len(chars) + 2
<1>1. chars \in Seq(Byte) /\ Len(chars) \in Shorts
  <2>1. chars \in Seq(Byte) /\ Len(chars) <= 65535
    BY SMT DEF Strings
  <2>. DEFINE l == Len(chars)
  <2>2. l \in Nat /\ l <= 65535
    BY <2>1, LenProperties, SMT
  <2>. HIDE DEF l
  <2>3. l \in Shorts
    <3>. DEFINE n == 65535
    <3>1. n \in Nat /\ l <= n
      BY <2>2, SMT
    <3>2. Shorts = 0 .. n
      BY DEF Shorts
    <3>. HIDE DEF n
    <3>. QED  BY <2>2, <3>1, <3>2
  <2>. QED  BY <2>1, <2>3 DEF l
<1>2. StringBytes(chars) = ShortBytes(Len(chars)) \o chars
  <2>. DEFINE a == Len(chars) \div 256
              b == Len(chars) % 256
  <2>1. WriteShort(EmptyWriter, Len(chars)).bytes = Append(Append(<<>>, a), b)
    BY DEF WriteShort, WriteByte, EmptyWriter
  <2>. HIDE DEF a, b
  <2>2. Append(<<>>, a) = <<a>>
    OBVIOUS
  <2>3. Append(<<a>>, b) = <<a, b>>
    <3>1. <<a>> \in Seq({a, b}) /\ Len(<<a>>) = 1 /\ <<a>>[1] = a
      OBVIOUS
    <3>. DEFINE s == Append(<<a>>, b)
    <3>2. s \in Seq({a, b}) /\ Len(s) = 2 /\ s[1] = a /\ s[2] = b
      BY <3>1, AppendProperties
    <3>. HIDE DEF s
    <3>3. s = <<a, b>>
      BY <3>2
    <3>. QED  BY <3>3 DEF s
  <2>. QED  BY <2>1, <2>2, <2>3 DEF StringBytes, WriteString, WriteBytes, ShortBytes, a, b
<1>3. ShortBytes(Len(chars)) \in Seq(Byte) /\ Len(ShortBytes(Len(chars))) = 2
  BY <1>1, ShortBytesType
<1>4. StringBytes(chars) \in Seq(Byte) /\ Len(StringBytes(chars)) = 2 + Len(chars)
  <2>. DEFINE a == ShortBytes(Len(chars))
  <2>1. a \in Seq(Byte) /\ Len(a) = 2 /\ StringBytes(chars) = a \o chars
    BY <1>2, <1>3
  <2>. HIDE DEF a
  <2>2. a \o chars \in Seq(Byte) /\ Len(a \o chars) = Len(a) + Len(chars)
    BY <1>1, <2>1, ConcatProperties
  <2>. QED  BY <2>1, <2>2
<1>5. Len(chars) \in Nat
  BY <1>1, LenProperties
<1>. QED  BY <1>1, <1>2, <1>4, <1>5

LEMMA ReadStringHas ==
  ASSUME NEW s \in Seq(Byte), NEW p, NEW byte, NEW n, NEW chars \in Strings,
         Has(s, p, StringBytes(chars))
  PROVE  ReadString(ReaderAt(s, p, byte, n))
           = [value |-> chars, reader |-> ReaderAt(s, p + Len(StringBytes(chars)), byte, n)]
<1>. DEFINE l == Len(chars)
<1>0. l \in Shorts /\ chars \in Seq(Byte) /\ l \in Nat /\ ShortBytes(l) \in Seq(Byte)
  BY StringBytesIs, ShortBytesType, LenProperties
<1>1. Has(s, p, ShortBytes(l)) /\ Has(s, p + 2, chars)
  <2>1. StringBytes(chars) = ShortBytes(l) \o chars /\ Len(ShortBytes(l)) = 2
    BY <1>0, StringBytesIs, ShortBytesType
  <2>2. Has(s, p, ShortBytes(l) \o chars)
    BY <2>1
  <2>. HIDE DEF l
  <2>. QED  BY <1>0, <2>1, <2>2, HasConcat
<1>2. p \in Nat /\ Len(StringBytes(chars)) = l + 2
  <2>1. StringBytes(chars) \in Seq(Byte) /\ Len(StringBytes(chars)) = l + 2
    BY StringBytesIs
  <2>. QED  BY <2>1, HasType
<1>3. ReadShort(ReaderAt(s, p, byte, n)) = [value |-> l, reader |-> ReaderAt(s, p + 2, byte, n)]
  BY <1>0, <1>1, ReadShortHas
<1>4. ReadBytes(ReaderAt(s, p + 2, byte, n), l)
        = [value |-> chars, reader |-> ReaderAt(s, (p + 2) + l, byte, n)]
  BY <1>0, <1>1, ReadBytesHas
<1>5. (p + 2) + l = p + Len(StringBytes(chars))
  BY <1>0, <1>2
<1>. QED  BY <1>3, <1>4, <1>5 DEF ReadString

-----------------------------------------------------------------------------
(* Reading a fixed header.                                                 *)

\* One round of getRemainingSize's loop, and what the rounds make together.
Round(last) ==
  LET digit == ReadByte(last.reader)
  IN  IF last.more
      THEN [value      |-> last.value + (digit.value % 128) * last.multiplier,
            multiplier |-> last.multiplier * 128,
            more       |-> digit.value \div 128 = 1,
            reader     |-> digit.reader]
      ELSE last

Start(r) == [value |-> 0, multiplier |-> 1, more |-> TRUE, reader |-> r]

RoundsStep(f, r) == [n \in 0 .. MaxDigits |-> IF n = 0 THEN Start(r) ELSE Round(f[n - 1])]

LEMMA RoundsSolve == ASSUME NEW r PROVE \E f : f = RoundsStep(f, r)
<1>. DEFINE a0 == Start(r)
            a1 == Round(a0)
            a2 == Round(a1)
            a3 == Round(a2)
            a4 == Round(a3)
            f == [n \in 0 .. 4 |-> IF n = 0 THEN a0 ELSE IF n = 1 THEN a1
                                   ELSE IF n = 2 THEN a2 ELSE IF n = 3 THEN a3 ELSE a4]
            g == RoundsStep(f, r)
<1>1. a1 = Round(a0) /\ a2 = Round(a1) /\ a3 = Round(a2) /\ a4 = Round(a3)
  OBVIOUS
<1>2. g = [n \in 0 .. 4 |-> IF n = 0 THEN a0 ELSE Round(f[n - 1])]
  BY DEF RoundsStep, MaxDigits
<1>. HIDE DEF g
<1>. HIDE DEF a4
<1>. HIDE DEF a3
<1>. HIDE DEF a2
<1>. HIDE DEF a1
<1>. HIDE DEF a0
<1>3. ASSUME NEW n \in 0 .. 4
      PROVE  g[n] = f[n]
  <2>1. CASE n = 0  BY <1>1, <1>2, <2>1
  <2>2. CASE n = 1  BY <1>1, <1>2, <2>2
  <2>3. CASE n = 2  BY <1>1, <1>2, <2>3
  <2>4. CASE n = 3  BY <1>1, <1>2, <2>4
  <2>5. CASE n = 4  BY <1>1, <1>2, <2>5
  <2>. QED  BY <2>1, <2>2, <2>3, <2>4, <2>5
<1>4. g = [n \in 0 .. 4 |-> g[n]] /\ f = [n \in 0 .. 4 |-> f[n]]
  BY <1>2
<1>. HIDE DEF f
<1>5. g = f
  BY <1>3, <1>4
<1>. QED  BY <1>5 DEF g

LEMMA RoundsChosen ==
  ASSUME NEW r
  PROVE  GetRemainingSize(r) = Round(Round(Round(Round(Start(r)))))
<1>. DEFINE f == CHOOSE g : g = RoundsStep(g, r)
<1>1. f = RoundsStep(f, r)
  BY RoundsSolve, Zenon
<1>2. GetRemainingSize(r) = f[MaxDigits]
  BY DEF GetRemainingSize, RoundsStep, Round, Start
<1>. HIDE DEF f
<1>3. f[0] = Start(r) /\ \A n \in 1 .. 4 : f[n] = Round(f[n - 1])
  BY <1>1 DEF RoundsStep, MaxDigits
<1>4. f[1] = Round(f[0]) /\ f[2] = Round(f[1]) /\ f[3] = Round(f[2]) /\ f[4] = Round(f[3])
  BY <1>3
<1>. QED  BY <1>2, <1>3, <1>4 DEF MaxDigits

\* A round takes one digit; what is read then and the digits that follow are
\* the length still.  Once there are no more digits, rounds change nothing.
Reads(v, m, s, p, byte, n) ==
  [value |-> v, multiplier |-> m, more |-> TRUE, reader |-> ReaderAt(s, p, byte, n)]

Ends(state, v, r) == state.value = v /\ state.more = FALSE /\ state.reader = r

LEMMA RoundTakes ==
  ASSUME NEW s \in Seq(Byte), NEW p, NEW byte, NEW n, NEW v \in Nat, NEW m \in Nat,
         NEW y \in 0 .. MaxRemaining, Has(s, p, Digits(y))
  PROVE  /\ y < 128 =>
              Ends(Round(Reads(v, m, s, p, byte, n)), v + y * m,
                   ReaderAt(s, p + Len(Digits(y)), byte, n))
         /\ ~(y < 128) =>
              /\ Round(Reads(v, m, s, p, byte, n))
                   = Reads(v + (y % 128) * m, m * 128, s, p + 1, byte, n)
              /\ v + (y % 128) * m \in Nat /\ m * 128 \in Nat
              /\ y \div 128 \in 0 .. MaxRemaining /\ Has(s, p + 1, Digits(y \div 128))
              /\ (v + (y % 128) * m) + (y \div 128) * (m * 128) = v + y * m
              /\ (p + 1) + Len(Digits(y \div 128)) = p + Len(Digits(y))
<1>. DEFINE d == Digits(y)[1]
            z == y \div 128
            next == Round(Reads(v, m, s, p, byte, n))
<1>1. Digits(y) \in Seq(Byte) /\ Len(Digits(y)) \in 1 .. 4 /\ y \in Nat
  BY DigitsType, LengthType
<1>2. p \in Nat /\ p \in 1 .. Len(s) /\ s[p] = d
  <2>1. 1 \in 1 .. Len(Digits(y))
    <3>. DEFINE l == Len(Digits(y))
    <3>1. l \in 1 .. 4
      BY <1>1
    <3>. HIDE DEF l
    <3>. QED  BY <3>1 DEF l
  <2>2. p \in Nat /\ p + 1 - 1 \in 1 .. Len(s) /\ s[p + 1 - 1] = d
    BY <1>1, <2>1, HasType
  <2>. QED  BY <2>2
<1>3. ReadByte(ReaderAt(s, p, byte, n)) = [value |-> d, reader |-> ReaderAt(s, p + 1, byte, n)]
  BY <1>2, ReadByteAt
<1>4. next = [value |-> v + (d % 128) * m, multiplier |-> m * 128, more |-> d \div 128 = 1,
              reader |-> ReaderAt(s, p + 1, byte, n)]
  <2>. HIDE DEF d
  <2>. QED  BY <1>3 DEF Round, Reads
<1>5. CASE y < 128
  <2>1. d = y /\ d % 128 = y /\ d \div 128 # 1 /\ Len(Digits(y)) = 1
    BY <1>1, <1>5, DigitsType
  <2>. HIDE DEF d, next
  <2>2. /\ next.value = v + y * m /\ next.more = FALSE
        /\ next.reader = ReaderAt(s, p + Len(Digits(y)), byte, n)
    BY <1>4, <2>1
  <2>. QED  BY <1>5, <2>2 DEF next, Ends
<1>6. CASE ~(y < 128)
  <2>1. d = 128 + (y % 128)
    BY <1>1, <1>6, DigitsType
  <2>2. d % 128 = y % 128 /\ d \div 128 = 1
    BY <1>1, <2>1
  <2>3. y >= 128
    BY <1>1, <1>6
  <2>4. z \in 0 .. MaxRemaining /\ Digits(y) = <<Digit(y)>> \o Digits(z)
    BY <2>3, DigitsUnroll
  <2>5. <<Digit(y)>> \in Seq(Byte) /\ Len(<<Digit(y)>>) = 1 /\ Digits(z) \in Seq(Byte)
    <3>1. Digits(z) \in Seq(Byte)
      BY <2>4, DigitsType
    <3>2. Digit(y) = 128 + (y % 128)
      BY <1>1, <2>3, DigitIs
    <3>3. Digit(y) \in Byte
      BY <1>1, <3>2 DEF Byte
    <3>. QED  BY <3>1, <3>3
  <2>6. Has(s, p + 1, Digits(z)) /\ Len(Digits(y)) = 1 + Len(Digits(z)) /\ Len(Digits(z)) \in Nat
    <3>. DEFINE a == <<Digit(y)>>
    <3>1. a \in Seq(Byte) /\ Len(a) = 1 /\ Digits(z) \in Seq(Byte) /\ Has(s, p, a \o Digits(z))
      BY <2>4, <2>5
    <3>. HIDE DEF a, z
    <3>2. Has(s, p + Len(a), Digits(z))
      BY <3>1, HasConcat
    <3>3. Len(a \o Digits(z)) = Len(a) + Len(Digits(z)) /\ Len(Digits(z)) \in Nat
      BY <3>1, ConcatProperties, LenProperties
    <3>. QED  BY <2>4, <3>1, <3>2, <3>3 DEF a
  <2>7. v + (y % 128) * m \in Nat /\ m * 128 \in Nat
        /\ (v + (y % 128) * m) + z * (m * 128) = v + y * m
    <3>. DEFINE l == y % 128
    <3>1. l \in Nat /\ z \in Nat /\ y = z * 128 + l
      BY <1>1
    <3>. HIDE DEF l, z
    <3>2. (v + l * m) + z * (m * 128) = v + (z * 128 + l) * m
      BY <3>1, SMT
    <3>3. v + l * m \in Nat /\ m * 128 \in Nat
      BY <3>1, SMT
    <3>. QED  BY <3>1, <3>2, <3>3 DEF l
  <2>8. next = Reads(v + (y % 128) * m, m * 128, s, p + 1, byte, n)
    <3>. HIDE DEF d
    <3>. QED  BY <1>4, <2>2 DEF Reads
  <2>9. (p + 1) + Len(Digits(z)) = p + Len(Digits(y))
    <3>. HIDE DEF z
    <3>. QED  BY <1>2, <2>6
  <2>. HIDE DEF next, z, d
  <2>. QED  BY <1>6, <2>4, <2>6, <2>7, <2>8, <2>9 DEF z, next
<1>. QED  BY <1>5, <1>6

LEMMA RoundStays ==
  ASSUME NEW state, NEW v, NEW r, Ends(state, v, r)
  PROVE  Ends(Round(state), v, r)
BY DEF Ends, Round

LEMMA GetRemainingSizeHas ==
  ASSUME NEW s \in Seq(Byte), NEW p, NEW byte, NEW n,
         NEW x \in 0 .. MaxRemaining, Has(s, p, Digits(x))
  PROVE  Ends(GetRemainingSize(ReaderAt(s, p, byte, n)), x,
              ReaderAt(s, p + Len(Digits(x)), byte, n))
<1>. DEFINE R(v, m, q) == Reads(v, m, s, q, byte, n)
            At(q, y) == ReaderAt(s, q + Len(Digits(y)), byte, n)
<1>1. ASSUME NEW v \in Nat, NEW m \in Nat, NEW y \in 0 .. MaxRemaining, NEW q,
             Has(s, q, Digits(y)), y < 128
      PROVE  Ends(Round(R(v, m, q)), v + y * m, At(q, y))
  BY ZenonT(30), <1>1, RoundTakes
<1>2. ASSUME NEW v \in Nat, NEW m \in Nat, NEW y \in 0 .. MaxRemaining, NEW q,
             Has(s, q, Digits(y)), y \div 128 < 128
      PROVE  Ends(Round(Round(R(v, m, q))), v + y * m, At(q, y))
  <2>1. CASE y < 128
    <3>1. Ends(Round(R(v, m, q)), v + y * m, At(q, y))
      BY ZenonT(30), <1>2, <2>1, RoundTakes
    <3>. HIDE DEF R, At
    <3>. QED  BY <3>1, RoundStays
  <2>2. CASE ~(y < 128)
    <3>. DEFINE z == y \div 128
                low == v + (y % 128) * m
    <3>0. Has(s, q, Digits(y))
      BY <1>2
    <3>1. /\ Round(R(v, m, q)) = R(low, m * 128, q + 1) /\ low \in Nat /\ m * 128 \in Nat
          /\ z \in 0 .. MaxRemaining /\ Has(s, q + 1, Digits(z))
          /\ low + z * (m * 128) = v + y * m
          /\ (q + 1) + Len(Digits(z)) = q + Len(Digits(y))
      BY <2>2, <3>0, RoundTakes
    <3>2. z < 128
      BY <1>2 DEF Third, Fourth
    <3>3. At(q + 1, z) = At(q, y)
      BY <3>1
    <3>. HIDE DEF z, low, R, At
    <3>4. Ends(Round(R(low, m * 128, q + 1)), low + z * (m * 128), At(q + 1, z))
      BY <1>1, <3>1, <3>2
    <3>. QED  BY <3>1, <3>3, <3>4
  <2>. QED  BY <2>1, <2>2
<1>3. ASSUME NEW v \in Nat, NEW m \in Nat, NEW y \in 0 .. MaxRemaining, NEW q,
             Has(s, q, Digits(y)), Third(y) < 128
      PROVE  Ends(Round(Round(Round(R(v, m, q)))), v + y * m, At(q, y))
  <2>1. CASE y < 128
    <3>1. Ends(Round(R(v, m, q)), v + y * m, At(q, y))
      BY ZenonT(30), <1>3, <2>1, RoundTakes
    <3>. HIDE DEF R, At
    <3>. QED  BY <3>1, RoundStays
  <2>2. CASE ~(y < 128)
    <3>. DEFINE z == y \div 128
                low == v + (y % 128) * m
    <3>0. Has(s, q, Digits(y))
      BY <1>3
    <3>1. /\ Round(R(v, m, q)) = R(low, m * 128, q + 1) /\ low \in Nat /\ m * 128 \in Nat
          /\ z \in 0 .. MaxRemaining /\ Has(s, q + 1, Digits(z))
          /\ low + z * (m * 128) = v + y * m
          /\ (q + 1) + Len(Digits(z)) = q + Len(Digits(y))
      BY <2>2, <3>0, RoundTakes
    <3>2. z \div 128 < 128
      BY <1>3 DEF Third, Fourth
    <3>3. At(q + 1, z) = At(q, y)
      BY <3>1
    <3>. HIDE DEF z, low, R, At
    <3>4. Ends(Round(Round(R(low, m * 128, q + 1))), low + z * (m * 128), At(q + 1, z))
      BY <1>2, <3>1, <3>2
    <3>. QED  BY <3>1, <3>3, <3>4
  <2>. QED  BY <2>1, <2>2
<1>4. ASSUME NEW v \in Nat, NEW m \in Nat, NEW y \in 0 .. MaxRemaining, NEW q,
             Has(s, q, Digits(y)), Fourth(y) < 128
      PROVE  Ends(Round(Round(Round(Round(R(v, m, q))))), v + y * m, At(q, y))
  <2>1. CASE y < 128
    <3>1. Ends(Round(R(v, m, q)), v + y * m, At(q, y))
      BY ZenonT(30), <1>4, <2>1, RoundTakes
    <3>. HIDE DEF R, At
    <3>. QED  BY <3>1, RoundStays
  <2>2. CASE ~(y < 128)
    <3>. DEFINE z == y \div 128
                low == v + (y % 128) * m
    <3>0. Has(s, q, Digits(y))
      BY <1>4
    <3>1. /\ Round(R(v, m, q)) = R(low, m * 128, q + 1) /\ low \in Nat /\ m * 128 \in Nat
          /\ z \in 0 .. MaxRemaining /\ Has(s, q + 1, Digits(z))
          /\ low + z * (m * 128) = v + y * m
          /\ (q + 1) + Len(Digits(z)) = q + Len(Digits(y))
      BY <2>2, <3>0, RoundTakes
    <3>2. Third(z) < 128
      BY <1>4 DEF Third, Fourth
    <3>3. At(q + 1, z) = At(q, y)
      BY <3>1
    <3>. HIDE DEF z, low, R, At
    <3>4. Ends(Round(Round(Round(R(low, m * 128, q + 1)))), low + z * (m * 128), At(q + 1, z))
      BY <1>3, <3>1, <3>2
    <3>. QED  BY <3>1, <3>3, <3>4
  <2>. QED  BY <2>1, <2>2
<1>5. Start(ReaderAt(s, p, byte, n)) = R(0, 1, p)
  BY DEF Start, Reads
<1>6. Fourth(x) < 128 /\ x \in Nat /\ 0 + x * 1 = x
  BY LengthType
<1>. DEFINE rounds == Round(Round(Round(Round(R(0, 1, p)))))
<1>7. Ends(rounds, 0 + x * 1, At(p, x))
  <2>. HIDE DEF R, At
  <2>. QED  BY <1>4, <1>6
<1>8. GetRemainingSize(ReaderAt(s, p, byte, n)) = rounds
  <2>. HIDE DEF R
  <2>. QED  BY <1>5, RoundsChosen
<1>. QED  BY <1>6, <1>7, <1>8

\* The fixed header is read as it was written, from the start of its bytes.
HeaderRead(h, r) ==
  [value |-> [type |-> TypeCode[h.type], dup |-> h.dup, qos |-> h.qos, retain |-> h.retain,
              remaining |-> h.remaining],
   reader |-> r]

LEMMA ReadHeaderHas ==
  ASSUME NEW s \in Seq(Byte), NEW h, IsHeader(h),
         Has(s, 1, <<FirstByte(h)>> \o Digits(h.remaining))
  PROVE  ReadHeader(Reader(s))
           = HeaderRead(h, ReaderAt(s, 2 + Len(Digits(h.remaining)), FirstByte(h), 8))
<1>. DEFINE b == FirstByte(h)
            t == TypeCode[h.type]
            d == h.dup
            q == h.qos
            e == h.retain
            x == h.remaining
<1>1. /\ b \in Byte /\ b = 16 * t + 8 * d + 2 * q + e
      /\ t \in 0 .. 15 /\ d \in 0 .. 1 /\ q \in 0 .. 3 /\ e \in 0 .. 1 /\ x \in 0 .. MaxRemaining
  <2>1. b \in Byte
    BY HeaderByte
  <2>. QED  BY <2>1 DEF IsHeader, FirstByte
<1>2. Digits(x) \in Seq(Byte)
  BY <1>1, DigitsType
<1>. HIDE DEF b, t, d, q, e, x
<1>3. Has(s, 1, <<b>>) /\ Has(s, 2, Digits(x))
  <2>. DEFINE a == <<b>>
  <2>1. a \in Seq(Byte) /\ Len(a) = 1 /\ Has(s, 1, a \o Digits(x))
    BY <1>1 DEF b, x
  <2>. HIDE DEF a
  <2>2. Has(s, 1, a) /\ Has(s, 1 + Len(a), Digits(x))
    BY <1>2, <2>1, HasConcat
  <2>. QED  BY <2>1, <2>2 DEF a
<1>4. 1 \in 1 .. Len(s) /\ s[1] = b
  <2>. DEFINE a == <<b>>
  <2>1. a \in Seq(Byte) /\ 1 \in 1 .. Len(a) /\ a[1] = b /\ Has(s, 1, a)
    BY <1>1, <1>3
  <2>. HIDE DEF a
  <2>2. 1 + 1 - 1 \in 1 .. Len(s) /\ s[1 + 1 - 1] = b
    BY <2>1, HasType
  <2>. QED  BY <2>2
<1>5. Reader(s) = ReaderAt(s, 1, 0, 0)
  BY DEF Reader, ReaderAt
<1>. DEFINE r(n) == ReaderAt(s, 2, b, n)
            type == ReadBits(Reader(s), 4)
            dup == ReadBits(type.reader, 1)
            qos == ReadBits(dup.reader, 2)
            retain == ReadBits(qos.reader, 1)
            remaining == GetRemainingSize(retain.reader)
<1>6. type = [value |-> t, reader |-> r(4)]
  <2>1. 0 \in Byte
    BY DEF Byte
  <2>2. ReadBits(ReaderAt(s, 1, 0, 0), 4)
          = [value |-> (s[1] \div 2^(8 - 4)) % 2^4, reader |-> ReaderAt(s, 1 + 1, s[1], 4)]
    BY <1>4, <2>1, ReadBitsNext
  <2>3. (b \div 2^(8 - 4)) % 2^4 = t
    BY <1>1
  <2>. QED  BY <1>4, <1>5, <2>2, <2>3
<1>7. dup = [value |-> d, reader |-> r(5)]
  <2>1. type.reader = r(4)
    BY <1>6
  <2>0. 4 \in 1 .. 7 /\ 1 \in 1 .. 4 /\ 4 + 1 <= 8 /\ 2 \in Nat \ {0}
    OBVIOUS
  <2>2. ReadBits(r(4), 1) = [value |-> (b \div 2^(8 - (4 + 1))) % 2^1, reader |-> r(4 + 1)]
    BY <1>1, <2>0, ReadBitsAt
  <2>3. (b \div 2^(8 - (4 + 1))) % 2^1 = d
    BY <1>1
  <2>. HIDE DEF type
  <2>. QED  BY <2>1, <2>2, <2>3
<1>8. qos = [value |-> q, reader |-> r(7)]
  <2>1. dup.reader = r(5)
    BY <1>7
  <2>0. 5 \in 1 .. 7 /\ 2 \in 1 .. 4 /\ 5 + 2 <= 8 /\ 2 \in Nat \ {0}
    OBVIOUS
  <2>2. ReadBits(r(5), 2) = [value |-> (b \div 2^(8 - (5 + 2))) % 2^2, reader |-> r(5 + 2)]
    BY <1>1, <2>0, ReadBitsAt
  <2>3. (b \div 2^(8 - (5 + 2))) % 2^2 = q
    BY <1>1
  <2>. HIDE DEF dup
  <2>. QED  BY <2>1, <2>2, <2>3
<1>9. retain = [value |-> e, reader |-> r(8)]
  <2>1. qos.reader = r(7)
    BY <1>8
  <2>2. ReadBits(r(7), 1) = [value |-> (b \div 2^(8 - (7 + 1))) % 2^1, reader |-> r(7 + 1)]
    BY <1>1, ReadBitsAt
  <2>3. (b \div 2^(8 - (7 + 1))) % 2^1 = e
    BY <1>1
  <2>. HIDE DEF qos
  <2>. QED  BY <2>1, <2>2, <2>3
<1>10. remaining.value = x /\ remaining.reader = ReaderAt(s, 2 + Len(Digits(x)), b, 8)
  <2>1. retain.reader = r(8)
    BY <1>9
  <2>2. Ends(GetRemainingSize(r(8)), x, ReaderAt(s, 2 + Len(Digits(x)), b, 8))
    BY <1>1, <1>3, GetRemainingSizeHas
  <2>. HIDE DEF retain
  <2>. QED  BY <2>1, <2>2 DEF Ends
<1>11. ReadHeader(Reader(s))
         = [value |-> [type |-> type.value, dup |-> dup.value, qos |-> qos.value,
                       retain |-> retain.value, remaining |-> remaining.value],
            reader |-> remaining.reader]
  BY DEF ReadHeader
<1>12. type.value = t /\ dup.value = d /\ qos.value = q /\ retain.value = e
  BY <1>6, <1>7, <1>8, <1>9
<1>. HIDE DEF type, dup, qos, retain, remaining
<1>. QED  BY <1>10, <1>11, <1>12 DEF HeaderRead, b, t, d, q, e, x

-----------------------------------------------------------------------------
(* A message: a fixed header and what is behind it.                        *)

Frame(h, body) == (<<FirstByte(h)>> \o Digits(h.remaining)) \o body

BodyAt(h) == 2 + Len(Digits(h.remaining))

LEMMA FrameRight ==
  ASSUME NEW h, IsHeader(h), NEW body \in Seq(Byte)
  PROVE  LET s == Frame(h, body)
         IN  /\ s \in Seq(Byte) /\ s # <<>>
             /\ Len(s) = 1 + Len(Digits(h.remaining)) + Len(body)
             /\ s[1] = FirstByte(h) /\ s[2] = Digits(h.remaining)[1]
             /\ Has(s, BodyAt(h), body)
             /\ ReadHeader(Reader(s))
                  = HeaderRead(h, ReaderAt(s, BodyAt(h), FirstByte(h), 8))
<1>. DEFINE b == FirstByte(h)
            ds == Digits(h.remaining)
            head == <<b>> \o ds
            s == head \o body
<1>1. /\ b \in Byte /\ ds \in Seq(Byte) /\ Len(ds) \in 1 .. 4 /\ Len(body) \in Nat
  BY HeaderByte, DigitsType, LenProperties DEF IsHeader
<1>. HIDE DEF ds, b
<1>2. <<b>> \in Seq(Byte) /\ Len(<<b>>) = 1 /\ <<b>>[1] = b
  BY <1>1
<1>3. head \in Seq(Byte) /\ Len(head) = 1 + Len(ds) /\ head[1] = b /\ head[2] = ds[1]
  <2>. DEFINE a == <<b>>
              n == Len(ds)
  <2>0. a \in Seq(Byte) /\ Len(a) = 1 /\ a[1] = b /\ n \in 1 .. 4
    BY <1>1, <1>2
  <2>. HIDE DEF a
  <2>1. /\ a \o ds \in Seq(Byte) /\ Len(a \o ds) = 1 + n
        /\ \A i \in 1 .. 1 + n : (a \o ds)[i] = IF i <= 1 THEN a[i] ELSE ds[i - 1]
    <3>1. /\ a \o ds \in Seq(Byte) /\ Len(a \o ds) = Len(a) + Len(ds)
          /\ \A i \in 1 .. Len(a) + Len(ds) :
               (a \o ds)[i] = IF i <= Len(a) THEN a[i] ELSE ds[i - Len(a)]
      BY <1>1, <2>0, ConcatProperties
    <3>. QED  BY <2>0, <3>1
  <2>. HIDE DEF n
  <2>2. (a \o ds)[1] = a[1] /\ (a \o ds)[2] = ds[1]
    <3>1. 1 \in 1 .. 1 + n /\ 2 \in 1 .. 1 + n /\ 2 - 1 = 1 /\ ~(2 <= 1) /\ 1 <= 1
      BY <2>0
    <3>. QED  BY <2>1, <3>1
  <2>. QED  BY <2>0, <2>1, <2>2 DEF a, n
<1>. HIDE DEF head
<1>. DEFINE n == Len(head)
<1>4. /\ s \in Seq(Byte) /\ Len(s) = n + Len(body) /\ n = 1 + Len(ds) /\ n \in Nat /\ n >= 2
      /\ \A i \in 1 .. n + Len(body) : s[i] = IF i <= n THEN head[i] ELSE body[i - n]
  <2>1. n = 1 + Len(ds) /\ n \in Nat /\ n >= 2
    BY <1>1, <1>3
  <2>. QED  BY <1>1, <1>3, <2>1, ConcatProperties
<1>5. Has(s, 1, head) /\ Has(s, 1 + n, body)
  <2>. HIDE DEF s, n
  <2>1. Has(s, 1, head \o body)
    BY <1>4, HasAll DEF s
  <2>. QED  BY <1>3, <1>4, <2>1, HasConcat DEF n
<1>. HIDE DEF s
<1>6. s[1] = b /\ s[2] = ds[1] /\ s # <<>>
  <2>. HIDE DEF n
  <2>. DEFINE k == Len(body)
  <2>1. k \in Nat
    BY <1>1
  <2>2. \A i \in 1 .. n + k : s[i] = IF i <= n THEN head[i] ELSE body[i - n]
    BY <1>4
  <2>. HIDE DEF k
  <2>3. 1 \in 1 .. n + k /\ 2 \in 1 .. n + k /\ 1 <= n /\ 2 <= n
    BY <1>4, <2>1
  <2>4. s[1] = head[1] /\ s[2] = head[2]
    BY <2>2, <2>3
  <2>5. Len(s) # 0
    BY <1>4, <2>1 DEF k
  <2>6. s # <<>>
    BY <2>5
  <2>. QED  BY <1>3, <2>4, <2>6
<1>7. 1 + n = BodyAt(h)
  BY <1>1, <1>4 DEF BodyAt, ds
<1>8. ReadHeader(Reader(s)) = HeaderRead(h, ReaderAt(s, BodyAt(h), FirstByte(h), 8))
  BY <1>4, <1>5, ReadHeaderHas DEF BodyAt, head, ds, b
<1>. HIDE DEF n
<1>9. Len(s) = 1 + Len(ds) + Len(body)
  BY <1>4
<1>. QED  BY <1>4, <1>5, <1>6, <1>7, <1>8, <1>9 DEF Frame, s, head, ds, b

\* What the writer's operations add to its bytes.
LEMMA AppendTwo ==
  ASSUME NEW S, NEW s \in Seq(S), NEW a \in S, NEW b \in S
  PROVE  Append(s, a) = s \o <<a>> /\ Append(Append(s, a), b) = s \o <<a, b>>
<1>1. \A t \in Seq(S), x \in S : Append(t, x) = t \o <<x>> /\ Append(t, x) \in Seq(S)
                                 /\ <<x>> \in Seq(S)
  BY AppendIsConcat, AppendProperties
<1>2. (s \o <<a>>) \o <<b>> = s \o (<<a>> \o <<b>>)
  BY <1>1, ConcatAssociative
<1>3. <<a>> \o <<b>> = <<a, b>>
  <2>. DEFINE u == <<a>>
              v == <<b>>
              t == u \o v
  <2>1. u \in Seq(S) /\ v \in Seq(S) /\ Len(u) = 1 /\ Len(v) = 1 /\ u[1] = a /\ v[1] = b
    OBVIOUS
  <2>. HIDE DEF u, v
  <2>2. /\ t \in Seq(S) /\ Len(t) = Len(u) + Len(v)
        /\ \A i \in 1 .. Len(u) + Len(v) : t[i] = IF i <= Len(u) THEN u[i] ELSE v[i - Len(u)]
    BY <2>1, ConcatProperties
  <2>. HIDE DEF t
  <2>3. Len(t) = 2 /\ t[1] = a /\ t[2] = b
    BY <2>1, <2>2
  <2>4. t = <<a, b>>
    <3>0. t \in Seq(S)
      BY <2>2
    <3>1. t = [i \in 1 .. 2 |-> t[i]]
      BY <2>3, <3>0, LenProperties
    <3>2. \A i \in 1 .. 2 : t[i] = <<a, b>>[i]
      BY <2>3
    <3>3. <<a, b>> = [i \in 1 .. 2 |-> <<a, b>>[i]]
      OBVIOUS
    <3>. QED  BY <3>1, <3>2, <3>3
  <2>. QED  BY <2>4 DEF t, u, v
<1>. QED  BY <1>1, <1>2, <1>3

LEMMA WriteByteIs ==
  ASSUME NEW w \in Writer, NEW b \in Byte
  PROVE  WriteByte(w, b) \in Writer /\ WriteByte(w, b).bytes = w.bytes \o <<b>>
<1>1. w.bytes \in Seq(Byte)
  BY DEF Writer
<1>2. Append(w.bytes, b) = w.bytes \o <<b>> /\ <<b>> \in Seq(Byte)
  BY <1>1, AppendTwo
<1>3. WriteByte(w, b) = WriteBytes(w, <<b>>)
  BY <1>2 DEF WriteByte, WriteBytes
<1>. QED  BY <1>2, <1>3, WriteBytesIs

LEMMA WriteShortIs ==
  ASSUME NEW w \in Writer, NEW x \in Shorts
  PROVE  WriteShort(w, x) \in Writer /\ WriteShort(w, x).bytes = w.bytes \o ShortBytes(x)
<1>. DEFINE a == x \div 256
            b == x % 256
            s == w.bytes
<1>1. a \in Byte /\ b \in Byte /\ s \in Seq(Byte)
  <2>1. x \in Nat /\ x <= 65535
    BY SMTT(30) DEF Shorts
  <2>2. s \in Seq(Byte)
    BY DEF Writer
  <2>. QED  BY <2>1, <2>2, SMT DEF Byte
<1>2. WriteShort(w, x) = WriteByte(WriteByte(w, a), b)
  BY DEF WriteShort
<1>. HIDE DEF a, b, s
<1>3. WriteByte(w, a) \in Writer /\ WriteByte(w, a).bytes = s \o <<a>>
  BY <1>1, WriteByteIs DEF s
<1>4. WriteByte(WriteByte(w, a), b) \in Writer
      /\ WriteByte(WriteByte(w, a), b).bytes = (s \o <<a>>) \o <<b>>
  BY <1>1, <1>3, WriteByteIs
<1>5. (s \o <<a>>) \o <<b>> = s \o <<a, b>>
  <2>1. Append(s, a) = s \o <<a>> /\ Append(s, a) \in Seq(Byte)
    BY <1>1, AppendTwo, AppendProperties
  <2>2. Append(Append(s, a), b) = Append(s, a) \o <<b>>
    BY <1>1, <2>1, AppendTwo
  <2>3. Append(Append(s, a), b) = s \o <<a, b>>
    BY <1>1, AppendTwo
  <2>. QED  BY <2>1, <2>2, <2>3
<1>. QED  BY <1>2, <1>4, <1>5 DEF ShortBytes, a, b, s

LEMMA WriteStringIs ==
  ASSUME NEW w \in Writer, NEW chars \in Strings
  PROVE  WriteString(w, chars) \in Writer /\ WriteString(w, chars).bytes = w.bytes \o StringBytes(chars)
<1>. DEFINE n == ShortBytes(Len(chars))
            s == w.bytes
<1>1. /\ chars \in Seq(Byte) /\ Len(chars) \in Shorts /\ n \in Seq(Byte)
      /\ StringBytes(chars) = n \o chars
  BY StringBytesIs, ShortBytesType
<1>2. WriteShort(w, Len(chars)) \in Writer /\ WriteShort(w, Len(chars)).bytes = s \o n
  BY <1>1, WriteShortIs
<1>3. WriteString(w, chars) \in Writer /\ WriteString(w, chars).bytes = (s \o n) \o chars
  BY <1>1, <1>2, WriteBytesIs DEF WriteString
<1>4. s \in Seq(Byte)
  BY DEF Writer
<1>. HIDE DEF n, s
<1>5. (s \o n) \o chars = s \o (n \o chars)
  BY <1>1, <1>4, ConcatAssociative
<1>. QED  BY <1>1, <1>3, <1>5 DEF s

-----------------------------------------------------------------------------
(* MqttPublish.                                                            *)

PublishHeader(m) ==
  [type |-> "PUBLISH", dup |-> m.dup, qos |-> m.qos, retain |-> m.retain,
   remaining |-> Remaining(m)]

IdOf(m) == IF m.qos = 0 THEN <<>> ELSE ShortBytes(m.msgId)

PublishBody(m) == StringBytes(m.topic) \o (IdOf(m) \o m.payload)

LEMMA PublishType ==
  ASSUME NEW m, IsPublish(m)
  PROVE  /\ m.type = "PUBLISH" /\ m.dup \in 0 .. 1 /\ m.qos \in 0 .. 2 /\ m.retain \in 0 .. 1
         /\ m.topic \in Strings /\ m.payload \in Seq(Byte) /\ m.msgId \in Shorts
         /\ m.qos = 0 => m.msgId = 0
         /\ m = [type |-> "PUBLISH", dup |-> m.dup, qos |-> m.qos, retain |-> m.retain,
                 topic |-> m.topic, payload |-> m.payload, msgId |-> m.msgId]
BY DEF IsPublish

LEMMA IdOfType ==
  ASSUME NEW m, IsPublish(m)
  PROVE  IdOf(m) \in Seq(Byte) /\ Len(IdOf(m)) = IF m.qos = 0 THEN 0 ELSE 2
<1>1. m.msgId \in Shorts
  BY PublishType
<1>2. ShortBytes(m.msgId) \in Seq(Byte) /\ Len(ShortBytes(m.msgId)) = 2
  BY <1>1, ShortBytesType
<1>3. <<>> \in Seq(Byte) /\ Len(<<>>) = 0
  BY EmptySeq
<1>. QED  BY <1>2, <1>3 DEF IdOf

LEMMA PublishLength ==
  ASSUME NEW m, IsPublish(m)
  PROVE  /\ PublishBody(m) \in Seq(Byte) /\ Len(PublishBody(m)) = Remaining(m)
         /\ PublishRemaining(m) = Remaining(m) /\ Remaining(m) \in Nat
         /\ Remaining(m) = 2 + Len(m.topic) + Len(IdOf(m)) + Len(m.payload)
         /\ Len(m.topic) \in Nat /\ Len(m.payload) \in Nat /\ Len(m.topic) \in Shorts
<1>. DEFINE t == StringBytes(m.topic)
            i == IdOf(m)
            p == m.payload
            l == Len(m.topic)
            n == Len(p)
<1>1. /\ m.type = "PUBLISH" /\ m.qos \in 0 .. 2 /\ p \in Seq(Byte) /\ n \in Nat
      /\ t \in Seq(Byte) /\ Len(t) = l + 2 /\ l \in Nat /\ l \in Shorts
      /\ i \in Seq(Byte) /\ Len(i) = IF m.qos = 0 THEN 0 ELSE 2
  <2>1. m.type = "PUBLISH" /\ m.qos \in 0 .. 2 /\ p \in Seq(Byte) /\ m.topic \in Strings
    BY PublishType
  <2>2. t \in Seq(Byte) /\ Len(t) = l + 2 /\ m.topic \in Seq(Byte) /\ l \in Shorts
    BY <2>1, StringBytesIs
  <2>3. l \in Nat /\ n \in Nat
    BY <2>1, <2>2, LenProperties
  <2>. QED  BY <2>1, <2>2, <2>3, IdOfType
<1>2. Remaining(m) = 2 + l + (IF m.qos = 0 THEN 0 ELSE 2) + n
  BY <1>1 DEF Remaining
<1>3. PublishRemaining(m) = (IF m.qos # 0 THEN l + 2 + 2 ELSE l + 2) + n
  BY DEF PublishRemaining
<1>. HIDE DEF t, i, p
<1>4. i \o p \in Seq(Byte) /\ Len(i \o p) = Len(i) + Len(p)
  BY <1>1, ConcatProperties
<1>5. t \o (i \o p) \in Seq(Byte) /\ Len(t \o (i \o p)) = Len(t) + (Len(i) + Len(p))
  <2>. DEFINE ip == i \o p
  <2>1. ip \in Seq(Byte) /\ Len(ip) = Len(i) + Len(p)
    BY <1>4
  <2>. HIDE DEF ip
  <2>2. t \o ip \in Seq(Byte) /\ Len(t \o ip) = Len(t) + Len(ip)
    BY <1>1, <2>1, ConcatProperties
  <2>. QED  BY <2>1, <2>2 DEF ip
<1>6. PublishBody(m) = t \o (i \o p)
  BY DEF PublishBody, t, i, p
<1>. DEFINE li == Len(i)
<1>7. n \in Nat /\ l \in Nat /\ m.qos \in 0 .. 2 /\ li = IF m.qos = 0 THEN 0 ELSE 2
  BY <1>1 DEF i, p
<1>8. Len(PublishBody(m)) = (l + 2) + (li + n)
  BY <1>1, <1>5, <1>6 DEF p
<1>. HIDE DEF l, n, li
<1>9. /\ Len(PublishBody(m)) = Remaining(m) /\ PublishRemaining(m) = Remaining(m)
      /\ Remaining(m) \in Nat /\ Remaining(m) = 2 + l + li + n
  <2>1. CASE m.qos = 0
    BY <1>2, <1>3, <1>7, <1>8, <2>1
  <2>2. CASE m.qos # 0
    BY <1>2, <1>3, <1>7, <1>8, <2>2
  <2>. QED  BY <2>1, <2>2
<1>10. Remaining(m) = 2 + Len(m.topic) + Len(IdOf(m)) + Len(m.payload)
  BY <1>9 DEF l, li, n, i, p
<1>11. PublishBody(m) \in Seq(Byte)
  BY <1>5, <1>6
<1>. QED  BY <1>1, <1>9, <1>10, <1>11 DEF l, n, p

LEMMA PublishHeaderType ==
  ASSUME NEW m, IsPublish(m), Remaining(m) <= MaxRemaining
  PROVE  IsHeader(PublishHeader(m))
<1>1. Remaining(m) \in 0 .. MaxRemaining
  <2>1. MaxRemaining \in Int
    BY SMT DEF MaxRemaining, MaxDigits
  <2>2. Remaining(m) \in Nat
    BY PublishLength
  <2>. QED  BY <2>1, <2>2
<1>2. TypeCode["PUBLISH"] = 3
  BY DEF TypeCode
<1>. QED  BY <1>1, <1>2, PublishType DEF IsHeader, PublishHeader

LEMMA WritePublishIs ==
  ASSUME NEW m, IsPublish(m), Remaining(m) <= MaxRemaining
  PROVE  WritePublish(m) = Frame(PublishHeader(m), PublishBody(m))
<1>. DEFINE h == PublishHeader(m)
            w == WriteHeader(EmptyWriter, h)
            x == w.bytes
            t == StringBytes(m.topic)
            i == IdOf(m)
            p == m.payload
            wt == WriteString(w, m.topic)
            wi == IF m.qos # 0 THEN WriteShort(wt, m.msgId) ELSE wt
<1>1. WritePublish(m) = WriteBytes(wi, p).bytes
  <2>1. PublishRemaining(m) = Remaining(m)
    BY PublishLength
  <2>. QED  BY <2>1 DEF WritePublish, PublishHeader
<1>2. /\ t \in Seq(Byte) /\ i \in Seq(Byte) /\ p \in Seq(Byte) /\ m.topic \in Strings
      /\ m.msgId \in Shorts
  BY PublishType, StringBytesIs, IdOfType
<1>3. x = <<FirstByte(h)>> \o Digits(h.remaining) /\ x \in Seq(Byte) /\ w \in Writer
  <2>1. IsHeader(h)
    BY PublishHeaderType
  <2>. HIDE DEF h
  <2>2. x = <<FirstByte(h)>> \o Digits(h.remaining) /\ w \in Writer
    BY <2>1, WriteHeaderIs
  <2>3. x \in Seq(Byte)
    BY <2>2 DEF Writer
  <2>. QED  BY <2>2, <2>3
<1>. HIDE DEF w, h
<1>4. wt \in Writer /\ wt.bytes = x \o t /\ x \o t \in Seq(Byte)
  BY <1>2, <1>3, WriteStringIs, ConcatProperties
<1>. HIDE DEF x, t, wt
<1>5. wi \in Writer /\ wi.bytes = (x \o t) \o i
  <2>1. CASE m.qos = 0
    <3>1. (x \o t) \o <<>> = x \o t
      BY <1>4, ConcatEmptySeq
    <3>. QED  BY <1>4, <2>1, <3>1 DEF IdOf
  <2>2. CASE m.qos # 0
    BY <1>2, <1>4, <2>2, WriteShortIs DEF IdOf
  <2>. QED  BY <2>1, <2>2
<1>6. WriteBytes(wi, p).bytes = ((x \o t) \o i) \o p
  <2>. HIDE DEF wi, i, p
  <2>. QED  BY <1>2, <1>5, WriteBytesIs
<1>. HIDE DEF i, p
<1>7. ((x \o t) \o i) \o p = x \o (t \o (i \o p))
  <2>1. ((x \o t) \o i) \o p = (x \o t) \o (i \o p)
    BY SMTT(30), <1>2, <1>4, ConcatAssociative
  <2>2. i \o p \in Seq(Byte)
    BY <1>2, ConcatProperties
  <2>3. (x \o t) \o (i \o p) = x \o (t \o (i \o p))
    <3>. DEFINE ip == i \o p
    <3>1. ip \in Seq(Byte)
      BY <2>2
    <3>. HIDE DEF ip
    <3>2. (x \o t) \o ip = x \o (t \o ip)
      BY SMTT(30), <1>2, <1>3, <3>1, ConcatAssociative
    <3>. QED  BY <3>2 DEF ip
  <2>. QED  BY <2>1, <2>3
<1>. QED  BY <1>1, <1>3, <1>6, <1>7 DEF Frame, PublishBody, h, t, i, p

\* A PUBLISH is read as it was written, or without its id, which is taken for
\* the start of the payload.
WithoutId(m) ==
  [type |-> "PUBLISH", dup |-> m.dup, qos |-> m.qos, retain |-> m.retain,
   topic |-> m.topic, payload |-> IdOf(m) \o m.payload, msgId |-> 0]

LEMMA ReadPublishIs ==
  ASSUME NEW m, IsPublish(m), Remaining(m) <= MaxRemaining
  PROVE  ReadPublish(Reader(Frame(PublishHeader(m), PublishBody(m))))
           = IF m.qos # 0 /\ Remaining(m) < 7 THEN WithoutId(m) ELSE m
<1>. DEFINE h == PublishHeader(m)
            s == Frame(h, PublishBody(m))
            q == BodyAt(h)
            b == FirstByte(h)
            t == StringBytes(m.topic)
            i == IdOf(m)
            p == m.payload
            header == ReadHeader(Reader(s))
            topic == ReadString(header.reader)
            msgId == IF HasId(header.value) THEN ReadShort(topic.reader)
                     ELSE [value |-> 0, reader |-> topic.reader]
            payload == ReadBytes(msgId.reader, PayloadLen(header.value, topic.value))
            n == Remaining(m)
<1>1. ReadPublish(Reader(s))
        = [type |-> "PUBLISH", dup |-> header.value.dup, qos |-> header.value.qos,
           retain |-> header.value.retain, topic |-> topic.value, payload |-> payload.value,
           msgId |-> msgId.value]
  BY DEF ReadPublish
<1>2. IsHeader(h) /\ PublishBody(m) \in Seq(Byte)
  BY PublishHeaderType, PublishLength
<1>3. s \in Seq(Byte) /\ Has(s, q, PublishBody(m)) /\ header = HeaderRead(h, ReaderAt(s, q, b, 8))
  <2>. HIDE DEF h
  <2>. QED  BY <1>2, FrameRight
<1>4. /\ t \in Seq(Byte) /\ i \in Seq(Byte) /\ p \in Seq(Byte) /\ m.topic \in Strings
      /\ m.msgId \in Shorts /\ Len(t) = Len(m.topic) + 2 /\ Len(p) \in Nat
      /\ Len(m.topic) \in Nat /\ Len(i) = (IF m.qos = 0 THEN 0 ELSE 2) /\ m.qos \in 0 .. 2
      /\ n = 2 + Len(m.topic) + Len(i) + Len(p) /\ n \in Nat
  BY PublishType, StringBytesIs, IdOfType, PublishLength
<1>5. /\ header.value = [type |-> 3, dup |-> m.dup, qos |-> m.qos, retain |-> m.retain,
                         remaining |-> n]
      /\ header.reader = ReaderAt(s, q, b, 8)
  <2>1. TypeCode["PUBLISH"] = 3
    BY DEF TypeCode
  <2>. HIDE DEF s, q, b, n, header
  <2>. QED  BY <1>3, <2>1 DEF HeaderRead, PublishHeader, n
<1>. HIDE DEF s, h, q, b
<1>6. Has(s, q, t) /\ Has(s, q + Len(t), i \o p) /\ q \in Nat
  <2>1. Has(s, q, t \o (i \o p)) /\ i \o p \in Seq(Byte)
    BY <1>3, <1>4, ConcatProperties DEF PublishBody
  <2>. HIDE DEF t, i, p
  <2>2. Has(s, q, t) /\ Has(s, q + Len(t), i \o p)
    BY <1>3, <1>4, <2>1, HasConcat
  <2>. QED  BY <1>3, <1>4, <2>2, HasType
<1>. DEFINE k == q + Len(t)
<1>7. topic = [value |-> m.topic, reader |-> ReaderAt(s, k, b, 8)]
  <2>. HIDE DEF header, t
  <2>1. Has(s, q, StringBytes(m.topic)) /\ m.topic \in Strings /\ s \in Seq(Byte)
    BY <1>3, <1>4, <1>6 DEF t
  <2>2. ReadString(ReaderAt(s, q, b, 8))
          = [value |-> m.topic, reader |-> ReaderAt(s, q + Len(StringBytes(m.topic)), b, 8)]
    BY <2>1, ReadStringHas
  <2>. QED  BY <1>5, <2>2 DEF t
<1>8. k \in Nat
  BY <1>4, <1>6
<1>. HIDE DEF k
<1>9. Has(s, k, i \o p)
  BY <1>6 DEF k
<1>. DEFINE hv == header.value
<1>10. /\ hv.qos = m.qos /\ hv.remaining = n /\ hv.dup = m.dup /\ hv.retain = m.retain
  <2>. HIDE DEF header, n
  <2>. QED  BY <1>5
<1>11. topic.value = m.topic /\ topic.reader = ReaderAt(s, k, b, 8)
  <2>. HIDE DEF topic
  <2>. QED  BY <1>7
<1>. HIDE DEF header, topic, hv, n, t, i, p
<1>. DEFINE long == m.qos # 0 /\ ~(n < 7)
<1>12. HasId(header.value) = long
  BY <1>10 DEF HasId, SaidToHaveNoId, hv
<1>13. PayloadLen(header.value, topic.value)
         = IF long THEN Len(p) ELSE Len(i) + Len(p)
  <2>1. PayloadLen(header.value, topic.value)
          = IF long THEN (n - (Len(m.topic) + 2)) - 2 ELSE n - (Len(m.topic) + 2)
    BY <1>10, <1>11, <1>12 DEF PayloadLen, hv
  <2>. DEFINE lt == Len(m.topic)
              li == Len(i)
              lp == Len(p)
  <2>2. lt \in Nat /\ lp \in Nat /\ li \in Nat /\ n = 2 + lt + li + lp /\ (m.qos # 0 => li = 2)
    BY <1>4
  <2>3. PayloadLen(header.value, topic.value) = IF long THEN (n - (lt + 2)) - 2 ELSE n - (lt + 2)
    BY <2>1
  <2>. HIDE DEF lt, li, lp
  <2>4. (n - (lt + 2) = li + lp) /\ (m.qos # 0 => (n - (lt + 2)) - 2 = lp)
    BY <2>2
  <2>5. PayloadLen(header.value, topic.value) = IF long THEN lp ELSE li + lp
    BY <2>3, <2>4
  <2>. QED  BY <2>5 DEF lp, li
<1>14. CASE long
  <2>1. i = ShortBytes(m.msgId) /\ Len(i) = 2
    BY <1>4, <1>14 DEF IdOf, i
  <2>2. Has(s, k, i) /\ Has(s, k + 2, p)
    BY <1>3, <1>4, <1>9, <2>1, HasConcat
  <2>3. ReadShort(ReaderAt(s, k, b, 8)) = [value |-> m.msgId, reader |-> ReaderAt(s, k + 2, b, 8)]
    BY <1>3, <1>4, <2>1, <2>2, ReadShortHas
  <2>4. msgId = [value |-> m.msgId, reader |-> ReaderAt(s, k + 2, b, 8)]
    BY <1>11, <1>12, <1>14, <2>3
  <2>. HIDE DEF msgId
  <2>5. ReadBytes(ReaderAt(s, k + 2, b, 8), Len(p))
          = [value |-> p, reader |-> ReaderAt(s, (k + 2) + Len(p), b, 8)]
    BY <1>3, <1>4, <2>2, ReadBytesHas
  <2>6. payload.value = p /\ msgId.value = m.msgId
    BY <1>13, <1>14, <2>4, <2>5
  <2>. HIDE DEF payload
  <2>7. ReadPublish(Reader(s)) = m
    BY <1>1, <1>10, <1>11, <2>6, PublishType DEF hv, p
  <2>. QED  BY <1>14, <2>7 DEF s, h, n
<1>15. CASE ~long
  <2>1. msgId = [value |-> 0, reader |-> ReaderAt(s, k, b, 8)]
    BY <1>11, <1>12, <1>15
  <2>. HIDE DEF msgId
  <2>2. i \o p \in Seq(Byte) /\ Len(i \o p) = Len(i) + Len(p)
    BY <1>4, ConcatProperties
  <2>. DEFINE ip == i \o p
  <2>3. ip \in Seq(Byte) /\ Len(ip) = Len(i) + Len(p) /\ Has(s, k, ip)
    BY <1>9, <2>2
  <2>. HIDE DEF ip
  <2>4. ReadBytes(ReaderAt(s, k, b, 8), Len(ip))
          = [value |-> ip, reader |-> ReaderAt(s, k + Len(ip), b, 8)]
    BY <1>3, <2>3, ReadBytesHas
  <2>5. payload.value = ip /\ msgId.value = 0
    BY <1>13, <1>15, <2>1, <2>3, <2>4
  <2>. HIDE DEF payload
  <2>6. ReadPublish(Reader(s)) = WithoutId(m)
    BY <1>1, <1>10, <1>11, <2>5 DEF hv, p, WithoutId, ip, i
  <2>7. CASE m.qos = 0
    <3>1. ip = p /\ m.msgId = 0
      <4>1. <<>> \o p = p
        BY <1>4, ConcatEmptySeq
      <4>. QED  BY <2>7, <4>1, PublishType DEF ip, i, IdOf
    <3>2. WithoutId(m) = m
      BY <3>1, PublishType DEF WithoutId, ip, p, i
    <3>. QED  BY <2>6, <2>7, <3>2 DEF s, h
  <2>8. CASE m.qos # 0
    BY <1>15, <2>6, <2>8 DEF s, h, n
  <2>. QED  BY <2>7, <2>8
<1>. QED  BY <1>14, <1>15

-----------------------------------------------------------------------------
(* Many things, one behind another.                                        *)

\* Where so many of the pieces end.
Before(pieces, i) == Len(FlattenSeq(SubSeq(pieces, 1, i)))

LEMMA BeforeIs ==
  ASSUME NEW pieces \in Seq(Seq(Byte))
  PROVE  /\ Len(pieces) \in Nat /\ FlattenSeq(pieces) \in Seq(Byte)
         /\ Before(pieces, 0) = 0 /\ Before(pieces, Len(pieces)) = Len(FlattenSeq(pieces))
         /\ \A i \in 0 .. Len(pieces) : Before(pieces, i) \in Nat
         /\ \A i \in 1 .. Len(pieces) :
              /\ pieces[i] \in Seq(Byte) /\ Len(pieces[i]) \in Nat
              /\ Before(pieces, i) = Before(pieces, i - 1) + Len(pieces[i])
              /\ Before(pieces, i) <= Len(FlattenSeq(pieces))
<1>1. Len(pieces) \in Nat /\ FlattenSeq(pieces) \in Seq(Byte)
  BY FlattenType, LenProperties
<1>2. Before(pieces, 0) = 0
  <2>1. SubSeq(pieces, 1, 0) = <<>>
    BY <1>1, SubSeqEmpty
  <2>2. Len(<<>>) = 0
    OBVIOUS
  <2>. QED  BY <2>1, <2>2, FlattenEmpty DEF Before
<1>3. Before(pieces, Len(pieces)) = Len(FlattenSeq(pieces))
  BY SubSeqFull DEF Before
<1>4. ASSUME NEW i \in 1 .. Len(pieces)
      PROVE  /\ pieces[i] \in Seq(Byte) /\ Len(pieces[i]) \in Nat
             /\ Before(pieces, i - 1) \in Nat
             /\ Before(pieces, i) = Before(pieces, i - 1) + Len(pieces[i])
             /\ Before(pieces, i) <= Len(FlattenSeq(pieces))
  <2>1. pieces[i] \in Seq(Byte)
    BY ElementOfSeq
  <2>2. Len(pieces[i]) \in Nat
    BY <2>1, LenProperties
  <2>. QED  BY <2>1, <2>2, FlattenAt DEF Before
<1>5. ASSUME NEW i \in 0 .. Len(pieces)
      PROVE  Before(pieces, i) \in Nat
  <2>1. CASE i = 0  BY <1>2, <2>1
  <2>2. CASE i # 0
    <3>1. i \in 1 .. Len(pieces)
      BY <1>1, <2>2
    <3>2. /\ Before(pieces, i - 1) \in Nat /\ Len(pieces[i]) \in Nat
          /\ Before(pieces, i) = Before(pieces, i - 1) + Len(pieces[i])
      BY <1>4, <3>1
    <3>. QED  BY <3>2
  <2>. QED  BY <2>1, <2>2
<1>. QED  BY <1>1, <1>2, <1>3, <1>4, <1>5

\* Pieces that are not empty: every one takes the end further.
LEMMA BeforeGrows ==
  ASSUME NEW pieces \in Seq(Seq(Byte)), \A i \in 1 .. Len(pieces) : Len(pieces[i]) > 0
  PROVE  /\ \A i \in 0 .. Len(pieces) : i <= Before(pieces, i)
         /\ \A i \in 0 .. Len(pieces) :
              i # Len(pieces) => Before(pieces, i) < Len(FlattenSeq(pieces))
<1>. DEFINE S == {i \in Nat : i <= Len(pieces) => i <= Before(pieces, i)}
<1>0. Len(pieces) \in Nat
  BY BeforeIs
<1>1. 0 \in S
  BY BeforeIs
<1>2. ASSUME NEW i \in Nat, i \in S
      PROVE  i + 1 \in S
  <2>1. CASE i + 1 <= Len(pieces)
    <3>1. i + 1 \in 1 .. Len(pieces) /\ (i + 1) - 1 = i /\ i \in 0 .. Len(pieces)
      BY <1>0, <2>1
    <3>2. /\ Before(pieces, i + 1) = Before(pieces, i) + Len(pieces[i + 1])
          /\ Before(pieces, i) \in Nat /\ Len(pieces[i + 1]) \in Nat
      BY <3>1, BeforeIs
    <3>3. i <= Before(pieces, i) /\ Len(pieces[i + 1]) > 0
      BY <1>0, <1>2, <2>1, <3>1
    <3>4. i + 1 <= Before(pieces, i + 1)
      BY <3>2, <3>3
    <3>. QED  BY <3>4
  <2>2. CASE ~(i + 1 <= Len(pieces))
    BY <2>2
  <2>. QED  BY <2>1, <2>2
<1>3. \A i \in Nat : i \in S
  <2>. HIDE DEF S
  <2>. QED  BY <1>1, <1>2, SetInduction
<1>4. \A i \in 0 .. Len(pieces) : i <= Before(pieces, i)
  BY <1>0, <1>3
<1>5. ASSUME NEW i \in 0 .. Len(pieces), i # Len(pieces)
      PROVE  Before(pieces, i) < Len(FlattenSeq(pieces))
  <2>1. i + 1 \in 1 .. Len(pieces) /\ (i + 1) - 1 = i
    BY <1>0, <1>5
  <2>2. /\ Before(pieces, i + 1) = Before(pieces, i) + Len(pieces[i + 1])
        /\ Before(pieces, i + 1) <= Len(FlattenSeq(pieces))
        /\ Before(pieces, i) \in Nat /\ Len(pieces[i + 1]) \in Nat
    BY <2>1, BeforeIs
  <2>3. Len(pieces[i + 1]) > 0 /\ Len(FlattenSeq(pieces)) \in Nat
    BY <2>1, BeforeIs, LenProperties
  <2>. QED  BY <2>2, <2>3
<1>. QED  BY <1>4, <1>5

\* Each piece is where those before it end.
LEMMA HasPieces ==
  ASSUME NEW s \in Seq(Byte), NEW p, NEW pieces \in Seq(Seq(Byte)),
         Has(s, p, FlattenSeq(pieces))
  PROVE  \A i \in 1 .. Len(pieces) : Has(s, p + Before(pieces, i - 1), pieces[i])
<1>. SUFFICES ASSUME NEW i \in 1 .. Len(pieces)
              PROVE  Has(s, p + Before(pieces, i - 1), pieces[i])
  OBVIOUS
<1>. DEFINE a == Before(pieces, i - 1)
            l == Len(pieces[i])
            all == FlattenSeq(pieces)
<1>1. /\ a \in Nat /\ l \in Nat /\ a + l <= Len(all)
      /\ \A j \in 1 .. l : all[a + j] = pieces[i][j]
  <2>1. l \in Nat
    BY BeforeIs
  <2>. QED  BY <2>1, FlattenAt DEF Before
<1>2. /\ p \in Nat \ {0} /\ Len(all) \in Nat /\ p + Len(all) <= Len(s) + 1
      /\ \A j \in 1 .. Len(all) : s[p + j - 1] = all[j]
  <2>1. all \in Seq(Byte)
    BY BeforeIs
  <2>2. Len(all) \in Nat
    BY <2>1, LenProperties
  <2>. QED  BY <2>2 DEF Has
<1>3. Len(s) \in Nat
  BY LenProperties
<1>. HIDE DEF a, l, all
<1>4. p + a \in Nat \ {0} /\ (p + a) + l <= Len(s) + 1
  BY <1>1, <1>2, <1>3
<1>5. ASSUME NEW j \in 1 .. l
      PROVE  s[(p + a) + j - 1] = pieces[i][j]
  <2>1. a + j \in 1 .. Len(all) /\ p + (a + j) - 1 = (p + a) + j - 1
    BY <1>1, <1>2
  <2>2. s[p + (a + j) - 1] = all[a + j]
    BY <1>2, <2>1
  <2>. QED  BY <1>1, <2>1, <2>2
<1>6. Has(s, p + a, pieces[i])
  BY <1>4, <1>5 DEF Has, l
<1>. QED  BY <1>6 DEF a

\* A sum is what adds up step by step.
LEMMA SumOfIs ==
  ASSUME NEW lengths, Len(lengths) \in Nat, NEW g, g[0] = 0,
         \A i \in 1 .. Len(lengths) : g[i] = g[i - 1] + lengths[i]
  PROVE  SumOf(lengths) = g[Len(lengths)]
<1>. DEFINE n == Len(lengths)
            Step(f) == [i \in 0 .. n |-> IF i = 0 THEN 0 ELSE f[i - 1] + lengths[i]]
            e == [i \in 0 .. n |-> g[i]]
            f == CHOOSE h : h = Step(h)
<1>1. SumOf(lengths) = f[n]
  BY DEF SumOf
<1>. HIDE DEF n
<1>2. n \in Nat /\ \A i \in 1 .. n : g[i] = g[i - 1] + lengths[i]
  BY DEF n
<1>3. e = Step(e)
  <2>1. ASSUME NEW i \in 0 .. n
        PROVE  e[i] = Step(e)[i]
    <3>1. CASE i = 0
      BY <1>2, <3>1
    <3>2. CASE i # 0
      <4>1. i \in 1 .. n /\ i - 1 \in 0 .. n
        BY <1>2, <3>2
      <4>. QED  BY <1>2, <3>2, <4>1
    <3>. QED  BY <3>1, <3>2
  <2>. QED  BY <2>1
<1>4. f = Step(f)
  <2>. HIDE DEF e, Step
  <2>. QED  BY <1>3, Zenon
<1>. HIDE DEF f
<1>5. f[0] = 0 /\ \A i \in 1 .. n : f[i] = f[i - 1] + lengths[i]
  <2>1. 0 \in 0 .. n /\ \A i \in 1 .. n : i \in 0 .. n /\ i # 0
    BY <1>2
  <2>2. \A i \in 0 .. n : f[i] = IF i = 0 THEN 0 ELSE f[i - 1] + lengths[i]
    BY <1>4
  <2>. QED  BY <2>1, <2>2
<1>6. ASSUME NEW k \in Nat, k = n, NEW h, h[0] = 0,
             \A i \in 1 .. n : h[i] = h[i - 1] + lengths[i]
      PROVE  \A i \in 0 .. n : h[i] = g[i]
  <2>1. h[0] = g[0]
    BY <1>6
  <2>2. \A i \in 1 .. k : h[i - 1] = g[i - 1] => h[i] = g[i]
    BY <1>2, <1>6
  <2>3. \A i \in 0 .. k : h[i] = g[i]
    BY <2>1, <2>2, SameSteps
  <2>. QED  BY <1>6, <2>3
<1>7. \A i \in 0 .. n : f[i] = g[i]
  BY <1>2, <1>5, <1>6
<1>. QED  BY <1>1, <1>2, <1>7 DEF n

\* The lengths of the pieces add up to that of all of them.
LEMMA SumOfPieces ==
  ASSUME NEW pieces \in Seq(Seq(Byte))
  PROVE  SumOf([i \in 1 .. Len(pieces) |-> Len(pieces[i])]) = Len(FlattenSeq(pieces))
<1>. DEFINE n == Len(pieces)
            lengths == [i \in 1 .. n |-> Len(pieces[i])]
            g == [i \in 0 .. n |-> Before(pieces, i)]
<1>1. n \in Nat /\ Len(lengths) = n
  BY BeforeIs
<1>2. g[0] = 0 /\ g[n] = Len(FlattenSeq(pieces))
  BY <1>1, BeforeIs
<1>3. ASSUME NEW i \in 1 .. n
      PROVE  g[i] = g[i - 1] + lengths[i]
  <2>1. i \in 0 .. n /\ i - 1 \in 0 .. n
    BY <1>1
  <2>2. Before(pieces, i) = Before(pieces, i - 1) + Len(pieces[i])
    BY BeforeIs
  <2>. QED  BY <2>1, <2>2
<1>. HIDE DEF lengths, g
<1>4. SumOf(lengths) = g[Len(lengths)]
  BY <1>1, <1>2, <1>3, SumOfIs
<1>. QED  BY <1>1, <1>2, <1>4 DEF lengths

\* What is read, element by element: each read starts where the one before it
\* has ended.
LEMMA OneMore ==
  ASSUME NEW S, NEW e \in Seq(S), NEW i \in 1 .. Len(e)
  PROVE  SubSeq(e, 1, i) = Append(SubSeq(e, 1, i - 1), e[i])
<1>1. SubSeq(e, 1, i) = SubSeq(e, 1, i - 1) \o <<e[i]>>
  BY SubSeqRecursiveSecond, LenProperties
<1>2. SubSeq(e, 1, i - 1) \in Seq(S) /\ e[i] \in S
  BY SubSeqProperties, ElementOfSeq, LenProperties
<1>. QED  BY <1>1, <1>2, AppendIsConcat

LEMMA ReadStringsAre ==
  ASSUME NEW S, NEW e \in Seq(S), NEW R, NEW k \in 0 .. Len(e),
         \A i \in 1 .. Len(e) : ReadString(R[i - 1]) = [value |-> e[i], reader |-> R[i]]
  PROVE  ReadMany(ReadString, R[0], k) = [value |-> SubSeq(e, 1, k), reader |-> R[k]]
<1>. DEFINE E(i) == [value |-> SubSeq(e, 1, i), reader |-> R[i]]
            More(x, i) == [value  |-> Append(x.value, ReadString(x.reader).value),
                           reader |-> ReadString(x.reader).reader]
            Step(f) == [i \in 0 .. k |-> IF i = 0 THEN [value |-> <<>>, reader |-> R[0]]
                                       ELSE More(f[i - 1], i)]
            g == [i \in 0 .. k |-> E(i)]
            f == CHOOSE h : h = Step(h)
<1>1. k \in Nat /\ E(0) = [value |-> <<>>, reader |-> R[0]]
  BY LenProperties, SubSeqEmpty
<1>2. ASSUME NEW i \in 1 .. k
      PROVE  E(i) = More(E(i - 1), i)
  <2>1. i \in 1 .. Len(e)
    BY LenProperties
  <2>2. ReadString(R[i - 1]) = [value |-> e[i], reader |-> R[i]]
    BY <2>1
  <2>3. SubSeq(e, 1, i) = Append(SubSeq(e, 1, i - 1), e[i])
    BY <2>1, OneMore
  <2>. DEFINE x == E(i - 1)
  <2>4. x.value = SubSeq(e, 1, i - 1) /\ x.reader = R[i - 1]
    OBVIOUS
  <2>5. E(i) = [value |-> SubSeq(e, 1, i), reader |-> R[i]]
    OBVIOUS
  <2>. HIDE DEF x, E
  <2>. DEFINE one == ReadString(x.reader)
  <2>6. one.value = e[i] /\ one.reader = R[i]
    BY <2>2, <2>4
  <2>7. More(x, i) = [value |-> Append(x.value, one.value), reader |-> one.reader]
    OBVIOUS
  <2>. HIDE DEF one, More
  <2>8. More(x, i) = [value |-> SubSeq(e, 1, i), reader |-> R[i]]
    BY <2>3, <2>4, <2>6, <2>7, Zenon
  <2>. QED  BY <2>5, <2>8 DEF x
<1>3. ReadMany(ReadString, R[0], k) = f[k]
  BY DEF ReadMany
<1>. HIDE DEF E, More
<1>4. g = Step(g)
  <2>1. ASSUME NEW i \in 0 .. k
        PROVE  g[i] = Step(g)[i]
    <3>1. CASE i = 0
      BY <1>1, <3>1
    <3>2. CASE i # 0
      <4>1. i \in 1 .. k /\ i - 1 \in 0 .. k
        BY <1>1, <3>2
      <4>. QED  BY <1>2, <3>2, <4>1
    <3>. QED  BY <3>1, <3>2
  <2>. QED  BY <2>1
<1>5. f = Step(f)
  <2>. HIDE DEF g, Step
  <2>. QED  BY <1>4, Zenon
<1>. HIDE DEF f
<1>6. f[0] = E(0) /\ \A i \in 1 .. k : f[i] = More(f[i - 1], i)
  <2>1. 0 \in 0 .. k /\ \A i \in 1 .. k : i \in 0 .. k /\ i # 0
    BY <1>1
  <2>2. \A i \in 0 .. k : f[i] = IF i = 0 THEN [value |-> <<>>, reader |-> R[0]]
                                  ELSE More(f[i - 1], i)
    BY <1>5
  <2>. QED  BY <1>1, <2>1, <2>2
<1>7. ASSUME NEW h, h[0] = E(0), \A i \in 1 .. k : h[i] = More(h[i - 1], i),
             NEW q, q[0] = E(0), \A i \in 1 .. k : q[i] = More(q[i - 1], i)
      PROVE  \A i \in 0 .. k : h[i] = q[i]
  <2>1. h[0] = q[0] /\ \A i \in 1 .. k : h[i - 1] = q[i - 1] => h[i] = q[i]
    BY <1>7
  <2>. QED  BY ZenonT(30), <1>1, <2>1, SameSteps
<1>8. g[0] = E(0) /\ g[k] = E(k) /\ \A i \in 1 .. k : g[i] = More(g[i - 1], i)
  <2>1. ASSUME NEW i \in 1 .. k
        PROVE  g[i] = More(g[i - 1], i)
    <3>1. i \in 0 .. k /\ i - 1 \in 0 .. k
      BY <1>1
    <3>. QED  BY <1>2, <3>1
  <2>. QED  BY SMTT(30), <1>1, <2>1
<1>9. f[k] = E(k)
  <2>1. \A i \in 0 .. k : f[i] = g[i]
    <3>. HIDE DEF g
    <3>. QED  BY <1>6, <1>7, <1>8
  <2>. QED  BY <1>1, <1>8, <2>1
<1>. QED  BY <1>3, <1>9 DEF E

LEMMA ReadTopicsAre ==
  ASSUME NEW S, NEW e \in Seq(S), NEW R, NEW k \in 0 .. Len(e),
         \A i \in 1 .. Len(e) : ReadTopic(R[i - 1]) = [value |-> e[i], reader |-> R[i]]
  PROVE  ReadMany(ReadTopic, R[0], k) = [value |-> SubSeq(e, 1, k), reader |-> R[k]]
<1>. DEFINE E(i) == [value |-> SubSeq(e, 1, i), reader |-> R[i]]
            More(x, i) == [value  |-> Append(x.value, ReadTopic(x.reader).value),
                           reader |-> ReadTopic(x.reader).reader]
            Step(f) == [i \in 0 .. k |-> IF i = 0 THEN [value |-> <<>>, reader |-> R[0]]
                                       ELSE More(f[i - 1], i)]
            g == [i \in 0 .. k |-> E(i)]
            f == CHOOSE h : h = Step(h)
<1>1. k \in Nat /\ E(0) = [value |-> <<>>, reader |-> R[0]]
  BY LenProperties, SubSeqEmpty
<1>2. ASSUME NEW i \in 1 .. k
      PROVE  E(i) = More(E(i - 1), i)
  <2>1. i \in 1 .. Len(e)
    BY LenProperties
  <2>2. ReadTopic(R[i - 1]) = [value |-> e[i], reader |-> R[i]]
    BY <2>1
  <2>3. SubSeq(e, 1, i) = Append(SubSeq(e, 1, i - 1), e[i])
    BY <2>1, OneMore
  <2>. DEFINE x == E(i - 1)
  <2>4. x.value = SubSeq(e, 1, i - 1) /\ x.reader = R[i - 1]
    OBVIOUS
  <2>5. E(i) = [value |-> SubSeq(e, 1, i), reader |-> R[i]]
    OBVIOUS
  <2>. HIDE DEF x, E
  <2>. DEFINE one == ReadTopic(x.reader)
  <2>6. one.value = e[i] /\ one.reader = R[i]
    BY <2>2, <2>4
  <2>7. More(x, i) = [value |-> Append(x.value, one.value), reader |-> one.reader]
    OBVIOUS
  <2>. HIDE DEF one, More
  <2>8. More(x, i) = [value |-> SubSeq(e, 1, i), reader |-> R[i]]
    BY <2>3, <2>4, <2>6, <2>7, Zenon
  <2>. QED  BY <2>5, <2>8 DEF x
<1>3. ReadMany(ReadTopic, R[0], k) = f[k]
  BY DEF ReadMany
<1>. HIDE DEF E, More
<1>4. g = Step(g)
  <2>1. ASSUME NEW i \in 0 .. k
        PROVE  g[i] = Step(g)[i]
    <3>1. CASE i = 0
      BY <1>1, <3>1
    <3>2. CASE i # 0
      <4>1. i \in 1 .. k /\ i - 1 \in 0 .. k
        BY <1>1, <3>2
      <4>. QED  BY <1>2, <3>2, <4>1
    <3>. QED  BY <3>1, <3>2
  <2>. QED  BY <2>1
<1>5. f = Step(f)
  <2>. HIDE DEF g, Step
  <2>. QED  BY <1>4, Zenon
<1>. HIDE DEF f
<1>6. f[0] = E(0) /\ \A i \in 1 .. k : f[i] = More(f[i - 1], i)
  <2>1. 0 \in 0 .. k /\ \A i \in 1 .. k : i \in 0 .. k /\ i # 0
    BY <1>1
  <2>2. \A i \in 0 .. k : f[i] = IF i = 0 THEN [value |-> <<>>, reader |-> R[0]]
                                  ELSE More(f[i - 1], i)
    BY <1>5
  <2>. QED  BY <1>1, <2>1, <2>2
<1>7. ASSUME NEW h, h[0] = E(0), \A i \in 1 .. k : h[i] = More(h[i - 1], i),
             NEW q, q[0] = E(0), \A i \in 1 .. k : q[i] = More(q[i - 1], i)
      PROVE  \A i \in 0 .. k : h[i] = q[i]
  <2>1. h[0] = q[0] /\ \A i \in 1 .. k : h[i - 1] = q[i - 1] => h[i] = q[i]
    BY <1>7
  <2>. QED  BY ZenonT(30), <1>1, <2>1, SameSteps
<1>8. g[0] = E(0) /\ g[k] = E(k) /\ \A i \in 1 .. k : g[i] = More(g[i - 1], i)
  <2>1. ASSUME NEW i \in 1 .. k
        PROVE  g[i] = More(g[i - 1], i)
    <3>1. i \in 0 .. k /\ i - 1 \in 0 .. k
      BY <1>1
    <3>. QED  BY <1>2, <3>1
  <2>. QED  BY SMTT(30), <1>1, <2>1
<1>9. f[k] = E(k)
  <2>1. \A i \in 0 .. k : f[i] = g[i]
    <3>. HIDE DEF g
    <3>. QED  BY <1>6, <1>7, <1>8
  <2>. QED  BY <1>1, <1>8, <2>1
<1>. QED  BY <1>3, <1>9 DEF E


LEMMA ReadFlagsAre ==
  ASSUME NEW S, NEW e \in Seq(S), NEW R, NEW k \in 0 .. Len(e), k = 7, Len(e) = 7,
         \A i \in 1 .. Len(e) : ReadBits(R[i - 1], FlagWidths[i]) = [value |-> e[i], reader |-> R[i]]
  PROVE  ReadFlags(R[0]) = [value |-> SubSeq(e, 1, k), reader |-> R[k]]
<1>. DEFINE E(i) == [value |-> SubSeq(e, 1, i), reader |-> R[i]]
            More(x, i) == [value  |-> Append(x.value, ReadBits(x.reader, FlagWidths[i]).value),
                           reader |-> ReadBits(x.reader, FlagWidths[i]).reader]
            Step(f) == [i \in 0 .. 7 |-> IF i = 0 THEN [value |-> <<>>, reader |-> R[0]]
                                       ELSE More(f[i - 1], i)]
            g == [i \in 0 .. 7 |-> E(i)]
            f == CHOOSE h : h = Step(h)
<1>1. k \in Nat /\ E(0) = [value |-> <<>>, reader |-> R[0]]
  BY LenProperties, SubSeqEmpty
<1>2. ASSUME NEW i \in 1 .. k
      PROVE  E(i) = More(E(i - 1), i)
  <2>1. i \in 1 .. Len(e)
    BY LenProperties
  <2>2. ReadBits(R[i - 1], FlagWidths[i]) = [value |-> e[i], reader |-> R[i]]
    BY <2>1
  <2>3. SubSeq(e, 1, i) = Append(SubSeq(e, 1, i - 1), e[i])
    BY <2>1, OneMore
  <2>. DEFINE x == E(i - 1)
  <2>4. x.value = SubSeq(e, 1, i - 1) /\ x.reader = R[i - 1]
    OBVIOUS
  <2>5. E(i) = [value |-> SubSeq(e, 1, i), reader |-> R[i]]
    OBVIOUS
  <2>. HIDE DEF x, E
  <2>. DEFINE one == ReadBits(x.reader, FlagWidths[i])
  <2>6. one.value = e[i] /\ one.reader = R[i]
    BY <2>2, <2>4
  <2>7. More(x, i) = [value |-> Append(x.value, one.value), reader |-> one.reader]
    OBVIOUS
  <2>. HIDE DEF one, More
  <2>8. More(x, i) = [value |-> SubSeq(e, 1, i), reader |-> R[i]]
    BY <2>3, <2>4, <2>6, <2>7, Zenon
  <2>. QED  BY <2>5, <2>8 DEF x
<1>3. ReadFlags(R[0]) = f[7]
  BY DEF ReadFlags
<1>. HIDE DEF E, More
<1>4. g = Step(g)
  <2>1. ASSUME NEW i \in 0 .. 7
        PROVE  g[i] = Step(g)[i]
    <3>1. CASE i = 0
      BY <1>1, <3>1
    <3>2. CASE i # 0
      <4>1. i \in 1 .. k /\ i - 1 \in 0 .. 7
        BY <1>1, <3>2
      <4>. QED  BY <1>2, <3>2, <4>1
    <3>. QED  BY <3>1, <3>2
  <2>. QED  BY <2>1
<1>5. f = Step(f)
  <2>. HIDE DEF g, Step
  <2>. QED  BY <1>4, Zenon
<1>. HIDE DEF f
<1>6. f[0] = E(0) /\ \A i \in 1 .. k : f[i] = More(f[i - 1], i)
  <2>1. 0 \in 0 .. 7 /\ \A i \in 1 .. k : i \in 0 .. 7 /\ i # 0
    BY <1>1
  <2>2. \A i \in 0 .. 7 : f[i] = IF i = 0 THEN [value |-> <<>>, reader |-> R[0]]
                                  ELSE More(f[i - 1], i)
    BY <1>5
  <2>. QED  BY <1>1, <2>1, <2>2
<1>7. ASSUME NEW h, h[0] = E(0), \A i \in 1 .. k : h[i] = More(h[i - 1], i),
             NEW q, q[0] = E(0), \A i \in 1 .. k : q[i] = More(q[i - 1], i)
      PROVE  \A i \in 0 .. k : h[i] = q[i]
  <2>1. h[0] = q[0] /\ \A i \in 1 .. k : h[i - 1] = q[i - 1] => h[i] = q[i]
    BY <1>7
  <2>. QED  BY <1>1, <2>1, SameSteps
<1>8. g[0] = E(0) /\ g[k] = E(k) /\ \A i \in 1 .. k : g[i] = More(g[i - 1], i)
  <2>1. ASSUME NEW i \in 1 .. k
        PROVE  g[i] = More(g[i - 1], i)
    <3>1. i \in 0 .. 7 /\ i - 1 \in 0 .. 7
      BY <1>1
    <3>. QED  BY <1>2, <3>1
  <2>. QED  BY <1>1, <2>1
<1>9. f[k] = E(k)
  <2>1. \A i \in 0 .. k : f[i] = g[i]
    <3>. HIDE DEF g
    <3>. QED  BY <1>6, <1>7, <1>8
  <2>. QED  BY <1>1, <1>8, <2>1
<1>. QED  BY <1>3, <1>9 DEF E

\* grainRawArray ends at the end of the bytes, and not before.
LEMMA RawStringsAre ==
  ASSUME NEW S, NEW e \in Seq(S), NEW R,
         \A i \in 1 .. Len(e) : ReadString(R[i - 1]) = [value |-> e[i], reader |-> R[i]],
         BytesLeft(R[0]) \in Nat, Len(e) <= BytesLeft(R[0]), BytesLeft(R[Len(e)]) = 0,
         \A i \in 0 .. Len(e) : i # Len(e) => BytesLeft(R[i]) > 0
  PROVE  ReadRawArray(ReadString, R[0]) = e
<1>. DEFINE many(n) == ReadMany(ReadString, R[0], n)
            left(n) == BytesLeft(many(n).reader)
            P(n) == left(n) = 0 /\ \A m \in 0 .. (n - 1) : left(m) > 0
            end == CHOOSE n \in 0 .. BytesLeft(R[0]) : P(n)
            k == Len(e)
<1>1. k \in 0 .. BytesLeft(R[0]) /\ k \in Nat
  BY LenProperties
<1>2. ASSUME NEW n \in 0 .. k
      PROVE  many(n) = [value |-> SubSeq(e, 1, n), reader |-> R[n]]
  BY ReadStringsAre
<1>3. ASSUME NEW n \in 0 .. k
      PROVE  many(n).value = SubSeq(e, 1, n) /\ left(n) = BytesLeft(R[n])
  <2>. HIDE DEF many
  <2>. QED  BY <1>2
<1>4. ReadRawArray(ReadString, R[0]) = many(end).value
  BY DEF ReadRawArray
<1>. HIDE DEF many, left, k
<1>5. P(k)
  <2>1. k \in 0 .. k /\ \A m \in 0 .. (k - 1) : m \in 0 .. k /\ m # k
    BY <1>1
  <2>2. left(k) = 0 /\ \A m \in 0 .. (k - 1) : left(m) > 0
    BY <1>3, <2>1 DEF k
  <2>. QED  BY <2>2
<1>6. end \in 0 .. BytesLeft(R[0]) /\ P(end)
  <2>. HIDE DEF P
  <2>. QED  BY <1>1, <1>5, Zenon
<1>. HIDE DEF end
<1>7. end = k
  <2>1. CASE end < k
    <3>1. end \in 0 .. (k - 1)
      BY <1>1, <1>6, <2>1
    <3>2. left(end) > 0 /\ left(end) = 0
      BY <1>5, <1>6, <3>1
    <3>. QED  BY <3>2
  <2>2. CASE end > k
    <3>1. k \in 0 .. (end - 1)
      BY <1>1, <1>6, <2>2
    <3>2. left(k) > 0 /\ left(k) = 0
      BY <1>5, <1>6, <3>1
    <3>. QED  BY <3>2
  <2>. QED  BY <1>1, <1>6, <2>1, <2>2
<1>8. many(k).value = e
  <2>1. k \in 0 .. k
    BY <1>1
  <2>. QED  BY <1>3, <2>1, SubSeqFull DEF k
<1>. QED  BY <1>4, <1>7, <1>8

LEMMA RawTopicsAre ==
  ASSUME NEW S, NEW e \in Seq(S), NEW R,
         \A i \in 1 .. Len(e) : ReadTopic(R[i - 1]) = [value |-> e[i], reader |-> R[i]],
         BytesLeft(R[0]) \in Nat, Len(e) <= BytesLeft(R[0]), BytesLeft(R[Len(e)]) = 0,
         \A i \in 0 .. Len(e) : i # Len(e) => BytesLeft(R[i]) > 0
  PROVE  ReadRawArray(ReadTopic, R[0]) = e
<1>. DEFINE many(n) == ReadMany(ReadTopic, R[0], n)
            left(n) == BytesLeft(many(n).reader)
            P(n) == left(n) = 0 /\ \A m \in 0 .. (n - 1) : left(m) > 0
            end == CHOOSE n \in 0 .. BytesLeft(R[0]) : P(n)
            k == Len(e)
<1>1. k \in 0 .. BytesLeft(R[0]) /\ k \in Nat
  BY LenProperties
<1>2. ASSUME NEW n \in 0 .. k
      PROVE  many(n) = [value |-> SubSeq(e, 1, n), reader |-> R[n]]
  BY ReadTopicsAre
<1>3. ASSUME NEW n \in 0 .. k
      PROVE  many(n).value = SubSeq(e, 1, n) /\ left(n) = BytesLeft(R[n])
  <2>. HIDE DEF many
  <2>. QED  BY <1>2
<1>4. ReadRawArray(ReadTopic, R[0]) = many(end).value
  BY DEF ReadRawArray
<1>. HIDE DEF many, left, k
<1>5. P(k)
  <2>1. k \in 0 .. k /\ \A m \in 0 .. (k - 1) : m \in 0 .. k /\ m # k
    BY <1>1
  <2>2. left(k) = 0 /\ \A m \in 0 .. (k - 1) : left(m) > 0
    BY <1>3, <2>1 DEF k
  <2>. QED  BY <2>2
<1>6. end \in 0 .. BytesLeft(R[0]) /\ P(end)
  <2>. HIDE DEF P
  <2>. QED  BY <1>1, <1>5, Zenon
<1>. HIDE DEF end
<1>7. end = k
  <2>1. CASE end < k
    <3>1. end \in 0 .. (k - 1)
      BY <1>1, <1>6, <2>1
    <3>2. left(end) > 0 /\ left(end) = 0
      BY <1>5, <1>6, <3>1
    <3>. QED  BY <3>2
  <2>2. CASE end > k
    <3>1. k \in 0 .. (end - 1)
      BY <1>1, <1>6, <2>2
    <3>2. left(k) > 0 /\ left(k) = 0
      BY <1>5, <1>6, <3>1
    <3>. QED  BY <3>2
  <2>. QED  BY <1>1, <1>6, <2>1, <2>2
<1>8. many(k).value = e
  <2>1. k \in 0 .. k
    BY <1>1
  <2>. QED  BY <1>3, <2>1, SubSeqFull DEF k
<1>. QED  BY <1>4, <1>7, <1>8

\* Readers where the pieces start, and what is left for them when the bytes end
\* with the last piece.
Readers(s, p, byte, pieces) ==
  [i \in 0 .. Len(pieces) |-> ReaderAt(s, p + Before(pieces, i), byte, 8)]

LEMMA ReadersAt ==
  ASSUME NEW s \in Seq(Byte), NEW p, NEW byte, NEW pieces \in Seq(Seq(Byte)),
         Has(s, p, FlattenSeq(pieces))
  PROVE  LET R == Readers(s, p, byte, pieces)
         IN  /\ R[0] = ReaderAt(s, p, byte, 8)
             /\ \A i \in 1 .. Len(pieces) :
                  /\ R[i - 1] = ReaderAt(s, p + Before(pieces, i - 1), byte, 8)
                  /\ R[i] = ReaderAt(s, (p + Before(pieces, i - 1)) + Len(pieces[i]), byte, 8)
<1>. DEFINE R == Readers(s, p, byte, pieces)
            n == Len(pieces)
<1>1. p \in Nat /\ n \in Nat
  BY BeforeIs DEF Has
<1>2. \A i \in 0 .. n : R[i] = ReaderAt(s, p + Before(pieces, i), byte, 8)
  BY DEF Readers
<1>. HIDE DEF R, n
<1>3. R[0] = ReaderAt(s, p, byte, 8)
  <2>1. 0 \in 0 .. n /\ p + Before(pieces, 0) = p
    BY <1>1, BeforeIs
  <2>. QED  BY <1>2, <2>1
<1>4. ASSUME NEW i \in 1 .. n
      PROVE  /\ R[i - 1] = ReaderAt(s, p + Before(pieces, i - 1), byte, 8)
             /\ R[i] = ReaderAt(s, (p + Before(pieces, i - 1)) + Len(pieces[i]), byte, 8)
  <2>1. i \in 0 .. n /\ i - 1 \in 0 .. n
    BY <1>1
  <2>2. p + Before(pieces, i) = (p + Before(pieces, i - 1)) + Len(pieces[i])
    <3>1. /\ Before(pieces, i) = Before(pieces, i - 1) + Len(pieces[i])
          /\ Before(pieces, i - 1) \in Nat /\ Len(pieces[i]) \in Nat
      BY <2>1, BeforeIs DEF n
    <3>. QED  BY <1>1, <3>1
  <2>. QED  BY <1>2, <2>1, <2>2
<1>. QED  BY <1>3, <1>4 DEF R, n

LEMMA ReadersLeft ==
  ASSUME NEW s \in Seq(Byte), NEW p, NEW byte, NEW pieces \in Seq(Seq(Byte)),
         Has(s, p, FlattenSeq(pieces)), p + Len(FlattenSeq(pieces)) = Len(s) + 1,
         \A i \in 1 .. Len(pieces) : Len(pieces[i]) > 0
  PROVE  LET R == Readers(s, p, byte, pieces)
             n == Len(pieces)
         IN  /\ BytesLeft(R[0]) \in Nat /\ n <= BytesLeft(R[0]) /\ BytesLeft(R[n]) = 0
             /\ \A i \in 0 .. n : i # n => BytesLeft(R[i]) > 0
<1>. DEFINE R == Readers(s, p, byte, pieces)
            n == Len(pieces)
            all == Len(FlattenSeq(pieces))
            l == Len(s)
            b(i) == Before(pieces, i)
<1>1. p \in Nat /\ n \in Nat /\ all \in Nat /\ l \in Nat
  BY BeforeIs, LenProperties DEF Has
<1>2. ASSUME NEW i \in 0 .. n
      PROVE  BytesLeft(R[i]) = all - b(i)
  <2>1. R[i] = ReaderAt(s, p + b(i), byte, 8)
    BY DEF Readers
  <2>. HIDE DEF R
  <2>2. BytesLeft(R[i]) = l + 1 - (p + b(i))
    BY <2>1 DEF BytesLeft, ReaderAt
  <2>3. b(i) \in Nat /\ p + all = l + 1
    BY BeforeIs
  <2>. DEFINE x == b(i)
  <2>4. BytesLeft(R[i]) = l + 1 - (p + x) /\ x \in Nat /\ p + all = l + 1
    BY <2>2, <2>3
  <2>. HIDE DEF all, l, x
  <2>5. l + 1 - (p + x) = all - x
    BY <1>1, <2>4
  <2>6. BytesLeft(R[i]) = all - x
    BY <2>4, <2>5
  <2>. QED  BY <2>6 DEF x
<1>3. /\ b(0) = 0 /\ b(n) = all
      /\ \A i \in 0 .. n : b(i) \in Nat /\ i <= b(i)
      /\ \A i \in 0 .. n : i # n => b(i) < all
  BY BeforeIs, BeforeGrows
<1>. HIDE DEF R, n, all, b
<1>4. BytesLeft(R[0]) = all /\ BytesLeft(R[n]) = 0 /\ n <= all
  <2>1. 0 \in 0 .. n /\ n \in 0 .. n
    BY <1>1
  <2>2. BytesLeft(R[0]) = all - b(0) /\ BytesLeft(R[n]) = all - b(n) /\ n <= b(n)
    BY <1>2, <1>3, <2>1
  <2>. QED  BY <1>1, <1>3, <2>2
<1>5. \A i \in 0 .. n : i # n => BytesLeft(R[i]) > 0
  <2>. SUFFICES ASSUME NEW i \in 0 .. n, i # n PROVE BytesLeft(R[i]) > 0
    OBVIOUS
  <2>1. BytesLeft(R[i]) = all - b(i) /\ b(i) < all /\ b(i) \in Nat
    BY <1>2, <1>3
  <2>. QED  BY <1>1, <2>1
<1>. QED  BY <1>1, <1>4, <1>5 DEF R, n

\* Strings, one behind the other.
StringPieces(strings) == [i \in 1 .. Len(strings) |-> StringBytes(strings[i])]

LEMMA StringPiecesType ==
  ASSUME NEW strings \in Seq(Strings)
  PROVE  /\ StringPieces(strings) \in Seq(Seq(Byte))
         /\ Len(StringPieces(strings)) = Len(strings) /\ Len(strings) \in Nat
         /\ \A i \in 1 .. Len(strings) :
              /\ StringPieces(strings)[i] = StringBytes(strings[i]) /\ strings[i] \in Strings
              /\ Len(StringPieces(strings)[i]) = Len(strings[i]) + 2
              /\ Len(StringPieces(strings)[i]) > 0
<1>. DEFINE t == StringPieces(strings)
            n == Len(strings)
<1>1. n \in Nat /\ t = [i \in 1 .. n |-> StringBytes(strings[i])]
  BY LenProperties DEF StringPieces
<1>2. ASSUME NEW i \in 1 .. n
      PROVE  /\ strings[i] \in Strings /\ StringBytes(strings[i]) \in Seq(Byte)
             /\ Len(StringBytes(strings[i])) = Len(strings[i]) + 2
             /\ Len(StringBytes(strings[i])) > 0
  <2>1. strings[i] \in Strings
    BY ElementOfSeq
  <2>2. /\ StringBytes(strings[i]) \in Seq(Byte) /\ strings[i] \in Seq(Byte)
        /\ Len(StringBytes(strings[i])) = Len(strings[i]) + 2
    BY <2>1, StringBytesIs
  <2>3. Len(strings[i]) \in Nat
    BY <2>2, LenProperties
  <2>. QED  BY <2>1, <2>2, <2>3
<1>. HIDE DEF t
<1>3. t \in Seq(Seq(Byte)) /\ Len(t) = n
  <2>. HIDE DEF n
  <2>. QED  BY <1>1, <1>2
<1>. QED  BY <1>1, <1>2, <1>3 DEF t

LEMMA StringsHave ==
  ASSUME NEW s \in Seq(Byte), NEW p, NEW byte, NEW strings \in Seq(Strings),
         Has(s, p, FlattenSeq(StringPieces(strings)))
  PROVE  LET R == Readers(s, p, byte, StringPieces(strings))
         IN  \A i \in 1 .. Len(strings) :
               ReadString(R[i - 1]) = [value |-> strings[i], reader |-> R[i]]
<1>. DEFINE t == StringPieces(strings)
            R == Readers(s, p, byte, t)
<1>. SUFFICES ASSUME NEW i \in 1 .. Len(strings)
              PROVE  ReadString(R[i - 1]) = [value |-> strings[i], reader |-> R[i]]
  OBVIOUS
<1>1. /\ t \in Seq(Seq(Byte)) /\ i \in 1 .. Len(t)
      /\ t[i] = StringBytes(strings[i]) /\ strings[i] \in Strings
  BY StringPiecesType
<1>. HIDE DEF t
<1>. DEFINE q == p + Before(t, i - 1)
<1>2. Has(s, q, StringBytes(strings[i]))
  BY <1>1, HasPieces DEF t
<1>3. R[i - 1] = ReaderAt(s, q, byte, 8) /\ R[i] = ReaderAt(s, q + Len(t[i]), byte, 8)
  BY <1>1, ReadersAt DEF t
<1>. HIDE DEF R, q
<1>4. ReadString(ReaderAt(s, q, byte, 8))
        = [value |-> strings[i], reader |-> ReaderAt(s, q + Len(StringBytes(strings[i])), byte, 8)]
  <2>. DEFINE chars == strings[i]
  <2>1. chars \in Strings /\ Has(s, q, StringBytes(chars))
    BY <1>1, <1>2
  <2>. HIDE DEF chars
  <2>2. ReadString(ReaderAt(s, q, byte, 8))
          = [value |-> chars, reader |-> ReaderAt(s, q + Len(StringBytes(chars)), byte, 8)]
    BY <2>1, ReadStringHas
  <2>. QED  BY <2>2 DEF chars
<1>. QED  BY <1>1, <1>3, <1>4

\* Topics with their quality of service, one behind the other.
Topic == [topic : Strings, qos : 0 .. 2]

TopicBytes(t) == WriteTopic(EmptyWriter, t).bytes

TopicPieces(topics) == [i \in 1 .. Len(topics) |-> TopicBytes(topics[i])]

LEMMA EmptyWriterType == EmptyWriter \in Writer /\ EmptyWriter.bytes = <<>>
<1>1. <<>> \in Seq(Byte) /\ 0 \in Byte /\ 0 \in 0 .. BitsInByte
  BY EmptySeq DEF Byte, BitsInByte
<1>. QED  BY <1>1 DEF EmptyWriter, Writer

LEMMA TopicBytesIs ==
  ASSUME NEW t \in Topic
  PROVE  /\ TopicBytes(t) = StringBytes(t.topic) \o <<t.qos>>
         /\ TopicBytes(t) \in Seq(Byte) /\ Len(TopicBytes(t)) = Len(t.topic) + 3
         /\ t.topic \in Strings /\ t.qos \in Byte /\ Len(t.topic) \in Nat
         /\ StringBytes(t.topic) \in Seq(Byte) /\ <<t.qos>> \in Seq(Byte)
         /\ Len(<<t.qos>>) = 1
<1>. DEFINE a == StringBytes(t.topic)
            q == t.qos
            b == <<q>>
            w == WriteString(EmptyWriter, t.topic)
<1>1. t.topic \in Strings /\ q \in Byte
  BY DEF Topic, Byte
<1>2. a \in Seq(Byte) /\ Len(a) = Len(t.topic) + 2 /\ Len(t.topic) \in Nat
  <2>1. a \in Seq(Byte) /\ Len(a) = Len(t.topic) + 2 /\ t.topic \in Seq(Byte)
    BY <1>1, StringBytesIs
  <2>. QED  BY <2>1, LenProperties
<1>3. b \in Seq(Byte) /\ Len(b) = 1
  BY <1>1
<1>. HIDE DEF a
<1>4. w \in Writer /\ w.bytes = a
  <2>1. w \in Writer /\ w.bytes = <<>> \o a
    BY <1>1, EmptyWriterType, WriteStringIs DEF a
  <2>. QED  BY <1>2, <2>1, ConcatEmptySeq
<1>. HIDE DEF w, q
<1>5. WriteByte(w, q).bytes = a \o b
  BY <1>1, <1>4, WriteByteIs
<1>6. TopicBytes(t) = a \o b
  BY <1>5 DEF TopicBytes, WriteTopic, w, q
<1>. HIDE DEF b
<1>7. a \o b \in Seq(Byte) /\ Len(a \o b) = Len(a) + Len(b)
  BY <1>2, <1>3, ConcatProperties
<1>8. Len(TopicBytes(t)) = Len(t.topic) + 3
  BY <1>2, <1>3, <1>6, <1>7
<1>. QED  BY <1>1, <1>2, <1>3, <1>6, <1>7, <1>8 DEF a, b, q

LEMMA ReadTopicHas ==
  ASSUME NEW s \in Seq(Byte), NEW p, NEW byte, NEW t \in Topic, Has(s, p, TopicBytes(t))
  PROVE  ReadTopic(ReaderAt(s, p, byte, 8))
           = [value |-> t, reader |-> ReaderAt(s, p + Len(TopicBytes(t)), byte, 8)]
<1>. DEFINE a == StringBytes(t.topic)
            q == t.qos
            b == <<q>>
            k == p + Len(a)
            chars == t.topic
<1>1. /\ TopicBytes(t) = a \o b /\ a \in Seq(Byte) /\ b \in Seq(Byte) /\ Len(b) = 1
      /\ chars \in Strings /\ q \in Byte /\ Len(TopicBytes(t)) = Len(chars) + 3
      /\ Len(chars) \in Nat /\ Len(a) = Len(chars) + 2
  BY TopicBytesIs, StringBytesIs
<1>2. Has(s, p, a) /\ Has(s, k, b)
  <2>. HIDE DEF a, b
  <2>. QED  BY <1>1, HasConcat
<1>3. p \in Nat
  BY <1>2 DEF Has
<1>4. ReadString(ReaderAt(s, p, byte, 8)) = [value |-> chars, reader |-> ReaderAt(s, k, byte, 8)]
  <2>. HIDE DEF chars
  <2>1. Has(s, p, StringBytes(chars)) /\ chars \in Strings
    BY <1>1, <1>2 DEF chars
  <2>2. ReadString(ReaderAt(s, p, byte, 8))
          = [value |-> chars, reader |-> ReaderAt(s, p + Len(StringBytes(chars)), byte, 8)]
    BY <2>1, ReadStringHas
  <2>. QED  BY <2>2 DEF chars
<1>5. k + 1 = p + Len(TopicBytes(t))
  <2>. DEFINE la == Len(a)
              lc == Len(chars)
              lt == Len(TopicBytes(t))
  <2>1. lt = lc + 3 /\ lc \in Nat /\ la = lc + 2
    BY <1>1
  <2>. HIDE DEF la, lc, lt
  <2>2. (p + la) + 1 = p + lt
    BY <1>3, <2>1
  <2>. QED  BY <2>2 DEF la, lt
<1>. HIDE DEF k, q, a
<1>6. ReadByte(ReaderAt(s, k, byte, 8)) = [value |-> q, reader |-> ReaderAt(s, k + 1, byte, 8)]
  BY <1>1, <1>2, ReadByteHas
<1>7. ReadTopic(ReaderAt(s, p, byte, 8))
        = [value |-> [topic |-> chars, qos |-> q], reader |-> ReaderAt(s, k + 1, byte, 8)]
  <2>. DEFINE first == ReadString(ReaderAt(s, p, byte, 8))
              second == ReadByte(first.reader)
  <2>1. ReadTopic(ReaderAt(s, p, byte, 8))
          = [value |-> [topic |-> first.value, qos |-> second.value], reader |-> second.reader]
    BY DEF ReadTopic
  <2>. HIDE DEF first, chars
  <2>2. first.value = chars /\ first.reader = ReaderAt(s, k, byte, 8)
    BY <1>4 DEF first
  <2>3. second.value = q /\ second.reader = ReaderAt(s, k + 1, byte, 8)
    BY <1>6, <2>2
  <2>. HIDE DEF second
  <2>. QED  BY <2>1, <2>2, <2>3
<1>8. t = [topic |-> chars, qos |-> q]
  BY DEF Topic, q
<1>. QED  BY <1>5, <1>7, <1>8

LEMMA TopicPiecesType ==
  ASSUME NEW topics \in Seq(Topic)
  PROVE  /\ TopicPieces(topics) \in Seq(Seq(Byte))
         /\ Len(TopicPieces(topics)) = Len(topics) /\ Len(topics) \in Nat
         /\ \A i \in 1 .. Len(topics) :
              /\ TopicPieces(topics)[i] = TopicBytes(topics[i]) /\ topics[i] \in Topic
              /\ Len(TopicPieces(topics)[i]) = Len(topics[i].topic) + 3
              /\ Len(TopicPieces(topics)[i]) > 0
<1>. DEFINE t == TopicPieces(topics)
            n == Len(topics)
<1>1. n \in Nat /\ t = [i \in 1 .. n |-> TopicBytes(topics[i])]
  BY LenProperties DEF TopicPieces
<1>2. ASSUME NEW i \in 1 .. n
      PROVE  /\ topics[i] \in Topic /\ TopicBytes(topics[i]) \in Seq(Byte)
             /\ Len(TopicBytes(topics[i])) = Len(topics[i].topic) + 3
             /\ Len(TopicBytes(topics[i])) > 0
  <2>1. topics[i] \in Topic
    BY ElementOfSeq
  <2>2. /\ TopicBytes(topics[i]) \in Seq(Byte) /\ Len(topics[i].topic) \in Nat
        /\ Len(TopicBytes(topics[i])) = Len(topics[i].topic) + 3
    BY <2>1, TopicBytesIs
  <2>. QED  BY <2>1, <2>2
<1>. HIDE DEF t
<1>3. t \in Seq(Seq(Byte)) /\ Len(t) = n
  <2>. HIDE DEF n
  <2>. QED  BY <1>1, <1>2
<1>. QED  BY <1>1, <1>2, <1>3 DEF t

LEMMA TopicsHave ==
  ASSUME NEW s \in Seq(Byte), NEW p, NEW byte, NEW topics \in Seq(Topic),
         Has(s, p, FlattenSeq(TopicPieces(topics)))
  PROVE  LET R == Readers(s, p, byte, TopicPieces(topics))
         IN  \A i \in 1 .. Len(topics) :
               ReadTopic(R[i - 1]) = [value |-> topics[i], reader |-> R[i]]
<1>. DEFINE t == TopicPieces(topics)
            R == Readers(s, p, byte, t)
<1>. SUFFICES ASSUME NEW i \in 1 .. Len(topics)
              PROVE  ReadTopic(R[i - 1]) = [value |-> topics[i], reader |-> R[i]]
  OBVIOUS
<1>1. /\ t \in Seq(Seq(Byte)) /\ i \in 1 .. Len(t)
      /\ t[i] = TopicBytes(topics[i]) /\ topics[i] \in Topic
  BY TopicPiecesType
<1>. HIDE DEF t
<1>. DEFINE q == p + Before(t, i - 1)
<1>2. Has(s, q, TopicBytes(topics[i]))
  BY <1>1, HasPieces DEF t
<1>3. R[i - 1] = ReaderAt(s, q, byte, 8) /\ R[i] = ReaderAt(s, q + Len(t[i]), byte, 8)
  BY <1>1, ReadersAt DEF t
<1>. HIDE DEF R, q
<1>4. ReadTopic(ReaderAt(s, q, byte, 8))
        = [value |-> topics[i], reader |-> ReaderAt(s, q + Len(TopicBytes(topics[i])), byte, 8)]
  <2>. DEFINE one == topics[i]
  <2>1. one \in Topic /\ Has(s, q, TopicBytes(one))
    BY <1>1, <1>2
  <2>. HIDE DEF one
  <2>2. ReadTopic(ReaderAt(s, q, byte, 8))
          = [value |-> one, reader |-> ReaderAt(s, q + Len(TopicBytes(one)), byte, 8)]
    BY <2>1, ReadTopicHas
  <2>. QED  BY <2>2 DEF one
<1>. QED  BY <1>1, <1>3, <1>4

\* A message from its fixed header and what is behind it.
LEMMA FrameWritten ==
  ASSUME NEW h, IsHeader(h), NEW body \in Seq(Byte)
  PROVE  WriteBytes(WriteHeader(EmptyWriter, h), body).bytes = Frame(h, body)
<1>. DEFINE w == WriteHeader(EmptyWriter, h)
<1>1. w \in Writer /\ w.bytes = <<FirstByte(h)>> \o Digits(h.remaining)
  BY WriteHeaderIs
<1>. HIDE DEF w
<1>2. WriteBytes(w, body).bytes = w.bytes \o body
  BY <1>1, WriteBytesIs
<1>. QED  BY <1>1, <1>2 DEF Frame, w

-----------------------------------------------------------------------------
(* MqttSubscribe and MqttUnsubscribe.                                      *)

IsRequest(m) == IsSubscribe(m) \/ IsUnsubscribe(m)

RequestPieces(m) ==
  IF m.type = "SUBSCRIBE" THEN TopicPieces(m.topics) ELSE StringPieces(m.topics)

RequestHeader(m) ==
  [type |-> m.type, dup |-> 0, qos |-> 1, retain |-> 0, remaining |-> Remaining(m)]

RequestBody(m) == ShortBytes(m.msgId) \o FlattenSeq(RequestPieces(m))

LEMMA RequestType ==
  ASSUME NEW m, IsRequest(m)
  PROVE  /\ m.type \in {"SUBSCRIBE", "UNSUBSCRIBE"} /\ m.msgId \in Shorts
         /\ m = [type |-> m.type, msgId |-> m.msgId, topics |-> m.topics]
         /\ m.type = "SUBSCRIBE" => m.topics \in Seq(Topic)
         /\ m.type # "SUBSCRIBE" => m.topics \in Seq(Strings)
BY DEF IsRequest, IsSubscribe, IsUnsubscribe, Topic

LEMMA RequestPiecesType ==
  ASSUME NEW m, IsRequest(m)
  PROVE  /\ RequestPieces(m) \in Seq(Seq(Byte))
         /\ Len(RequestPieces(m)) = Len(m.topics)
         /\ \A i \in 1 .. Len(RequestPieces(m)) : Len(RequestPieces(m)[i]) > 0
         /\ Remaining(m) = 2 + Len(FlattenSeq(RequestPieces(m)))
<1>1. CASE m.type = "SUBSCRIBE"
  <2>. DEFINE t == TopicPieces(m.topics)
              n == Len(m.topics)
  <2>1. /\ t \in Seq(Seq(Byte)) /\ Len(t) = n /\ n \in Nat
        /\ \A i \in 1 .. n : Len(t[i]) > 0 /\ Len(t[i]) = Len(m.topics[i].topic) + 3
    BY <1>1, RequestType, TopicPiecesType
  <2>2. t = RequestPieces(m)
    BY <1>1 DEF RequestPieces
  <2>3. Remaining(m) = 2 + SumOf([i \in 1 .. n |-> Len(m.topics[i].topic) + 3])
    BY <1>1 DEF Remaining
  <2>. HIDE DEF t
  <2>4. [i \in 1 .. n |-> Len(m.topics[i].topic) + 3] = [i \in 1 .. Len(t) |-> Len(t[i])]
    BY <2>1
  <2>5. Remaining(m) = 2 + Len(FlattenSeq(t))
    BY <2>1, <2>3, <2>4, SumOfPieces
  <2>. QED  BY <2>1, <2>2, <2>5
<1>2. CASE m.type # "SUBSCRIBE"
  <2>. DEFINE t == StringPieces(m.topics)
              n == Len(m.topics)
  <2>1. /\ t \in Seq(Seq(Byte)) /\ Len(t) = n /\ n \in Nat
        /\ \A i \in 1 .. n : Len(t[i]) > 0 /\ Len(t[i]) = Len(m.topics[i]) + 2
    BY <1>2, RequestType, StringPiecesType
  <2>2. t = RequestPieces(m)
    BY <1>2 DEF RequestPieces
  <2>3. Remaining(m) = 2 + SumOf([i \in 1 .. n |-> Len(m.topics[i]) + 2])
    <3>1. m.type = "UNSUBSCRIBE"
      BY <1>2, RequestType
    <3>. QED  BY <3>1 DEF Remaining
  <2>. HIDE DEF t
  <2>4. [i \in 1 .. n |-> Len(m.topics[i]) + 2] = [i \in 1 .. Len(t) |-> Len(t[i])]
    BY <2>1
  <2>5. Remaining(m) = 2 + Len(FlattenSeq(t))
    BY <2>1, <2>3, <2>4, SumOfPieces
  <2>. QED  BY <2>1, <2>2, <2>5
<1>. QED  BY <1>1, <1>2

LEMMA RequestBodyType ==
  ASSUME NEW m, IsRequest(m)
  PROVE  /\ RequestBody(m) \in Seq(Byte) /\ Len(RequestBody(m)) = Remaining(m)
         /\ Remaining(m) \in Nat /\ FlattenSeq(RequestPieces(m)) \in Seq(Byte)
         /\ ShortBytes(m.msgId) \in Seq(Byte) /\ Len(ShortBytes(m.msgId)) = 2
         /\ Remaining(m) <= MaxRemaining => IsHeader(RequestHeader(m))
<1>. DEFINE a == ShortBytes(m.msgId)
            b == FlattenSeq(RequestPieces(m))
<1>1. a \in Seq(Byte) /\ Len(a) = 2
  BY RequestType, ShortBytesType
<1>2. b \in Seq(Byte) /\ Len(b) \in Nat /\ Remaining(m) = 2 + Len(b)
  <2>1. RequestPieces(m) \in Seq(Seq(Byte)) /\ Remaining(m) = 2 + Len(b)
    BY RequestPiecesType
  <2>2. b \in Seq(Byte)
    BY <2>1, FlattenType
  <2>. QED  BY <2>1, <2>2, LenProperties
<1>. HIDE DEF a, b
<1>3. a \o b \in Seq(Byte) /\ Len(a \o b) = Len(a) + Len(b)
  BY <1>1, <1>2, ConcatProperties
<1>4. Remaining(m) \in Nat /\ Len(a \o b) = Remaining(m)
  BY <1>1, <1>2, <1>3
<1>5. ASSUME Remaining(m) <= MaxRemaining
      PROVE  IsHeader(RequestHeader(m))
  <2>1. MaxRemaining \in Int
    BY SMT DEF MaxRemaining, MaxDigits
  <2>2. Remaining(m) \in 0 .. MaxRemaining
    BY <1>4, <1>5, <2>1
  <2>3. TypeCode[m.type] \in 0 .. 15
    BY RequestType DEF TypeCode
  <2>. QED  BY <2>2, <2>3 DEF IsHeader, RequestHeader
<1>. QED  BY <1>1, <1>2, <1>3, <1>4, <1>5 DEF RequestBody, a, b

LEMMA WriteRequestIs ==
  ASSUME NEW m, IsRequest(m), Remaining(m) <= MaxRemaining
  PROVE  WriteRequest(m) = Frame(RequestHeader(m), RequestBody(m))
<1>. DEFINE piece(t) == IF m.type = "SUBSCRIBE" THEN WriteTopic(EmptyWriter, t).bytes
                                                ELSE StringBytes(t)
            pieces == [i \in 1 .. Len(m.topics) |-> piece(m.topics[i])]
            w == WriteShort(EmptyWriter, m.msgId)
            rest == WriteMany(w, pieces).bytes
            a == ShortBytes(m.msgId)
            b == FlattenSeq(RequestPieces(m))
<1>1. pieces = RequestPieces(m)
  <2>1. CASE m.type = "SUBSCRIBE"
    BY <2>1 DEF RequestPieces, TopicPieces, TopicBytes
  <2>2. CASE m.type # "SUBSCRIBE"
    BY <2>2 DEF RequestPieces, StringPieces
  <2>. QED  BY <2>1, <2>2
<1>2. /\ a \in Seq(Byte) /\ b \in Seq(Byte) /\ RequestBody(m) = a \o b
      /\ RequestBody(m) \in Seq(Byte) /\ Len(RequestBody(m)) = Remaining(m)
      /\ IsHeader(RequestHeader(m)) /\ m.msgId \in Shorts
  BY RequestBodyType, RequestType DEF RequestBody
<1>. DEFINE header == [type |-> m.type, dup |-> 0, qos |-> 1, retain |-> 0, remaining |-> Len(rest)]
<1>3. WriteRequest(m) = WriteBytes(WriteHeader(EmptyWriter, header), rest).bytes
  BY DEF WriteRequest
<1>4. w \in Writer /\ w.bytes = a
  <2>1. w \in Writer /\ w.bytes = <<>> \o a
    BY <1>2, EmptyWriterType, WriteShortIs
  <2>. HIDE DEF a
  <2>. QED  BY <1>2, <2>1, ConcatEmptySeq
<1>5. rest = RequestBody(m)
  <2>1. rest = WriteBytes(w, b).bytes
    BY <1>1 DEF WriteMany
  <2>. HIDE DEF w, b, rest
  <2>2. WriteBytes(w, b).bytes = w.bytes \o b
    BY <1>2, <1>4, WriteBytesIs
  <2>. QED  BY <1>2, <1>4, <2>1, <2>2
<1>. HIDE DEF rest
<1>6. header = RequestHeader(m)
  BY <1>2, <1>5 DEF RequestHeader
<1>. HIDE DEF header
<1>. QED  BY <1>2, <1>3, <1>5, <1>6, FrameWritten

LEMMA ReadRequestIs ==
  ASSUME NEW m, IsRequest(m), Remaining(m) <= MaxRemaining
  PROVE  ReadRequest(m.type, Reader(Frame(RequestHeader(m), RequestBody(m)))) = m
<1>. DEFINE h == RequestHeader(m)
            s == Frame(h, RequestBody(m))
            q == BodyAt(h)
            c == FirstByte(h)
            a == ShortBytes(m.msgId)
            pieces == RequestPieces(m)
            b == FlattenSeq(pieces)
            first == ReadHeader(Reader(s))
            again == ReadHeader(Reset(first.reader))
            msgId == ReadShort(again.reader)
            topics == IF m.type = "SUBSCRIBE" THEN ReadRawArray(ReadTopic, msgId.reader)
                                              ELSE ReadRawArray(ReadString, msgId.reader)
<1>1. ReadRequest(m.type, Reader(s)) = [type |-> m.type, msgId |-> msgId.value, topics |-> topics]
  BY DEF ReadRequest
<1>2. /\ a \in Seq(Byte) /\ Len(a) = 2 /\ b \in Seq(Byte) /\ RequestBody(m) = a \o b
      /\ RequestBody(m) \in Seq(Byte) /\ Len(RequestBody(m)) = Remaining(m)
      /\ IsHeader(h) /\ m.msgId \in Shorts
      /\ pieces \in Seq(Seq(Byte)) /\ \A i \in 1 .. Len(pieces) : Len(pieces[i]) > 0
      /\ Len(pieces) = Len(m.topics) /\ Remaining(m) = 2 + Len(b)
  BY RequestBodyType, RequestType, RequestPiecesType DEF RequestBody
<1>3. /\ s \in Seq(Byte) /\ Has(s, q, RequestBody(m)) /\ first = HeaderRead(h, ReaderAt(s, q, c, 8))
      /\ Len(s) = 1 + Len(Digits(h.remaining)) + Len(RequestBody(m))
      /\ Len(Digits(h.remaining)) \in 1 .. 4
  <2>. HIDE DEF h
  <2>1. h.remaining \in 0 .. MaxRemaining
    BY <1>2 DEF IsHeader
  <2>. QED  BY <1>2, <2>1, FrameRight, DigitsType
<1>4. q = 2 + Len(Digits(h.remaining))
  BY DEF BodyAt
<1>. HIDE DEF s, h, q, c, a, b, pieces
<1>5. first.reader = ReaderAt(s, q, c, 8)
  <2>. HIDE DEF first
  <2>. QED  BY <1>3 DEF HeaderRead
<1>6. Reset(first.reader) = Reader(s)
  <2>. DEFINE r == ReaderAt(s, q, c, 8)
              t == [r EXCEPT !.currentByte = 0, !.iterator = 1, !.bitIndex = 0]
  <2>1. r = [bytes |-> s, iterator |-> q, currentByte |-> c, bitIndex |-> 8]
    BY DEF ReaderAt
  <2>. HIDE DEF r, first
  <2>2. Reset(first.reader) = t
    BY <1>5 DEF Reset, r
  <2>3. t = [r EXCEPT !.currentByte = 0, !.iterator = 1, !.bitIndex = 0]
    OBVIOUS
  <2>. HIDE DEF t
  <2>. QED  BY <2>1, <2>2, <2>3 DEF Reader
<1>7. again.reader = ReaderAt(s, q, c, 8)
  BY <1>5, <1>6
<1>8. Has(s, q, a) /\ Has(s, q + 2, b)
  BY <1>2, <1>3, HasConcat
<1>9. msgId = [value |-> m.msgId, reader |-> ReaderAt(s, q + 2, c, 8)]
  <2>. HIDE DEF again
  <2>. QED  BY <1>2, <1>3, <1>7, <1>8, ReadShortHas DEF a
<1>10. msgId.value = m.msgId /\ msgId.reader = ReaderAt(s, q + 2, c, 8)
  <2>. HIDE DEF msgId
  <2>. QED  BY <1>9
<1>. HIDE DEF msgId
<1>11. (q + 2) + Len(b) = Len(s) + 1
  <2>. DEFINE d == Len(Digits(h.remaining))
              n == Len(b)
              l == Len(s)
  <2>1. d \in 1 .. 4 /\ n \in Nat /\ q = 2 + d /\ l = 1 + d + (2 + n)
    BY <1>2, <1>3, <1>4, LenProperties
  <2>. HIDE DEF d, n, l
  <2>2. (q + 2) + n = l + 1
    BY <2>1
  <2>. QED  BY <2>2 DEF n, l
<1>. DEFINE R == Readers(s, q + 2, c, pieces)
            k == Len(pieces)
<1>12. /\ BytesLeft(R[0]) \in Nat /\ k <= BytesLeft(R[0]) /\ BytesLeft(R[k]) = 0
       /\ \A i \in 0 .. k : i # k => BytesLeft(R[i]) > 0
       /\ R[0] = ReaderAt(s, q + 2, c, 8)
  <2>. DEFINE p == q + 2
  <2>1. /\ s \in Seq(Byte) /\ pieces \in Seq(Seq(Byte)) /\ Has(s, p, FlattenSeq(pieces))
        /\ p + Len(FlattenSeq(pieces)) = Len(s) + 1
        /\ \A i \in 1 .. Len(pieces) : Len(pieces[i]) > 0
    BY <1>2, <1>3, <1>8, <1>11 DEF b
  <2>2. R = Readers(s, p, c, pieces) /\ k = Len(pieces)
    OBVIOUS
  <2>. HIDE DEF p, R, k
  <2>3. R[0] = ReaderAt(s, p, c, 8)
    BY <2>1, <2>2, ReadersAt
  <2>4. /\ BytesLeft(R[0]) \in Nat /\ k <= BytesLeft(R[0]) /\ BytesLeft(R[k]) = 0
        /\ \A i \in 0 .. k : i # k => BytesLeft(R[i]) > 0
    BY <2>1, <2>2, ReadersLeft
  <2>. QED  BY <2>3, <2>4 DEF p
<1>13. k = Len(m.topics)
  BY <1>2
<1>. HIDE DEF R, k
<1>14. topics = m.topics
  <2>1. CASE m.type = "SUBSCRIBE"
    <3>1. m.topics \in Seq(Topic) /\ pieces = TopicPieces(m.topics)
      BY <2>1, RequestType DEF pieces, RequestPieces
    <3>. DEFINE e == m.topics
    <3>2. \A i \in 1 .. Len(e) : ReadTopic(R[i - 1]) = [value |-> e[i], reader |-> R[i]]
      BY <1>3, <1>8, <3>1, TopicsHave DEF R, b
    <3>. HIDE DEF e
    <3>3. ReadRawArray(ReadTopic, R[0]) = e
      BY <1>12, <1>13, <3>1, <3>2, RawTopicsAre DEF e
    <3>. QED  BY <1>10, <1>12, <2>1, <3>3 DEF e
  <2>2. CASE m.type # "SUBSCRIBE"
    <3>1. m.topics \in Seq(Strings) /\ pieces = StringPieces(m.topics)
      BY <2>2, RequestType DEF pieces, RequestPieces
    <3>. DEFINE e == m.topics
    <3>2. \A i \in 1 .. Len(e) : ReadString(R[i - 1]) = [value |-> e[i], reader |-> R[i]]
      BY <1>3, <1>8, <3>1, StringsHave DEF R, b
    <3>. HIDE DEF e
    <3>3. ReadRawArray(ReadString, R[0]) = e
      BY <1>12, <1>13, <3>1, <3>2, RawStringsAre DEF e
    <3>. QED  BY <1>10, <1>12, <2>2, <3>3 DEF e
  <2>. QED  BY <2>1, <2>2
<1>. HIDE DEF topics
<1>15. ReadRequest(m.type, Reader(s)) = m
  BY <1>1, <1>10, <1>14, RequestType
<1>. QED  BY <1>15 DEF s, h

-----------------------------------------------------------------------------
(* MqttConnect.                                                            *)

\* The flags are the bits of one byte, the first of them on the left.
FlagsByte(f) ==
  128 * f[1] + 64 * f[2] + 32 * f[3] + 8 * f[4] + 4 * f[5] + 2 * f[6] + f[7]

IsFlags(f) == f \in [1 .. 7 -> 0 .. 3] /\ \A i \in 1 .. 7 : f[i] < 2^FlagWidths[i]

LEMMA FlagsType ==
  ASSUME NEW f, IsFlags(f)
  PROVE  /\ f[1] \in 0 .. 1 /\ f[2] \in 0 .. 1 /\ f[3] \in 0 .. 1 /\ f[4] \in 0 .. 3
         /\ f[5] \in 0 .. 1 /\ f[6] \in 0 .. 1 /\ f[7] \in 0 .. 1
         /\ FlagsByte(f) \in Byte
         /\ f \in Seq(0 .. 3) /\ Len(f) = 7
<1>1. /\ FlagWidths[1] = 1 /\ FlagWidths[2] = 1 /\ FlagWidths[3] = 1 /\ FlagWidths[4] = 2
      /\ FlagWidths[5] = 1 /\ FlagWidths[6] = 1 /\ FlagWidths[7] = 1
  BY DEF FlagWidths
<1>2. f \in [1 .. 7 -> 0 .. 3] /\ \A i \in 1 .. 7 : f[i] < 2^FlagWidths[i]
  BY DEF IsFlags
<1>3. /\ 1 \in 1 .. 7 /\ 2 \in 1 .. 7 /\ 3 \in 1 .. 7 /\ 4 \in 1 .. 7
      /\ 5 \in 1 .. 7 /\ 6 \in 1 .. 7 /\ 7 \in 1 .. 7
  OBVIOUS
<1>4. 2^1 = 2 /\ 2^2 = 4
  OBVIOUS
<1>5. /\ f[1] \in 0 .. 1 /\ f[2] \in 0 .. 1 /\ f[3] \in 0 .. 1 /\ f[4] \in 0 .. 3
      /\ f[5] \in 0 .. 1 /\ f[6] \in 0 .. 1 /\ f[7] \in 0 .. 1
  <2>1. f[1] < 2 /\ f[2] < 2 /\ f[3] < 2 /\ f[4] < 4 /\ f[5] < 2 /\ f[6] < 2 /\ f[7] < 2
    BY <1>1, <1>2, <1>3, <1>4
  <2>2. /\ f[1] \in 0 .. 3 /\ f[2] \in 0 .. 3 /\ f[3] \in 0 .. 3 /\ f[4] \in 0 .. 3
        /\ f[5] \in 0 .. 3 /\ f[6] \in 0 .. 3 /\ f[7] \in 0 .. 3
    BY <1>2, <1>3
  <2>. QED  BY <2>1, <2>2
<1>6. FlagsByte(f) \in Byte
  BY <1>5 DEF FlagsByte, Byte
<1>7. f \in Seq(0 .. 3) /\ Len(f) = 7
  <2>1. f = [i \in 1 .. 7 |-> f[i]] /\ \A i \in 1 .. 7 : f[i] \in 0 .. 3
    BY <1>2
  <2>2. 7 \in Nat
    OBVIOUS
  <2>. QED  BY <2>1, <2>2
<1>. QED  BY <1>5, <1>6, <1>7

\* Bits taken before and after each flag.
FlagReaders(s, p, byte, f) ==
  LET taken_(i) == IF i < 4 THEN i ELSE i + 1
  IN  [i \in 0 .. 7 |-> IF i = 0 THEN ReaderAt(s, p, byte, 8)
                        ELSE ReaderAt(s, p + 1, FlagsByte(f), taken_(i))]

LEMMA ReadFlagsHas ==
  ASSUME NEW s \in Seq(Byte), NEW p, NEW byte \in Byte, NEW f, IsFlags(f),
         Has(s, p, <<FlagsByte(f)>>)
  PROVE  ReadFlags(ReaderAt(s, p, byte, 8))
           = [value |-> f, reader |-> ReaderAt(s, p + 1, FlagsByte(f), 8)]
<1>. DEFINE R == FlagReaders(s, p, byte, f)
            b == FlagsByte(f)
            r(n) == ReaderAt(s, p + 1, b, n)
<1>1. /\ f[1] \in 0 .. 1 /\ f[2] \in 0 .. 1 /\ f[3] \in 0 .. 1 /\ f[4] \in 0 .. 3
      /\ f[5] \in 0 .. 1 /\ f[6] \in 0 .. 1 /\ f[7] \in 0 .. 1
      /\ b \in Byte /\ f \in Seq(0 .. 3) /\ Len(f) = 7
  BY FlagsType
<1>2. /\ FlagWidths[1] = 1 /\ FlagWidths[2] = 1 /\ FlagWidths[3] = 1 /\ FlagWidths[4] = 2
      /\ FlagWidths[5] = 1 /\ FlagWidths[6] = 1 /\ FlagWidths[7] = 1
  BY DEF FlagWidths
<1>3. /\ R[0] = ReaderAt(s, p, byte, 8) /\ R[1] = r(1) /\ R[2] = r(2) /\ R[3] = r(3)
      /\ R[4] = r(5) /\ R[5] = r(6) /\ R[6] = r(7) /\ R[7] = r(8)
  BY DEF FlagReaders
<1>4. b = 128 * f[1] + 64 * f[2] + 32 * f[3] + 8 * f[4] + 4 * f[5] + 2 * f[6] + f[7]
  BY DEF FlagsByte
<1>. HIDE DEF R, b
<1>5. p \in 1 .. Len(s) /\ s[p] = b /\ p + 1 \in Nat \ {0}
  <2>. DEFINE a == <<b>>
  <2>1. a \in Seq(Byte) /\ 1 \in 1 .. Len(a) /\ a[1] = b /\ Has(s, p, a)
    BY <1>1 DEF b
  <2>. HIDE DEF a
  <2>2. p + 1 - 1 \in 1 .. Len(s) /\ s[p + 1 - 1] = b /\ p \in Nat \ {0}
    BY <2>1, HasType
  <2>. QED  BY <2>2
<1>6. ASSUME NEW n \in 1 .. 7, NEW k \in 1 .. 4, n + k <= 8
      PROVE  ReadBits(r(n), k) = [value |-> (b \div 2^(8 - (n + k))) % 2^k, reader |-> r(n + k)]
  BY <1>1, <1>5, <1>6, ReadBitsAt
<1>7. /\ (b \div 2^(8 - 1)) % 2^1 = f[1]
       /\ (b \div 2^(8 - (1 + 1))) % 2^1 = f[2]
       /\ (b \div 2^(8 - (2 + 1))) % 2^1 = f[3]
       /\ (b \div 2^(8 - (3 + 2))) % 2^2 = f[4]
       /\ (b \div 2^(8 - (5 + 1))) % 2^1 = f[5]
       /\ (b \div 2^(8 - (6 + 1))) % 2^1 = f[6]
       /\ (b \div 2^(8 - (7 + 1))) % 2^1 = f[7]
  <2>. DEFINE f1 == f[1]
              f2 == f[2]
              f3 == f[3]
              f4 == f[4]
              f5 == f[5]
              f6 == f[6]
              f7 == f[7]
  <2>1. /\ f1 \in 0 .. 1 /\ f2 \in 0 .. 1 /\ f3 \in 0 .. 1 /\ f4 \in 0 .. 3
        /\ f5 \in 0 .. 1 /\ f6 \in 0 .. 1 /\ f7 \in 0 .. 1
        /\ b = 128 * f1 + 64 * f2 + 32 * f3 + 8 * f4 + 4 * f5 + 2 * f6 + f7
    BY <1>1, <1>4
  <2>. HIDE DEF f1, f2, f3, f4, f5, f6, f7
  <2>2. /\ (b \div 2^(8 - 1)) % 2^1 = f1
        /\ (b \div 2^(8 - (1 + 1))) % 2^1 = f2
        /\ (b \div 2^(8 - (2 + 1))) % 2^1 = f3
        /\ (b \div 2^(8 - (3 + 2))) % 2^2 = f4
        /\ (b \div 2^(8 - (5 + 1))) % 2^1 = f5
        /\ (b \div 2^(8 - (6 + 1))) % 2^1 = f6
        /\ (b \div 2^(8 - (7 + 1))) % 2^1 = f7
    BY <2>1
  <2>. QED  BY <2>2 DEF f1, f2, f3, f4, f5, f6, f7
<1>8. ReadBits(R[0], 1) = [value |-> f[1], reader |-> R[1]]
  <2>1. ReadBits(ReaderAt(s, p, byte, 8), 1)
          = [value |-> (s[p] \div 2^(8 - 1)) % 2^1, reader |-> ReaderAt(s, p + 1, s[p], 1)]
    BY <1>5, ReadBitsNext
  <2>2. (b \div 2^(8 - 1)) % 2^1 = f[1]
    BY <1>7
  <2>. QED  BY <1>3, <1>5, <2>1, <2>2
<1>9. ReadBits(R[1], 1) = [value |-> f[2], reader |-> R[2]]
  <2>1. 1 \in 1 .. 7 /\ 1 \in 1 .. 4 /\ 1 + 1 <= 8
    OBVIOUS
  <2>2. ReadBits(r(1), 1) = [value |-> (b \div 2^(8 - (1 + 1))) % 2^1, reader |-> r(1 + 1)]
    BY <1>6, <2>1
  <2>3. (b \div 2^(8 - (1 + 1))) % 2^1 = f[2]
    BY <1>7
  <2>. QED  BY <1>3, <2>2, <2>3
<1>10. ReadBits(R[2], 1) = [value |-> f[3], reader |-> R[3]]
  <2>1. 2 \in 1 .. 7 /\ 1 \in 1 .. 4 /\ 2 + 1 <= 8
    OBVIOUS
  <2>2. ReadBits(r(2), 1) = [value |-> (b \div 2^(8 - (2 + 1))) % 2^1, reader |-> r(2 + 1)]
    BY <1>6, <2>1
  <2>3. (b \div 2^(8 - (2 + 1))) % 2^1 = f[3]
    BY <1>7
  <2>. QED  BY <1>3, <2>2, <2>3
<1>11. ReadBits(R[3], 2) = [value |-> f[4], reader |-> R[4]]
  <2>1. 3 \in 1 .. 7 /\ 2 \in 1 .. 4 /\ 3 + 2 <= 8
    OBVIOUS
  <2>2. ReadBits(r(3), 2) = [value |-> (b \div 2^(8 - (3 + 2))) % 2^2, reader |-> r(3 + 2)]
    BY <1>6, <2>1
  <2>3. (b \div 2^(8 - (3 + 2))) % 2^2 = f[4]
    BY <1>7
  <2>. QED  BY <1>3, <2>2, <2>3
<1>12. ReadBits(R[4], 1) = [value |-> f[5], reader |-> R[5]]
  <2>1. 5 \in 1 .. 7 /\ 1 \in 1 .. 4 /\ 5 + 1 <= 8
    OBVIOUS
  <2>2. ReadBits(r(5), 1) = [value |-> (b \div 2^(8 - (5 + 1))) % 2^1, reader |-> r(5 + 1)]
    BY <1>6, <2>1
  <2>3. (b \div 2^(8 - (5 + 1))) % 2^1 = f[5]
    BY <1>7
  <2>. QED  BY <1>3, <2>2, <2>3
<1>13. ReadBits(R[5], 1) = [value |-> f[6], reader |-> R[6]]
  <2>1. 6 \in 1 .. 7 /\ 1 \in 1 .. 4 /\ 6 + 1 <= 8
    OBVIOUS
  <2>2. ReadBits(r(6), 1) = [value |-> (b \div 2^(8 - (6 + 1))) % 2^1, reader |-> r(6 + 1)]
    BY <1>6, <2>1
  <2>3. (b \div 2^(8 - (6 + 1))) % 2^1 = f[6]
    BY <1>7
  <2>. QED  BY <1>3, <2>2, <2>3
<1>14. ReadBits(R[6], 1) = [value |-> f[7], reader |-> R[7]]
  <2>1. 7 \in 1 .. 7 /\ 1 \in 1 .. 4 /\ 7 + 1 <= 8
    OBVIOUS
  <2>2. ReadBits(r(7), 1) = [value |-> (b \div 2^(8 - (7 + 1))) % 2^1, reader |-> r(7 + 1)]
    BY <1>6, <2>1
  <2>3. (b \div 2^(8 - (7 + 1))) % 2^1 = f[7]
    BY <1>7
  <2>. QED  BY <1>3, <2>2, <2>3
<1>15. ASSUME NEW i \in 1 .. 7
       PROVE  ReadBits(R[i - 1], FlagWidths[i]) = [value |-> f[i], reader |-> R[i]]
  <2>1. CASE i = 1  BY <1>2, <1>8, <2>1
  <2>2. CASE i = 2  BY <1>2, <1>9, <2>2
  <2>3. CASE i = 3  BY <1>2, <1>10, <2>3
  <2>4. CASE i = 4  BY <1>2, <1>11, <2>4
  <2>5. CASE i = 5  BY <1>2, <1>12, <2>5
  <2>6. CASE i = 6  BY <1>2, <1>13, <2>6
  <2>7. CASE i = 7  BY <1>2, <1>14, <2>7
  <2>. QED  BY <2>1, <2>2, <2>3, <2>4, <2>5, <2>6, <2>7
<1>16. ReadFlags(R[0]) = [value |-> SubSeq(f, 1, 7), reader |-> R[7]]
  <2>1. 7 \in 0 .. Len(f) /\ \A i \in 1 .. Len(f) : i \in 1 .. 7
    BY <1>1
  <2>. QED  BY <1>1, <1>15, <2>1, ReadFlagsAre
<1>17. SubSeq(f, 1, 7) = f
  BY <1>1, SubSeqFull
<1>. QED  BY <1>3, <1>16, <1>17 DEF b

\* What is behind the header of a CONNECT, part after part.
ConnectHeader(m) ==
  [type |-> "CONNECT", dup |-> 0, qos |-> 0, retain |-> 0, remaining |-> Remaining(m)]

ConnectToVersion(m) == StringBytes(m.protoName) \o <<m.protoVersion>>
ConnectToFlags(m) == ConnectToVersion(m) \o <<FlagsByte(m.flags)>>
ConnectToKeepAlive(m) == ConnectToFlags(m) \o ShortBytes(m.keepAlive)
ConnectBody(m) == ConnectToKeepAlive(m) \o FlattenSeq(StringPieces(StringsOf(m)))

\* The strings a CONNECT ends with, and which of them is where.
LEMMA StringsInOrder ==
  ASSUME NEW m, IsConnect(m)
  PROVE  LET e == StringsOf(m)
             u == IF m.flags[5] = 1 THEN 3 ELSE 1
             v == IF m.flags[1] = 1 THEN u + 1 ELSE u
         IN  /\ e \in Seq(Strings)
             /\ Len(e) = (IF m.flags[2] = 1 THEN v + 1 ELSE v)
             /\ e[1] = m.clientId
             /\ m.flags[5] = 1 => e[2] = m.willTopic /\ e[3] = m.willMessage
             /\ m.flags[1] = 1 => e[u + 1] = m.userName
             /\ m.flags[2] = 1 => e[v + 1] = m.password
<1>. DEFINE a == <<m.clientId>>
            b == IF m.flags[5] = 1 THEN <<m.willTopic, m.willMessage>> ELSE <<>>
            c == IF m.flags[1] = 1 THEN <<m.userName>> ELSE <<>>
            d == IF m.flags[2] = 1 THEN <<m.password>> ELSE <<>>
            u == IF m.flags[5] = 1 THEN 3 ELSE 1
            v == IF m.flags[1] = 1 THEN u + 1 ELSE u
<1>1. /\ m.clientId \in Strings /\ m.willTopic \in Strings /\ m.willMessage \in Strings
      /\ m.userName \in Strings /\ m.password \in Strings
  BY DEF IsConnect
<1>2. a \in Seq(Strings) /\ Len(a) = 1 /\ a[1] = m.clientId
  BY <1>1
<1>3. /\ b \in Seq(Strings) /\ Len(b) = (IF m.flags[5] = 1 THEN 2 ELSE 0)
      /\ m.flags[5] = 1 => b[1] = m.willTopic /\ b[2] = m.willMessage
  BY <1>1
<1>4. /\ c \in Seq(Strings) /\ Len(c) = (IF m.flags[1] = 1 THEN 1 ELSE 0)
      /\ m.flags[1] = 1 => c[1] = m.userName
  BY <1>1
<1>5. /\ d \in Seq(Strings) /\ Len(d) = (IF m.flags[2] = 1 THEN 1 ELSE 0)
      /\ m.flags[2] = 1 => d[1] = m.password
  BY <1>1
<1>6. StringsOf(m) = ((a \o b) \o c) \o d
  BY DEF StringsOf
<1>. DEFINE ab == a \o b
            abc == ab \o c
            e == abc \o d
<1>. HIDE DEF a, b, c, d
<1>7. /\ ab \in Seq(Strings) /\ Len(ab) = u /\ ab[1] = m.clientId
      /\ m.flags[5] = 1 => ab[2] = m.willTopic /\ ab[3] = m.willMessage
  <2>1. /\ ab \in Seq(Strings) /\ Len(ab) = Len(a) + Len(b)
        /\ \A i \in 1 .. Len(a) + Len(b) : ab[i] = IF i <= Len(a) THEN a[i] ELSE b[i - Len(a)]
    BY <1>2, <1>3, ConcatProperties
  <2>. HIDE DEF ab
  <2>. QED  BY <1>2, <1>3, <2>1
<1>. HIDE DEF ab
<1>8. /\ abc \in Seq(Strings) /\ Len(abc) = v /\ \A i \in 1 .. u : abc[i] = ab[i]
      /\ m.flags[1] = 1 => abc[u + 1] = m.userName
  <2>1. /\ abc \in Seq(Strings) /\ Len(abc) = Len(ab) + Len(c)
        /\ \A i \in 1 .. Len(ab) + Len(c) : abc[i] = IF i <= Len(ab) THEN ab[i] ELSE c[i - Len(ab)]
    BY <1>4, <1>7, ConcatProperties
  <2>. HIDE DEF abc
  <2>. QED  BY <1>4, <1>7, <2>1
<1>. HIDE DEF abc
<1>9. /\ e \in Seq(Strings) /\ Len(e) = (IF m.flags[2] = 1 THEN v + 1 ELSE v)
      /\ \A i \in 1 .. v : e[i] = abc[i]
      /\ m.flags[2] = 1 => e[v + 1] = m.password
  <2>1. /\ e \in Seq(Strings) /\ Len(e) = Len(abc) + Len(d)
        /\ \A i \in 1 .. Len(abc) + Len(d) : e[i] = IF i <= Len(abc) THEN abc[i] ELSE d[i - Len(abc)]
    BY <1>5, <1>8, ConcatProperties
  <2>. HIDE DEF e
  <2>. QED  BY <1>5, <1>8, <2>1
<1>10. StringsOf(m) = e
  BY <1>6 DEF e, abc, ab
<1>. HIDE DEF e
<1>. QED  BY <1>7, <1>8, <1>9, <1>10

LEMMA ConnectType ==
  ASSUME NEW m, IsConnect(m)
  PROVE  /\ m.type = "CONNECT" /\ m.protoName \in Strings /\ m.protoVersion \in Byte
         /\ IsFlags(m.flags) /\ m.keepAlive \in Shorts /\ StringsOf(m) \in Seq(Strings)
         /\ m = [type |-> "CONNECT", protoName |-> m.protoName, protoVersion |-> m.protoVersion,
                 flags |-> m.flags, keepAlive |-> m.keepAlive, clientId |-> m.clientId,
                 willTopic |-> m.willTopic, willMessage |-> m.willMessage,
                 userName |-> m.userName, password |-> m.password]
<1>1. /\ m.type = "CONNECT" /\ m.protoName \in Strings /\ m.protoVersion \in Byte
      /\ IsFlags(m.flags) /\ m.keepAlive \in Shorts
      /\ m = [type |-> "CONNECT", protoName |-> m.protoName, protoVersion |-> m.protoVersion,
              flags |-> m.flags, keepAlive |-> m.keepAlive, clientId |-> m.clientId,
              willTopic |-> m.willTopic, willMessage |-> m.willMessage,
              userName |-> m.userName, password |-> m.password]
  BY DEF IsConnect, IsFlags
<1>. QED  BY <1>1, StringsInOrder

LEMMA ConnectParts ==
  ASSUME NEW m, IsConnect(m)
  PROVE  LET n == Len(m.protoName)
             t == FlattenSeq(StringPieces(StringsOf(m)))
         IN  /\ n \in Nat /\ StringBytes(m.protoName) \in Seq(Byte)
             /\ Len(StringBytes(m.protoName)) = n + 2
             /\ <<m.protoVersion>> \in Seq(Byte) /\ <<FlagsByte(m.flags)>> \in Seq(Byte)
             /\ ShortBytes(m.keepAlive) \in Seq(Byte)
             /\ ConnectToVersion(m) \in Seq(Byte) /\ Len(ConnectToVersion(m)) = n + 3
             /\ ConnectToFlags(m) \in Seq(Byte) /\ Len(ConnectToFlags(m)) = n + 4
             /\ ConnectToKeepAlive(m) \in Seq(Byte) /\ Len(ConnectToKeepAlive(m)) = n + 6
             /\ t \in Seq(Byte) /\ ConnectBody(m) \in Seq(Byte)
             /\ Len(ConnectBody(m)) = Remaining(m) /\ Remaining(m) \in Nat
<1>. DEFINE n == Len(m.protoName)
            a == StringBytes(m.protoName)
            v == <<m.protoVersion>>
            f == <<FlagsByte(m.flags)>>
            k == ShortBytes(m.keepAlive)
            pieces == StringPieces(StringsOf(m))
            t == FlattenSeq(pieces)
            tv == ConnectToVersion(m)
            tf == ConnectToFlags(m)
            tk == ConnectToKeepAlive(m)
<1>1. n \in Nat /\ a \in Seq(Byte) /\ Len(a) = n + 2
  <2>1. m.protoName \in Seq(Byte) /\ a \in Seq(Byte) /\ Len(a) = n + 2
    BY ConnectType, StringBytesIs
  <2>. QED  BY <2>1, LenProperties
<1>2. v \in Seq(Byte) /\ Len(v) = 1
  BY ConnectType
<1>3. f \in Seq(Byte) /\ Len(f) = 1
  <2>1. FlagsByte(m.flags) \in Byte
    BY ConnectType, FlagsType
  <2>. QED  BY <2>1
<1>4. k \in Seq(Byte) /\ Len(k) = 2
  BY ConnectType, ShortBytesType
<1>5. t \in Seq(Byte) /\ Len(t) \in Nat
  <2>1. pieces \in Seq(Seq(Byte))
    BY ConnectType, StringPiecesType
  <2>2. t \in Seq(Byte)
    BY <2>1, FlattenType
  <2>. QED  BY <2>2, LenProperties
<1>6. Remaining(m) = 6 + n + Len(t)
  <2>1. Remaining(m) = 6 + n + SumOf([i \in 1 .. Len(StringsOf(m)) |-> Len(StringsOf(m)[i]) + 2])
    BY ConnectType DEF Remaining
  <2>2. /\ pieces \in Seq(Seq(Byte)) /\ Len(pieces) = Len(StringsOf(m))
        /\ \A i \in 1 .. Len(StringsOf(m)) : Len(pieces[i]) = Len(StringsOf(m)[i]) + 2
    BY ConnectType, StringPiecesType
  <2>. HIDE DEF pieces
  <2>3. [i \in 1 .. Len(StringsOf(m)) |-> Len(StringsOf(m)[i]) + 2]
          = [i \in 1 .. Len(pieces) |-> Len(pieces[i])]
    BY <2>2
  <2>. QED  BY <2>1, <2>2, <2>3, SumOfPieces
<1>7. /\ tv = a \o v /\ tf = tv \o f /\ tk = tf \o k /\ ConnectBody(m) = tk \o t
  BY DEF ConnectBody, ConnectToKeepAlive, ConnectToFlags, ConnectToVersion
<1>. HIDE DEF n, a, v, f, k, t, tv, tf, tk
<1>8. tv \in Seq(Byte) /\ Len(tv) = n + 3
  <2>1. a \o v \in Seq(Byte) /\ Len(a \o v) = Len(a) + Len(v)
    BY <1>1, <1>2, ConcatProperties
  <2>. QED  BY <1>1, <1>2, <1>7, <2>1
<1>9. tf \in Seq(Byte) /\ Len(tf) = n + 4
  <2>1. tv \o f \in Seq(Byte) /\ Len(tv \o f) = Len(tv) + Len(f)
    BY <1>3, <1>8, ConcatProperties
  <2>. QED  BY <1>1, <1>3, <1>7, <1>8, <2>1
<1>10. tk \in Seq(Byte) /\ Len(tk) = n + 6
  <2>1. tf \o k \in Seq(Byte) /\ Len(tf \o k) = Len(tf) + Len(k)
    BY <1>4, <1>9, ConcatProperties
  <2>. QED  BY <1>1, <1>4, <1>7, <1>9, <2>1
<1>11. /\ ConnectBody(m) \in Seq(Byte) /\ Len(ConnectBody(m)) = Remaining(m)
       /\ Remaining(m) \in Nat
  <2>1. tk \o t \in Seq(Byte) /\ Len(tk \o t) = Len(tk) + Len(t)
    BY <1>5, <1>10, ConcatProperties
  <2>. QED  BY <1>1, <1>5, <1>6, <1>7, <1>10, <2>1
<1>. QED  BY <1>1, <1>2, <1>3, <1>4, <1>5, <1>8, <1>9, <1>10, <1>11
          DEF n, a, v, f, k, t, tv, tf, tk

LEMMA ConnectHeaderType ==
  ASSUME NEW m, IsConnect(m), Remaining(m) <= MaxRemaining
  PROVE  IsHeader(ConnectHeader(m))
<1>1. MaxRemaining \in Int
  BY SMT DEF MaxRemaining, MaxDigits
<1>2. Remaining(m) \in 0 .. MaxRemaining
  BY <1>1, ConnectParts
<1>3. TypeCode["CONNECT"] = 1
  BY DEF TypeCode
<1>. QED  BY <1>2, <1>3 DEF IsHeader, ConnectHeader

LEMMA WriteConnectIs ==
  ASSUME NEW m, IsConnect(m), Remaining(m) <= MaxRemaining
  PROVE  WriteConnect(m) = Frame(ConnectHeader(m), ConnectBody(m))
<1>. DEFINE w1 == WriteString(EmptyWriter, m.protoName)
            w2 == WriteByte(w1, m.protoVersion)
            w3 == WriteByte(w2, FlagsByte(m.flags))
            w4 == WriteShort(w3, m.keepAlive)
            rest == WriteMany(w4, StringPieces(StringsOf(m))).bytes
            header == [type |-> "CONNECT", dup |-> 0, qos |-> 0, retain |-> 0, remaining |-> Len(rest)]
            a == StringBytes(m.protoName)
            t == FlattenSeq(StringPieces(StringsOf(m)))
<1>1. WriteConnect(m) = WriteBytes(WriteHeader(EmptyWriter, header), rest).bytes
  BY DEF WriteConnect, FlagsByte, StringPieces
<1>2. /\ a \in Seq(Byte) /\ t \in Seq(Byte) /\ m.protoName \in Strings /\ m.protoVersion \in Byte
      /\ FlagsByte(m.flags) \in Byte /\ m.keepAlive \in Shorts
      /\ ConnectBody(m) \in Seq(Byte) /\ Len(ConnectBody(m)) = Remaining(m)
  BY ConnectType, ConnectParts, FlagsType
<1>3. rest = WriteBytes(w4, t).bytes
  BY DEF WriteMany
<1>. HIDE DEF t, rest
<1>4. w1 \in Writer /\ w1.bytes = a
  <2>1. w1 \in Writer /\ w1.bytes = <<>> \o a
    BY <1>2, EmptyWriterType, WriteStringIs
  <2>. HIDE DEF a
  <2>. QED  BY <1>2, <2>1, ConcatEmptySeq
<1>. HIDE DEF w1
<1>5. w2 \in Writer /\ w2.bytes = ConnectToVersion(m)
  BY <1>2, <1>4, WriteByteIs DEF ConnectToVersion
<1>. HIDE DEF w2
<1>6. w3 \in Writer /\ w3.bytes = ConnectToFlags(m)
  BY <1>2, <1>5, WriteByteIs DEF ConnectToFlags
<1>. HIDE DEF w3
<1>7. w4 \in Writer /\ w4.bytes = ConnectToKeepAlive(m)
  BY <1>2, <1>6, WriteShortIs DEF ConnectToKeepAlive
<1>. HIDE DEF w4
<1>8. rest = ConnectBody(m)
  <2>1. WriteBytes(w4, t).bytes = w4.bytes \o t
    BY <1>2, <1>7, WriteBytesIs
  <2>. QED  BY <1>3, <1>7, <2>1 DEF ConnectBody, t
<1>9. header = ConnectHeader(m)
  BY <1>2, <1>8 DEF ConnectHeader
<1>10. IsHeader(ConnectHeader(m))
  BY ConnectHeaderType
<1>. HIDE DEF header
<1>. QED  BY <1>1, <1>2, <1>8, <1>9, <1>10, FrameWritten

LEMMA ReadConnectIs ==
  ASSUME NEW m, IsConnect(m), Remaining(m) <= MaxRemaining
  PROVE  ReadConnect(Reader(Frame(ConnectHeader(m), ConnectBody(m)))) = m
<1>. DEFINE h == ConnectHeader(m)
            s == Frame(h, ConnectBody(m))
            q == BodyAt(h)
            c == FirstByte(h)
            n == Len(m.protoName)
            e == StringsOf(m)
            pieces == StringPieces(e)
            t == FlattenSeq(pieces)
            header == ReadHeader(Reader(s))
            name == ReadString(header.reader)
            version == ReadByte(name.reader)
            flags == ReadFlags(version.reader)
            keepAlive == ReadShort(flags.reader)
            clientId == ReadString(keepAlive.reader)
            willTopic == ReadIf(HasWill(flags.value), clientId.reader)
            willMessage == ReadIf(HasWill(flags.value), willTopic.reader)
            userName == ReadIf(HasUserName(flags.value), willMessage.reader)
            password == ReadIf(HasPassword(flags.value), userName.reader)
            b == FlagsByte(m.flags)
<1>1. ReadConnect(Reader(s))
        = [type |-> "CONNECT", protoName |-> name.value, protoVersion |-> version.value,
           flags |-> flags.value, keepAlive |-> keepAlive.value, clientId |-> clientId.value,
           willTopic |-> willTopic.value, willMessage |-> willMessage.value,
           userName |-> userName.value, password |-> password.value]
  BY DEF ReadConnect, ReadLogin
<1>2. /\ n \in Nat /\ StringBytes(m.protoName) \in Seq(Byte)
      /\ Len(StringBytes(m.protoName)) = n + 2
      /\ <<m.protoVersion>> \in Seq(Byte) /\ <<b>> \in Seq(Byte)
      /\ ShortBytes(m.keepAlive) \in Seq(Byte)
      /\ ConnectToVersion(m) \in Seq(Byte) /\ Len(ConnectToVersion(m)) = n + 3
      /\ ConnectToFlags(m) \in Seq(Byte) /\ Len(ConnectToFlags(m)) = n + 4
      /\ ConnectToKeepAlive(m) \in Seq(Byte) /\ Len(ConnectToKeepAlive(m)) = n + 6
      /\ t \in Seq(Byte) /\ ConnectBody(m) \in Seq(Byte)
  BY ConnectParts
<1>3. /\ m.protoName \in Strings /\ m.protoVersion \in Byte /\ m.keepAlive \in Shorts
      /\ IsFlags(m.flags) /\ e \in Seq(Strings)
      /\ b \in Byte
  BY ConnectType, FlagsType
<1>4. IsHeader(h)
  BY ConnectHeaderType
<1>. HIDE DEF n, t, b
<1>5. s \in Seq(Byte) /\ Has(s, q, ConnectBody(m)) /\ header = HeaderRead(h, ReaderAt(s, q, c, 8))
  <2>. HIDE DEF h
  <2>. QED  BY <1>2, <1>4, FrameRight
<1>6. c \in Byte
  <2>. HIDE DEF h
  <2>. QED  BY <1>4, HeaderByte
<1>. HIDE DEF s, h, q, c
<1>7. Has(s, q, ConnectToKeepAlive(m)) /\ Has(s, q + (n + 6), t)
  BY <1>2, <1>5, HasConcat DEF ConnectBody, t
<1>8. Has(s, q, ConnectToFlags(m)) /\ Has(s, q + (n + 4), ShortBytes(m.keepAlive))
  BY <1>2, <1>5, <1>7, HasConcat DEF ConnectToKeepAlive
<1>9. Has(s, q, ConnectToVersion(m)) /\ Has(s, q + (n + 3), <<b>>)
  BY <1>2, <1>5, <1>8, HasConcat DEF ConnectToFlags, b
<1>10. Has(s, q, StringBytes(m.protoName)) /\ Has(s, q + (n + 2), <<m.protoVersion>>)
  BY <1>2, <1>5, <1>9, HasConcat DEF ConnectToVersion
<1>11. q \in Nat
  BY <1>10 DEF Has
<1>12. header.reader = ReaderAt(s, q, c, 8)
  <2>. HIDE DEF header
  <2>. QED  BY <1>5 DEF HeaderRead
<1>. HIDE DEF header
<1>13. name.value = m.protoName /\ name.reader = ReaderAt(s, q + (n + 2), c, 8)
  <2>. DEFINE chars == m.protoName
  <2>1. chars \in Strings /\ Has(s, q, StringBytes(chars)) /\ Len(StringBytes(chars)) = n + 2
    BY <1>2, <1>3, <1>10
  <2>. HIDE DEF chars
  <2>2. ReadString(ReaderAt(s, q, c, 8))
          = [value |-> chars, reader |-> ReaderAt(s, q + Len(StringBytes(chars)), c, 8)]
    BY <1>5, <2>1, ReadStringHas
  <2>. QED  BY <1>12, <2>1, <2>2 DEF chars
<1>. HIDE DEF name
<1>14. version.value = m.protoVersion /\ version.reader = ReaderAt(s, q + (n + 3), c, 8)
  <2>. DEFINE x == m.protoVersion
              p == q + (n + 2)
  <2>1. x \in Byte /\ Has(s, p, <<x>>) /\ p + 1 = q + (n + 3)
    BY <1>2, <1>3, <1>10, <1>11
  <2>. HIDE DEF x, p
  <2>2. ReadByte(ReaderAt(s, p, c, 8)) = [value |-> x, reader |-> ReaderAt(s, p + 1, c, 8)]
    BY <1>5, <2>1, ReadByteHas
  <2>. QED  BY <1>13, <2>1, <2>2 DEF x, p
<1>. HIDE DEF version
<1>15. flags.value = m.flags /\ flags.reader = ReaderAt(s, q + (n + 4), b, 8)
  <2>. DEFINE x == m.flags
              p == q + (n + 3)
  <2>1. IsFlags(x) /\ Has(s, p, <<FlagsByte(x)>>) /\ p + 1 = q + (n + 4)
    BY <1>2, <1>3, <1>9, <1>11 DEF b
  <2>. HIDE DEF x, p
  <2>2. ReadFlags(ReaderAt(s, p, c, 8)) = [value |-> x, reader |-> ReaderAt(s, p + 1, FlagsByte(x), 8)]
    BY <1>5, <1>6, <2>1, ReadFlagsHas
  <2>. QED  BY <1>14, <2>1, <2>2 DEF x, p, b
<1>. HIDE DEF flags
<1>16. keepAlive.value = m.keepAlive /\ keepAlive.reader = ReaderAt(s, q + (n + 6), b, 8)
  <2>. DEFINE x == m.keepAlive
              p == q + (n + 4)
  <2>1. x \in Shorts /\ Has(s, p, ShortBytes(x)) /\ p + 2 = q + (n + 6)
    BY <1>2, <1>3, <1>8, <1>11
  <2>. HIDE DEF x, p
  <2>2. ReadShort(ReaderAt(s, p, b, 8)) = [value |-> x, reader |-> ReaderAt(s, p + 2, b, 8)]
    BY <1>5, <2>1, ReadShortHas
  <2>. QED  BY <1>15, <2>1, <2>2 DEF x, p
<1>. HIDE DEF keepAlive
<1>17. /\ clientId.value = m.clientId
       /\ willTopic.value = m.willTopic /\ willMessage.value = m.willMessage
       /\ userName.value = m.userName /\ password.value = m.password
  <2>. DEFINE p == q + (n + 6)
              R == Readers(s, p, b, pieces)
              f == m.flags
              u == IF f[5] = 1 THEN 3 ELSE 1
              v == IF f[1] = 1 THEN u + 1 ELSE u
  <2>1. Has(s, p, FlattenSeq(StringPieces(e)))
    BY <1>7 DEF t
  <2>2. pieces \in Seq(Seq(Byte))
    BY <1>3, StringPiecesType
  <2>3. /\ Len(e) = (IF f[2] = 1 THEN v + 1 ELSE v)
        /\ e[1] = m.clientId
        /\ f[5] = 1 => e[2] = m.willTopic /\ e[3] = m.willMessage
        /\ f[1] = 1 => e[u + 1] = m.userName
        /\ f[2] = 1 => e[v + 1] = m.password
    BY StringsInOrder
  <2>4. /\ f[1] \in 0 .. 1 /\ f[2] \in 0 .. 1 /\ f[5] \in 0 .. 1
        /\ f[5] = 0 => m.willTopic = <<>> /\ m.willMessage = <<>>
        /\ f[1] = 0 => m.userName = <<>>
        /\ f[2] = 0 => m.password = <<>>
    BY <1>3, FlagsType DEF IsConnect
  <2>. HIDE DEF p, e
  <2>5. \A i \in 1 .. Len(e) : ReadString(R[i - 1]) = [value |-> e[i], reader |-> R[i]]
    BY <1>3, <1>5, <2>1, StringsHave
  <2>6. R[0] = ReaderAt(s, p, b, 8)
    BY <1>5, <2>1, <2>2, ReadersAt
  <2>. HIDE DEF R
  <2>7. keepAlive.reader = R[0] /\ flags.value = f
    BY <1>15, <1>16, <2>6 DEF p
  <2>. HIDE DEF f
  <2>8. clientId.value = m.clientId /\ clientId.reader = R[1]
    <3>1. 1 \in 1 .. Len(e) /\ 1 - 1 = 0
      BY <2>3
    <3>2. ReadString(R[0]) = [value |-> e[1], reader |-> R[1]]
      BY <2>5, <3>1
    <3>. QED  BY <2>3, <2>7, <3>2
  <2>. HIDE DEF clientId
  <2>9. /\ willTopic.value = m.willTopic
        /\ willTopic.reader = IF f[5] = 1 THEN R[2] ELSE R[1]
    <3>1. CASE f[5] = 1
      <4>1. 2 \in 1 .. Len(e) /\ 2 - 1 = 1
        BY <2>3, <3>1
      <4>2. ReadString(R[1]) = [value |-> e[2], reader |-> R[2]]
        BY <2>5, <4>1
      <4>. QED  BY <2>3, <2>7, <2>8, <3>1, <4>2 DEF ReadIf, HasWill
    <3>2. CASE f[5] = 0
      BY <2>4, <2>7, <2>8, <3>2 DEF ReadIf, HasWill
    <3>. QED  BY <2>4, <3>1, <3>2
  <2>. HIDE DEF willTopic
  <2>10. willMessage.value = m.willMessage /\ willMessage.reader = R[u]
    <3>1. CASE f[5] = 1
      <4>1. 3 \in 1 .. Len(e) /\ 3 - 1 = 2
        BY <2>3, <3>1
      <4>2. ReadString(R[2]) = [value |-> e[3], reader |-> R[3]]
        BY <2>5, <4>1
      <4>. QED  BY <2>3, <2>7, <2>9, <3>1, <4>2 DEF ReadIf, HasWill
    <3>2. CASE f[5] = 0
      BY <2>4, <2>7, <2>9, <3>2 DEF ReadIf, HasWill
    <3>. QED  BY <2>4, <3>1, <3>2
  <2>. HIDE DEF willMessage
  <2>11. userName.value = m.userName /\ userName.reader = R[v]
    <3>1. CASE f[1] = 1
      <4>1. u + 1 \in 1 .. Len(e) /\ (u + 1) - 1 = u /\ v = u + 1
        BY <2>3, <3>1
      <4>2. ReadString(R[u]) = [value |-> e[u + 1], reader |-> R[u + 1]]
        <5>. HIDE DEF u, v
        <5>. QED  BY <2>5, <4>1
      <4>. QED  BY <2>3, <2>7, <2>10, <3>1, <4>1, <4>2 DEF ReadIf, HasUserName
    <3>2. CASE f[1] = 0
      BY <2>4, <2>7, <2>10, <3>2 DEF ReadIf, HasUserName
    <3>. QED  BY <2>4, <3>1, <3>2
  <2>. HIDE DEF userName
  <2>12. password.value = m.password
    <3>1. CASE f[2] = 1
      <4>1. v + 1 \in 1 .. Len(e) /\ (v + 1) - 1 = v
        BY <2>3, <3>1
      <4>2. ReadString(R[v]) = [value |-> e[v + 1], reader |-> R[v + 1]]
        <5>. HIDE DEF v
        <5>. QED  BY <2>5, <4>1
      <4>. QED  BY <2>3, <2>7, <2>11, <3>1, <4>2 DEF ReadIf, HasPassword
    <3>2. CASE f[2] = 0
      BY <2>4, <2>7, <2>11, <3>2 DEF ReadIf, HasPassword
    <3>. QED  BY <2>4, <3>1, <3>2
  <2>. QED  BY <2>8, <2>9, <2>10, <2>11, <2>12
<1>. HIDE DEF clientId, willTopic, willMessage, userName, password
<1>18. ReadConnect(Reader(s)) = m
  BY <1>1, <1>13, <1>14, <1>15, <1>16, <1>17, ConnectType
<1>. QED  BY <1>18 DEF s, h

-----------------------------------------------------------------------------
(* Every message is a fixed header and what is behind it.                  *)

Written(m) ==
  CASE m.type = "CONNECT" -> WriteConnect(m)
    [] m.type = "PINGREQ" -> <<192, 0>>
    [] m.type = "PUBLISH" -> WritePublish(m)
    [] OTHER              -> WriteRequest(m)

LEMMA PairIs ==
  ASSUME NEW S, NEW a \in S, NEW b \in S
  PROVE  <<a>> \o <<b>> = <<a, b>> /\ <<a, b>> \in Seq(S)
<1>1. <<a>> \in Seq(S) /\ <<a, b>> \in Seq(S)
  OBVIOUS
<1>2. Append(<<a>>, b) = <<a>> \o <<b>>
  BY <1>1, AppendTwo
<1>. DEFINE s == Append(<<a>>, b)
<1>3. s \in Seq(S) /\ Len(s) = 2 /\ s[1] = a /\ s[2] = b
  BY <1>1, AppendProperties
<1>. HIDE DEF s
<1>4. s = <<a, b>>
  BY <1>3
<1>. QED  BY <1>1, <1>2, <1>4 DEF s

LEMMA DigitsOfOne ==
  ASSUME NEW n \in 0 .. 127
  PROVE  n \in 0 .. MaxRemaining /\ Digits(n) = <<n>>
<1>1. MaxRemaining \in Nat /\ MaxRemaining >= 127
  BY SMT DEF MaxRemaining, MaxDigits
<1>2. n \in 0 .. MaxRemaining
  BY <1>1
<1>. QED  BY <1>2 DEF Digits

LEMMA MessageFrame ==
  ASSUME NEW m, IsMessage(m), Remaining(m) <= MaxRemaining
  PROVE  \E h, body :
           /\ IsHeader(h) /\ body \in Seq(Byte) /\ Len(body) = Remaining(m)
           /\ h.type = m.type /\ h.remaining = Remaining(m) /\ Written(m) = Frame(h, body)
<1>1. CASE IsConnect(m)
  <2>1. m.type = "CONNECT"
    BY <1>1, ConnectType
  <2>2. Written(m) = Frame(ConnectHeader(m), ConnectBody(m))
    BY <1>1, <2>1, WriteConnectIs DEF Written
  <2>3. IsHeader(ConnectHeader(m))
    BY <1>1, ConnectHeaderType
  <2>4. ConnectBody(m) \in Seq(Byte) /\ Len(ConnectBody(m)) = Remaining(m)
    BY <1>1, ConnectParts
  <2>5. ConnectHeader(m).type = m.type /\ ConnectHeader(m).remaining = Remaining(m)
    BY <2>1 DEF ConnectHeader
  <2>. QED  BY <2>2, <2>3, <2>4, <2>5
<1>2. CASE IsPublish(m)
  <2>1. m.type = "PUBLISH"
    BY <1>2, PublishType
  <2>2. Written(m) = Frame(PublishHeader(m), PublishBody(m))
    BY <1>2, <2>1, WritePublishIs DEF Written
  <2>3. IsHeader(PublishHeader(m))
    BY <1>2, PublishHeaderType
  <2>4. PublishBody(m) \in Seq(Byte) /\ Len(PublishBody(m)) = Remaining(m)
    BY <1>2, PublishLength
  <2>5. PublishHeader(m).type = m.type /\ PublishHeader(m).remaining = Remaining(m)
    BY <2>1 DEF PublishHeader
  <2>. QED  BY <2>2, <2>3, <2>4, <2>5
<1>3. CASE IsRequest(m)
  <2>1. m.type \in {"SUBSCRIBE", "UNSUBSCRIBE"}
    BY <1>3, RequestType
  <2>2. Written(m) = Frame(RequestHeader(m), RequestBody(m))
    <3>1. Written(m) = WriteRequest(m)
      BY <2>1 DEF Written
    <3>. QED  BY <1>3, <3>1, WriteRequestIs
  <2>3. /\ IsHeader(RequestHeader(m)) /\ RequestBody(m) \in Seq(Byte)
        /\ Len(RequestBody(m)) = Remaining(m)
    BY <1>3, RequestBodyType
  <2>4. RequestHeader(m).type = m.type /\ RequestHeader(m).remaining = Remaining(m)
    BY DEF RequestHeader
  <2>. QED  BY <2>2, <2>3, <2>4
<1>4. CASE m = [type |-> "PINGREQ"]
  <2>. DEFINE h == [type |-> "PINGREQ", dup |-> 0, qos |-> 0, retain |-> 0, remaining |-> 0]
  <2>1. m.type = "PINGREQ" /\ TypeCode["PINGREQ"] = 12
    BY <1>4 DEF TypeCode
  <2>2. Written(m) = <<192, 0>> /\ Remaining(m) = 0
    BY <2>1 DEF Written, Remaining
  <2>3. Digits(0) = <<0>> /\ 0 \in 0 .. MaxRemaining
    BY DigitsOfOne
  <2>4. IsHeader(h) /\ FirstByte(h) = 192 /\ h.remaining = 0 /\ h.type = m.type
    BY <2>1, <2>3 DEF IsHeader, FirstByte
  <2>5. <<>> \in Seq(Byte) /\ Len(<<>>) = 0
    BY EmptySeq
  <2>6. Frame(h, <<>>) = <<192, 0>>
    <3>. DEFINE s == <<192>> \o <<0>>
    <3>1. s = <<192, 0>> /\ s \in Seq(Byte)
      <4>1. 192 \in Byte /\ 0 \in Byte
        BY DEF Byte
      <4>3. <<192>> \o <<0>> = <<192, 0>> /\ <<192, 0>> \in Seq(Byte)
        BY <4>1, PairIs
      <4>. QED  BY <4>3
    <3>. HIDE DEF s
    <3>2. s \o <<>> = s
      BY <3>1, ConcatEmptySeq
    <3>3. Frame(h, <<>>) = s \o <<>>
      BY <2>3, <2>4 DEF Frame, s
    <3>. QED  BY <3>1, <3>2, <3>3
  <2>. HIDE DEF h
  <2>. QED  BY <2>2, <2>4, <2>5, <2>6
<1>. QED  BY <1>1, <1>2, <1>3, <1>4 DEF IsMessage, IsRequest

\* The type is found in the first four bits.
LEMMA TypesDiffer ==
  \A s, t \in DOMAIN TypeCode : TypeCode[s] = TypeCode[t] => s = t
BY DEF TypeCode

LEMMA MessageTypeIs ==
  ASSUME NEW m, IsMessage(m), Remaining(m) <= MaxRemaining
  PROVE  /\ GetMessageType(Written(m)) = m.type
         /\ m.type \in {"CONNECT", "PUBLISH", "SUBSCRIBE", "UNSUBSCRIBE", "PINGREQ"}
         /\ Written(m) \in Seq(Byte) /\ Written(m) # <<>>
<1>1. m.type \in {"CONNECT", "PUBLISH", "SUBSCRIBE", "UNSUBSCRIBE", "PINGREQ"}
  BY DEF IsMessage, IsConnect, IsPublish, IsSubscribe, IsUnsubscribe
<1>2. PICK h, body :
        /\ IsHeader(h) /\ body \in Seq(Byte) /\ h.type = m.type /\ Written(m) = Frame(h, body)
  BY MessageFrame
<1>. DEFINE w == Written(m)
<1>3. w \in Seq(Byte) /\ w # <<>> /\ w[1] = FirstByte(h)
  BY <1>2, FrameRight
<1>4. FirstByte(h) \div 16 = TypeCode[m.type]
  <2>. DEFINE t == TypeCode[h.type]
              d == h.dup
              q == h.qos
              r == h.retain
  <2>1. /\ t \in 0 .. 15 /\ d \in 0 .. 1 /\ q \in 0 .. 3 /\ r \in 0 .. 1
        /\ FirstByte(h) = 16 * t + 8 * d + 2 * q + r
    BY <1>2 DEF IsHeader, FirstByte
  <2>. HIDE DEF t, d, q, r
  <2>2. (16 * t + 8 * d + 2 * q + r) \div 16 = t
    BY <2>1
  <2>. QED  BY <1>2, <2>1, <2>2 DEF t
<1>5. m.type \in DOMAIN TypeCode
  BY <1>1 DEF TypeCode
<1>. HIDE DEF w
<1>. DEFINE P(t) == TypeCode[t] = w[1] \div 16
            type == CHOOSE t \in DOMAIN TypeCode : P(t)
<1>6. GetMessageType(w) = type
  BY DEF GetMessageType
<1>7. P(m.type)
  BY <1>3, <1>4
<1>8. type \in DOMAIN TypeCode /\ P(type)
  <2>. HIDE DEF P
  <2>. QED  BY <1>5, <1>7, Zenon
<1>. HIDE DEF type
<1>9. type = m.type
  BY <1>5, <1>7, <1>8, TypesDiffer
<1>. QED  BY <1>1, <1>3, <1>6, <1>9 DEF w

\* What is taken up of the bytes of a message.
Taking(s) ==
  LET type == GetMessageType(s)
  IN  CASE type = "CONNECT" -> ReadConnect(Reader(s))
        [] type = "PINGREQ" -> [type |-> type]
        [] type = "PUBLISH" -> ReadPublish(Reader(s))
        [] OTHER            -> ReadRequest(type, Reader(s))

TakenOf(m) == IF m.type = "PUBLISH" /\ m.qos # 0 /\ Remaining(m) < 7 THEN WithoutId(m) ELSE m

LEMMA TakingIs ==
  ASSUME NEW m, IsMessage(m), Remaining(m) <= MaxRemaining
  PROVE  Taking(Written(m)) = TakenOf(m) /\ IsMessage(TakenOf(m)) /\ TakenOf(m).type = m.type
<1>0. GetMessageType(Written(m)) = m.type
  BY MessageTypeIs
<1>1. CASE IsConnect(m)
  <2>1. m.type = "CONNECT"
    BY <1>1, ConnectType
  <2>2. Written(m) = Frame(ConnectHeader(m), ConnectBody(m))
    BY <1>1, <2>1, WriteConnectIs DEF Written
  <2>3. Taking(Written(m)) = ReadConnect(Reader(Written(m)))
    BY <1>0, <2>1 DEF Taking
  <2>4. TakenOf(m) = m
    BY <2>1 DEF TakenOf
  <2>. QED  BY <1>1, <2>2, <2>3, <2>4, ReadConnectIs
<1>2. CASE IsPublish(m)
  <2>1. m.type = "PUBLISH"
    BY <1>2, PublishType
  <2>2. Written(m) = Frame(PublishHeader(m), PublishBody(m))
    BY <1>2, <2>1, WritePublishIs DEF Written
  <2>3. Taking(Written(m)) = ReadPublish(Reader(Written(m)))
    BY <1>0, <2>1 DEF Taking
  <2>4. Taking(Written(m)) = TakenOf(m)
    BY <1>2, <2>1, <2>2, <2>3, ReadPublishIs DEF TakenOf
  <2>5. CASE m.qos # 0 /\ Remaining(m) < 7
    <3>1. TakenOf(m) = WithoutId(m)
      BY <2>1, <2>5 DEF TakenOf
    <3>2. IdOf(m) \o m.payload \in Seq(Byte)
      BY <1>2, IdOfType, PublishType, ConcatProperties
    <3>. DEFINE p == IdOf(m) \o m.payload
                t == [type |-> "PUBLISH", dup |-> m.dup, qos |-> m.qos, retain |-> m.retain,
                      topic |-> m.topic, payload |-> p, msgId |-> 0]
    <3>3. 0 \in Shorts
      <4>1. 0 <= 65535
        BY SMT
      <4>. DEFINE k == 65535
      <4>2. k \in Nat /\ 0 <= k /\ Shorts = 0 .. k
        BY <4>1, SMT DEF Shorts
      <4>. HIDE DEF k
      <4>. QED  BY <4>2
    <3>4. p \in Seq(Byte)
      BY <3>2
    <3>. HIDE DEF p
    <3>5. IsPublish(t) /\ t.type = "PUBLISH"
      BY <1>2, <3>3, <3>4, PublishType DEF IsPublish
    <3>6. WithoutId(m) = t
      BY DEF WithoutId, p
    <3>. HIDE DEF t
    <3>. QED  BY <2>1, <2>4, <3>1, <3>5, <3>6 DEF IsMessage
  <2>6. CASE ~(m.qos # 0 /\ Remaining(m) < 7)
    <3>1. TakenOf(m) = m
      BY <2>6 DEF TakenOf
    <3>. QED  BY <2>4, <3>1
  <2>. QED  BY <2>5, <2>6
<1>3. CASE IsRequest(m)
  <2>1. m.type \in {"SUBSCRIBE", "UNSUBSCRIBE"}
    BY <1>3, RequestType
  <2>2. Written(m) = Frame(RequestHeader(m), RequestBody(m))
    <3>1. Written(m) = WriteRequest(m)
      BY <2>1 DEF Written
    <3>. QED  BY <1>3, <3>1, WriteRequestIs
  <2>3. Taking(Written(m)) = ReadRequest(m.type, Reader(Written(m)))
    BY <1>0, <2>1 DEF Taking
  <2>4. TakenOf(m) = m
    BY <2>1 DEF TakenOf
  <2>. QED  BY <1>3, <2>2, <2>3, <2>4, ReadRequestIs
<1>4. CASE m = [type |-> "PINGREQ"]
  <2>1. m.type = "PINGREQ"
    BY <1>4
  <2>2. Taking(Written(m)) = [type |-> "PINGREQ"]
    BY <1>0, <2>1 DEF Taking
  <2>3. TakenOf(m) = m
    BY <2>1 DEF TakenOf
  <2>. QED  BY <1>4, <2>2, <2>3
<1>. QED  BY <1>1, <1>2, <1>3, <1>4 DEF IsMessage, IsRequest

-----------------------------------------------------------------------------
(* The answers.                                                            *)

AnswerHeader(ack, n) == [type |-> ack, dup |-> 0, qos |-> 0, retain |-> 0, remaining |-> n]

\* Bytes with the header of such an answer, and how they are read.
IsAnswer(ack, code, b, n, body, s) ==
  /\ ack \in DOMAIN TypeCode /\ code = TypeCode[ack] /\ b = 16 * code /\ n \in 0 .. 127
  /\ body \in Seq(Byte) /\ s = <<b, n>> \o body

AnswerStarts(code, b, n, body, s) ==
  /\ s \in Seq(Byte) /\ s # <<>> /\ Len(s) = 2 + Len(body) /\ Len(body) \in Nat
  /\ ReadHeader(Reader(s)).value.type = code /\ ReadHeader(Reader(s)).value.remaining = n
  /\ ReadHeader(Reader(s)).reader = ReaderAt(s, 3, b, 8)
  /\ Has(s, 3, body)

LEMMA AnswerFrame ==
  ASSUME NEW ack, NEW code, NEW b, NEW n, NEW body, NEW s, IsAnswer(ack, code, b, n, body, s)
  PROVE  AnswerStarts(code, b, n, body, s)
<1>0. /\ ack \in DOMAIN TypeCode /\ code = TypeCode[ack] /\ b = 16 * code /\ n \in 0 .. 127
      /\ body \in Seq(Byte) /\ s = <<b, n>> \o body
  BY DEF IsAnswer
<1>. DEFINE h == AnswerHeader(ack, n)
            header == ReadHeader(Reader(s))
            digits == Digits(n)
<1>1. code \in 0 .. 15
  BY <1>0 DEF TypeCode
<1>2. b \in Byte /\ n \in Byte
  <2>1. b \in Int /\ 0 <= b /\ b <= 255
    BY SMTT(30), <1>0, <1>1
  <2>2. n \in Int /\ 0 <= n /\ n <= 255
    BY <1>0
  <2>3. b \in Byte
    BY <2>1 DEF Byte
  <2>4. n \in Byte
    BY <2>2 DEF Byte
  <2>. QED  BY <2>3, <2>4
<1>3. digits = <<n>> /\ n \in 0 .. MaxRemaining
  BY <1>0, DigitsOfOne
<1>4. Len(digits) = 1
  BY <1>3
<1>5. /\ IsHeader(h) /\ FirstByte(h) = b /\ h.remaining = n /\ h.type = ack
      /\ TypeCode[h.type] = code
  <2>1. h = [type |-> ack, dup |-> 0, qos |-> 0, retain |-> 0, remaining |-> n]
    BY DEF AnswerHeader
  <2>. HIDE DEF h
  <2>2. h.type = ack /\ h.dup = 0 /\ h.qos = 0 /\ h.retain = 0 /\ h.remaining = n
    BY <2>1
  <2>3. FirstByte(h) = 16 * code
    BY <1>0, <1>1, <2>2 DEF FirstByte
  <2>4. IsHeader(h)
    <3>1. 0 \in 0 .. 1 /\ 0 \in 0 .. 2 /\ 0 \in 0 .. 3
      OBVIOUS
    <3>. QED  BY <1>0, <1>1, <1>3, <2>2, <3>1 DEF IsHeader
  <2>. QED  BY <1>0, <2>2, <2>3, <2>4
<1>. HIDE DEF h
<1>6. <<b>> \o digits = <<b, n>>
  <2>1. <<b>> \o <<n>> = <<b, n>>
    BY <1>2, PairIs
  <2>. QED  BY <1>3, <2>1
<1>7. Frame(h, body) = s
  BY <1>0, <1>5, <1>6 DEF Frame
<1>8. BodyAt(h) = 3
  <2>. HIDE DEF digits
  <2>1. Digits(h.remaining) = digits
    BY <1>5 DEF digits
  <2>2. BodyAt(h) = 2 + Len(digits)
    BY <2>1 DEF BodyAt
  <2>. QED  BY <1>4, <2>2
<1>9. /\ s \in Seq(Byte) /\ s # <<>> /\ Len(s) = 1 + Len(Digits(h.remaining)) + Len(body)
      /\ Has(s, 3, body) /\ header = HeaderRead(h, ReaderAt(s, 3, b, 8))
  BY <1>0, <1>5, <1>7, <1>8, FrameRight
<1>10. header.value.type = code /\ header.value.remaining = n /\ header.reader = ReaderAt(s, 3, b, 8)
  <2>. HIDE DEF header
  <2>. QED  BY <1>5, <1>9 DEF HeaderRead
<1>11. Len(body) \in Nat /\ Len(s) = 2 + Len(body)
  <2>1. Len(Digits(h.remaining)) = 1
    BY <1>4, <1>5
  <2>2. Len(body) \in Nat
    BY <1>0, LenProperties
  <2>. QED  BY <1>9, <2>1, <2>2
<1>. QED  BY <1>9, <1>10, <1>11 DEF AnswerStarts

LEMMA FourIs ==
  ASSUME NEW S, NEW a \in S, NEW b \in S, NEW c \in S, NEW d \in S
  PROVE  <<a, b>> \o <<c, d>> = <<a, b, c, d>>
<1>. DEFINE u == <<a, b>>
            v == <<c, d>>
            t == u \o v
<1>1. /\ u \in Seq(S) /\ v \in Seq(S) /\ Len(u) = 2 /\ Len(v) = 2
      /\ u[1] = a /\ u[2] = b /\ v[1] = c /\ v[2] = d
  OBVIOUS
<1>. HIDE DEF u, v
<1>2. /\ t \in Seq(S) /\ Len(t) = Len(u) + Len(v)
      /\ \A i \in 1 .. Len(u) + Len(v) : t[i] = IF i <= Len(u) THEN u[i] ELSE v[i - Len(u)]
  BY <1>1, ConcatProperties
<1>. HIDE DEF t
<1>3. Len(t) = 4 /\ t[1] = a /\ t[2] = b /\ t[3] = c /\ t[4] = d
  BY <1>1, <1>2
<1>4. t = [i \in 1 .. 4 |-> t[i]]
  <2>1. t \in Seq(S)
    BY <1>2
  <2>. QED  BY <1>3, <2>1, LenProperties
<1>5. t = <<a, b, c, d>>
  <2>1. \A i \in 1 .. 4 : t[i] = <<a, b, c, d>>[i]
    BY <1>3
  <2>2. <<a, b, c, d>> = [i \in 1 .. 4 |-> <<a, b, c, d>>[i]]
    OBVIOUS
  <2>. QED  BY <1>4, <2>1, <2>2
<1>. QED  BY <1>5 DEF t, u, v

\* An answer says what it is, as long as it is, and what it answers.
Answers(m, s) ==
  LET a == ReadAnswer(Reader(s))
  IN  /\ s \in Seq(Byte) /\ s # <<>>
      /\ a.header.type = TypeCode[m.type] + 1
      /\ a.header.remaining = Len(s) - 2
      /\ m.type = "CONNECT" => a.body.code = 0
      /\ m.type \in {"SUBSCRIBE", "UNSUBSCRIBE"} => a.body.msgId = m.msgId

LEMMA AnswerIs ==
  ASSUME NEW m, IsMessage(m), m.type # "PUBLISH"
  PROVE  Answers(m, Answer(m))
<1>0. /\ TypeCode["CONNECT"] = 1 /\ TypeCode["CONNACK"] = 2 /\ TypeCode["SUBSCRIBE"] = 8
      /\ TypeCode["SUBACK"] = 9 /\ TypeCode["UNSUBSCRIBE"] = 10 /\ TypeCode["UNSUBACK"] = 11
      /\ TypeCode["PINGREQ"] = 12 /\ TypeCode["PINGRESP"] = 13
      /\ "CONNACK" \in DOMAIN TypeCode /\ "SUBACK" \in DOMAIN TypeCode
      /\ "UNSUBACK" \in DOMAIN TypeCode /\ "PINGRESP" \in DOMAIN TypeCode
  BY DEF TypeCode
<1>1. 0 \in Byte /\ 2 \in Byte /\ 3 \in Byte /\ 32 \in Byte
  BY DEF Byte
<1>. DEFINE s == Answer(m)
            header == ReadHeader(Reader(s))
            code == header.value.type
<1>2. ReadAnswer(Reader(s))
        = [header |-> header.value,
           body   |-> CASE code = 2 -> ReadConnack(header.reader)
                        [] code = 9 -> ReadSuback(header.reader)
                        [] code = 11 -> ReadUnsuback(header.reader)
                        [] code = 13 -> [nothing |-> 0]]
  BY <1>0 DEF ReadAnswer
<1>3. CASE m.type = "CONNECT"
  <2>. DEFINE body == <<0, 0>>
  <2>1. s = <<16 * TypeCode["CONNACK"], 2>> \o body /\ body \in Seq(Byte) /\ Len(body) = 2
    <3>1. s = <<32, 2, 0, 0>> /\ 16 * 2 = 32
      BY <1>3 DEF Answer
    <3>2. <<32, 2>> \o <<0, 0>> = <<32, 2, 0, 0>>
      BY <1>1, FourIs
    <3>3. body \in Seq(Byte)
      BY <1>1, PairIs
    <3>. QED  BY <1>0, <3>1, <3>2, <3>3
  <2>. HIDE DEF s, body
  <2>2. /\ s \in Seq(Byte) /\ s # <<>> /\ Len(s) = 4 /\ header.value.type = 2
        /\ header.value.remaining = 2 /\ header.reader = ReaderAt(s, 3, 32, 8) /\ Has(s, 3, body)
    <3>1. IsAnswer("CONNACK", 2, 32, 2, body, s)
      BY <1>0, <2>1 DEF IsAnswer
    <3>2. /\ s \in Seq(Byte) /\ s # <<>> /\ Len(s) = 2 + Len(body)
          /\ ReadHeader(Reader(s)).value.type = 2 /\ ReadHeader(Reader(s)).value.remaining = 2
          /\ ReadHeader(Reader(s)).reader = ReaderAt(s, 3, 32, 8)
          /\ Has(s, 3, body)
      BY <3>1, AnswerFrame DEF AnswerStarts
    <3>. QED  BY <2>1, <3>2
  <2>3. ReadAnswer(Reader(s)) = [header |-> header.value, body |-> ReadConnack(header.reader)]
    BY <1>2, <2>2
  <2>. HIDE DEF header
  <2>4. ReadConnack(header.reader).code = 0
    <3>. DEFINE a == <<0>>
    <3>1. body = a \o a /\ a \in Seq(Byte) /\ Len(a) = 1
      BY <1>1, PairIs DEF body
    <3>. HIDE DEF a
    <3>2. Has(s, 3, a) /\ Has(s, 3 + 1, a)
      BY <2>2, <3>1, HasConcat
    <3>3. /\ ReadByte(ReaderAt(s, 3, 32, 8)) = [value |-> 0, reader |-> ReaderAt(s, 3 + 1, 32, 8)]
          /\ ReadByte(ReaderAt(s, 3 + 1, 32, 8))
               = [value |-> 0, reader |-> ReaderAt(s, (3 + 1) + 1, 32, 8)]
      BY <1>1, <2>2, <3>2, ReadByteHas DEF a
    <3>. QED  BY <2>2, <3>3 DEF ReadConnack
  <2>5. Answers(m, s)
    BY <1>0, <1>3, <2>2, <2>3, <2>4 DEF Answers
  <2>. QED  BY <2>5 DEF s
<1>4. CASE m.type = "PINGREQ"
  <2>. DEFINE body == <<>>
  <2>1. s = <<16 * TypeCode["PINGRESP"], 0>> \o body /\ body \in Seq(Byte) /\ Len(body) = 0
    <3>1. s = <<208, 0>> /\ 16 * 13 = 208 /\ 208 \in Byte
      BY <1>4 DEF Answer, Byte
    <3>. DEFINE t == <<208, 0>>
    <3>2. t \in Seq(Byte)
      BY <1>1, <3>1, PairIs
    <3>. HIDE DEF t
    <3>3. t \o <<>> = t
      BY <3>2, ConcatEmptySeq
    <3>4. <<>> \in Seq(Byte)
      BY EmptySeq
    <3>. QED  BY <1>0, <3>1, <3>3, <3>4 DEF t
  <2>. HIDE DEF s, body
  <2>2. /\ s \in Seq(Byte) /\ s # <<>> /\ Len(s) = 2 /\ header.value.type = 13
        /\ header.value.remaining = 0
    <3>1. IsAnswer("PINGRESP", 13, 208, 0, body, s)
      BY <1>0, <2>1 DEF IsAnswer
    <3>2. /\ s \in Seq(Byte) /\ s # <<>> /\ Len(s) = 2 + Len(body)
          /\ ReadHeader(Reader(s)).value.type = 13 /\ ReadHeader(Reader(s)).value.remaining = 0
          /\ ReadHeader(Reader(s)).reader = ReaderAt(s, 3, 208, 8)
          /\ Has(s, 3, body)
      BY <3>1, AnswerFrame DEF AnswerStarts
    <3>. QED  BY <2>1, <3>2
  <2>3. ReadAnswer(Reader(s)).header = header.value
    BY <1>2
  <2>. HIDE DEF header
  <2>4. Answers(m, s)
    BY <1>0, <1>4, <2>2, <2>3 DEF Answers
  <2>. QED  BY <2>4 DEF s
<1>5. CASE IsRequest(m)
  <2>. DEFINE id == ShortBytes(m.msgId)
  <2>0. id \in Seq(Byte) /\ Len(id) = 2 /\ m.msgId \in Shorts /\ IdBytes(m.msgId) = id
    BY <1>5, RequestType, ShortBytesType DEF IdBytes, ShortBytes
  <2>1. CASE m.type = "SUBSCRIBE"
    <3>. DEFINE z == <<0>>
                u == <<144, 3>>
                body == id \o z
    <3>1. z \in Seq(Byte) /\ Len(z) = 1 /\ u \in Seq(Byte) /\ 16 * 9 = 144
      <4>1. 144 \in Byte
        BY DEF Byte
      <4>2. u \in Seq(Byte)
        BY <1>1, <4>1, PairIs
      <4>. QED  BY <1>1, <4>2
    <3>2. s = (u \o id) \o z
      BY <2>0, <2>1 DEF Answer
    <3>3. s = <<16 * TypeCode["SUBACK"], 3>> \o body /\ body \in Seq(Byte) /\ Len(body) = 3
      <4>. HIDE DEF z, u, id, s
      <4>1. (u \o id) \o z = u \o (id \o z)
        BY <2>0, <3>1, ConcatAssociative
      <4>0. id \in Seq(Byte) /\ z \in Seq(Byte)
        BY <2>0, <3>1
      <4>2. id \o z \in Seq(Byte) /\ Len(id \o z) = Len(id) + Len(z)
        BY <4>0, ConcatProperties
      <4>. QED  BY <1>0, <2>0, <3>1, <3>2, <4>1, <4>2 DEF u
    <3>. HIDE DEF s, z, u, id
    <3>4. Has(s, 3, id) /\ s \in Seq(Byte) /\ s # <<>> /\ Len(s) = 5 /\ header.value.type = 9
          /\ header.value.remaining = 3 /\ header.reader = ReaderAt(s, 3, 144, 8)
      <4>. HIDE DEF body
      <4>1. IsAnswer("SUBACK", 9, 144, 3, body, s)
        BY <1>0, <3>3 DEF IsAnswer
      <4>2. /\ s \in Seq(Byte) /\ s # <<>> /\ Len(s) = 2 + Len(body)
            /\ ReadHeader(Reader(s)).value.type = 9 /\ ReadHeader(Reader(s)).value.remaining = 3
            /\ ReadHeader(Reader(s)).reader = ReaderAt(s, 3, 144, 8)
            /\ Has(s, 3, body)
        BY <4>1, AnswerFrame DEF AnswerStarts
      <4>3. /\ s \in Seq(Byte) /\ s # <<>> /\ Len(s) = 5 /\ header.value.type = 9
            /\ header.value.remaining = 3 /\ header.reader = ReaderAt(s, 3, 144, 8)
            /\ Has(s, 3, body)
        BY <3>1, <3>3, <4>2
      <4>4. Has(s, 3, id \o z)
        BY <4>3 DEF body
      <4>5. Has(s, 3, id)
        BY <2>0, <3>1, <4>3, <4>4, HasConcat
      <4>. QED  BY <4>3, <4>5
    <3>5. ReadAnswer(Reader(s)) = [header |-> header.value, body |-> ReadSuback(header.reader)]
      BY <1>2, <3>4
    <3>. HIDE DEF header
    <3>6. ReadSuback(header.reader).msgId = m.msgId
      <4>1. ReadShort(ReaderAt(s, 3, 144, 8)) = [value |-> m.msgId, reader |-> ReaderAt(s, 3 + 2, 144, 8)]
        BY <2>0, <3>4, ReadShortHas DEF id
      <4>. QED  BY <3>4, <4>1 DEF ReadSuback
    <3>7. Answers(m, s)
      BY <1>0, <2>1, <3>4, <3>5, <3>6 DEF Answers
    <3>. QED  BY <3>7 DEF s
  <2>2. CASE m.type = "UNSUBSCRIBE"
    <3>1. s = <<16 * TypeCode["UNSUBACK"], 2>> \o id /\ 16 * 11 = 176
      BY <1>0, <2>0, <2>2 DEF Answer
    <3>. HIDE DEF s, id
    <3>2. /\ s \in Seq(Byte) /\ s # <<>> /\ Len(s) = 4 /\ header.value.type = 11
          /\ header.value.remaining = 2 /\ header.reader = ReaderAt(s, 3, 176, 8) /\ Has(s, 3, id)
      <4>1. IsAnswer("UNSUBACK", 11, 176, 2, id, s)
        BY <1>0, <2>0, <3>1 DEF IsAnswer
      <4>2. /\ s \in Seq(Byte) /\ s # <<>> /\ Len(s) = 2 + Len(id)
            /\ ReadHeader(Reader(s)).value.type = 11 /\ ReadHeader(Reader(s)).value.remaining = 2
            /\ ReadHeader(Reader(s)).reader = ReaderAt(s, 3, 176, 8)
            /\ Has(s, 3, id)
        BY <4>1, AnswerFrame DEF AnswerStarts
      <4>. QED  BY <2>0, <3>1, <4>2
    <3>3. ReadAnswer(Reader(s)) = [header |-> header.value, body |-> ReadUnsuback(header.reader)]
      BY <1>2, <3>2
    <3>. HIDE DEF header
    <3>4. ReadUnsuback(header.reader).msgId = m.msgId
      <4>1. ReadShort(ReaderAt(s, 3, 176, 8)) = [value |-> m.msgId, reader |-> ReaderAt(s, 3 + 2, 176, 8)]
        BY <2>0, <3>2, ReadShortHas DEF id
      <4>. QED  BY <3>2, <4>1 DEF ReadUnsuback
    <3>5. Answers(m, s)
      BY <1>0, <2>2, <3>2, <3>3, <3>4 DEF Answers
    <3>. QED  BY <3>5 DEF s
  <2>. QED  BY <1>5, <2>1, <2>2, RequestType
<1>6. m.type = "CONNECT" \/ m.type = "PINGREQ" \/ IsRequest(m)
  BY DEF IsMessage, IsConnect, IsPublish, IsRequest
<1>. QED  BY <1>3, <1>4, <1>5, <1>6

-----------------------------------------------------------------------------
(* The specification.                                                      *)

\* All that a step may have done: what was written is the message's bytes, what
\* was taken is what they say, and the answer is that to what was taken.
IInv ==
  /\ sent \in Message
  /\ bytes # <<>> => bytes = Written(sent)
  /\ taken # Nothing => bytes # <<>> /\ taken = TakenOf(sent)
  /\ answer # <<>> => taken # Nothing /\ taken.type # "PUBLISH" /\ answer = Answer(taken)

\* What IInv says of a message in Message, and of what is taken of it.
LEMMA MessageIs ==
  ASSUME NEW m \in Message
  PROVE  /\ IsMessage(m) /\ Remaining(m) <= MaxRemaining
         /\ Written(m) \in Seq(Byte) /\ Written(m) # <<>>
         /\ Taking(Written(m)) = TakenOf(m) /\ IsMessage(TakenOf(m)) /\ TakenOf(m).type = m.type
<1>1. IsMessage(m) /\ Remaining(m) <= MaxRemaining
  BY MessageAssumption
<1>. QED  BY <1>1, MessageTypeIs, TakingIs

LEMMA InitInv == Init => IInv
BY DEF Init, IInv

LEMMA Invariance == IInv /\ [Next]_vars => IInv'
<1>. SUFFICES ASSUME IInv, [Next]_vars
              PROVE  IInv'
  OBVIOUS
<1>1. CASE Write
  <2>1. bytes' = Written(sent) /\ bytes = <<>> /\ UNCHANGED <<sent, taken, answer>>
    BY <1>1 DEF Write, Written
  <2>2. taken = Nothing /\ answer = <<>>
    BY <2>1 DEF IInv
  <2>. QED  BY <2>1, <2>2 DEF IInv
<1>2. CASE Take
  <2>1. bytes # <<>> /\ taken = Nothing /\ taken' = Taking(bytes) /\ UNCHANGED <<sent, bytes, answer>>
    BY <1>2 DEF Take, Taking
  <2>2. sent \in Message /\ bytes = Written(sent) /\ answer = <<>>
    BY <2>1 DEF IInv
  <2>3. taken' = TakenOf(sent)
    BY <2>1, <2>2, MessageIs
  <2>. QED  BY <2>1, <2>2, <2>3 DEF IInv
<1>3. CASE Reply
  <2>1. /\ taken # Nothing /\ taken.type # "PUBLISH" /\ answer' = Answer(taken)
        /\ UNCHANGED <<sent, bytes, taken>>
    BY <1>3 DEF Reply
  <2>. QED  BY <2>1 DEF IInv
<1>4. CASE UNCHANGED vars
  BY <1>4 DEF vars, IInv
<1>. QED  BY <1>1, <1>2, <1>3, <1>4 DEF Next

THEOREM MessagesInductive == Spec => []IInv
<1>. QED  BY InitInv, Invariance, PTL DEF Spec

\* What is taken of a message that is no PUBLISH is the message, and its answer is
\* the one to the message.
LEMMA TakenAsSent ==
  ASSUME IInv, taken # Nothing, sent.type # "PUBLISH"
  PROVE  taken = sent
BY DEF IInv, TakenOf

LEMMA AnsweredAsSent ==
  ASSUME IInv, answer # <<>>
  PROVE  IsMessage(sent) /\ sent.type # "PUBLISH" /\ answer = Answer(sent) /\ Answers(sent, answer)
<1>1. sent \in Message /\ taken # Nothing /\ taken.type # "PUBLISH" /\ taken = TakenOf(sent)
      /\ answer = Answer(taken)
  BY DEF IInv
<1>2. IsMessage(sent) /\ TakenOf(sent).type = sent.type
  BY <1>1, MessageIs
<1>3. sent.type # "PUBLISH"
  BY <1>1, <1>2
<1>4. taken = sent
  BY <1>1, <1>3, TakenAsSent
<1>. QED  BY <1>1, <1>2, <1>3, <1>4, AnswerIs

LEMMA TypeInv == IInv => TypeOK
<1>. SUFFICES ASSUME IInv
              PROVE  TypeOK
  OBVIOUS
<1>1. sent \in Message
  BY DEF IInv
<1>2. bytes \in Seq(Byte)
  <2>1. CASE bytes = <<>>
    BY <2>1, EmptySeq
  <2>2. CASE bytes # <<>>
    <3>1. bytes = Written(sent)
      BY <2>2 DEF IInv
    <3>. QED  BY <1>1, <3>1, MessageIs
  <2>. QED  BY <2>1, <2>2
<1>3. taken # Nothing => bytes # <<>> /\ IsMessage(taken)
  <2>1. taken # Nothing => bytes # <<>> /\ taken = TakenOf(sent)
    BY DEF IInv
  <2>. QED  BY <1>1, <2>1, MessageIs
<1>4. answer \in Seq(Byte)
  <2>1. CASE answer = <<>>
    BY <2>1, EmptySeq
  <2>2. CASE answer # <<>>
    BY <2>2, AnsweredAsSent DEF Answers
  <2>. QED  BY <2>1, <2>2
<1>. QED  BY <1>1, <1>2, <1>3, <1>4 DEF TypeOK

\* What the server takes up, and what it answers, is always bytes or a message as
\* MQTT has them, for all messages clients may write.
THEOREM MessagesTypeCorrect == Spec => []TypeOK
BY MessagesInductive, TypeInv, PTL

\* However many topics a SUBSCRIBE or UNSUBSCRIBE has, and however many bytes its
\* length takes, it is read as it was written: the loop of grainRawArray ends
\* where the message does.  A CONNECT is read with each of its strings in its own
\* member, whichever of them its flags say are there.
THEOREM RequestsReadBack == Spec => []RequestReadBack
<1>1. IInv => RequestReadBack
  BY TakenAsSent DEF RequestReadBack
<1>. QED  BY <1>1, MessagesInductive, PTL

\* Every answer newMessage writes by hand is one MqttConnack, MqttSuback,
\* MqttUnsuback or the header of a PINGRESP reads as the answer to the message.
THEOREM AnswersReadBack == Spec => []AnswerReadBack
<1>1. IInv => AnswerReadBack
  BY AnsweredAsSent DEF Answers, AnswerReadBack
<1>. QED  BY <1>1, MessagesInductive, PTL

\* Every PUBLISH, whatever its topic, payload and length, is read as it was
\* written, unless it has an id and MqttPublish takes it for too short to have one.
THEOREM PublishesReadBack == Spec => []PublishReadBack
<1>1. IInv => PublishReadBack
  BY DEF IInv, TakenOf, PublishReadBack
<1>. QED  BY <1>1, MessagesInductive, PTL

\* A message is as long as its length, the digits of it and the first byte, and
\* the byte the length is looked for in holds the lowest digit.
LEMMA LengthIs ==
  ASSUME NEW m, IsMessage(m), Remaining(m) <= MaxRemaining
  PROVE  \E d \in 1 .. 4 :
           /\ Remaining(m) \in Nat /\ (Remaining(m) < 128 <=> d = 1)
           /\ Len(Written(m)) = 1 + d + Remaining(m)
           /\ Written(m)[2] = IF Remaining(m) < 128 THEN Remaining(m) ELSE 128 + (Remaining(m) % 128)
<1>1. PICK h, body :
        /\ IsHeader(h) /\ body \in Seq(Byte) /\ Len(body) = Remaining(m)
        /\ h.type = m.type /\ h.remaining = Remaining(m) /\ Written(m) = Frame(h, body)
  BY MessageFrame
<1>. DEFINE r == Remaining(m)
            s == Written(m)
            digits == Digits(r)
            d == Len(digits)
<1>2. Len(s) = 1 + d + r /\ s[2] = digits[1]
  BY <1>1, FrameRight
<1>3. r \in 0 .. MaxRemaining
  BY <1>1 DEF IsHeader
<1>4. d \in 1 .. 4 /\ (r < 128 <=> d = 1) /\ digits[1] = IF r < 128 THEN r ELSE 128 + (r % 128)
  BY <1>3, DigitsType
<1>5. r \in Nat
  BY <1>3
<1>. HIDE DEF r, s, digits, d
<1>6. \E e \in 1 .. 4 :
        /\ r \in Nat /\ (r < 128 <=> e = 1) /\ Len(s) = 1 + e + r
        /\ s[2] = IF r < 128 THEN r ELSE 128 + (r % 128)
  BY <1>2, <1>4, <1>5
<1>. QED  BY <1>6 DEF r, s

LEMMA CutInv == IInv => CutRight
<1>. SUFFICES ASSUME IInv, bytes # <<>>
              PROVE  TotalLength(bytes) = Len(bytes) <=> Remaining(sent) < 128
  BY DEF CutRight
<1>. DEFINE r == Remaining(sent)
            l == Len(bytes)
            b == bytes[2]
<1>1. bytes = Written(sent) /\ IsMessage(sent) /\ r <= MaxRemaining
  BY MessageIs DEF IInv
<1>2. PICK d \in 1 .. 4 :
        /\ r \in Nat /\ (r < 128 <=> d = 1) /\ l = 1 + d + r
        /\ b = IF r < 128 THEN r ELSE 128 + (r % 128)
  BY <1>1, LengthIs
<1>3. TotalLength(bytes) = b + 2
  BY DEF TotalLength
<1>. HIDE DEF r, l, b
<1>4. ASSUME r < 128
      PROVE  b + 2 = l
  BY <1>2, <1>4
<1>5. ASSUME ~(r < 128)
      PROVE  b + 2 # l
  <2>1. r = 128 * (r \div 128) + (r % 128) /\ r \div 128 >= 1 /\ r % 128 \in Nat /\ r \div 128 \in Nat
    BY <1>2, <1>5
  <2>. DEFINE q == r \div 128
              e == r % 128
  <2>2. /\ r = 128 * q + e /\ q >= 1 /\ e \in Nat /\ q \in Nat /\ b = 128 + e
        /\ d \in 1 .. 4 /\ d # 1 /\ l = 1 + d + r
    BY <1>2, <1>5, <2>1
  <2>. HIDE DEF q, e
  <2>. QED  BY <2>2
<1>6. b + 2 = l <=> r < 128
  BY <1>4, <1>5
<1>. QED  BY <1>3, <1>6 DEF r, l, b

\* totalLength, which takes the second byte of a message for its length, is right
\* for every message whose length takes one byte and wrong for every other.
THEOREM MessagesCutRight == Spec => []CutRight
BY MessagesInductive, CutInv, PTL

\* Behind a length of one byte come the length of the topic, in two bytes, and the
\* topic.
LEMMA TopicFollows ==
  ASSUME NEW m, IsPublish(m), Remaining(m) <= MaxRemaining, Remaining(m) < 128
  PROVE  Written(m)[3] * 256 + Written(m)[4] = Len(m.topic)
<1>. DEFINE h == PublishHeader(m)
            body == PublishBody(m)
            s == Written(m)
            l == Len(m.topic)
            id == ShortBytes(l)
            p == m.topic
            rest == IdOf(m) \o m.payload
<1>1. s = Frame(h, body)
  BY PublishType, WritePublishIs DEF Written
<1>2. IsHeader(h) /\ body \in Seq(Byte) /\ h.remaining = Remaining(m) /\ Remaining(m) \in Nat
  BY PublishHeaderType, PublishLength DEF PublishHeader
<1>3. BodyAt(h) = 3
  <2>. DEFINE n == h.remaining
              digits == Digits(n)
  <2>1. n \in 0 .. 127
    <3>. DEFINE k == Remaining(m)
    <3>1. k \in Nat /\ k < 128 /\ n = k
      BY <1>2
    <3>. HIDE DEF k, n
    <3>. QED  BY <3>1
  <2>2. digits = <<n>>
    BY <2>1, DigitsOfOne
  <2>3. Len(digits) = 1
    BY <2>2
  <2>4. BodyAt(h) = 2 + Len(digits)
    BY DEF BodyAt
  <2>. HIDE DEF digits
  <2>. QED  BY <2>3, <2>4
<1>4. s \in Seq(Byte) /\ Has(s, 3, body)
  <2>. HIDE DEF h, body
  <2>. QED  BY <1>1, <1>2, <1>3, FrameRight
<1>5. /\ StringBytes(m.topic) = id \o p /\ p \in Seq(Byte) /\ l \in Shorts
      /\ id \in Seq(Byte) /\ Len(id) = 2 /\ rest \in Seq(Byte)
  BY PublishType, StringBytesIs, ShortBytesType, IdOfType, ConcatProperties
<1>6. body = (id \o p) \o rest
  BY <1>5 DEF PublishBody
<1>7. Has(s, 3, id)
  <2>. HIDE DEF s, body, id, p, rest
  <2>. DEFINE ip == id \o p
  <2>1. ip \in Seq(Byte)
    BY <1>5, ConcatProperties
  <2>2. Has(s, 3, ip)
    <3>. HIDE DEF ip
    <3>1. Has(s, 3, ip \o rest)
      BY <1>4, <1>6 DEF ip
    <3>. QED  BY <1>4, <1>5, <2>1, <3>1, HasConcat
  <2>. QED  BY <1>4, <1>5, <2>2, HasConcat
<1>8. s[3] = id[1] /\ s[4] = id[2]
  <2>. HIDE DEF s, id
  <2>1. \A i \in 1 .. Len(id) : s[3 + i - 1] = id[i]
    BY <1>7 DEF Has
  <2>2. s[3 + 1 - 1] = id[1] /\ s[3 + 2 - 1] = id[2]
    BY <1>5, <2>1
  <2>. QED  BY <2>2
<1>9. id[1] * 256 + id[2] = l
  <2>1. l \in Nat
    BY PublishLength
  <2>. HIDE DEF l
  <2>2. id[1] = l \div 256 /\ id[2] = l % 256
    BY DEF ShortBytes
  <2>. QED  BY <2>1, <2>2
<1>. QED  BY <1>8, <1>9

LEMMA TopicInv == IInv => TopicWhereItIs
<1>. SUFFICES ASSUME IInv, bytes # <<>>, sent.type = "PUBLISH"
              PROVE  GetPublishTopic(bytes)
                       = [start |-> Len(bytes) - Remaining(sent) + 3, length |-> Len(sent.topic)]
                     <=> Remaining(sent) < 128
  BY DEF TopicWhereItIs
<1>. DEFINE r == Remaining(sent)
            n == Len(bytes)
            t == Len(sent.topic)
            at == bytes[3] * 256 + bytes[4]
<1>1. bytes = Written(sent) /\ IsMessage(sent) /\ r <= MaxRemaining
  BY MessageIs DEF IInv
<1>2. IsPublish(sent)
  BY <1>1 DEF IsMessage, IsConnect, IsSubscribe, IsUnsubscribe
<1>3. PICK d \in 1 .. 4 : r \in Nat /\ (r < 128 <=> d = 1) /\ n = 1 + d + r
  BY <1>1, LengthIs
<1>4. r >= 2
  <2>. DEFINE i == Len(IdOf(sent))
              p == Len(sent.payload)
  <2>1. r = 2 + t + i + p /\ t \in Nat /\ p \in Nat
    BY <1>2, PublishLength
  <2>2. i \in Nat
    BY <1>2, IdOfType, LenProperties
  <2>. HIDE DEF r, t, i, p
  <2>. QED  BY <2>1, <2>2
<1>5. r < 128 => at = t
  BY <1>1, <1>2, TopicFollows
<1>6. GetPublishTopic(bytes) = IF n < 4 THEN NoSpan ELSE [start |-> 5, length |-> at]
  BY DEF GetPublishTopic
<1>. HIDE DEF r, n, t, at
<1>7. GetPublishTopic(bytes) = [start |-> 5, length |-> at]
  BY <1>3, <1>4, <1>6
<1>8. n - r + 3 = 4 + d
  BY <1>3
<1>9. GetPublishTopic(bytes) = [start |-> n - r + 3, length |-> t] <=> 5 = 4 + d /\ at = t
  BY <1>7, <1>8
<1>10. GetPublishTopic(bytes) = [start |-> n - r + 3, length |-> t] <=> r < 128
  BY <1>3, <1>5, <1>9
<1>. QED  BY <1>10 DEF r, n, t

\* getPublishTopic, which looks behind a fixed header of two bytes, finds the topic
\* of every PUBLISH whose length takes one byte, with an id or without, and of no other.
THEOREM TopicsWhereTheyAre == Spec => []TopicWhereItIs
BY MessagesInductive, TopicInv, PTL
=============================================================================
