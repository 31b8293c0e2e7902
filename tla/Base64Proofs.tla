------------------------------ MODULE Base64Proofs ------------------------------
(***************************************************************************)
(* base64_encode() writes base64, for every input that its loop does not   *)
(* cut short, and the block names it makes identify blocks, for every id.  *)
(***************************************************************************)
EXTENDS Base64, Integers, SequenceTheorems, TLAPS

\* The four characters of three bytes determine them.
LEMMA GroupDetermines ==
    ASSUME NEW a \in Byte, NEW b \in Byte, NEW c \in Byte,
           NEW x \in Byte, NEW y \in Byte, NEW z \in Byte,
           First(a) = First(x), Second(a, b) = Second(x, y),
           Third(b, c) = Third(y, z), Fourth(c) = Fourth(z)
    PROVE  a = x /\ b = y /\ c = z
  BY DEF Byte, First, Second, Third, Fourth

\* Two bytes are determined without the fourth character.
LEMMA PairDetermines ==
    ASSUME NEW a \in Byte, NEW b \in Byte, NEW x \in Byte, NEW y \in Byte,
           First(a) = First(x), Second(a, b) = Second(x, y), Third(b, 0) = Third(y, 0)
    PROVE  a = x /\ b = y
  BY DEF Byte, First, Second, Third

\* A block id: eight bytes.
IsId(x) == x \in Seq(Byte) /\ Len(x) = 8

\* Eight bytes are two rounds of the loop and a tail of two.
LEMMA EightBytes == Full(8) = 2 /\ Pieces(8) = 3
<1>1. Full(8) = 2
  BY DEF Full
<1>2. 8 - 3 * Full(8) = 2
  BY <1>1
<1> QED
  BY <1>1, <1>2 DEF Pieces

\* The characters of a block id.
LEMMA PieceOfId ==
    ASSUME NEW x, IsId(x)
    PROVE  /\ Piece(x, 1) = <<First(x[1]), Second(x[1], x[2]), Third(x[2], x[3]), Fourth(x[3])>>
           /\ Piece(x, 2) = <<First(x[4]), Second(x[4], x[5]), Third(x[5], x[6]), Fourth(x[6])>>
           /\ Piece(x, 3) = <<First(x[7]), Second(x[7], x[8]), Third(x[8], 0), Pad>>
<1>1. \A i \in 1 .. 8 : ByteAt(x, i) = x[i]
  BY DEF IsId, ByteAt
<1>2. ByteAt(x, 9) = 0
  BY DEF IsId, ByteAt
<1> QED
  BY <1>1, <1>2 DEF IsId, Piece

\* Every character is a number.
LEMMA CharType ==
    ASSUME NEW a \in Byte, NEW b \in Byte, NEW c \in Byte
    PROVE  First(a) \in Nat /\ Second(a, b) \in Nat /\ Third(b, c) \in Nat /\ Fourth(c) \in Nat
  BY DEF Byte, First, Second, Third, Fourth

\* Four numbers are a sequence of numbers.
LEMMA FourNumbers ==
    ASSUME NEW p \in Nat, NEW q \in Nat, NEW r \in Nat, NEW s \in Nat
    PROVE  <<p, q, r, s>> \in Seq(Nat) /\ Len(<<p, q, r, s>>) = 4
  OBVIOUS

\* Equal pieces are of the same bytes.
LEMMA SamePiece ==
    ASSUME NEW a \in Byte, NEW b \in Byte, NEW c \in Byte,
           NEW x \in Byte, NEW y \in Byte, NEW z \in Byte,
           <<First(a), Second(a, b), Third(b, c), Fourth(c)>>
             = <<First(x), Second(x, y), Third(y, z), Fourth(z)>>
    PROVE  a = x /\ b = y /\ c = z
<1>1. /\ First(a) = First(x) /\ Second(a, b) = Second(x, y)
      /\ Third(b, c) = Third(y, z) /\ Fourth(c) = Fourth(z)
  OBVIOUS
<1> QED
  BY <1>1, GroupDetermines

\* The same of bytes that stand in two ids.
LEMMA SameBytes ==
    ASSUME NEW v, NEW w, NEW i, NEW j, NEW k,
           v[i] \in Byte, v[j] \in Byte, v[k] \in Byte,
           w[i] \in Byte, w[j] \in Byte, w[k] \in Byte,
           <<First(v[i]), Second(v[i], v[j]), Third(v[j], v[k]), Fourth(v[k])>>
             = <<First(w[i]), Second(w[i], w[j]), Third(w[j], w[k]), Fourth(w[k])>>
    PROVE  v[i] = w[i] /\ v[j] = w[j] /\ v[k] = w[k]
<1> DEFINE a == v[i]  b == v[j]  c == v[k]  x == w[i]  y == w[j]  z == w[k]
<1>1. /\ a \in Byte /\ b \in Byte /\ c \in Byte /\ x \in Byte /\ y \in Byte /\ z \in Byte
      /\ <<First(a), Second(a, b), Third(b, c), Fourth(c)>>
           = <<First(x), Second(x, y), Third(y, z), Fourth(z)>>
  OBVIOUS
<1> HIDE DEF a, b, c, x, y, z
<1>2. a = x /\ b = y /\ c = z
  BY <1>1, SamePiece
<1> QED
  BY <1>2 DEF a, b, c, x, y, z

\* The characters of a piece are numbers.
LEMMA CodeType ==
    ASSUME NEW a \in Byte, NEW b \in Byte, NEW c \in Byte
    PROVE  /\ <<First(a), Second(a, b), Third(b, c), Fourth(c)>> \in Seq(Nat)
           /\ Len(<<First(a), Second(a, b), Third(b, c), Fourth(c)>>) = 4
           /\ <<First(a), Second(a, b), Third(b, 0), Pad>> \in Seq(Nat)
           /\ Len(<<First(a), Second(a, b), Third(b, 0), Pad>>) = 4
<1>1. First(a) \in Nat /\ Second(a, b) \in Nat /\ Third(b, c) \in Nat /\ Fourth(c) \in Nat
  BY CharType
<1>2. 0 \in Byte /\ Pad \in Nat
  BY DEF Byte, Pad
<1>3. Third(b, 0) \in Nat
  BY <1>2, CharType
<1> QED
  BY <1>1, <1>2, <1>3, FourNumbers

\* The pieces of a block id hold four numbers each.
LEMMA PieceType ==
    ASSUME NEW x, IsId(x), NEW g \in 1 .. 3
    PROVE  Piece(x, g) \in Seq(Nat) /\ Len(Piece(x, g)) = 4
<1>1. \A i \in 1 .. 8 : x[i] \in Byte
  BY ElementOfSeq DEF IsId
<1>3. CASE g = 1
  <2>1. x[1] \in Byte /\ x[2] \in Byte /\ x[3] \in Byte
    BY <1>1
  <2>2. Piece(x, 1) = <<First(x[1]), Second(x[1], x[2]), Third(x[2], x[3]), Fourth(x[3])>>
    BY PieceOfId
  <2>3. Piece(x, 1) \in Seq(Nat) /\ Len(Piece(x, 1)) = 4
    BY <2>1, <2>2, CodeType, Zenon
  <2> QED
    BY <1>3, <2>3
<1>4. CASE g = 2
  <2>1. x[4] \in Byte /\ x[5] \in Byte /\ x[6] \in Byte
    BY <1>1
  <2>2. Piece(x, 2) = <<First(x[4]), Second(x[4], x[5]), Third(x[5], x[6]), Fourth(x[6])>>
    BY PieceOfId
  <2>3. Piece(x, 2) \in Seq(Nat) /\ Len(Piece(x, 2)) = 4
    BY <2>1, <2>2, CodeType, Zenon
  <2> QED
    BY <1>4, <2>3
<1>5. CASE g = 3
  <2>1. x[7] \in Byte /\ x[8] \in Byte
    BY <1>1
  <2>2. Piece(x, 3) = <<First(x[7]), Second(x[7], x[8]), Third(x[8], 0), Pad>>
    BY PieceOfId
  <2>3. Piece(x, 3) \in Seq(Nat) /\ Len(Piece(x, 3)) = 4
    BY <2>1, <2>2, CodeType, Zenon
  <2> QED
    BY <1>5, <2>3
<1> QED
  BY <1>3, <1>4, <1>5

\* What a piece of four characters looks like with something behind it.
LEMMA PieceConcat ==
    ASSUME NEW s \in Seq(Nat), NEW u \in Seq(Nat), Len(s) = 4
    PROVE  /\ Len(s \o u) = 4 + Len(u)
           /\ \A i \in 1 .. 4 : (s \o u)[i] = s[i]
<1>1. Len(u) \in Nat
  BY LenProperties
<1>2. Len(s \o u) = Len(s) + Len(u)
  BY ConcatProperties
<1>3. \A i \in 1 .. Len(s) + Len(u) : (s \o u)[i] = IF i <= Len(s) THEN s[i] ELSE u[i - Len(s)]
  BY ConcatProperties
<1> QED
  BY <1>1, <1>2, <1>3

\* What stands behind a piece does not hide it.
LEMMA BehindHidesNothing ==
    ASSUME NEW s \in Seq(Nat), NEW t \in Seq(Nat), NEW u \in Seq(Nat),
           Len(s) = 4, Len(t) = 4, s \o u = t \o u
    PROVE  s = t
<1>1. \A i \in 1 .. 4 : s[i] = t[i]
  BY PieceConcat
<1> QED
  BY <1>1, SeqEqual

\* Two block ids with the same name are the same id, whatever stands behind buf:
\* the list of commitBlock() names the blocks that the workers have staged.
THEOREM NamesIdentify ==
    ASSUME NEW x, IsId(x), NEW y, IsId(y), NEW behind \in Seq(Nat),
           Encode(x, behind) = Encode(y, behind)
    PROVE  x = y
<1>1. ASSUME NEW g \in 1 .. 3 PROVE Piece(x, g) = Piece(y, g)
  <2>1. Encode(x, behind)[g] = Piece(x, g) \o behind /\ Encode(y, behind)[g] = Piece(y, g) \o behind
    BY EightBytes DEF Encode, IsId
  <2> QED
    BY <2>1, PieceType, BehindHidesNothing
<1>2. \A i \in 1 .. 8 : x[i] \in Byte /\ y[i] \in Byte
  BY ElementOfSeq DEF IsId
<1>3. x[1] = y[1] /\ x[2] = y[2] /\ x[3] = y[3]
  <2>1. <<First(x[1]), Second(x[1], x[2]), Third(x[2], x[3]), Fourth(x[3])>>
          = <<First(y[1]), Second(y[1], y[2]), Third(y[2], y[3]), Fourth(y[3])>>
    BY <1>1, PieceOfId
  <2>2. /\ x[1] \in Byte /\ x[2] \in Byte /\ x[3] \in Byte
        /\ y[1] \in Byte /\ y[2] \in Byte /\ y[3] \in Byte
    BY <1>2
  <2> QED
    BY <2>1, <2>2, SameBytes
<1>4. x[4] = y[4] /\ x[5] = y[5] /\ x[6] = y[6]
  <2>1. <<First(x[4]), Second(x[4], x[5]), Third(x[5], x[6]), Fourth(x[6])>>
          = <<First(y[4]), Second(y[4], y[5]), Third(y[5], y[6]), Fourth(y[6])>>
    BY <1>1, PieceOfId
  <2>2. /\ x[4] \in Byte /\ x[5] \in Byte /\ x[6] \in Byte
        /\ y[4] \in Byte /\ y[5] \in Byte /\ y[6] \in Byte
    BY <1>2
  <2> QED
    BY <2>1, <2>2, SameBytes
<1>5. x[7] = y[7] /\ x[8] = y[8]
  <2>1. <<First(x[7]), Second(x[7], x[8]), Third(x[8], 0), Pad>>
          = <<First(y[7]), Second(y[7], y[8]), Third(y[8], 0), Pad>>
    BY <1>1, PieceOfId
  <2> QED
    BY <1>2, <2>1, PairDetermines
<1>6. \A i \in 1 .. 8 : x[i] = y[i]
  BY <1>3, <1>4, <1>5
<1> QED
  BY <1>6, SeqEqual DEF IsId

\* All names have the same length, as the service asks of the blocks of a blob.
THEOREM NamesAlike ==
    ASSUME NEW x, IsId(x), NEW behind \in Seq(Nat)
    PROVE  /\ Len(Encode(x, behind)) = 3
           /\ \A g \in 1 .. 3 : Len(Encode(x, behind)[g]) = 4 + Len(behind)
<1>1. Encode(x, behind) = [g \in 1 .. 3 |-> Piece(x, g) \o behind]
  BY EightBytes DEF Encode, IsId
<1>2. ASSUME NEW g \in 1 .. 3 PROVE Len(Encode(x, behind)[g]) = 4 + Len(behind)
  <2>1. Encode(x, behind)[g] = Piece(x, g) \o behind
    BY <1>1
  <2>2. Piece(x, g) \in Seq(Nat) /\ Len(Piece(x, g)) = 4
    BY PieceType
  <2>3. Len(Piece(x, g) \o behind) = 4 + Len(behind)
    BY <2>2, PieceConcat
  <2> QED
    BY <2>1, <2>3
<1> QED
  BY <1>1, <1>2

------------------------------------------------------------------------------
(* The text is base64 *)

\* The c-th bit of a byte, the highest being the 0th.
BitOf(byte, c) == (byte \div Weight[c + 1]) % 2

\* A bit of the input is a bit of one of its bytes; behind its end there are
\* zeros, as `buf' has them for the bytes that are not there.
LEMMA BitIsBitOf ==
    ASSUME NEW bytes \in Seq(Byte), NEW q \in Nat, NEW c \in 0 .. 7
    PROVE  Bit(bytes, 8 * q + c) = BitOf(ByteAt(bytes, q + 1), c)
<1>1. (8 * q + c) \div 8 = q /\ (8 * q + c) % 8 = c
  OBVIOUS
<1>2. Len(bytes) \in Nat
  BY LenProperties
<1>3. 8 * q + c < 8 * Len(bytes) <=> q + 1 <= Len(bytes)
  BY <1>2
<1>4. BitOf(0, c) = 0
  BY DEF BitOf, Weight
<1> QED
  BY <1>1, <1>3, <1>4 DEF Bit, BitOf, ByteAt
\* The number of the bits u, v, w, x, y, z.
Six(u, v, w, x, y, z) == 32 * u + 16 * v + 8 * w + 4 * x + 2 * y + z

\* The four characters of three bytes are their bits, six by six.
LEMMA CharsAreBits ==
    ASSUME NEW a \in Byte, NEW b \in Byte, NEW c \in Byte
    PROVE  /\ First(a) = Six(BitOf(a, 0), BitOf(a, 1), BitOf(a, 2), BitOf(a, 3), BitOf(a, 4), BitOf(a, 5))
           /\ Second(a, b) = Six(BitOf(a, 6), BitOf(a, 7), BitOf(b, 0), BitOf(b, 1), BitOf(b, 2), BitOf(b, 3))
           /\ Third(b, c) = Six(BitOf(b, 4), BitOf(b, 5), BitOf(b, 6), BitOf(b, 7), BitOf(c, 0), BitOf(c, 1))
           /\ Fourth(c) = Six(BitOf(c, 2), BitOf(c, 3), BitOf(c, 4), BitOf(c, 5), BitOf(c, 6), BitOf(c, 7))
<1>1. \A x \in Byte :
        /\ BitOf(x, 0) = (x \div 128) % 2 /\ BitOf(x, 1) = (x \div 64) % 2
        /\ BitOf(x, 2) = (x \div 32) % 2 /\ BitOf(x, 3) = (x \div 16) % 2
        /\ BitOf(x, 4) = (x \div 8) % 2 /\ BitOf(x, 5) = (x \div 4) % 2
        /\ BitOf(x, 6) = (x \div 2) % 2 /\ BitOf(x, 7) = x % 2
  BY DEF BitOf, Weight, Byte
<1>2. First(a) = Six(BitOf(a, 0), BitOf(a, 1), BitOf(a, 2), BitOf(a, 3), BitOf(a, 4), BitOf(a, 5))
  <2>1. a \div 4 = Six((a \div 128) % 2, (a \div 64) % 2, (a \div 32) % 2, (a \div 16) % 2,
                       (a \div 8) % 2, (a \div 4) % 2)
    BY SMTT(60) DEF Byte, Six
  <2> QED
    BY <1>1, <2>1 DEF First
<1>3. Second(a, b) = Six(BitOf(a, 6), BitOf(a, 7), BitOf(b, 0), BitOf(b, 1), BitOf(b, 2), BitOf(b, 3))
  <2>1. (a % 4) * 16 + b \div 16 = Six((a \div 2) % 2, a % 2, (b \div 128) % 2, (b \div 64) % 2,
                                      (b \div 32) % 2, (b \div 16) % 2)
    BY SMTT(60) DEF Byte, Six
  <2> QED
    BY <1>1, <2>1 DEF Second
<1>4. Third(b, c) = Six(BitOf(b, 4), BitOf(b, 5), BitOf(b, 6), BitOf(b, 7), BitOf(c, 0), BitOf(c, 1))
  <2>1. (b % 16) * 4 + c \div 64 = Six((b \div 8) % 2, (b \div 4) % 2, (b \div 2) % 2, b % 2,
                                      (c \div 128) % 2, (c \div 64) % 2)
    BY SMTT(60) DEF Byte, Six
  <2> QED
    BY <1>1, <2>1 DEF Third
<1>5. Fourth(c) = Six(BitOf(c, 2), BitOf(c, 3), BitOf(c, 4), BitOf(c, 5), BitOf(c, 6), BitOf(c, 7))
  <2>1. c % 64 = Six((c \div 32) % 2, (c \div 16) % 2, (c \div 8) % 2, (c \div 4) % 2,
                    (c \div 2) % 2, c % 2)
    BY SMTT(60) DEF Byte, Six
  <2> QED
    BY <1>1, <2>1 DEF Fourth
<1> QED
  BY <1>2, <1>3, <1>4, <1>5

\* The bits of the input that the characters of the (h+1)-th piece stand for.
LEMMA PieceIsBits ==
    ASSUME NEW bytes \in Seq(Byte), NEW h \in Nat
    PROVE  LET a == ByteAt(bytes, 3 * h + 1)
               b == ByteAt(bytes, 3 * h + 2)
               c == ByteAt(bytes, 3 * h + 3)
           IN  /\ SixBits(bytes, 24 * h) = First(a)
               /\ SixBits(bytes, 24 * h + 6) = Second(a, b)
               /\ SixBits(bytes, 24 * h + 12) = Third(b, c)
               /\ SixBits(bytes, 24 * h + 18) = Fourth(c)
<1> DEFINE a == ByteAt(bytes, 3 * h + 1)
           b == ByteAt(bytes, 3 * h + 2)
           c == ByteAt(bytes, 3 * h + 3)
<1>1. /\ a \in Byte /\ b \in Byte /\ c \in Byte
  <2>1. \A i \in 1 .. Len(bytes) : bytes[i] \in Byte
    BY ElementOfSeq
  <2>2. Len(bytes) \in Nat /\ 0 \in Byte
    BY LenProperties DEF Byte
  <2> QED
    BY <2>1, <2>2 DEF ByteAt
<1>2. \A k \in 0 .. 7 :
        /\ Bit(bytes, 8 * (3 * h) + k) = BitOf(a, k)
        /\ Bit(bytes, 8 * (3 * h + 1) + k) = BitOf(b, k)
        /\ Bit(bytes, 8 * (3 * h + 2) + k) = BitOf(c, k)
  <2>1. 3 * h \in Nat /\ 3 * h + 1 \in Nat /\ 3 * h + 2 \in Nat
    OBVIOUS
  <2>2. (3 * h + 1) + 1 = 3 * h + 2 /\ (3 * h + 2) + 1 = 3 * h + 3
    OBVIOUS
  <2>3. ASSUME NEW k \in 0 .. 7
        PROVE  /\ Bit(bytes, 8 * (3 * h) + k) = BitOf(ByteAt(bytes, 3 * h + 1), k)
               /\ Bit(bytes, 8 * (3 * h + 1) + k) = BitOf(ByteAt(bytes, (3 * h + 1) + 1), k)
               /\ Bit(bytes, 8 * (3 * h + 2) + k) = BitOf(ByteAt(bytes, (3 * h + 2) + 1), k)
    BY ONLY <2>1, BitIsBitOf, bytes \in Seq(Byte), k \in 0 .. 7, Zenon
  <2> QED
    BY <2>2, <2>3
<1>3. /\ 8 * (3 * h) = 24 * h /\ 8 * (3 * h + 1) = 24 * h + 8 /\ 8 * (3 * h + 2) = 24 * h + 16
  OBVIOUS
<1> HIDE DEF a, b, c
<1> DEFINE B(k) == Bit(bytes, 24 * h + k)
<1>4. /\ B(0) = BitOf(a, 0) /\ B(1) = BitOf(a, 1) /\ B(2) = BitOf(a, 2) /\ B(3) = BitOf(a, 3)
      /\ B(4) = BitOf(a, 4) /\ B(5) = BitOf(a, 5) /\ B(6) = BitOf(a, 6) /\ B(7) = BitOf(a, 7)
  BY <1>2, <1>3
<1>5. /\ B(8) = BitOf(b, 0) /\ B(9) = BitOf(b, 1) /\ B(10) = BitOf(b, 2) /\ B(11) = BitOf(b, 3)
      /\ B(12) = BitOf(b, 4) /\ B(13) = BitOf(b, 5) /\ B(14) = BitOf(b, 6) /\ B(15) = BitOf(b, 7)
  <2>1. \A k \in 0 .. 7 : Bit(bytes, (24 * h + 8) + k) = BitOf(b, k)
    BY <1>2, <1>3
  <2> QED
    BY <2>1
<1>6. /\ B(16) = BitOf(c, 0) /\ B(17) = BitOf(c, 1) /\ B(18) = BitOf(c, 2) /\ B(19) = BitOf(c, 3)
      /\ B(20) = BitOf(c, 4) /\ B(21) = BitOf(c, 5) /\ B(22) = BitOf(c, 6) /\ B(23) = BitOf(c, 7)
  <2>1. \A k \in 0 .. 7 : Bit(bytes, (24 * h + 16) + k) = BitOf(c, k)
    BY <1>2, <1>3
  <2> QED
    BY <2>1
<1>7. /\ SixBits(bytes, 24 * h) = Six(B(0), B(1), B(2), B(3), B(4), B(5))
      /\ SixBits(bytes, 24 * h + 6) = Six(B(6), B(7), B(8), B(9), B(10), B(11))
      /\ SixBits(bytes, 24 * h + 12) = Six(B(12), B(13), B(14), B(15), B(16), B(17))
      /\ SixBits(bytes, 24 * h + 18) = Six(B(18), B(19), B(20), B(21), B(22), B(23))
  BY DEF SixBits, Six
<1> HIDE DEF B
<1>8. /\ SixBits(bytes, 24 * h) = First(a)
      /\ SixBits(bytes, 24 * h + 6) = Second(a, b)
      /\ SixBits(bytes, 24 * h + 12) = Third(b, c)
      /\ SixBits(bytes, 24 * h + 18) = Fourth(c)
  <2>1. /\ First(a) = Six(BitOf(a, 0), BitOf(a, 1), BitOf(a, 2), BitOf(a, 3), BitOf(a, 4), BitOf(a, 5))
        /\ Second(a, b) = Six(BitOf(a, 6), BitOf(a, 7), BitOf(b, 0), BitOf(b, 1), BitOf(b, 2), BitOf(b, 3))
        /\ Third(b, c) = Six(BitOf(b, 4), BitOf(b, 5), BitOf(b, 6), BitOf(b, 7), BitOf(c, 0), BitOf(c, 1))
        /\ Fourth(c) = Six(BitOf(c, 2), BitOf(c, 3), BitOf(c, 4), BitOf(c, 5), BitOf(c, 6), BitOf(c, 7))
    BY <1>1, CharsAreBits, Zenon
  <2>2. SixBits(bytes, 24 * h) = First(a)
    BY <1>4, <1>7, <2>1
  <2>3. SixBits(bytes, 24 * h + 6) = Second(a, b)
    BY <1>4, <1>5, <1>7, <2>1
  <2>4. SixBits(bytes, 24 * h + 12) = Third(b, c)
    BY <1>5, <1>6, <1>7, <2>1
  <2>5. SixBits(bytes, 24 * h + 18) = Fourth(c)
    BY <1>6, <1>7, <2>1
  <2> QED
    BY <2>2, <2>3, <2>4, <2>5
<1> QED
  BY <1>8 DEF a, b, c
\* As many pieces as base64 wants, each of them of bytes that are there, as long as
\* the loop is not left with three bytes.
LEMMA PiecesOfLength ==
    ASSUME NEW n \in Nat, n = 0 \/ n % 3 # 0
    PROVE  /\ Pieces(n) = (n + 2) \div 3 /\ Pieces(n) \in Nat
           /\ \A h \in Nat : h + 1 <= Pieces(n) => 3 * h + 1 <= n
<1>1. CASE n = 0
  <2>1. Pieces(n) = 0
    BY <1>1 DEF Pieces, Full
  <2> QED
    BY <1>1, <2>1
<1>2. CASE n # 0
  <2>1. Full(n) = (n - 1) \div 3
    BY <1>2 DEF Full
  <2>2. n - 3 * Full(n) \in {1, 2}
    BY <1>2, <2>1
  <2>3. Pieces(n) = (n - 1) \div 3 + 1
    BY <2>1, <2>2 DEF Pieces
  <2> QED
    BY <1>2, <2>3
<1> QED
  BY <1>1, <1>2

\* base64_encode() writes base64, six bits to a character and `=' where the input
\* ends (lines 14-50), where nothing stands behind the buffer it prints, for every
\* input that does not leave three bytes to the switch of line 29.
THEOREM EncodesBase64 ==
    ASSUME NEW bytes \in Seq(Byte), Len(bytes) = 0 \/ Len(bytes) % 3 # 0
    PROVE  IsBase64(Encode(bytes, <<>>), bytes)
<1> DEFINE n == Len(bytes)
           text == Encode(bytes, <<>>)
<1>1. n \in Nat /\ n = Len(bytes) /\ (n = 0 \/ n % 3 # 0)
  BY LenProperties
<1> HIDE DEF n
<1>2. /\ Pieces(n) = (n + 2) \div 3 /\ Pieces(n) \in Nat
      /\ \A h \in Nat : h + 1 <= Pieces(n) => 3 * h + 1 <= n
  BY <1>1, PiecesOfLength
<1>3. text = [g \in 1 .. Pieces(n) |-> Piece(bytes, g) \o <<>>]
  BY <1>1 DEF Encode
<1>4. Len(text) = Pieces(n) /\ DOMAIN text = 1 .. Pieces(n)
  BY <1>2, <1>3
<1>5. ASSUME NEW g \in 1 .. Pieces(n)
      PROVE  \A j \in 1 .. 4 :
               text[g][j] = IF 24 * (g - 1) + 6 * (j - 1) < 8 * n
                            THEN SixBits(bytes, 24 * (g - 1) + 6 * (j - 1)) ELSE Pad
  <2> DEFINE h == g - 1
             a == ByteAt(bytes, 3 * h + 1)
             b == ByteAt(bytes, 3 * h + 2)
             c == ByteAt(bytes, 3 * h + 3)
  <2>1. h \in Nat /\ g = h + 1 /\ 3 * h + 1 <= n
        /\ 3 * g - 2 = 3 * h + 1 /\ 3 * g - 1 = 3 * h + 2 /\ 3 * g = 3 * h + 3
    BY <1>2
  <2>2. a \in Byte /\ b \in Byte /\ c \in Byte
    <3>1. \A i \in 1 .. n : bytes[i] \in Byte
      BY <1>1, ElementOfSeq
    <3>2. 0 \in Byte
      BY DEF Byte
    <3> QED
      BY <1>1, <2>1, <3>1, <3>2 DEF ByteAt
  <2>3. /\ SixBits(bytes, 24 * h) = First(a)
        /\ SixBits(bytes, 24 * h + 6) = Second(a, b)
        /\ SixBits(bytes, 24 * h + 12) = Third(b, c)
        /\ SixBits(bytes, 24 * h + 18) = Fourth(c)
    BY <2>1, PieceIsBits
  <2> HIDE DEF h
  <2> DEFINE third == IF 3 * h + 2 <= n THEN Third(b, c) ELSE Pad
             fourth == IF 3 * h + 3 <= n THEN Fourth(c) ELSE Pad
  <2>4. Piece(bytes, g) = <<First(a), Second(a, b), third, fourth>>
    BY <1>1, <2>1 DEF Piece
  <2> HIDE DEF a, b, c
  <2>5. First(a) \in Nat /\ Second(a, b) \in Nat /\ third \in Nat /\ fourth \in Nat
    BY <2>2, CharType DEF Pad
  <2> HIDE DEF third, fourth
  <2>6. text[g] = <<First(a), Second(a, b), third, fourth>>
    <3>1. <<First(a), Second(a, b), third, fourth>> \in Seq(Nat)
      BY <2>5, FourNumbers
    <3>2. <<First(a), Second(a, b), third, fourth>> \o <<>> = <<First(a), Second(a, b), third, fourth>>
      BY <3>1, ConcatEmptySeq
    <3> QED
      BY <1>3, <2>4, <3>2
  <2>7. /\ 24 * h < 8 * n /\ 24 * h + 6 < 8 * n
        /\ 24 * h + 12 < 8 * n <=> 3 * h + 2 <= n
        /\ 24 * h + 18 < 8 * n <=> 3 * h + 3 <= n
    BY <1>1, <2>1
  <2>8. /\ text[g][1] = SixBits(bytes, 24 * h)
        /\ text[g][2] = SixBits(bytes, 24 * h + 6)
        /\ text[g][3] = IF 24 * h + 12 < 8 * n THEN SixBits(bytes, 24 * h + 12) ELSE Pad
        /\ text[g][4] = IF 24 * h + 18 < 8 * n THEN SixBits(bytes, 24 * h + 18) ELSE Pad
    BY <2>3, <2>6, <2>7 DEF third, fourth
  <2>9. /\ 24 * (g - 1) + 6 * (1 - 1) = 24 * h /\ 24 * (g - 1) + 6 * (2 - 1) = 24 * h + 6
        /\ 24 * (g - 1) + 6 * (3 - 1) = 24 * h + 12 /\ 24 * (g - 1) + 6 * (4 - 1) = 24 * h + 18
    BY <2>1
  <2> SUFFICES ASSUME NEW j \in 1 .. 4
               PROVE  text[g][j] = IF 24 * (g - 1) + 6 * (j - 1) < 8 * n
                                   THEN SixBits(bytes, 24 * (g - 1) + 6 * (j - 1)) ELSE Pad
    OBVIOUS
  <2>10. j = 1 \/ j = 2 \/ j = 3 \/ j = 4
    OBVIOUS
  <2> HIDE DEF text
  <2>11. CASE j = 1
    BY <2>7, <2>8, <2>9, <2>11
  <2>12. CASE j = 2
    BY <2>7, <2>8, <2>9, <2>12
  <2>13. CASE j = 3
    BY <2>8, <2>9, <2>13
  <2>14. CASE j = 4
    BY <2>8, <2>9, <2>14
  <2> QED
    BY <2>10, <2>11, <2>12, <2>13, <2>14
<1> HIDE DEF text
<1>6. IsBase64(text, bytes)
  BY <1>1, <1>2, <1>4, <1>5 DEF IsBase64, n
<1> QED
  BY <1>6 DEF text

------------------------------------------------------------------------------
(* The bytes of an id *)

\* What BytesOfId() takes the bytes from: the id, shifted by one byte more each time.
Shifted(id) == CHOOSE s : s = [i \in 1 .. 8 |-> IF i = 1 THEN id ELSE s[i - 1] \div 256]

LEMMA BytesAreShifted == ASSUME NEW id PROVE BytesOfId(id) = [i \in 1 .. 8 |-> Shifted(id)[i] % 256]
  BY DEF BytesOfId, Shifted

\* There is such a function.
LEMMA ShiftedExists ==
    ASSUME NEW id \in Nat
    PROVE  Shifted(id) = [i \in 1 .. 8 |-> IF i = 1 THEN id ELSE Shifted(id)[i - 1] \div 256]
<1> DEFINE s2 == id \div 256  s3 == s2 \div 256  s4 == s3 \div 256  s5 == s4 \div 256
           s6 == s5 \div 256  s7 == s6 \div 256  s8 == s7 \div 256
           w == [i \in 1 .. 8 |-> IF i = 1 THEN id ELSE IF i = 2 THEN s2 ELSE
                                  IF i = 3 THEN s3 ELSE IF i = 4 THEN s4 ELSE
                                  IF i = 5 THEN s5 ELSE IF i = 6 THEN s6 ELSE
                                  IF i = 7 THEN s7 ELSE s8]
           v == [i \in 1 .. 8 |-> IF i = 1 THEN id ELSE w[i - 1] \div 256]
<1>1. /\ w[1] = id /\ w[2] = id \div 256 /\ w[3] = w[2] \div 256 /\ w[4] = w[3] \div 256
      /\ w[5] = w[4] \div 256 /\ w[6] = w[5] \div 256 /\ w[7] = w[6] \div 256
      /\ w[8] = w[7] \div 256
  <2> HIDE DEF s2, s3, s4, s5, s6, s7, s8
  <2>1. /\ w[1] = id /\ w[2] = s2 /\ w[3] = s3 /\ w[4] = s4
        /\ w[5] = s5 /\ w[6] = s6 /\ w[7] = s7 /\ w[8] = s8
    OBVIOUS
  <2> HIDE DEF w
  <2> QED
    BY <2>1 DEF s2, s3, s4, s5, s6, s7, s8
<1>2. DOMAIN w = 1 .. 8 /\ DOMAIN v = 1 .. 8
  OBVIOUS
<1>3. ASSUME NEW i \in 1 .. 8 PROVE w[i] = v[i]
  <2> HIDE DEF s2, s3, s4, s5, s6, s7, s8, w
  <2>1. /\ v[1] = id /\ v[2] = w[1] \div 256 /\ v[3] = w[2] \div 256 /\ v[4] = w[3] \div 256
        /\ v[5] = w[4] \div 256 /\ v[6] = w[5] \div 256 /\ v[7] = w[6] \div 256
        /\ v[8] = w[7] \div 256
    OBVIOUS
  <2> HIDE DEF v
  <2>2. /\ w[1] = v[1] /\ w[2] = v[2] /\ w[3] = v[3] /\ w[4] = v[4]
        /\ w[5] = v[5] /\ w[6] = v[6] /\ w[7] = v[7] /\ w[8] = v[8]
    BY ONLY <1>1, <2>1, Zenon
  <2>3. i = 1 \/ i = 2 \/ i = 3 \/ i = 4 \/ i = 5 \/ i = 6 \/ i = 7 \/ i = 8
    OBVIOUS
  <2> QED
    BY ONLY <2>2, <2>3, Zenon
<1>4. w = [i \in 1 .. 8 |-> w[i]] /\ v = [i \in 1 .. 8 |-> v[i]]
  OBVIOUS
<1>5. w = v
  <2> HIDE DEF s2, s3, s4, s5, s6, s7, s8, w, v
  <2> QED
    BY <1>2, <1>3, <1>4
<1>6. \E s : s = [i \in 1 .. 8 |-> IF i = 1 THEN id ELSE s[i - 1] \div 256]
  <2> HIDE DEF s2, s3, s4, s5, s6, s7, s8, w
  <2> QED
    BY <1>5
<1> QED
  BY ONLY <1>6 DEF Shifted

\* s holds id, and each number after it is the one before without its low byte.
Shifts(s, id) ==
    /\ s[1] = id
    /\ \A i \in 1 .. 7 : s[i + 1] = s[i] \div 256
    /\ \A i \in 1 .. 8 : s[i] \in Nat

LEMMA ShiftedShifts == ASSUME NEW id \in Nat PROVE Shifts(Shifted(id), id)
<1> DEFINE s == Shifted(id)
<1>1. s = [i \in 1 .. 8 |-> IF i = 1 THEN id ELSE s[i - 1] \div 256]
  BY ShiftedExists
<1> HIDE DEF s
<1>2. \A i \in 1 .. 8 : s[i] = IF i = 1 THEN id ELSE s[i - 1] \div 256
  BY <1>1
<1>3. s[1] = id
  BY <1>2
<1>4. ASSUME NEW i \in 1 .. 7 PROVE s[i + 1] = s[i] \div 256
  <2>1. i + 1 \in 1 .. 8 /\ i + 1 # 1 /\ (i + 1) - 1 = i
    OBVIOUS
  <2>2. s[i + 1] = s[(i + 1) - 1] \div 256
    BY <1>2, <2>1
  <2> QED
    BY <2>1, <2>2
<1>5. ASSUME NEW i \in 1 .. 7, s[i] \in Nat PROVE s[i + 1] \in Nat
  BY <1>4, <1>5
<1>6. \A i \in 1 .. 8 : s[i] \in Nat
  <2>1. \A i \in 1 .. 7 : s[i] \in Nat => s[i + 1] \in Nat
    BY <1>5
  <2>2. s[1] \in Nat
    BY <1>3
  <2>3. s[2] \in Nat
    <3>1. 1 \in 1 .. 7 /\ 1 + 1 = 2
      OBVIOUS
    <3> QED
      BY <2>1, <2>2, <3>1
  <2>4. s[3] \in Nat
    <3>1. 2 \in 1 .. 7 /\ 2 + 1 = 3
      OBVIOUS
    <3> QED
      BY <2>1, <2>3, <3>1
  <2>5. s[4] \in Nat
    <3>1. 3 \in 1 .. 7 /\ 3 + 1 = 4
      OBVIOUS
    <3> QED
      BY <2>1, <2>4, <3>1
  <2>6. s[5] \in Nat
    <3>1. 4 \in 1 .. 7 /\ 4 + 1 = 5
      OBVIOUS
    <3> QED
      BY <2>1, <2>5, <3>1
  <2>7. s[6] \in Nat
    <3>1. 5 \in 1 .. 7 /\ 5 + 1 = 6
      OBVIOUS
    <3> QED
      BY <2>1, <2>6, <3>1
  <2>8. s[7] \in Nat
    <3>1. 6 \in 1 .. 7 /\ 6 + 1 = 7
      OBVIOUS
    <3> QED
      BY <2>1, <2>7, <3>1
  <2>9. s[8] \in Nat
    <3>1. 7 \in 1 .. 7 /\ 7 + 1 = 8
      OBVIOUS
    <3> QED
      BY <2>1, <2>8, <3>1
  <2>10. \A i \in 1 .. 8 : i = 1 \/ i = 2 \/ i = 3 \/ i = 4 \/ i = 5 \/ i = 6 \/ i = 7 \/ i = 8
    OBVIOUS
  <2> QED
    BY <2>2, <2>3, <2>4, <2>5, <2>6, <2>7, <2>8, <2>9, <2>10
<1>7. Shifts(s, id)
  BY <1>3, <1>4, <1>6 DEF Shifts
<1> QED
  BY <1>7 DEF s

\* BytesOfId() makes a block id of every number.
LEMMA BytesAreId == ASSUME NEW id \in Nat PROVE IsId(BytesOfId(id))
<1> DEFINE s == Shifted(id)
<1>1. \A i \in 1 .. 8 : s[i] \in Nat
  BY ShiftedShifts DEF Shifts
<1>2. BytesOfId(id) = [i \in 1 .. 8 |-> s[i] % 256]
  BY BytesAreShifted
<1> HIDE DEF s
<1>3. \A i \in 1 .. 8 : s[i] % 256 \in Byte
  BY <1>1 DEF Byte
<1> QED
  BY <1>2, <1>3 DEF IsId

\* A shift loses the low byte and nothing else.
LEMMA LowByteLost ==
    ASSUME NEW m \in Nat, NEW n \in Nat, m \div 256 = n \div 256, m % 256 = n % 256
    PROVE  m = n
  OBVIOUS

\* A shift divides what a number is less than.
LEMMA ShiftBelow ==
    ASSUME NEW n \in Nat, NEW m \in Nat, n < 256 * m
    PROVE  n \div 256 < m
  OBVIOUS

\* A long long holds the numbers below 2^63, seven shifts of 128.
LongLongEnd == 256 * (256 * (256 * (256 * (256 * (256 * (256 * 128))))))
LongLong == {n \in Nat : n < LongLongEnd}

\* Seven shifts leave one byte of a long long.
LEMMA OneByteLeft ==
    ASSUME NEW s, NEW id \in LongLong, Shifts(s, id)
    PROVE  s[8] % 256 = s[8]
<1> DEFINE i == 256 * 128  j == 256 * i  k == 256 * j  l == 256 * k  m == 256 * l  n == 256 * m
<1>1. \A p \in Nat : 256 * p \in Nat
  OBVIOUS
<1>2. i \in Nat
  OBVIOUS
<1> HIDE DEF i
<1>3. j \in Nat
  BY <1>2
<1> HIDE DEF j
<1>4. k \in Nat
  BY <1>3
<1> HIDE DEF k
<1>5. l \in Nat
  BY <1>4
<1> HIDE DEF l
<1>6. m \in Nat
  BY <1>5
<1> HIDE DEF m
<1>7. n \in Nat
  BY <1>6
<1> HIDE DEF n
<1>8. s[1] < 256 * n
  BY Zenon DEF Shifts, LongLong, LongLongEnd, n, m, l, k, j, i
<1>9. ASSUME NEW p \in 1 .. 7, NEW q \in Nat, s[p] < 256 * q PROVE s[p + 1] < q
  <2>1. s[p] \in Nat /\ s[p + 1] = s[p] \div 256
    BY DEF Shifts
  <2> QED
    BY <1>9, <2>1, ShiftBelow, Zenon
<1>10. s[2] < n
  <2>1. 1 \in 1 .. 7 /\ 1 + 1 = 2
    OBVIOUS
  <2> QED
    BY <1>7, <1>8, <1>9, <2>1
<1>11. s[3] < m
  <2>1. 2 \in 1 .. 7 /\ 2 + 1 = 3
    OBVIOUS
  <2>2. s[2] < 256 * m
    BY <1>10, Zenon DEF n
  <2> QED
    BY <1>6, <1>9, <2>1, <2>2
<1>12. s[4] < l
  <2>1. 3 \in 1 .. 7 /\ 3 + 1 = 4
    OBVIOUS
  <2>2. s[3] < 256 * l
    BY <1>11, Zenon DEF m
  <2> QED
    BY <1>5, <1>9, <2>1, <2>2
<1>13. s[5] < k
  <2>1. 4 \in 1 .. 7 /\ 4 + 1 = 5
    OBVIOUS
  <2>2. s[4] < 256 * k
    BY <1>12, Zenon DEF l
  <2> QED
    BY <1>4, <1>9, <2>1, <2>2
<1>14. s[6] < j
  <2>1. 5 \in 1 .. 7 /\ 5 + 1 = 6
    OBVIOUS
  <2>2. s[5] < 256 * j
    BY <1>13, Zenon DEF k
  <2> QED
    BY <1>3, <1>9, <2>1, <2>2
<1>15. s[7] < i
  <2>1. 6 \in 1 .. 7 /\ 6 + 1 = 7
    OBVIOUS
  <2>2. s[6] < 256 * i
    BY <1>14, Zenon DEF j
  <2> QED
    BY <1>2, <1>9, <2>1, <2>2
<1>16. s[8] < 128
  <2>1. 7 \in 1 .. 7 /\ 7 + 1 = 8 /\ 128 \in Nat
    OBVIOUS
  <2>2. s[7] < 256 * 128
    BY <1>15, Zenon DEF i
  <2> QED
    BY <1>9, <2>1, <2>2
<1>17. s[8] \in Nat
  BY DEF Shifts
<1> QED
  BY ONLY <1>16, <1>17

\* The low bytes of the shifts determine what was shifted.
LEMMA ShiftsDetermine ==
    ASSUME NEW s, NEW id \in Nat, NEW t, NEW other \in Nat, Shifts(s, id), Shifts(t, other),
           \A i \in 1 .. 8 : s[i] % 256 = t[i] % 256, s[8] = t[8]
    PROVE  id = other
<1>1. ASSUME NEW i \in 1 .. 7, s[i + 1] = t[i + 1] PROVE s[i] = t[i]
  <2>1. s[i + 1] = s[i] \div 256 /\ t[i + 1] = t[i] \div 256 /\ s[i] \in Nat /\ t[i] \in Nat
    BY DEF Shifts
  <2>2. s[i] % 256 = t[i] % 256
    OBVIOUS
  <2>3. s[i] \div 256 = t[i] \div 256
    BY ONLY <1>1, <2>1
  <2> DEFINE m == s[i]  n == t[i]
  <2>4. m \in Nat /\ n \in Nat /\ m \div 256 = n \div 256 /\ m % 256 = n % 256
    BY ONLY <2>1, <2>2, <2>3
  <2> HIDE DEF m, n
  <2>5. m = n
    BY ONLY <2>4, LowByteLost
  <2> QED
    BY ONLY <2>5 DEF m, n
<1>2. s[7] = t[7]
  <2>1. 7 \in 1 .. 7 /\ 7 + 1 = 8
    OBVIOUS
  <2> QED
    BY <1>1, <2>1
<1>3. s[6] = t[6]
  <2>1. 6 \in 1 .. 7 /\ 6 + 1 = 7
    OBVIOUS
  <2> QED
    BY <1>2, <1>1, <2>1
<1>4. s[5] = t[5]
  <2>1. 5 \in 1 .. 7 /\ 5 + 1 = 6
    OBVIOUS
  <2> QED
    BY <1>3, <1>1, <2>1
<1>5. s[4] = t[4]
  <2>1. 4 \in 1 .. 7 /\ 4 + 1 = 5
    OBVIOUS
  <2> QED
    BY <1>4, <1>1, <2>1
<1>6. s[3] = t[3]
  <2>1. 3 \in 1 .. 7 /\ 3 + 1 = 4
    OBVIOUS
  <2> QED
    BY <1>5, <1>1, <2>1
<1>7. s[2] = t[2]
  <2>1. 2 \in 1 .. 7 /\ 2 + 1 = 3
    OBVIOUS
  <2> QED
    BY <1>6, <1>1, <2>1
<1>8. s[1] = t[1]
  <2>1. 1 \in 1 .. 7 /\ 1 + 1 = 2
    OBVIOUS
  <2> QED
    BY <1>7, <1>1, <2>1
<1> QED
  BY <1>8 DEF Shifts

\* The bytes of a long long determine it.
LEMMA BytesDetermine ==
    ASSUME NEW id \in LongLong, NEW other \in LongLong, BytesOfId(id) = BytesOfId(other)
    PROVE  id = other
<1> DEFINE s == Shifted(id)
           t == Shifted(other)
<1>1. id \in Nat /\ other \in Nat
  BY Zenon DEF LongLong
<1>2. Shifts(s, id) /\ Shifts(t, other)
  BY <1>1, ShiftedShifts
<1>3. /\ BytesOfId(id) = [i \in 1 .. 8 |-> s[i] % 256]
      /\ BytesOfId(other) = [i \in 1 .. 8 |-> t[i] % 256]
  BY BytesAreShifted
<1> HIDE DEF s, t
<1>4. \A i \in 1 .. 8 : s[i] % 256 = t[i] % 256
  <2>1. \A i \in 1 .. 8 : BytesOfId(id)[i] = s[i] % 256 /\ BytesOfId(other)[i] = t[i] % 256
    BY <1>3
  <2> QED
    BY ONLY <2>1, BytesOfId(id) = BytesOfId(other), Zenon
<1>5. s[8] % 256 = s[8] /\ t[8] % 256 = t[8]
  BY <1>2, OneByteLeft, Zenon
<1>6. s[8] = t[8]
  BY <1>4, <1>5
<1> QED
  BY <1>1, <1>2, <1>4, <1>6, ShiftsDetermine, Zenon

\* base64_encode(long long), lines 56-58, gives each id a text of its own, all of
\* them of one length, whatever stands behind the buffer it prints.
THEOREM NameIdentifiesId ==
    ASSUME NEW id \in LongLong, NEW other \in LongLong, id # other, NEW behind \in Seq(Nat)
    PROVE  /\ Name(id, behind) # Name(other, behind)
           /\ [g \in DOMAIN Name(id, behind) |-> Len(Name(id, behind)[g])]
                = [g \in DOMAIN Name(other, behind) |-> Len(Name(other, behind)[g])]
<1>1. IsId(BytesOfId(id)) /\ IsId(BytesOfId(other))
  BY BytesAreId DEF LongLong
<1>2. BytesOfId(id) # BytesOfId(other)
  BY BytesDetermine
<1>3. Name(id, behind) # Name(other, behind)
  BY <1>1, <1>2, NamesIdentify DEF Name
<1>4. ASSUME NEW x, IsId(x)
      PROVE  [g \in DOMAIN Encode(x, behind) |-> Len(Encode(x, behind)[g])]
               = [g \in 1 .. 3 |-> 4 + Len(behind)]
  <2>1. DOMAIN Encode(x, behind) = 1 .. 3
    BY <1>4, EightBytes DEF Encode, IsId
  <2>2. \A g \in 1 .. 3 : Len(Encode(x, behind)[g]) = 4 + Len(behind)
    BY <1>4, NamesAlike
  <2> QED
    BY <2>1, <2>2
<1> QED
  BY <1>1, <1>3, <1>4 DEF Name

\* The text of an id is the base64 of its bytes, where nothing stands behind the buffer.
THEOREM NameIsBase64 == ASSUME NEW id \in Nat PROVE IsBase64(Name(id, <<>>), BytesOfId(id))
<1>1. BytesOfId(id) \in Seq(Byte) /\ Len(BytesOfId(id)) = 8
  BY BytesAreId DEF IsId
<1>2. Len(BytesOfId(id)) % 3 # 0
  BY <1>1
<1>3. IsBase64(Encode(BytesOfId(id), <<>>), BytesOfId(id))
  BY <1>1, <1>2, EncodesBase64, Zenon
<1> QED
  BY <1>3, Zenon DEF Name
==============================================================================
