--------------------------------- MODULE Base64 ---------------------------------
(***************************************************************************)
(* base64_encode() (src/utils/base64.cpp), from which block ids get the    *)
(* names that Put Block and Put Block List send.  A character is its index *)
(* in b64chars, Pad is '='.  A text is the sequence of the pieces printed  *)
(* to `oss'.                                                               *)
(*                                                                         *)
(* `oss << buf' prints `buf', four characters without a terminator, and    *)
(* what lies behind it in memory up to a zero: `behind', undefined by the  *)
(* language.  A caller that compares two texts relies on its being the     *)
(* same in both.                                                           *)
(***************************************************************************)
EXTENDS Naturals, Sequences

Byte == 0 .. 255
Pad == 64

\* fault: the two low bits of the first byte are masked away
SecondMasked(a, b) == b \div 16

\* lines 20-23, 32-35 and 39-42
First(a) == a \div 4
Second(a, b) == (a % 4) * 16 + b \div 16
Third(b, c) == (b % 16) * 4 + c \div 64
Fourth(c) == c % 64

\* the rounds of the loop, line 19, which stops at three bytes
Full(n) == IF n = 0 THEN 0 ELSE (n - 1) \div 3

\* fault: no case for two bytes that are left
PiecesOfOne(n) == IF n - 3 * Full(n) = 1 THEN Full(n) + 1 ELSE Full(n)

\* the switch, line 29: three bytes that are left are not encoded
Pieces(n) == IF n - 3 * Full(n) \in {1, 2} THEN Full(n) + 1 ELSE Full(n)

ByteAt(bytes, i) == IF i <= Len(bytes) THEN bytes[i] ELSE 0

\* `buf' in round g
Piece(bytes, g) ==
    LET a == ByteAt(bytes, 3 * g - 2)
        b == ByteAt(bytes, 3 * g - 1)
        c == ByteAt(bytes, 3 * g)
    IN <<First(a), Second(a, b),
         IF 3 * g - 1 <= Len(bytes) THEN Third(b, c) ELSE Pad,
         IF 3 * g <= Len(bytes) THEN Fourth(c) ELSE Pad>>

\* base64_encode(const char *, unsigned), lines 14-50
Encode(bytes, behind) ==
    [g \in 1 .. Pieces(Len(bytes)) |-> Piece(bytes, g) \o behind]

\* the eight bytes of a long long, the lowest first (x86)
BytesOfId(id) ==
    LET shifted[i \in 1 .. 8] == IF i = 1 THEN id ELSE shifted[i - 1] \div 256
    IN [i \in 1 .. 8 |-> shifted[i] % 256]

\* base64_encode(long long), lines 56-58
Name(id, behind) == Encode(BytesOfId(id), behind)

------------------------------------------------------------------------------
(* What base64 is: the bits of the bytes, six to a character *)

\* the bits of a byte, the highest first
Weight == <<128, 64, 32, 16, 8, 4, 2, 1>>

Bit(bytes, p) ==
    IF p < 8 * Len(bytes) THEN (bytes[p \div 8 + 1] \div Weight[(p % 8) + 1]) % 2 ELSE 0

\* the character of the bits from p on
SixBits(bytes, p) ==
      32 * Bit(bytes, p) + 16 * Bit(bytes, p + 1) + 8 * Bit(bytes, p + 2)
    + 4 * Bit(bytes, p + 3) + 2 * Bit(bytes, p + 4) + Bit(bytes, p + 5)

IsBase64(text, bytes) ==
    /\ Len(text) = (Len(bytes) + 2) \div 3
    /\ \A g \in DOMAIN text : \A j \in 1 .. 4 :
         LET p == 24 * (g - 1) + 6 * (j - 1) IN
         text[g][j] = IF p < 8 * Len(bytes) THEN SixBits(bytes, p) ELSE Pad
==============================================================================
