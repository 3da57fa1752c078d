-------------------------------- MODULE Codec --------------------------------
(***************************************************************************)
(* The two codecs of the file streams: base64, which both streams use, and *)
(* base 128, which packs seven octets into eight that are not ASCII.       *)
(*                                                                         *)
(* base64 is the code of lmsrp_base64.c, which the library compiles when   *)
(* it is built on pjlib alone; otherwise pjlib-util's copy of the same     *)
(* code is called.  An octet, and a character of an encoded text, is a     *)
(* number below 256.                                                       *)
(***************************************************************************)
EXTENDS Integers, SequencesExt

CONSTANT Word  \* pj_uint32_t counts modulo this: 2^32

ASSUME CodecAssumption == Word \in Nat \ {0}

\* What an encoder or a decoder returns.  When the output has no room for it the
\* status says so and the output is left alone.
Done(out) == [ok |-> TRUE, out |-> out]
TooSmall  == [ok |-> FALSE, out |-> <<>>]

\* s in pieces of n, the last of them possibly shorter.
Groups(s, n) ==
  [k \in 1 .. (Len(s) + n - 1) \div n |->
     SubSeq(s, n * (k - 1) + 1, IF n * k < Len(s) THEN n * k ELSE Len(s))]

\* The element of g at i, or zero when g is shorter.
OrZero(g, i) == IF i <= Len(g) THEN g[i] ELSE 0

-----------------------------------------------------------------------------
(* base64.                                                                 *)

\* Slip: without the room for the rounding up of the encoder.
Base64DecodeSizeAll(n) == ((n * 3) % Word) \div 4

\* decode_leng: the octets to be encoded into a block of n.  Below three the
\* subtraction goes round.
Base64DecodeSize(n) == ((((n - 3) % Word) * 3) % Word) \div 4

\* encode_leng: the room the encoder wants to have for n octets.
Base64EncodeSize(n) == (((n * 4) % Word) \div 3 + 3) % Word

Padding == 61
Inv     == -1

\* base64_char, the ASCII code of a digit.
Base64Char(v) ==
  CASE v < 26 -> 65 + v
    [] v \in 26 .. 51 -> 71 + v
    [] v \in 52 .. 61 -> v - 4
    [] v = 62 -> 43
    [] OTHER  -> 47

Base256Char(c) ==
  CASE c \in 65 .. 90  -> c - 65
    [] c \in 97 .. 122 -> c - 97 + 26
    [] c \in 48 .. 57  -> c - 48 + 52
    [] c = 43 -> 62
    [] c = 47 -> 63
    [] OTHER  -> Inv

\* Slip: the last octet of a group of two loses its low bits.
Base256to64Short(g) ==
  LET c1 == OrZero(g, 1)
      c2 == OrZero(g, 2)
      c3 == OrZero(g, 3)
      digits == <<c1 \div 4, (c1 % 4) * 16 + c2 \div 16,
                  IF Len(g) = 2 THEN 0 ELSE (c2 % 16) * 4 + c3 \div 64, c3 % 64>>
  IN  [k \in 1 .. 4 |-> IF k <= Len(g) + 1 THEN Base64Char(digits[k]) ELSE Padding]

\* A group of up to three octets as four characters.
Base256to64(g) ==
  LET c1 == OrZero(g, 1)
      c2 == OrZero(g, 2)
      c3 == OrZero(g, 3)
      digits == <<c1 \div 4, (c1 % 4) * 16 + c2 \div 16,
                  (c2 % 16) * 4 + c3 \div 64, c3 % 64>>
  IN  [k \in 1 .. 4 |-> IF k <= Len(g) + 1 THEN Base64Char(digits[k]) ELSE Padding]

Base64Encode(input, room) ==
  IF room < Base64EncodeSize(Len(input))
    THEN TooSmall
    ELSE LET groups == Groups(input, 3)
         IN  Done(FlattenSeq([k \in DOMAIN groups |-> Base256to64(groups[k])]))

\* The text without the '=' at its end.
Unpadded(t) ==
  LET n == SelectLastInSeq(t, LAMBDA c : c # Padding)
  IN  SubSeq(t, 1, n)

\* Characters that are not digits are passed over, but for one at the very end of
\* the text, where the loop that does it stops.
Digits(t) ==
  LET of(i) == IF Base256Char(t[i]) = Inv /\ i < Len(t) THEN <<>> ELSE <<Base256Char(t[i])>>
  IN  FlattenSeq([i \in DOMAIN t |-> of(i)])

\* Four digits are three octets, and k of them at the end k - 1.  Every bit of Inv
\* is set.
Base64Octets(g) ==
  LET d == [i \in DOMAIN g |-> IF g[i] = Inv THEN 63 ELSE g[i]]
      c2 == OrZero(d, 2)
      c3 == OrZero(d, 3)
  IN  SubSeq(<<d[1] * 4 + c2 \div 16, (c2 % 16) * 16 + c3 \div 4,
               (c3 % 4) * 64 + OrZero(d, 4)>>, 1, Len(g) - 1)

Base64Decode(input, room) ==
  LET text == Unpadded(input)
      groups == Groups(Digits(text), 4)
  IN  IF room < (Len(text) * 3) \div 4
        THEN TooSmall
        ELSE Done(FlattenSeq([k \in DOMAIN groups |-> Base64Octets(groups[k])]))

-----------------------------------------------------------------------------
(* base 128.                                                               *)

R128DecodeSize(n) == ((n * 7) % Word) \div 8

R128EncodeSize(n) == ((n * 8 + 6) % Word) \div 7

\* The w low bits of an octet v, the highest first, and back.
Bits(v, w) == [i \in 1 .. w |-> (v \div <<128, 64, 32, 16, 8, 4, 2, 1>>[8 - w + i]) % 2]
Value(b) ==
  LET low(i) == IF i <= Len(b) THEN b[Len(b) + 1 - i] ELSE 0
  IN  low(1) + 2 * low(2) + 4 * low(3) + 8 * low(4) + 16 * low(5) + 32 * low(6)
        + 64 * low(7) + 128 * low(8)

\* Seven octets are eight groups of seven bits; what is left over at the end gets
\* zeros behind it: byte << (7 - step).
R128EncodeGroup(g) ==
  LET b == FlattenSeq([i \in DOMAIN g |-> Bits(g[i], 8)]) \o [i \in 1 .. 7 - Len(g) |-> 0]
  IN  [i \in 1 .. Len(g) + 1 |-> 128 + Value(SubSeq(b, 7 * i - 6, 7 * i))]

\* Slip: the bits added behind the last octet are not taken away.
R128DecodeGroupKept(g) ==
  LET b == FlattenSeq([i \in DOMAIN g |-> Bits(g[i] % 128, 7)])
      n == Len(b)
  IN  [i \in 1 .. Len(g) - 1 |->
         Value(SubSeq(b, n - 8 * (Len(g) - i) + 1, n - 8 * (Len(g) - 1 - i)))]

\* The bits behind the last octet go: byte >> (8 - step).
R128DecodeGroup(g) ==
  LET b == FlattenSeq([i \in DOMAIN g |-> Bits(g[i] % 128, 7)])
  IN  [i \in 1 .. Len(g) - 1 |-> Value(SubSeq(b, 8 * i - 7, 8 * i))]

R128Encode(input, room) ==
  IF R128EncodeSize(Len(input)) > room
    THEN TooSmall
    ELSE LET groups == Groups(input, 7)
         IN  Done(FlattenSeq([k \in DOMAIN groups |-> R128EncodeGroup(groups[k])]))

R128Decode(input, room) ==
  IF R128DecodeSize(Len(input)) > room
    THEN TooSmall
    ELSE LET groups == Groups(input, 8)
         IN  Done(FlattenSeq([k \in DOMAIN groups |-> R128DecodeGroup(groups[k])]))

-----------------------------------------------------------------------------
(* Properties, of octets, of a block size, and of a text.                  *)

\* The reference: the bits of the octets, cut into sixes and padded to four.
Base64Reference(s) ==
  LET n == Len(s)
      b == FlattenSeq([i \in DOMAIN s |-> Bits(s[i], 8)]) \o [i \in 1 .. ((4 * n) % 6) |-> 0]
      m == Len(b) \div 6
  IN  [k \in 1 .. m |-> Base64Char(Value(SubSeq(b, 6 * k - 5, 6 * k)))]
        \o [k \in 1 .. (4 - (m % 4)) % 4 |-> Padding]

\* What is encoded in the room encode_leng asks for is the standard's text, fits,
\* and is decoded into a buffer of exactly its length, and into none that is shorter.
Base64Trip(s) ==
  LET t == Base64Encode(s, Base64EncodeSize(Len(s)))
  IN  /\ t.ok /\ t.out = Base64Reference(s)
      /\ Len(t.out) <= Base64EncodeSize(Len(s))
      /\ Base64Decode(t.out, Len(s)) = Done(s)
      /\ s # <<>> => ~Base64Decode(t.out, Len(s) - 1).ok

\* Line breaks in a text do not matter as long as its last digit is behind them.
BreaksIgnored(s, at) ==
  LET t == Base64Reference(s)
      noisy == SubSeq(t, 1, at) \o <<13, 10>> \o SubSeq(t, at + 1, Len(t))
  IN  at < Len(Unpadded(t)) => Base64Decode(noisy, Len(s) + 2).out = s

\* The same for base 128, whose texts have no ASCII character in them.
R128Trip(s) ==
  LET t == R128Encode(s, R128EncodeSize(Len(s)))
  IN  /\ t.ok /\ Len(t.out) = R128EncodeSize(Len(s))
      /\ \A i \in DOMAIN t.out : t.out[i] \in 128 .. 255
      /\ R128Decode(t.out, Len(s)) = Done(s)

\* What decode_leng lets a sender read for a block fits into the block when it is
\* encoded.  One octet more, the longest piece of a resend, fits into the block of
\* base64 for half of the block sizes.
Base64Fits(block) ==
  block >= 3 /\ 4 * block < Word =>
    /\ Base64EncodeSize(Base64DecodeSize(block)) <= block
    /\ (Base64EncodeSize(Base64DecodeSize(block) + 1) <= block) <=> (block % 4 \in {0, 1})

R128Fits(block) ==
  8 * block + 6 < Word => R128EncodeSize(R128DecodeSize(block)) <= block

=============================================================================
