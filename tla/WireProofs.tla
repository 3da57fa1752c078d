------------------------------ MODULE WireProofs ------------------------------
(***************************************************************************)
(* Proofs about Wire for every room, every number of headers and octets,   *)
(* and whatever an application hands to the constructors.                  *)
(*                                                                         *)
(* Messages.  What the constructors make can be written (IsMess of         *)
(* HeaderProofs), so the peer reads it as HeaderProofs says.  The answer   *)
(* to a challenge keeps the words of the challenge that arrived, and they  *)
(* arrive in the Authorization.                                            *)
(*                                                                         *)
(* Blocks.  What a sender reads for a block fits into the block when it is *)
(* encoded, for every block size the counters have room for: by the        *)
(* arithmetic of the four size functions.                                  *)
(*                                                                         *)
(* Both codecs give any octets back.  Each is proved for one group first,  *)
(* where it is arithmetic on a few numbers or bits; the groups of a text   *)
(* are the coded groups of the octets (GroupsAre), so decoding the one     *)
(* gives the groups of the other, and these one behind the other are the   *)
(* octets (FlattenGroups).  The text of base64 is compared with the bits   *)
(* of the octets cut into sixes.                                           *)
(***************************************************************************)
EXTENDS HeaderProofs

-----------------------------------------------------------------------------
(* Blocks of a file, encoded.                                              *)

\* A number below Word is counted as it is.
LEMMA SmallCount == \A x \in Nat : x < Word => x % Word = x
BY CodecAssumption

\* What a quarter of three times a number leaves over.
LEMMA Quarter ==
  ASSUME NEW n \in Nat, n >= 3
  PROVE  LET d == ((n - 3) * 3) \div 4
         IN  /\ d \in Nat /\ 4 * d <= 3 * n - 9 /\ 3 * n - 9 < 4 * d + 4
             /\ (4 * d <= 3 * n - 11) <=> (n % 4 \in {0, 1})
BY Z3

\* A third of four times a number.
LEMMA Third ==
  ASSUME NEW d \in Nat, NEW n \in Int
  PROVE  ((d * 4) \div 3 + 3 <= n) <=> (4 * d <= 3 * n - 7)
BY Z3

\* The room for the octets read for a block of base64 is in the block; with one octet
\* more it is for two block sizes of four.
THEOREM Base64FitsAll == \A n \in Nat : Base64Fits(n)
<1> SUFFICES ASSUME NEW n \in Nat, n >= 3, 4 * n < Word
             PROVE  /\ Base64EncodeSize(Base64DecodeSize(n)) <= n
                    /\ (Base64EncodeSize(Base64DecodeSize(n) + 1) <= n) <=> (n % 4 \in {0, 1})
  BY DEF Base64Fits
<1> DEFINE d == ((n - 3) * 3) \div 4
<1>1. /\ d \in Nat /\ 4 * d <= 3 * n - 9 /\ 3 * n - 9 < 4 * d + 4
      /\ (4 * d <= 3 * n - 11) <=> (n % 4 \in {0, 1})
  BY Quarter
<1>2. Word \in Nat
  BY CodecAssumption
<1>3. Base64DecodeSize(n) = d
  <2>1. (n - 3) % Word = n - 3 /\ ((n - 3) * 3) % Word = (n - 3) * 3
    BY <1>2, SmallCount
  <2> QED
    BY <2>1 DEF Base64DecodeSize
<1> HIDE DEF d
<1>4. \A k \in {d, d + 1} : Base64EncodeSize(k) = (k * 4) \div 3 + 3
  <2> SUFFICES ASSUME NEW k \in {d, d + 1} PROVE Base64EncodeSize(k) = (k * 4) \div 3 + 3
    OBVIOUS
  <2>1. k \in Nat /\ k * 4 \in Nat /\ k * 4 < Word
    BY <1>1, <1>2
  <2>2. (k * 4) \div 3 + 3 \in Nat /\ (k * 4) \div 3 + 3 < Word
    BY <1>1, <1>2, <2>1
  <2> QED
    BY <1>2, <2>1, <2>2, SmallCount DEF Base64EncodeSize
<1>5. (Base64EncodeSize(d) <= n) <=> (4 * d <= 3 * n - 7)
  BY <1>1, <1>4, Third
<1>6. (Base64EncodeSize(d + 1) <= n) <=> (4 * (d + 1) <= 3 * n - 7)
  BY <1>1, <1>4, Third
<1> QED
  BY <1>1, <1>3, <1>5, <1>6

\* The room for the octets read for a block of base 128 is in the block.
THEOREM R128FitsAll == \A n \in Nat : R128Fits(n)
<1> SUFFICES ASSUME NEW n \in Nat, 8 * n + 6 < Word
             PROVE  R128EncodeSize(R128DecodeSize(n)) <= n
  BY DEF R128Fits
<1> DEFINE d == (n * 7) \div 8
<1>1. d \in Nat /\ 8 * d <= 7 * n
  BY Z3
<1>2. Word \in Nat
  BY CodecAssumption
<1>3. R128DecodeSize(n) = d
  <2>1. (n * 7) % Word = n * 7
    BY <1>2, SmallCount
  <2> QED
    BY <2>1 DEF R128DecodeSize
<1> HIDE DEF d
<1>4. (d * 8 + 6) % Word = d * 8 + 6
  BY <1>1, <1>2, SmallCount
<1>5. (d * 8 + 6) \div 7 <= n
  BY <1>1, Z3
<1> QED
  BY <1>3, <1>4, <1>5 DEF R128EncodeSize

-----------------------------------------------------------------------------
(* Groups.                                                                 *)

\* How many groups there are.
LEMMA CountLemma ==
  ASSUME NEW c \in Widths, NEW m \in Nat
  PROVE  LET n == (m + c - 1) \div c
         IN  n \in Nat /\ (n = 0 <=> m = 0) /\ (n > 0 => m - c * (n - 1) \in 1 .. c)
<1>3. CASE c = 3
  <2> DEFINE n == (m + 3 - 1) \div 3
  <2>1. n \in Nat /\ (n = 0 <=> m = 0) /\ (n > 0 => m - 3 * (n - 1) \in 1 .. 3)
    BY Z3
  <2> QED
    BY <1>3, <2>1
<1>4. CASE c = 4
  <2> DEFINE n == (m + 4 - 1) \div 4
  <2>1. n \in Nat /\ (n = 0 <=> m = 0) /\ (n > 0 => m - 4 * (n - 1) \in 1 .. 4)
    BY Z3
  <2> QED
    BY <1>4, <2>1
<1>5. CASE c = 5
  <2> DEFINE n == (m + 5 - 1) \div 5
  <2>1. n \in Nat /\ (n = 0 <=> m = 0) /\ (n > 0 => m - 5 * (n - 1) \in 1 .. 5)
    BY Z3
  <2> QED
    BY <1>5, <2>1
<1>6. CASE c = 6
  <2> DEFINE n == (m + 6 - 1) \div 6
  <2>1. n \in Nat /\ (n = 0 <=> m = 0) /\ (n > 0 => m - 6 * (n - 1) \in 1 .. 6)
    BY Z3
  <2> QED
    BY <1>6, <2>1
<1>7. CASE c = 7
  <2> DEFINE n == (m + 7 - 1) \div 7
  <2>1. n \in Nat /\ (n = 0 <=> m = 0) /\ (n > 0 => m - 7 * (n - 1) \in 1 .. 7)
    BY Z3
  <2> QED
    BY <1>7, <2>1
<1>8. CASE c = 8
  <2> DEFINE n == (m + 8 - 1) \div 8
  <2>1. n \in Nat /\ (n = 0 <=> m = 0) /\ (n > 0 => m - 8 * (n - 1) \in 1 .. 8)
    BY Z3
  <2> QED
    BY <1>8, <2>1
<1> QED
  BY <1>3, <1>4, <1>5, <1>6, <1>7, <1>8 DEF Widths

\* The groups of a sequence are its pieces.
LEMMA GroupsPieces ==
  ASSUME NEW S, NEW s \in Seq(S), NEW c \in Widths
  PROVE  Groups(s, c) \in Seq(Seq(S)) /\ Pieces(s, Groups(s, c), c)
<1> DEFINE m == Len(s)
           n == (m + c - 1) \div c
           To(k) == IF c * k < m THEN c * k ELSE m
           Group(k) == Part(s, c * (k - 1), To(k))
           g == [k \in 1 .. n |-> Group(k)]
<1>1. m \in Nat /\ c \in Nat /\ c > 0
  BY LenProperties DEF Widths
<1>2. n \in Nat /\ (n = 0 <=> m = 0) /\ (n > 0 => m - c * (n - 1) \in 1 .. c)
  BY <1>1, CountLemma
<1>3. Groups(s, c) = g
  BY DEF Groups, Part
<1> HIDE DEF n, m
<1>4. ASSUME NEW k \in 1 .. n
      PROVE  /\ c * (k - 1) \in Nat /\ To(k) \in Nat /\ c * (k - 1) <= To(k) /\ To(k) <= m
             /\ k < n => To(k) - c * (k - 1) = c
             /\ k = n => To(k) = m
  <2>1. k - 1 \in Nat /\ n - 1 \in Nat /\ k \in Nat /\ n \in Nat /\ n > 0 /\ k - 1 + 1 = k
    BY <1>2
  <2> DEFINE x == c * (k - 1)
             y == c * k
             z == c * (n - 1)
  <2>2. x \in Nat /\ y \in Nat /\ y = x + c
    BY <2>1, TimesLemma
  <2>3. z \in Nat /\ m - z \in 1 .. c
    BY <1>2, <2>1, TimesLemma
  <2>4. CASE k < n
    <3>1. k - 1 < n - 1
      BY <2>1, <2>4
    <3>2. x + c <= z
      BY <2>1, <3>1, TimesLemma
    <3>3. To(k) = y /\ y < m
      <4>1. y < m
        <5> HIDE DEF x, y, z
        <5> QED
          BY <1>1, <2>2, <2>3, <3>2
      <4> QED
        BY <4>1
    <3>4. x <= y /\ y - x = c /\ y <= m
      <4> HIDE DEF x, y
      <4> QED
        BY <1>1, <2>2, <3>3
    <3> QED
      BY <2>2, <2>4, <3>3, <3>4
  <2>5. CASE k = n
    <3>1. z = x
      BY <2>5
    <3>2. ~(y < m) /\ x <= m
      <4> HIDE DEF x, y, z
      <4> QED
        BY <1>1, <2>2, <2>3, <3>1
    <3>3. To(k) = m
      BY <3>2
    <3> QED
      BY <1>1, <2>2, <2>5, <3>2, <3>3
  <2> QED
    BY <2>1, <2>4, <2>5
<1>5. ASSUME NEW k \in 1 .. n
      PROVE  /\ Group(k) \in Seq(S) /\ Len(Group(k)) = To(k) - c * (k - 1)
             /\ \A j \in 1 .. To(k) - c * (k - 1) : Group(k)[j] = s[c * (k - 1) + j]
  <2> DEFINE x == c * (k - 1)
             y == To(k)
  <2>1. x \in Nat /\ y \in Nat /\ x <= y /\ y <= Len(s)
    BY <1>4 DEF m
  <2> HIDE DEF x, y
  <2>2. IsPart(Part(s, x, y), S, s, x, y)
    BY <2>1, PartIs
  <2> QED
    BY <2>2 DEF x, y, IsPart
<1> HIDE DEF To, Group
<1>6. /\ g \in Seq(Seq(S)) /\ Len(g) = n
      /\ \A k \in 1 .. n : g[k] = Group(k)
  <2>1. g \in Seq(Seq(S))
    BY <1>2, <1>5, IsASeq
  <2> QED
    BY <1>2, <2>1
<1> HIDE DEF g
<1>7. \A k \in 1 .. n - 1 : Len(g[k]) = c
  <2> SUFFICES ASSUME NEW k \in 1 .. n - 1 PROVE Len(g[k]) = c
    OBVIOUS
  <2>1. k \in 1 .. n /\ k < n
    BY <1>2
  <2> QED
    BY <1>4, <1>5, <1>6, <2>1
<1>8. ASSUME n # 0 PROVE Len(g[n]) \in 1 .. c /\ m = c * (n - 1) + Len(g[n])
  <2>1. n \in 1 .. n /\ n > 0
    BY <1>2, <1>8
  <2>2. Len(g[n]) = m - c * (n - 1)
    BY <1>4, <1>5, <1>6, <2>1
  <2>3. Len(g[n]) \in 1 .. c
    BY <1>2, <2>1, <2>2
  <2>4. m = c * (n - 1) + Len(g[n])
    BY <1>1, <1>4, <2>1, <2>2
  <2> QED
    BY <2>3, <2>4
<1>9. ASSUME NEW k \in 1 .. n, NEW j \in 1 .. Len(g[k])
      PROVE  s[c * (k - 1) + j] = g[k][j]
  <2>1. g[k] = Group(k)
    BY <1>6, <1>9
  <2>2. Len(Group(k)) = To(k) - c * (k - 1)
    BY <1>5, <1>9
  <2>3. j \in 1 .. To(k) - c * (k - 1)
    BY <1>9, <2>1, <2>2
  <2>4. Group(k)[j] = s[c * (k - 1) + j]
    BY <1>5, <1>9, <2>3, Zenon
  <2> QED
    BY <2>1, <2>4
<1>10. Pieces(s, g, c)
  <2>1. IF n = 0 THEN m = 0 ELSE Len(g[n]) \in 1 .. c /\ m = c * (n - 1) + Len(g[n])
    BY <1>2, <1>8
  <2> QED
    BY <1>6, <1>7, <1>9, <2>1 DEF Pieces, m
<1> QED
  BY <1>3, <1>6, <1>10

\* Pieces are the groups.
LEMMA GroupsAre ==
  ASSUME NEW S, NEW s \in Seq(S), NEW ss \in Seq(Seq(S)), NEW c \in Widths, Pieces(s, ss, c)
  PROVE  Groups(s, c) = ss
BY GroupsPieces, PiecesUnique

\* The groups one behind the other are the sequence.
LEMMA FlattenGroups ==
  ASSUME NEW S, NEW s \in Seq(S), NEW c \in Widths
  PROVE  FlattenSeq(Groups(s, c)) = s
<1> DEFINE g == Groups(s, c)
           w == FlattenSeq(g)
<1>1. g \in Seq(Seq(S)) /\ Pieces(s, g, c)
  BY GroupsPieces
<1> HIDE DEF g
<1>2. /\ \A k \in 1 .. Len(g) - 1 : Len(g[k]) = c
      /\ Len(g) > 0 => Len(g[Len(g)]) \in 1 .. c
  BY <1>1, LenProperties DEF Pieces
<1>3. w \in Seq(S) /\ Pieces(w, g, c)
  BY <1>1, <1>2, FlattenPieces
<1> HIDE DEF w
<1>4. w = s
  BY <1>1, <1>3, PiecesEqual
<1> QED
  BY <1>4 DEF w, g

-----------------------------------------------------------------------------
(* base64, group by group.                                                 *)

Byte == 0 .. 255

\* A digit is read as it was written, and is not the padding.
LEMMA CharLemma ==
  \A v \in 0 .. 63 : /\ Base64Char(v) \in Byte /\ Base64Char(v) # Padding
                     /\ Base256Char(Base64Char(v)) = v
BY DEF Base64Char, Base256Char, Padding, Byte

\* The four digits of three octets, and the octets of the digits.
LEMMA SixBits ==
  ASSUME NEW c1 \in Byte, NEW c2 \in Byte, NEW c3 \in Byte
  PROVE  LET d1 == c1 \div 4
             d2 == (c1 % 4) * 16 + c2 \div 16
             d3 == (c2 % 16) * 4 + c3 \div 64
             d4 == c3 % 64
         IN  /\ d1 \in 0 .. 63 /\ d2 \in 0 .. 63 /\ d3 \in 0 .. 63 /\ d4 \in 0 .. 63
             /\ d1 * 4 + d2 \div 16 = c1
             /\ (d2 % 16) * 16 + d3 \div 4 = c2
             /\ (d3 % 4) * 64 + d4 = c3
BY Z3 DEF Byte

\* The first of three.
LEMMA FirstOfThree ==
  ASSUME NEW a, NEW b, NEW c
  PROVE  /\ SubSeq(<<a, b, c>>, 1, 1) = <<a>>
         /\ SubSeq(<<a, b, c>>, 1, 2) = <<a, b>>
         /\ SubSeq(<<a, b, c>>, 1, 3) = <<a, b, c>>
<1> DEFINE S == {a, b, c}
           s == <<a, b, c>>
<1>1. /\ s \in Seq(S) /\ Len(s) = 3 /\ s[1] = a /\ s[2] = b /\ s[3] = c
      /\ <<a>> \in Seq(S) /\ <<a, b>> \in Seq(S)
  OBVIOUS
<1> HIDE DEF s, S
<1>2. ASSUME NEW n \in 1 .. 3
      PROVE  /\ SubSeq(s, 1, n) \in Seq(S) /\ Len(SubSeq(s, 1, n)) = n
             /\ \A i \in 1 .. n : SubSeq(s, 1, n)[i] = s[i]
  <2>1. n \in Nat /\ n <= Len(s)
    BY <1>1
  <2> QED
    BY <1>1, <2>1, Beginning
<1>3. SubSeq(s, 1, 1) = <<a>>
  <2> DEFINE u == SubSeq(s, 1, 1)
  <2>1. u \in Seq(S) /\ Len(u) = 1 /\ u[1] = a
    BY <1>1, <1>2
  <2> HIDE DEF u
  <2>2. u = <<a>>
    BY <2>1
  <2> QED
    BY <2>2 DEF u
<1>4. SubSeq(s, 1, 2) = <<a, b>>
  <2> DEFINE u == SubSeq(s, 1, 2)
  <2>1. u \in Seq(S) /\ Len(u) = 2 /\ u[1] = a /\ u[2] = b
    BY <1>1, <1>2
  <2> HIDE DEF u
  <2>2. u = <<a, b>>
    BY <2>1
  <2> QED
    BY <2>2 DEF u
<1>5. SubSeq(s, 1, 3) = s
  BY <1>1, SubSeqFull
<1> QED
  BY <1>3, <1>4, <1>5 DEF s

\* The digits that are read of a group.
Read64(g) == [j \in 1 .. Len(g) + 1 |-> Base256Char(Base256to64(g)[j])]

\* A group is four characters, of which one more than it has octets are digits, and
\* these are its octets.
LEMMA Group64 ==
  ASSUME NEW g \in Seq(Byte), Len(g) \in 1 .. 3
  PROVE  /\ Base256to64(g) \in Seq(Byte) /\ Len(Base256to64(g)) = 4
         /\ \A j \in 1 .. Len(g) + 1 : Base256to64(g)[j] # Padding /\ Read64(g)[j] \in 0 .. 63
         /\ \A j \in Len(g) + 2 .. 4 : Base256to64(g)[j] = Padding
         /\ Read64(g) \in Seq(0 .. 63) /\ Base64Octets(Read64(g)) = g
<1> DEFINE l  == Len(g)
           c1 == OrZero(g, 1)
           c2 == OrZero(g, 2)
           c3 == OrZero(g, 3)
           d1 == c1 \div 4
           d2 == (c1 % 4) * 16 + c2 \div 16
           d3 == (c2 % 16) * 4 + c3 \div 64
           d4 == c3 % 64
           d  == <<d1, d2, d3, d4>>
           e  == Base256to64(g)
           h  == Read64(g)
<1>1. l \in 1 .. 3 /\ \A i \in 1 .. l : g[i] \in Byte
  BY ElementOfSeq
<1>2. c1 \in Byte /\ c2 \in Byte /\ c3 \in Byte
  BY <1>1 DEF OrZero, Byte
<1>3. e = [k \in 1 .. 4 |-> IF k <= l + 1 THEN Base64Char(d[k]) ELSE Padding]
  BY DEF Base256to64
<1>4. /\ l >= 1 => c1 = g[1]
      /\ l >= 2 => c2 = g[2]
      /\ l >= 3 => c3 = g[3]
  BY <1>1 DEF OrZero
<1> HIDE DEF c1, c2, c3
<1>5. /\ d1 \in 0 .. 63 /\ d2 \in 0 .. 63 /\ d3 \in 0 .. 63 /\ d4 \in 0 .. 63
      /\ d1 * 4 + d2 \div 16 = c1
      /\ (d2 % 16) * 16 + d3 \div 4 = c2
      /\ (d3 % 4) * 64 + d4 = c3
  BY <1>2, SixBits
<1> HIDE DEF d1, d2, d3, d4
<1>6. \A k \in 1 .. 4 : d[k] \in 0 .. 63
  <2>1. d[1] \in 0 .. 63 /\ d[2] \in 0 .. 63 /\ d[3] \in 0 .. 63 /\ d[4] \in 0 .. 63
    BY <1>5
  <2>2. \A k \in 1 .. 4 : k = 1 \/ k = 2 \/ k = 3 \/ k = 4
    OBVIOUS
  <2> HIDE DEF d
  <2> QED
    BY <2>1, <2>2
<1> HIDE DEF d, l, e
<1>7. \A k \in 1 .. 4 : Base64Char(d[k]) \in Byte /\ Base64Char(d[k]) # Padding
                          /\ Base256Char(Base64Char(d[k])) = d[k]
  BY <1>6, CharLemma
<1>8. /\ \A k \in 1 .. 4 : e[k] = IF k <= l + 1 THEN Base64Char(d[k]) ELSE Padding
      /\ DOMAIN e = 1 .. 4
  BY <1>3
<1>9. e \in Seq(Byte) /\ Len(e) = 4
  <2>1. \A k \in 1 .. 4 : e[k] \in Byte
    <3>1. Padding \in Byte
      BY DEF Padding, Byte
    <3> QED
      BY <1>7, <1>8, <3>1, Zenon
  <2>2. e = [k \in 1 .. 4 |-> e[k]]
    BY <1>3
  <2> QED
    BY <2>1, <2>2, IsASeq
<1>10. \A j \in 1 .. l + 1 : j \in 1 .. 4 /\ j <= l + 1
  BY <1>1
<1>11. \A j \in 1 .. l + 1 : e[j] # Padding /\ Base256Char(e[j]) = d[j]
  BY <1>7, <1>8, <1>10
<1>12. h = [j \in 1 .. l + 1 |-> d[j]]
  BY <1>11 DEF Read64, e, l
<1> HIDE DEF h
<1>13. \A j \in l + 2 .. 4 : e[j] = Padding
  BY <1>1, <1>8
<1>14. /\ h \in Seq(0 .. 63) /\ Len(h) = l + 1 /\ DOMAIN h = 1 .. l + 1
       /\ \A j \in 1 .. l + 1 : h[j] = d[j] /\ h[j] \in 0 .. 63
  <2>1. \A j \in 1 .. l + 1 : d[j] \in 0 .. 63
    BY <1>6, <1>10
  <2>2. l + 1 \in Nat
    BY <1>1
  <2>3. h \in Seq(0 .. 63)
    <3>1. h \in [1 .. l + 1 -> 0 .. 63]
      BY <1>12, <2>1, Zenon
    <3> QED
      BY <2>2, <3>1, SeqIs
  <2>4. Len(h) = l + 1 /\ DOMAIN h = 1 .. l + 1 /\ \A j \in 1 .. l + 1 : h[j] = d[j]
    BY <1>12, <2>2
  <2> QED
    BY <2>1, <2>3, <2>4, Zenon
<1>15. Base64Octets(h) = SubSeq(<<d1 * 4 + d2 \div 16, (d2 % 16) * 16 + OrZero(h, 3) \div 4,
                                  (OrZero(h, 3) % 4) * 64 + OrZero(h, 4)>>, 1, l)
  <2>1. [i \in DOMAIN h |-> IF h[i] = Inv THEN 63 ELSE h[i]] = h
    <3>1. \A v \in 0 .. 63 : v # Inv
      BY DEF Inv
    <3>2. \A i \in 1 .. l + 1 : h[i] # Inv
      BY <1>14, <3>1, Zenon
    <3> QED
      BY <1>12, <1>14, <3>2
  <2>2. h[1] = d1 /\ OrZero(h, 2) = d2
    BY <1>1, <1>14 DEF OrZero, d
  <2>3. Len(h) - 1 = l
    BY <1>1, <1>14
  <2> QED
    BY <2>1, <2>2, <2>3 DEF Base64Octets
<1>17. /\ SubSeq(<<c1, c2, c3>>, 1, 1) = <<c1>>
       /\ SubSeq(<<c1, c2, c3>>, 1, 2) = <<c1, c2>>
       /\ SubSeq(<<c1, c2, c3>>, 1, 3) = <<c1, c2, c3>>
  BY FirstOfThree
<1>16. Base64Octets(h) = g
  <2>1. CASE l = 1
    <3>1. Base64Octets(h) = <<c1>>
      BY <1>5, <1>15, <2>1, FirstOfThree, Zenon
    <3> QED
      BY <1>4, <2>1, <3>1 DEF l
  <2>2. CASE l = 2
    <3>1. OrZero(h, 3) = d3
      BY <1>14, <2>2 DEF OrZero, d
    <3>2. Base64Octets(h) = <<c1, c2>>
      BY <1>5, <1>15, <2>2, <3>1, FirstOfThree, Zenon
    <3> QED
      BY <1>4, <2>2, <3>2 DEF l
  <2>3. CASE l = 3
    <3>1. OrZero(h, 3) = d3 /\ OrZero(h, 4) = d4
      BY <1>14, <2>3 DEF OrZero, d
    <3>2. Base64Octets(h) = SubSeq(<<c1, c2, c3>>, 1, 3)
      BY <1>5, <1>15, <2>3, <3>1, Zenon
    <3> QED
      BY <1>4, <1>17, <2>3, <3>2 DEF l
  <2> QED
    BY <1>1, <2>1, <2>2, <2>3
<1> QED
  BY <1>9, <1>11, <1>13, <1>14, <1>16 DEF e, h, l

-----------------------------------------------------------------------------
(* What the decoder sees of a text.                                        *)

\* The characters of a text that stay of it, of what of has for each.
Singles(u) ==
  [i \in DOMAIN u |-> IF Base256Char(u[i]) = Inv /\ i < Len(u) THEN <<>> ELSE <<Base256Char(u[i])>>]

\* d are the digits of a text u with w other characters behind the first at.
AmongDigits(u, d, at, w) ==
  /\ Len(u) = Len(d) + w
  /\ \A i \in 1 .. at : Base256Char(u[i]) = d[i]
  /\ \A i \in at + 1 .. at + w : Base256Char(u[i]) = Inv
  /\ \A i \in at + 1 .. Len(d) : Base256Char(u[i + w]) = d[i]

\* The other characters are passed over: what is left is the digits.
LEMMA DigitsAmong ==
  ASSUME NEW u \in Seq(Byte), NEW d \in Seq(0 .. 63), NEW at \in 0 .. Len(d), NEW w \in Nat,
         AmongDigits(u, d, at, w), w = 0 \/ at < Len(d)
  PROVE  Digits(u) = d
<1> DEFINE m == Len(d)
           ss == Singles(u)
           S == Int
           W == FlattenSeq(ss)
           Pos(k) == IF k <= at THEN k ELSE IF k <= at + w THEN at ELSE k - w
           T == {k \in Nat : k <= m + w => Reach(ss, k) = Pos(k)}
<1>1. /\ m \in Nat /\ Len(u) = m + w /\ at \in Nat /\ at <= m /\ DOMAIN u = 1 .. m + w
      /\ \A i \in 1 .. m : d[i] \in 0 .. 63
  BY LenProperties, ElementOfSeq DEF AmongDigits
<1>2. Digits(u) = W
  BY DEF Digits, Singles
<1>3. \A v \in 0 .. 63 : v # Inv /\ v \in S
  BY DEF Inv
<1> HIDE DEF m, S
<1>4. ASSUME NEW i \in 1 .. at
      PROVE  Base256Char(u[i]) = d[i] /\ i \in 1 .. m /\ i \in 1 .. m + w
  BY <1>1 DEF AmongDigits
<1>5. ASSUME NEW i \in at + 1 .. at + w
      PROVE  Base256Char(u[i]) = Inv /\ i < m + w /\ i \in 1 .. m + w
  BY <1>1 DEF AmongDigits, m
<1>6. ASSUME NEW i \in at + w + 1 .. m + w
      PROVE  Base256Char(u[i]) = d[i - w] /\ i - w \in 1 .. m /\ i \in 1 .. m + w
  <2>1. i - w \in at + 1 .. m /\ i - w + w = i /\ i - w \in 1 .. m /\ i \in 1 .. m + w
    BY <1>1
  <2> QED
    BY <2>1, Zenon DEF AmongDigits, m
<1>7. \A i \in 1 .. m + w : i \in 1 .. at \/ i \in at + 1 .. at + w \/ i \in at + w + 1 .. m + w
  BY <1>1
<1>8. \A i \in 1 .. at : ss[i] = <<d[i]>>
  BY <1>1, <1>3, <1>4, Zenon DEF Singles
<1>9. \A i \in at + 1 .. at + w : ss[i] = <<>>
  BY <1>1, <1>5, Zenon DEF Singles
<1>10. \A i \in at + w + 1 .. m + w : ss[i] = <<d[i - w]>>
  BY <1>1, <1>3, <1>6, Zenon DEF Singles
<1>11. ss \in Seq(Seq(S)) /\ Len(ss) = m + w
  <2>1. \A i \in 1 .. m + w : ss[i] \in Seq(S)
    <3>1. \A v \in 0 .. 63 : <<v>> \in Seq(S)
      BY <1>3, OneElement, Zenon
    <3>2. <<>> \in Seq(S)
      BY EmptySeq
    <3> QED
      <4> HIDE DEF ss
      <4>1. ASSUME NEW i \in 1 .. at PROVE ss[i] \in Seq(S)
        <5>1. d[i] \in 0 .. 63
          BY <1>1, <1>4
        <5>2. ss[i] = <<d[i]>>
          BY <1>8
        <5> QED
          BY <3>1, <5>1, <5>2, Zenon
      <4>2. \A i \in at + 1 .. at + w : ss[i] \in Seq(S)
        BY <1>9, <3>2, Zenon
      <4>3. ASSUME NEW i \in at + w + 1 .. m + w PROVE ss[i] \in Seq(S)
        <5>1. d[i - w] \in 0 .. 63
          BY <1>1, <1>6
        <5>2. ss[i] = <<d[i - w]>>
          BY <1>10
        <5> QED
          BY <3>1, <5>1, <5>2, Zenon
      <4> QED
        BY <1>7, <4>1, <4>2, <4>3, Zenon
  <2>2. ss \in [1 .. m + w -> Seq(S)]
    BY <1>1, <2>1, Zenon DEF Singles
  <2>3. m + w \in Nat
    BY <1>1
  <2> QED
    BY <2>2, <2>3, SeqIs
<1> HIDE DEF ss, W
<1>12. W \in Seq(S) /\ Reach(ss, 0) = 0 /\ Len(W) = Reach(ss, m + w)
  BY <1>11, FlattenType, ReachEnds DEF W
<1>13. ASSUME NEW k \in Nat, k + 1 <= m + w
       PROVE  /\ Reach(ss, k) \in Nat /\ Reach(ss, k + 1) = Reach(ss, k) + Len(ss[k + 1])
              /\ \A j \in 1 .. Len(ss[k + 1]) : W[Reach(ss, k) + j] = ss[k + 1][j]
  <2>1. k \in 0 .. Len(ss) /\ k + 1 \in 1 .. Len(ss)
    BY <1>1, <1>11, <1>13
  <2> DEFINE i == k + 1
  <2>2. k \in 0 .. Len(ss) /\ i \in 1 .. Len(ss) /\ i = k + 1
    BY <2>1
  <2> HIDE DEF i
  <2>3. LET t == At(ss, i)
            v == FlattenSeq(ss)
        IN  /\ t \in Seq(S) /\ v \in Seq(S) /\ Reach(ss, k) \in Nat
            /\ Reach(ss, i) = Reach(ss, k) + Len(t) /\ Reach(ss, i) <= Len(v)
            /\ \A j \in 1 .. Len(t) : v[Reach(ss, k) + j] = t[j]
    BY <1>11, <2>2, ReachStep, Zenon
  <2> QED
    BY <2>3, Zenon DEF At, W, i
<1>14. 0 \in T
  BY <1>1, <1>12
<1>15. ASSUME NEW k \in Nat, k \in T PROVE k + 1 \in T
  <2> SUFFICES ASSUME k + 1 <= m + w PROVE Reach(ss, k + 1) = Pos(k + 1)
    BY <1>15
  <2>1. Reach(ss, k) = Pos(k) /\ Reach(ss, k + 1) = Reach(ss, k) + Len(ss[k + 1])
    BY <1>1, <1>13, <1>15
  <2>2. CASE k + 1 \in 1 .. at
    <3>1. Len(ss[k + 1]) = 1
      BY <1>8, <2>2, OneElement, Zenon
    <3> QED
      BY <1>1, <2>1, <2>2, <3>1
  <2>3. CASE k + 1 \in at + 1 .. at + w
    <3>1. Len(ss[k + 1]) = 0
      BY <1>9, <2>3
    <3> QED
      BY <1>1, <2>1, <2>3, <3>1
  <2>4. CASE k + 1 \in at + w + 1 .. m + w
    <3>1. Len(ss[k + 1]) = 1
      BY <1>10, <2>4, OneElement, Zenon
    <3> QED
      BY <1>1, <2>1, <2>4, <3>1
  <2>5. k + 1 \in 1 .. m + w
    BY <1>1
  <2> QED
    BY <1>7, <2>2, <2>3, <2>4, <2>5
<1>16. \A k \in 0 .. m + w : Reach(ss, k) = Pos(k)
  <2>1. \A k \in Nat : k \in T
    <3> HIDE DEF T
    <3> QED
      BY <1>14, <1>15, Induction
  <2> QED
    BY <1>1, <2>1
<1>17. Len(W) = m
  <2>1. m + w \in 0 .. m + w /\ Pos(m + w) = m
    BY <1>1
  <2> QED
    BY <1>12, <1>16, <2>1
<1>18. ASSUME NEW x \in 1 .. m PROVE W[x] = d[x]
  <2>1. CASE x <= at
    <3>1. x - 1 \in Nat /\ x - 1 + 1 = x /\ x <= m + w /\ x \in 1 .. at /\ x - 1 \in 0 .. m + w
            /\ Pos(x - 1) = x - 1
      BY <1>1, <2>1
    <3>2. ss[x] = <<d[x]>> /\ Reach(ss, x - 1) = x - 1
      BY <1>8, <1>16, <3>1
    <3>3. Len(ss[x]) = 1 /\ ss[x][1] = d[x]
      BY <3>2, OneElement, Zenon
    <3>4. \A j \in 1 .. Len(ss[x]) : W[Reach(ss, x - 1) + j] = ss[x][j]
      BY <1>13, <3>1
    <3>5. W[Reach(ss, x - 1) + 1] = ss[x][1]
      BY <3>3, <3>4
    <3> QED
      BY <3>1, <3>2, <3>3, <3>5
  <2>2. CASE ~(x <= at)
    <3> DEFINE k == x + w - 1
    <3>1. k \in Nat /\ k + 1 = x + w /\ k + 1 <= m + w /\ k + 1 \in at + w + 1 .. m + w
            /\ k \in 0 .. m + w /\ Pos(k) = x - 1 /\ k + 1 - w = x
      BY <1>1, <2>2
    <3> HIDE DEF k
    <3>2. ss[k + 1] = <<d[x]>> /\ Reach(ss, k) = x - 1
      <4> DEFINE i == k + 1
      <4>0. i \in at + w + 1 .. m + w
        BY <3>1
      <4> HIDE DEF i
      <4>1. ss[i] = <<d[i - w]>>
        BY <1>10, <4>0, Zenon
      <4>2. Reach(ss, k) = Pos(k)
        BY <1>16, <3>1, Zenon
      <4> HIDE DEF Pos
      <4> QED
        BY <3>1, <4>1, <4>2 DEF i
    <3>3. x - 1 + 1 = x
      BY <1>1
    <3>4. Len(ss[k + 1]) = 1 /\ ss[k + 1][1] = d[x]
      BY <3>2, OneElement, Zenon
    <3>5. \A j \in 1 .. Len(ss[k + 1]) : W[Reach(ss, k) + j] = ss[k + 1][j]
      BY <1>13, <3>1
    <3>6. W[Reach(ss, k) + 1] = ss[k + 1][1]
      BY <3>4, <3>5
    <3> QED
      BY <3>2, <3>3, <3>4, <3>6
  <2> QED
    BY <2>1, <2>2
<1>19. d \in Seq(S)
  <2>1. d \in [1 .. m -> S]
    BY <1>1, <1>3, LenProperties DEF m
  <2> QED
    BY <1>1, <2>1, SeqIs
<1>20. W = d
  BY <1>12, <1>17, <1>18, <1>19, SeqEqual DEF m
<1> QED
  BY <1>2, <1>20

\* The padding goes from the end.
LEMMA UnpaddedIs ==
  ASSUME NEW u \in Seq(Byte), NEW m \in 0 .. Len(u), m > 0 => u[m] # Padding,
         \A i \in m + 1 .. Len(u) : u[i] = Padding
  PROVE  Unpadded(u) = SubSeq(u, 1, m)
<1> DEFINE T == {i \in 1 .. Len(u) : u[i] # Padding}
<1>1. Len(u) \in Nat /\ m \in Nat /\ m <= Len(u)
  BY LenProperties
<1>2. SelectLastInSeq(u, LAMBDA c : c # Padding) = IF T # {} THEN Max(T) ELSE 0
  BY DEF SelectLastInSeq
<1>3. \A i \in T : i <= m
  <2> SUFFICES ASSUME NEW i \in T, ~(i <= m) PROVE FALSE
    OBVIOUS
  <2>1. i \in m + 1 .. Len(u) /\ u[i] # Padding
    BY <1>1
  <2> QED
    BY <2>1
<1>4. CASE m = 0
  <2>1. T = {}
    BY <1>1, <1>3, <1>4
  <2> QED
    BY <1>2, <1>4, <2>1, Zenon DEF Unpadded
<1>5. CASE m > 0
  <2>1. m \in T /\ T \in SUBSET Nat
    BY <1>1, <1>5
  <2> HIDE DEF T
  <2>2. T # {} /\ Max(T) = m
    BY <1>3, <2>1, MaxIs
  <2> QED
    BY <1>2, <2>2, Zenon DEF Unpadded
<1> QED
  BY <1>1, <1>4, <1>5

-----------------------------------------------------------------------------
(* The text of base64.                                                     *)

Coded(s) == [k \in DOMAIN Groups(s, 3) |-> Base256to64(Groups(s, 3)[k])]
KnownOctets(s) == [k \in DOMAIN Groups(s, 3) |-> Read64(Groups(s, 3)[k])]
Text64(s) == FlattenSeq(Coded(s))

\* How many characters of it are digits, and what they are.
Signs(s) ==
  LET g == Groups(s, 3)
  IN  IF Len(g) = 0 THEN 0 ELSE 4 * (Len(g) - 1) + Len(g[Len(g)]) + 1
Digits64(s) == [i \in 1 .. Signs(s) |-> Base256Char(Text64(s)[i])]

\* Groups have between one element and as many as they are wide, and only the last
\* has fewer.
LEMMA GroupLemma ==
  ASSUME NEW s \in Seq(Byte), NEW c \in Widths
  PROVE  LET g == Groups(s, c)
         IN  /\ g \in Seq(Seq(Byte)) /\ Len(g) \in Nat /\ DOMAIN g = 1 .. Len(g)
             /\ Pieces(s, g, c)
             /\ \A k \in 1 .. Len(g) :
                  g[k] \in Seq(Byte) /\ Len(g[k]) \in 1 .. c /\ (k < Len(g) => Len(g[k]) = c)
<1> DEFINE g == Groups(s, c)
           n == Len(g)
<1>1. g \in Seq(Seq(Byte)) /\ Pieces(s, g, c)
  BY GroupsPieces
<1> HIDE DEF g
<1>2. n \in Nat /\ DOMAIN g = 1 .. n /\ \A k \in 1 .. n : g[k] \in Seq(Byte)
  BY <1>1, LenProperties, ElementOfSeq
<1>3. ASSUME NEW k \in 1 .. n PROVE Len(g[k]) \in 1 .. c /\ (k < n => Len(g[k]) = c)
  <2>0. n \in Nat
    BY <1>2
  <2> HIDE DEF n
  <2>1. CASE k = n
    <3>1. n # 0 /\ ~(n < n)
      BY <2>0
    <3>2. Len(g[n]) \in 1 .. c
      BY <1>1, <3>1, Zenon DEF Pieces, n
    <3> QED
      BY <2>1, <3>1, <3>2
  <2>2. CASE k # n
    <3>1. k \in 1 .. n - 1
      BY <2>0, <2>2
    <3>2. Len(g[k]) = c
      BY <1>1, <3>1, Zenon DEF Pieces, n
    <3>3. c \in 1 .. c
      BY DEF Widths
    <3> QED
      BY <3>2, <3>3
  <2> QED
    BY <2>1, <2>2
<1> QED
  BY <1>1, <1>2, <1>3 DEF g

\* Groups of three have between one and three octets.
LEMMA Groups3 ==
  ASSUME NEW s \in Seq(Byte)
  PROVE  LET g == Groups(s, 3)
         IN  /\ g \in Seq(Seq(Byte)) /\ Len(g) \in Nat /\ DOMAIN g = 1 .. Len(g)
             /\ Pieces(s, g, 3)
             /\ \A k \in 1 .. Len(g) :
                  g[k] \in Seq(Byte) /\ Len(g[k]) \in 1 .. 3 /\ (k < Len(g) => Len(g[k]) = 3)
<1> DEFINE c == 3
<1>1. c \in Widths
  BY DEF Widths
<1> HIDE DEF c
<1>2. LET g == Groups(s, c)
      IN  /\ g \in Seq(Seq(Byte)) /\ Len(g) \in Nat /\ DOMAIN g = 1 .. Len(g)
          /\ Pieces(s, g, c)
          /\ \A k \in 1 .. Len(g) :
               g[k] \in Seq(Byte) /\ Len(g[k]) \in 1 .. c /\ (k < Len(g) => Len(g[k]) = c)
  BY <1>1, GroupLemma
<1> QED
  BY <1>2 DEF c

\* The text: four characters for every group; first the digits, then the padding.
LEMMA TextLemma ==
  ASSUME NEW s \in Seq(Byte)
  PROVE  LET n == Len(Groups(s, 3))
             t == Text64(s)
             m == Signs(s)
         IN  /\ t \in Seq(Byte) /\ Len(t) = 4 * n /\ Pieces(t, Coded(s), 4)
             /\ m \in Nat /\ m <= Len(t)
             /\ \A i \in 1 .. m : t[i] # Padding
             /\ \A i \in m + 1 .. Len(t) : t[i] = Padding
             /\ Digits64(s) \in Seq(0 .. 63) /\ Len(Digits64(s)) = m
             /\ KnownOctets(s) \in Seq(Seq(0 .. 63)) /\ Pieces(Digits64(s), KnownOctets(s), 4)
<1> DEFINE g == Groups(s, 3)
           n == Len(g)
           e == Coded(s)
           t == Text64(s)
           m == Signs(s)
           d == Digits64(s)
           q == KnownOctets(s)
<1>1. /\ n \in Nat /\ DOMAIN g = 1 .. n
      /\ \A k \in 1 .. n :
           g[k] \in Seq(Byte) /\ Len(g[k]) \in 1 .. 3 /\ (k < n => Len(g[k]) = 3)
  BY Groups3
<1>15. n \in Nat
  BY <1>1
<1>2. /\ e = [k \in 1 .. n |-> Base256to64(g[k])]
      /\ q = [k \in 1 .. n |-> Read64(g[k])]
  BY <1>1 DEF Coded, KnownOctets
<1>3. m = IF n = 0 THEN 0 ELSE 4 * (n - 1) + Len(g[n]) + 1
  BY DEF Signs
<1>4. d = [i \in 1 .. m |-> Base256Char(t[i])] /\ t = FlattenSeq(e)
  BY DEF Digits64, Text64
<1> HIDE DEF g, n, e, t, m, d, q
<1>5. ASSUME NEW k \in 1 .. n
      PROVE  /\ e[k] = Base256to64(g[k]) /\ e[k] \in Seq(Byte) /\ Len(e[k]) = 4
             /\ \A j \in 1 .. Len(g[k]) + 1 : e[k][j] # Padding /\ Base256Char(e[k][j]) = q[k][j]
             /\ \A j \in Len(g[k]) + 2 .. 4 : e[k][j] = Padding
             /\ q[k] \in Seq(0 .. 63) /\ Len(q[k]) = Len(g[k]) + 1
             /\ \A j \in 1 .. Len(g[k]) + 1 : q[k][j] \in 0 .. 63
  <2>1. g[k] \in Seq(Byte) /\ Len(g[k]) \in 1 .. 3 /\ e[k] = Base256to64(g[k]) /\ q[k] = Read64(g[k])
    BY <1>1, <1>2
  <2>5. LET h == g[k]
        IN  /\ Base256to64(h) \in Seq(Byte) /\ Len(Base256to64(h)) = 4
            /\ \A j \in 1 .. Len(h) + 1 : Base256to64(h)[j] # Padding /\ Read64(h)[j] \in 0 .. 63
            /\ \A j \in Len(h) + 2 .. 4 : Base256to64(h)[j] = Padding
            /\ Read64(h) \in Seq(0 .. 63)
    BY <2>1, Group64, Zenon
  <2>2. /\ e[k] \in Seq(Byte) /\ Len(e[k]) = 4
        /\ \A j \in 1 .. Len(g[k]) + 1 : e[k][j] # Padding /\ q[k][j] \in 0 .. 63
        /\ \A j \in Len(g[k]) + 2 .. 4 : e[k][j] = Padding
        /\ q[k] \in Seq(0 .. 63)
    BY <2>1, <2>5, Zenon
  <2>3. q[k] = [j \in 1 .. Len(g[k]) + 1 |-> Base256Char(e[k][j])]
    BY <2>1 DEF Read64
  <2>4. Len(q[k]) = Len(g[k]) + 1
    BY <2>1, <2>2, <2>3, LenProperties
  <2> QED
    BY <2>1, <2>2, <2>3, <2>4, Zenon
<1>6. e \in Seq(Seq(Byte)) /\ Len(e) = n /\ q \in Seq(Seq(0 .. 63)) /\ Len(q) = n
  <2>1. e \in [1 .. n -> Seq(Byte)] /\ q \in [1 .. n -> Seq(0 .. 63)]
    BY <1>2, <1>5, Zenon
  <2> QED
    BY <1>1, <2>1, SeqIs
<1>7. t \in Seq(Byte) /\ Pieces(t, e, 4)
  <2>1. 4 \in Widths
    BY DEF Widths
  <2>2. \A k \in 1 .. Len(e) - 1 : Len(e[k]) = 4
    BY <1>1, <1>5, <1>6
  <2>3. Len(e) > 0 => Len(e[Len(e)]) \in 1 .. 4
    BY <1>1, <1>5, <1>6
  <2> QED
    BY <1>4, <1>6, <2>1, <2>2, <2>3, FlattenPieces
<1>8. Len(t) = 4 * n
  <2>1. CASE n = 0
    BY <1>6, <1>7, <2>1 DEF Pieces
  <2>2. CASE n # 0
    <3>1. Len(t) = 4 * (n - 1) + Len(e[n])
      BY <1>6, <1>7, <2>2, Zenon DEF Pieces
    <3>2. n \in 1 .. n
      BY <1>15, <2>2
    <3>3. Len(e[n]) = 4
      BY <1>5, <3>2
    <3> QED
      BY <1>15, <3>1, <3>3
  <2> QED
    BY <2>1, <2>2
<1>9. m \in Nat /\ m <= 4 * n /\ (n > 0 => m = 4 * (n - 1) + Len(g[n]) + 1 /\ Len(g[n]) \in 1 .. 3)
  <2>1. CASE n = 0
    BY <1>3, <2>1
  <2>2. CASE n # 0
    <3> DEFINE l == Len(g[n])
    <3>1. n \in 1 .. n
      BY <1>15, <2>2
    <3>2. l \in 1 .. 3 /\ m = 4 * (n - 1) + l + 1
      BY <1>1, <1>3, <2>2, <3>1, Zenon
    <3> HIDE DEF l
    <3>3. m \in Nat /\ m <= 4 * n
      BY <1>15, <2>2, <3>2
    <3> QED
      BY <3>2, <3>3 DEF l
  <2> QED
    BY <2>1, <2>2
<1>10. ASSUME NEW i \in 1 .. 4 * n
       PROVE  \E k \in 1 .. n : \E j \in 1 .. 4 : i = 4 * (k - 1) + j /\ t[i] = e[k][j]
  <2>1. PICK k \in 1 .. Len(e) : \E j \in 1 .. Len(e[k]) : i = 4 * (k - 1) + j /\ t[i] = e[k][j]
    <3> DEFINE c == 4
    <3>1. c \in Widths /\ Pieces(t, e, c) /\ i \in 1 .. Len(t)
      BY <1>7, <1>8 DEF Widths
    <3>2. t \in Seq(Byte) /\ e \in Seq(Seq(Byte))
      BY <1>6, <1>7
    <3> HIDE DEF c
    <3>3. InPiece(t, e, c, i)
      BY <3>1, <3>2, PieceOf
    <3> QED
      BY <3>3 DEF c, InPiece
  <2> QED
    BY <1>5, <1>6, <2>1, Zenon
<1>11. ASSUME NEW i \in 1 .. m PROVE t[i] # Padding /\ Base256Char(t[i]) \in 0 .. 63
  <2>1. i \in 1 .. 4 * n
    BY <1>1, <1>9
  <2>2. PICK k \in 1 .. n : \E j \in 1 .. 4 : i = 4 * (k - 1) + j /\ t[i] = e[k][j]
    BY <1>10, <2>1
  <2>3. PICK j \in 1 .. 4 : i = 4 * (k - 1) + j /\ t[i] = e[k][j]
    BY <2>2
  <2>4. j \in 1 .. Len(g[k]) + 1
    <3>1. CASE k = n
      <4> DEFINE l == Len(g[n])
      <4>1. m = 4 * (n - 1) + l + 1 /\ l \in 1 .. 3 /\ i = 4 * (n - 1) + j /\ i <= m
        <5>1. n > 0 /\ i <= m
          BY <1>9, <1>15
        <5> QED
          BY <1>9, <2>3, <3>1, <5>1, Zenon
      <4> HIDE DEF l
      <4>2. j \in 1 .. l + 1
        BY <1>15, <4>1
      <4> QED
        BY <3>1, <4>2 DEF l
    <3>2. CASE k # n
      <4>1. k < n
        BY <1>15, <3>2
      <4>2. Len(g[k]) = 3
        BY <1>1, <4>1
      <4> QED
        BY <4>2
    <3> QED
      BY <3>1, <3>2
  <2>5. e[k][j] # Padding /\ Base256Char(e[k][j]) = q[k][j] /\ q[k][j] \in 0 .. 63
    BY <1>5, <2>4, Zenon
  <2> QED
    BY <2>3, <2>5, Zenon
<1>12. ASSUME NEW i \in m + 1 .. Len(t) PROVE t[i] = Padding
  <2>1. i \in 1 .. 4 * n
    BY <1>1, <1>8, <1>9
  <2>2. PICK k \in 1 .. n : \E j \in 1 .. 4 : i = 4 * (k - 1) + j /\ t[i] = e[k][j]
    BY <1>10, <2>1
  <2>3. PICK j \in 1 .. 4 : i = 4 * (k - 1) + j /\ t[i] = e[k][j]
    BY <2>2
  <2>4. n > 0 /\ k <= n
    BY <1>15
  <2> DEFINE l == Len(g[n])
  <2>5. m = 4 * (n - 1) + l + 1 /\ l \in 1 .. 3 /\ i = 4 * (k - 1) + j /\ i > m
    BY <1>9, <2>3, <2>4
  <2> HIDE DEF l
  <2>6. k = n /\ j \in l + 2 .. 4
    BY <1>15, <2>4, <2>5
  <2>7. e[k][j] = Padding
    BY <1>5, <2>6, Zenon DEF l
  <2> QED
    BY <2>3, <2>7, Zenon
<1>13. d \in Seq(0 .. 63) /\ Len(d) = m /\ \A i \in 1 .. m : d[i] = Base256Char(t[i])
  <2>1. d \in [1 .. m -> 0 .. 63]
    BY <1>4, <1>11, Zenon
  <2>2. d \in Seq(0 .. 63) /\ Len(d) = m
    BY <1>9, <2>1, SeqIs
  <2> QED
    BY <1>4, <2>2
<1>14. Pieces(d, q, 4)
  <2>1. ASSUME NEW k \in 1 .. n - 1 PROVE Len(q[k]) = 4
    <3>1. k \in 1 .. n /\ k < n
      BY <1>15
    <3>2. Len(g[k]) = 3 /\ Len(q[k]) = Len(g[k]) + 1
      BY <1>1, <1>5, <3>1
    <3> QED
      BY <3>2
  <2>2. IF n = 0 THEN Len(d) = 0 ELSE Len(q[n]) \in 1 .. 4 /\ Len(d) = 4 * (n - 1) + Len(q[n])
    <3>1. CASE n = 0
      BY <1>3, <1>13, <3>1
    <3>2. CASE n # 0
      <4> DEFINE l == Len(g[n])
      <4>1. n \in 1 .. n /\ n > 0
        BY <1>15, <3>2
      <4>2. Len(q[n]) = l + 1 /\ l \in 1 .. 3 /\ Len(d) = 4 * (n - 1) + l + 1
        BY <1>5, <1>9, <1>13, <4>1, Zenon
      <4> HIDE DEF l
      <4> QED
        BY <1>15, <3>2, <4>2
    <3> QED
      BY <3>1, <3>2
  <2>3. ASSUME NEW k \in 1 .. n, NEW j \in 1 .. Len(q[k])
        PROVE  d[4 * (k - 1) + j] = q[k][j]
    <3>1. j \in 1 .. Len(g[k]) + 1
      BY <1>5
    <3>5. j \in 1 .. 4
      <4> DEFINE l == Len(g[k])
      <4>1. l \in 1 .. 3 /\ j \in 1 .. l + 1
        BY <1>1, <3>1
      <4> HIDE DEF l
      <4> QED
        BY <4>1
    <3>2. 4 * (k - 1) + j \in 1 .. m
      <4>1. n > 0 /\ k <= n
        BY <1>15
      <4> DEFINE l == Len(g[n])
      <4>2. m = 4 * (n - 1) + l + 1 /\ l \in 1 .. 3
        BY <1>9, <4>1
      <4>3. k = n => j \in 1 .. l + 1
        BY <3>1
      <4> HIDE DEF l
      <4> QED
        BY <1>15, <3>5, <4>1, <4>2, <4>3
    <3>3. t[4 * (k - 1) + j] = e[k][j]
      BY <1>5, <1>6, <1>7, <3>5, Zenon DEF Pieces
    <3>4. Base256Char(e[k][j]) = q[k][j]
      BY <1>5, <3>1, Zenon
    <3> QED
      BY <1>13, <3>2, <3>3, <3>4, Zenon
  <2> QED
    BY <1>6, <2>1, <2>2, <2>3 DEF Pieces
<1> QED
  BY <1>6, <1>7, <1>8, <1>9, <1>11, <1>12, <1>13, <1>14 DEF g, n, t, e, m, d, q

\* A text with these digits is decoded to s.
LEMMA DecodeLemma ==
  ASSUME NEW s \in Seq(Byte), NEW u, NEW room \in Int, Digits(Unpadded(u)) = Digits64(s)
  PROVE  Base64Decode(u, room) =
           IF room < (Len(Unpadded(u)) * 3) \div 4 THEN TooSmall ELSE Done(s)
<1> DEFINE g == Groups(s, 3)
           d == Digits64(s)
           q == KnownOctets(s)
           o == [k \in DOMAIN Groups(d, 4) |-> Base64Octets(Groups(d, 4)[k])]
<1>1. Groups(d, 4) = q
  <2> DEFINE c == 4
  <2>1. d \in Seq(0 .. 63) /\ q \in Seq(Seq(0 .. 63)) /\ Pieces(d, q, c) /\ c \in Widths
    BY TextLemma DEF Widths
  <2> HIDE DEF c, d, q
  <2>2. Groups(d, c) = q
    BY <2>1, GroupsAre
  <2> QED
    BY <2>2 DEF c
<1>2. \A k \in DOMAIN g : Base64Octets(q[k]) = g[k]
  <2> SUFFICES ASSUME NEW k \in DOMAIN g PROVE Base64Octets(q[k]) = g[k]
    OBVIOUS
  <2>1. g[k] \in Seq(Byte) /\ Len(g[k]) \in 1 .. 3
    BY Groups3
  <2>2. q[k] = Read64(g[k])
    BY DEF KnownOctets
  <2> QED
    BY <2>1, <2>2, Group64
<1>3. DOMAIN q = DOMAIN g /\ DOMAIN g = 1 .. Len(g) /\ g \in Seq(Seq(Byte))
  BY Groups3 DEF KnownOctets
<1>4. g = [k \in DOMAIN g |-> g[k]]
  BY <1>3, LenProperties
<1>5. o = g
  <2> HIDE DEF d, q, g
  <2> QED
    BY <1>1, <1>2, <1>3, <1>4
<1>6. FlattenSeq(g) = s
  <2> DEFINE c == 3
  <2>1. c \in Widths
    BY DEF Widths
  <2> HIDE DEF c
  <2>2. FlattenSeq(Groups(s, c)) = s
    BY <2>1, FlattenGroups
  <2> QED
    BY <2>2 DEF c
<1>7. FlattenSeq(o) = s
  BY <1>5, <1>6
<1> QED
  BY <1>7, Zenon DEF Base64Decode

\* As many octets as s has are a text of its length.
LEMMA Signs64 ==
  ASSUME NEW s \in Seq(Byte)
  PROVE  /\ (Signs(s) * 3) \div 4 = Len(s)
         /\ ((Signs(s) + 2) * 3) \div 4 <= Len(s) + 2
         /\ Len(Groups(s, 3)) * 4 <= (Len(s) * 4) \div 3 + 3
<1> DEFINE g == Groups(s, 3)
           n == Len(g)
           l == Len(g[n])
           m == Signs(s)
           L == Len(s)
<1>1. n \in Nat
  BY Groups3
<1>2. CASE n = 0
  <2>1. m = 0 /\ L = 0
    BY <1>2, Groups3, Zenon DEF Pieces, Signs
  <2> HIDE DEF m, L
  <2>2. (m * 3) \div 4 = L /\ ((m + 2) * 3) \div 4 <= L + 2 /\ n * 4 <= (L * 4) \div 3 + 3
    BY <1>2, <2>1, Z3
  <2> QED
    BY <2>2 DEF m, L
<1>3. CASE n # 0
  <2>1. n \in 1 .. n
    BY <1>1, <1>3
  <2>2. m = 4 * (n - 1) + l + 1 /\ L = 3 * (n - 1) + l /\ l \in 1 .. 3
    BY <1>3, <2>1, Groups3, Zenon DEF Pieces, Signs
  <2> HIDE DEF m, L, l, n
  <2>3. (m * 3) \div 4 = L /\ ((m + 2) * 3) \div 4 <= L + 2 /\ n * 4 <= (L * 4) \div 3 + 3
    BY <1>1, <1>3, <2>2, Z3
  <2> QED
    BY <2>3 DEF m, L, n
<1> QED
  BY <1>2, <1>3

\* The text as it stands.
LEMMA DigitsOfText ==
  ASSUME NEW s \in Seq(Byte)
  PROVE  /\ Len(Unpadded(Text64(s))) = Signs(s)
         /\ Digits(Unpadded(Text64(s))) = Digits64(s)
<1> DEFINE t == Text64(s)
           m == Signs(s)
           d == Digits64(s)
           x == SubSeq(t, 1, m)
<1>1. /\ t \in Seq(Byte) /\ m \in Nat /\ m <= Len(t)
      /\ \A i \in 1 .. m : t[i] # Padding
      /\ \A i \in m + 1 .. Len(t) : t[i] = Padding
      /\ d \in Seq(0 .. 63) /\ Len(d) = m
  BY TextLemma
<1>2. \A i \in 1 .. m : d[i] = Base256Char(t[i])
  BY DEF Digits64
<1> HIDE DEF t, m, d
<1>3. Len(t) \in Nat
  BY <1>1, LenProperties
<1>4. Unpadded(t) = x
  <2>1. m \in 0 .. Len(t) /\ (m > 0 => t[m] # Padding)
    BY <1>1, <1>3
  <2> QED
    BY <1>1, <2>1, UnpaddedIs
<1>5. x \in Seq(Byte) /\ Len(x) = m /\ \A i \in 1 .. m : x[i] = t[i]
  BY <1>1, Beginning
<1> HIDE DEF x
<1>6. Digits(x) = d
  <2>1. AmongDigits(x, d, 0, 0)
    <3>1. m + 0 = m /\ \A i \in 0 + 1 .. m : i + 0 = i /\ i \in 1 .. m
      BY <1>1
    <3>2. 1 .. 0 = {} /\ 0 + 1 .. 0 + 0 = {}
      OBVIOUS
    <3> QED
      BY <1>1, <1>2, <1>5, <3>1, <3>2 DEF AmongDigits
  <2>2. 0 \in 0 .. Len(d) /\ 0 \in Nat
    BY <1>1
  <2> QED
    BY <1>1, <1>5, <2>1, <2>2, DigitsAmong
<1> QED
  BY <1>4, <1>5, <1>6 DEF t, m, d

\* A text of octets whose length does not go round when it is counted in bits.
Counted(s) == s \in Seq(Byte) /\ 8 * Len(s) + 6 < Word

\* The encoder has the room it asks for, and writes the text.
LEMMA EncodeText ==
  ASSUME NEW s, Counted(s)
  PROVE  /\ Base64Encode(s, Base64EncodeSize(Len(s))) = Done(Text64(s))
         /\ Len(Text64(s)) <= Base64EncodeSize(Len(s))
<1> DEFINE L == Len(s)
           room == Base64EncodeSize(L)
           n == Len(Groups(s, 3))
<1>1. s \in Seq(Byte) /\ L \in Nat /\ 8 * L + 6 < Word /\ Word \in Nat
  BY CodecAssumption, LenProperties DEF Counted
<1>2. Len(Text64(s)) = 4 * n /\ n \in Nat /\ n * 4 <= (L * 4) \div 3 + 3
  BY <1>1, Groups3, TextLemma, Signs64
<1> HIDE DEF L, n
<1>3. room = (L * 4) \div 3 + 3
  <2>1. L * 4 \in Nat /\ L * 4 < Word
    BY <1>1
  <2>2. (L * 4) \div 3 + 3 \in Nat /\ (L * 4) \div 3 + 3 < Word
    BY <1>1, Z3
  <2> QED
    BY <2>1, <2>2, SmallCount DEF Base64EncodeSize
<1>4. room \in Nat /\ ~(room < room) /\ 4 * n <= room
  <2>1. (L * 4) \div 3 + 3 \in Nat
    BY <1>1
  <2> HIDE DEF room
  <2> QED
    BY <1>2, <1>3, <2>1
<1>5. Base64Encode(s, room) = Done(Text64(s))
  BY <1>4, Zenon DEF Base64Encode, Text64, Coded, L
<1> QED
  BY <1>2, <1>4, <1>5 DEF L

\* The decoder gives the octets back, when there is room for them.
LEMMA DecodeText ==
  ASSUME NEW s \in Seq(Byte), NEW room \in Int
  PROVE  Base64Decode(Text64(s), room) = IF room < Len(s) THEN TooSmall ELSE Done(s)
<1>1. Digits(Unpadded(Text64(s))) = Digits64(s) /\ Len(Unpadded(Text64(s))) = Signs(s)
  BY DigitsOfText
<1>2. (Signs(s) * 3) \div 4 = Len(s)
  BY Signs64
<1> QED
  BY <1>1, <1>2, DecodeLemma

\* The text with a line break behind the first at characters.
Broken(t, at) == SubSeq(t, 1, at) \o <<13, 10>> \o SubSeq(t, at + 1, Len(t))

\* Up to the break it is the text, and behind it the rest of the text.
LEMMA BrokenIs ==
  ASSUME NEW t \in Seq(Byte), NEW at \in 0 .. Len(t)
  PROVE  LET u == Broken(t, at)
         IN  /\ u \in Seq(Byte) /\ Len(u) = Len(t) + 2
             /\ \A i \in 1 .. at : u[i] = t[i]
             /\ u[at + 1] = 13 /\ u[at + 2] = 10
             /\ \A i \in at + 1 .. Len(t) : u[i + 2] = t[i]
<1> DEFINE a == SubSeq(t, 1, at)
           c == <<13, 10>>
           z == Part(t, at, Len(t))
           ac == a \o c
           u == ac \o z
           n == Len(t)
<1>1. n \in Nat /\ at \in Nat /\ at <= n
  BY LenProperties
<1>2. a \in Seq(Byte) /\ Len(a) = at /\ \A i \in 1 .. at : a[i] = t[i]
  BY <1>1, Beginning
<1>3. c \in Seq(Byte) /\ Len(c) = 2 /\ c[1] = 13 /\ c[2] = 10
  BY DEF Byte
<1>4. /\ z \in Seq(Byte) /\ Len(z) = n - at
      /\ \A i \in 1 .. n - at : z[i] = t[at + i]
  <2>1. n \in Nat /\ at \in Nat /\ at <= n /\ n <= Len(t)
    BY <1>1
  <2> HIDE DEF n
  <2>2. IsPart(Part(t, at, n), Byte, t, at, n)
    BY ONLY <2>1, PartIs, t \in Seq(Byte)
  <2> QED
    BY <2>2 DEF n, IsPart
<1>5. Broken(t, at) = u
  BY DEF Broken, Part
<1> HIDE DEF a, c, z, n
<1>6. /\ ac \in Seq(Byte) /\ Len(ac) = at + 2
      /\ \A i \in 1 .. at : ac[i] = a[i]
      /\ \A i \in 1 .. 2 : ac[at + i] = c[i]
  <2> DEFINE w == 2
  <2>1. a \in Seq(Byte) /\ c \in Seq(Byte) /\ Len(a) = at /\ Len(c) = w
    BY <1>2, <1>3
  <2> HIDE DEF w
  <2>2. IsBehind(a \o c, Byte, a, c, at, w)
    BY <2>1, BehindIs
  <2> QED
    BY <2>2 DEF w, IsBehind
<1> HIDE DEF ac
<1> DEFINE k == at + 2
<1>7. /\ u \in Seq(Byte) /\ Len(u) = k + (n - at)
      /\ \A i \in 1 .. k : u[i] = ac[i]
      /\ \A i \in 1 .. n - at : u[k + i] = z[i]
  <2> DEFINE l == n - at
  <2>1. ac \in Seq(Byte) /\ z \in Seq(Byte) /\ Len(ac) = k /\ Len(z) = l
    BY <1>4, <1>6
  <2> HIDE DEF k, l
  <2>2. IsBehind(ac \o z, Byte, ac, z, k, l)
    BY <2>1, BehindIs
  <2> QED
    BY <2>2 DEF l, IsBehind
<1> HIDE DEF u
<1>8. k + (n - at) = n + 2
  BY <1>1
<1>9. \A i \in 1 .. at : u[i] = t[i]
  <2>1. \A i \in 1 .. at : i \in 1 .. k
    BY <1>1
  <2> HIDE DEF k
  <2> QED
    BY <1>2, <1>6, <1>7, <2>1
<1>10. u[at + 1] = 13 /\ u[at + 2] = 10
  <2>1. at + 1 \in 1 .. k /\ at + 2 \in 1 .. k /\ 1 \in 1 .. 2 /\ 2 \in 1 .. 2
    BY <1>1
  <2> HIDE DEF k
  <2> QED
    BY <1>3, <1>6, <1>7, <2>1
<1>11. ASSUME NEW i \in at + 1 .. n PROVE u[i + 2] = t[i]
  <2>1. i - at \in 1 .. n - at /\ at + (i - at) = i /\ k + (i - at) = i + 2
    BY <1>1
  <2> HIDE DEF k
  <2>2. u[k + (i - at)] = z[i - at]
    BY <1>7, <2>1
  <2> QED
    BY <1>4, <2>1, <2>2
<1> QED
  BY <1>5, <1>7, <1>8, <1>9, <1>10, <1>11 DEF n

\* With a line break before the last digit the text is decoded all the same.
LEMMA DecodeBroken ==
  ASSUME NEW s \in Seq(Byte), NEW at \in Nat, at < Signs(s)
  PROVE  Base64Decode(Broken(Text64(s), at), Len(s) + 2) = Done(s)
<1> DEFINE t == Text64(s)
           m == Signs(s)
           d == Digits64(s)
           u == Broken(t, at)
           x == SubSeq(u, 1, m + 2)
<1>1. /\ t \in Seq(Byte) /\ m \in Nat /\ m <= Len(t)
      /\ \A i \in 1 .. m : t[i] # Padding
      /\ \A i \in m + 1 .. Len(t) : t[i] = Padding
      /\ d \in Seq(0 .. 63) /\ Len(d) = m
  BY TextLemma
<1>2. \A i \in 1 .. m : d[i] = Base256Char(t[i])
  BY DEF Digits64
<1>3. at < m /\ ((m + 2) * 3) \div 4 <= Len(s) + 2 /\ Len(s) \in Nat
  BY Signs64, LenProperties
<1> HIDE DEF t, m, d
<1>4. Len(t) \in Nat /\ at \in 0 .. Len(t)
  BY <1>1, <1>3, LenProperties
<1>5. /\ u \in Seq(Byte) /\ Len(u) = Len(t) + 2
      /\ \A i \in 1 .. at : u[i] = t[i]
      /\ u[at + 1] = 13 /\ u[at + 2] = 10
      /\ \A i \in at + 1 .. Len(t) : u[i + 2] = t[i]
  BY <1>1, <1>4, BrokenIs
<1> HIDE DEF u
<1>6. Unpadded(u) = x
  <2> DEFINE k == m + 2
  <2>1. k \in 0 .. Len(u) /\ m \in at + 1 .. Len(t) /\ m \in 1 .. m
    BY <1>1, <1>3, <1>4, <1>5
  <2>2. u[k] # Padding
    BY <1>1, <1>5, <2>1
  <2>3. ASSUME NEW i \in k + 1 .. Len(u) PROVE u[i] = Padding
    <3>1. i - 2 \in at + 1 .. Len(t) /\ i - 2 \in m + 1 .. Len(t) /\ i - 2 + 2 = i
      BY <1>1, <1>3, <1>4, <1>5
    <3>2. u[i - 2 + 2] = t[i - 2] /\ t[i - 2] = Padding
      BY <1>1, <1>5, <3>1
    <3> QED
      BY <3>1, <3>2
  <2> HIDE DEF k
  <2>4. Unpadded(u) = SubSeq(u, 1, k)
    BY <1>5, <2>1, <2>2, <2>3, UnpaddedIs
  <2> QED
    BY <2>4 DEF k
<1>7. x \in Seq(Byte) /\ Len(x) = m + 2 /\ \A i \in 1 .. m + 2 : x[i] = u[i]
  <2>1. m + 2 \in Nat /\ m + 2 <= Len(u)
    BY <1>1, <1>4, <1>5
  <2> QED
    BY <1>5, <2>1, Beginning
<1> HIDE DEF x
<1>8. Digits(x) = d
  <2>1. ASSUME NEW i \in 1 .. at PROVE Base256Char(x[i]) = d[i]
    <3>1. i \in 1 .. m /\ i \in 1 .. m + 2
      BY <1>1, <1>3
    <3>2. x[i] = t[i]
      BY <1>5, <1>7, <3>1
    <3> QED
      BY <1>2, <3>1, <3>2
  <2>2. ASSUME NEW i \in at + 1 .. at + 2 PROVE Base256Char(x[i]) = Inv
    <3>1. i = at + 1 \/ i = at + 2
      OBVIOUS
    <3>2. i \in 1 .. m + 2
      BY <1>1, <1>3
    <3>3. x[i] = 13 \/ x[i] = 10
      BY <1>5, <1>7, <3>1, <3>2
    <3>4. Base256Char(13) = Inv /\ Base256Char(10) = Inv
      BY DEF Base256Char, Inv
    <3> QED
      BY <3>3, <3>4
  <2>3. ASSUME NEW i \in at + 1 .. m PROVE Base256Char(x[i + 2]) = d[i]
    <3>1. i \in 1 .. m /\ i + 2 \in 1 .. m + 2 /\ i \in at + 1 .. Len(t)
      BY <1>1, <1>3, <1>4
    <3>2. x[i + 2] = t[i]
      BY <1>5, <1>7, <3>1
    <3> QED
      BY <1>2, <3>1, <3>2
  <2>4. AmongDigits(x, d, at, 2)
    BY <1>1, <1>7, <2>1, <2>2, <2>3 DEF AmongDigits
  <2>5. at \in 0 .. Len(d) /\ at < Len(d) /\ 2 \in Nat
    BY <1>1, <1>3
  <2> QED
    BY <1>1, <1>7, <2>4, <2>5, DigitsAmong
<1>9. Digits(Unpadded(u)) = Digits64(s) /\ Len(Unpadded(u)) = m + 2
  BY <1>6, <1>7, <1>8 DEF d
<1>10. Len(s) + 2 \in Int /\ ~(Len(s) + 2 < ((m + 2) * 3) \div 4)
  <2>1. ((m + 2) * 3) \div 4 \in Int
    BY <1>1
  <2> QED
    BY <1>3, <2>1
<1> QED
  BY <1>9, <1>10, DecodeLemma DEF u, t

-----------------------------------------------------------------------------
(* Bits.                                                                   *)

Bit == 0 .. 1

\* The number that eight bits are, the highest first.
Number(a1, a2, a3, a4, a5, a6, a7, a8) ==
  128 * a1 + 64 * a2 + 32 * a3 + 16 * a4 + 8 * a5 + 4 * a6 + 2 * a7 + a8

\* An octet is its bits.
LEMMA OctetBits ==
  ASSUME NEW v \in Byte
  PROVE  LET b == Bits(v, 8)
         IN  /\ b \in Seq(Bit) /\ Len(b) = 8 /\ \A i \in 1 .. 8 : b[i] \in Bit
             /\ v = Number(b[1], b[2], b[3], b[4], b[5], b[6], b[7], b[8])
<1> DEFINE b == Bits(v, 8)
           w == <<128, 64, 32, 16, 8, 4, 2, 1>>
<1>1. b = [i \in 1 .. 8 |-> (v \div w[8 - 8 + i]) % 2]
  BY DEF Bits
<1>2. /\ b[1] = (v \div 128) % 2 /\ b[2] = (v \div 64) % 2 /\ b[3] = (v \div 32) % 2
      /\ b[4] = (v \div 16) % 2 /\ b[5] = (v \div 8) % 2 /\ b[6] = (v \div 4) % 2
      /\ b[7] = (v \div 2) % 2 /\ b[8] = (v \div 1) % 2
  <2>1. \A i \in 1 .. 8 : b[i] = (v \div w[8 - 8 + i]) % 2 /\ 8 - 8 + i = i
    BY <1>1
  <2>2. \A i \in 1 .. 8 : b[i] = (v \div w[i]) % 2
    <3> HIDE DEF b, w
    <3> QED
      BY <2>1
  <2>3. /\ w[1] = 128 /\ w[2] = 64 /\ w[3] = 32 /\ w[4] = 16
        /\ w[5] = 8 /\ w[6] = 4 /\ w[7] = 2 /\ w[8] = 1
    OBVIOUS
  <2> HIDE DEF b, w
  <2> QED
    BY <2>2, <2>3
<1> HIDE DEF b
<1>3. /\ b[1] \in Bit /\ b[2] \in Bit /\ b[3] \in Bit /\ b[4] \in Bit
      /\ b[5] \in Bit /\ b[6] \in Bit /\ b[7] \in Bit /\ b[8] \in Bit
      /\ v = Number(b[1], b[2], b[3], b[4], b[5], b[6], b[7], b[8])
  BY <1>2, SMTT(30) DEF Bit, Byte, Number
<1>4. \A i \in 1 .. 8 : b[i] \in Bit
  <2>1. \A i \in 1 .. 8 : i = 1 \/ i = 2 \/ i = 3 \/ i = 4 \/ i = 5 \/ i = 6 \/ i = 7 \/ i = 8
    OBVIOUS
  <2> QED
    BY <1>3, <2>1
<1>5. b \in Seq(Bit) /\ Len(b) = 8
  <2>1. b \in [1 .. 8 -> Bit]
    BY <1>1, <1>4
  <2> QED
    BY <2>1, SeqIs
<1> QED
  BY <1>3, <1>4, <1>5 DEF b

\* The i-th of some bits from the end.
Low(b, i) == IF i <= Len(b) THEN b[Len(b) + 1 - i] ELSE 0

\* The same with the lowest first.
LowFirst(a1, a2, a3, a4, a5, a6, a7, a8) ==
  a1 + 2 * a2 + 4 * a3 + 8 * a4 + 16 * a5 + 32 * a6 + 64 * a7 + 128 * a8

\* What bits stand for, when they are six, seven or eight.
LEMMA ValueIs ==
  ASSUME NEW b \in Seq(Bit)
  PROVE  /\ Len(b) = 6 => Value(b) = Number(0, 0, b[1], b[2], b[3], b[4], b[5], b[6])
         /\ Len(b) = 7 => Value(b) = Number(0, b[1], b[2], b[3], b[4], b[5], b[6], b[7])
         /\ Len(b) = 8 => Value(b) = Number(b[1], b[2], b[3], b[4], b[5], b[6], b[7], b[8])
<1>1. Value(b) = LowFirst(Low(b, 1), Low(b, 2), Low(b, 3), Low(b, 4),
                        Low(b, 5), Low(b, 6), Low(b, 7), Low(b, 8))
  BY Zenon DEF Value, Low, LowFirst
<1>2. ASSUME Len(b) = 6
      PROVE  Value(b) = Number(0, 0, b[1], b[2], b[3], b[4], b[5], b[6])
  <2>1. /\ Low(b, 1) = b[6] /\ Low(b, 2) = b[5] /\ Low(b, 3) = b[4] /\ Low(b, 4) = b[3]
        /\ Low(b, 5) = b[2] /\ Low(b, 6) = b[1] /\ Low(b, 7) = 0 /\ Low(b, 8) = 0
    BY <1>2 DEF Low
  <2>2. /\ b[1] \in Int /\ b[2] \in Int /\ b[3] \in Int /\ b[4] \in Int /\ b[5] \in Int
        /\ b[6] \in Int
    <3>1. \A i \in 1 .. 6 : b[i] \in Int
      <4>1. \A i \in 1 .. 6 : b[i] \in Bit
        BY <1>2, ElementOfSeq
      <4> QED
        BY <4>1 DEF Bit
    <3>2. /\ 1 \in 1 .. 6 /\ 2 \in 1 .. 6 /\ 3 \in 1 .. 6 /\ 4 \in 1 .. 6
          /\ 5 \in 1 .. 6 /\ 6 \in 1 .. 6
      OBVIOUS
    <3> QED
      BY <3>1, <3>2, Zenon
  <2>3. Value(b) = LowFirst(b[6], b[5], b[4], b[3], b[2], b[1], 0, 0)
    BY <1>1, <2>1
  <2>4. LowFirst(b[6], b[5], b[4], b[3], b[2], b[1], 0, 0) = Number(0, 0, b[1], b[2], b[3], b[4], b[5], b[6])
    <3> DEFINE x1 == b[1]
               x2 == b[2]
               x3 == b[3]
               x4 == b[4]
               x5 == b[5]
               x6 == b[6]
    <3>1. x1 \in Int /\ x2 \in Int /\ x3 \in Int /\ x4 \in Int /\ x5 \in Int /\ x6 \in Int
      BY <2>2
    <3> HIDE DEF x1, x2, x3, x4, x5, x6
    <3>2. LowFirst(x6, x5, x4, x3, x2, x1, 0, 0) = Number(0, 0, x1, x2, x3, x4, x5, x6)
      BY <3>1 DEF LowFirst, Number
    <3> QED
      BY <3>2, Zenon DEF x1, x2, x3, x4, x5, x6
  <2> QED
    BY <2>3, <2>4
<1>3. ASSUME Len(b) = 7
      PROVE  Value(b) = Number(0, b[1], b[2], b[3], b[4], b[5], b[6], b[7])
  <2>1. /\ Low(b, 1) = b[7] /\ Low(b, 2) = b[6] /\ Low(b, 3) = b[5] /\ Low(b, 4) = b[4]
        /\ Low(b, 5) = b[3] /\ Low(b, 6) = b[2] /\ Low(b, 7) = b[1] /\ Low(b, 8) = 0
    BY <1>3 DEF Low
  <2>2. /\ b[1] \in Int /\ b[2] \in Int /\ b[3] \in Int /\ b[4] \in Int /\ b[5] \in Int
        /\ b[6] \in Int /\ b[7] \in Int
    <3>1. \A i \in 1 .. 7 : b[i] \in Int
      <4>1. \A i \in 1 .. 7 : b[i] \in Bit
        BY <1>3, ElementOfSeq
      <4> QED
        BY <4>1 DEF Bit
    <3>2. /\ 1 \in 1 .. 7 /\ 2 \in 1 .. 7 /\ 3 \in 1 .. 7 /\ 4 \in 1 .. 7
          /\ 5 \in 1 .. 7 /\ 6 \in 1 .. 7 /\ 7 \in 1 .. 7
      OBVIOUS
    <3> QED
      BY <3>1, <3>2, Zenon
  <2>3. Value(b) = LowFirst(b[7], b[6], b[5], b[4], b[3], b[2], b[1], 0)
    BY <1>1, <2>1
  <2>4. LowFirst(b[7], b[6], b[5], b[4], b[3], b[2], b[1], 0) = Number(0, b[1], b[2], b[3], b[4], b[5], b[6], b[7])
    <3> DEFINE x1 == b[1]
               x2 == b[2]
               x3 == b[3]
               x4 == b[4]
               x5 == b[5]
               x6 == b[6]
               x7 == b[7]
    <3>1. x1 \in Int /\ x2 \in Int /\ x3 \in Int /\ x4 \in Int /\ x5 \in Int /\ x6 \in Int /\ x7 \in Int
      BY <2>2
    <3> HIDE DEF x1, x2, x3, x4, x5, x6, x7
    <3>2. LowFirst(x7, x6, x5, x4, x3, x2, x1, 0) = Number(0, x1, x2, x3, x4, x5, x6, x7)
      BY <3>1 DEF LowFirst, Number
    <3> QED
      BY <3>2, Zenon DEF x1, x2, x3, x4, x5, x6, x7
  <2> QED
    BY <2>3, <2>4
<1>4. ASSUME Len(b) = 8
      PROVE  Value(b) = Number(b[1], b[2], b[3], b[4], b[5], b[6], b[7], b[8])
  <2>1. /\ Low(b, 1) = b[8] /\ Low(b, 2) = b[7] /\ Low(b, 3) = b[6] /\ Low(b, 4) = b[5]
        /\ Low(b, 5) = b[4] /\ Low(b, 6) = b[3] /\ Low(b, 7) = b[2] /\ Low(b, 8) = b[1]
    BY <1>4 DEF Low
  <2>2. /\ b[1] \in Int /\ b[2] \in Int /\ b[3] \in Int /\ b[4] \in Int /\ b[5] \in Int
        /\ b[6] \in Int /\ b[7] \in Int /\ b[8] \in Int
    <3>1. \A i \in 1 .. 8 : b[i] \in Int
      <4>1. \A i \in 1 .. 8 : b[i] \in Bit
        BY <1>4, ElementOfSeq
      <4> QED
        BY <4>1 DEF Bit
    <3>2. /\ 1 \in 1 .. 8 /\ 2 \in 1 .. 8 /\ 3 \in 1 .. 8 /\ 4 \in 1 .. 8
          /\ 5 \in 1 .. 8 /\ 6 \in 1 .. 8 /\ 7 \in 1 .. 8 /\ 8 \in 1 .. 8
      OBVIOUS
    <3> QED
      BY <3>1, <3>2, Zenon
  <2>3. Value(b) = LowFirst(b[8], b[7], b[6], b[5], b[4], b[3], b[2], b[1])
    BY <1>1, <2>1
  <2>4. LowFirst(b[8], b[7], b[6], b[5], b[4], b[3], b[2], b[1]) = Number(b[1], b[2], b[3], b[4], b[5], b[6], b[7], b[8])
    <3> DEFINE x1 == b[1]
               x2 == b[2]
               x3 == b[3]
               x4 == b[4]
               x5 == b[5]
               x6 == b[6]
               x7 == b[7]
               x8 == b[8]
    <3>1. x1 \in Int /\ x2 \in Int /\ x3 \in Int /\ x4 \in Int /\ x5 \in Int /\ x6 \in Int
            /\ x7 \in Int /\ x8 \in Int
      BY <2>2
    <3> HIDE DEF x1, x2, x3, x4, x5, x6, x7, x8
    <3>2. LowFirst(x8, x7, x6, x5, x4, x3, x2, x1) = Number(x1, x2, x3, x4, x5, x6, x7, x8)
      BY <3>1 DEF LowFirst, Number
    <3> QED
      BY <3>2, Zenon DEF x1, x2, x3, x4, x5, x6, x7, x8
  <2> QED
    BY <2>3, <2>4
<1> QED
  BY <1>2, <1>3, <1>4

\* The bits of an octet stand for it.
LEMMA ValueOfBits ==
  ASSUME NEW v \in Byte
  PROVE  Value(Bits(v, 8)) = v
<1>1. Bits(v, 8) \in Seq(Bit) /\ Len(Bits(v, 8)) = 8
  BY OctetBits
<1> QED
  BY <1>1, OctetBits, ValueIs

\* Seven bits are those of the number they stand for.
LEMMA BitsOfValue ==
  ASSUME NEW b \in Seq(Bit), Len(b) = 7
  PROVE  Value(b) \in 0 .. 127 /\ Bits(Value(b), 7) = b
<1> DEFINE v == Value(b)
           w == <<128, 64, 32, 16, 8, 4, 2, 1>>
           c == Bits(v, 7)
<1>1. v = Number(0, b[1], b[2], b[3], b[4], b[5], b[6], b[7])
  BY ValueIs
<1>2. /\ b[1] \in Bit /\ b[2] \in Bit /\ b[3] \in Bit /\ b[4] \in Bit
      /\ b[5] \in Bit /\ b[6] \in Bit /\ b[7] \in Bit
  <2>1. \A i \in 1 .. 7 : b[i] \in Bit
    BY ElementOfSeq
  <2> QED
    BY <2>1
<1>3. c = [i \in 1 .. 7 |-> (v \div w[8 - 7 + i]) % 2]
  BY DEF Bits
<1> HIDE DEF v, c
<1>4. /\ v \in 0 .. 127
      /\ (v \div 64) % 2 = b[1] /\ (v \div 32) % 2 = b[2]
      /\ (v \div 16) % 2 = b[3] /\ (v \div 8) % 2 = b[4] /\ (v \div 4) % 2 = b[5]
      /\ (v \div 2) % 2 = b[6] /\ (v \div 1) % 2 = b[7]
  <2> DEFINE b1 == b[1]
             b2 == b[2]
             b3 == b[3]
             b4 == b[4]
             b5 == b[5]
             b6 == b[6]
             b7 == b[7]
  <2>1. v = 64 * b1 + 32 * b2 + 16 * b3 + 8 * b4 + 4 * b5 + 2 * b6 + b7
    BY <1>1, <1>2 DEF Number, Bit
  <2>2. /\ b1 \in 0 .. 1 /\ b2 \in 0 .. 1 /\ b3 \in 0 .. 1 /\ b4 \in 0 .. 1
        /\ b5 \in 0 .. 1 /\ b6 \in 0 .. 1 /\ b7 \in 0 .. 1
    BY <1>2 DEF Bit
  <2> HIDE DEF b1, b2, b3, b4, b5, b6, b7
  <2>3. /\ v \in 0 .. 127
        /\ (v \div 64) % 2 = b1 /\ (v \div 32) % 2 = b2
        /\ (v \div 16) % 2 = b3 /\ (v \div 8) % 2 = b4 /\ (v \div 4) % 2 = b5
        /\ (v \div 2) % 2 = b6 /\ (v \div 1) % 2 = b7
    BY <2>1, <2>2, Z3
  <2> QED
    BY <2>3 DEF b1, b2, b3, b4, b5, b6, b7
<1>5. ASSUME NEW i \in 1 .. 7 PROVE c[i] = b[i]
  <2>1. /\ w[2] = 64 /\ w[3] = 32 /\ w[4] = 16
        /\ w[5] = 8 /\ w[6] = 4 /\ w[7] = 2 /\ w[8] = 1
    OBVIOUS
  <2>2. i = 1 \/ i = 2 \/ i = 3 \/ i = 4 \/ i = 5 \/ i = 6 \/ i = 7
    OBVIOUS
  <2> HIDE DEF w
  <2>3. c[i] = (v \div w[i + 1]) % 2
    <3>1. c[i] = (v \div w[8 - 7 + i]) % 2
      BY <1>3
    <3>2. 8 - 7 + i = i + 1
      OBVIOUS
    <3> QED
      BY <3>1, <3>2
  <2>4. CASE i = 1
    <3>1. c[1] = (v \div w[2]) % 2
      BY <2>3, <2>4
    <3> QED
      BY <1>4, <2>1, <2>4, <3>1
  <2>5. CASE i = 2
    <3>1. c[2] = (v \div w[3]) % 2
      BY <2>3, <2>5
    <3> QED
      BY <1>4, <2>1, <2>5, <3>1
  <2>6. CASE i = 3
    <3>1. c[3] = (v \div w[4]) % 2
      BY <2>3, <2>6
    <3> QED
      BY <1>4, <2>1, <2>6, <3>1
  <2>7. CASE i = 4
    <3>1. c[4] = (v \div w[5]) % 2
      BY <2>3, <2>7
    <3> QED
      BY <1>4, <2>1, <2>7, <3>1
  <2>8. CASE i = 5
    <3>1. c[5] = (v \div w[6]) % 2
      BY <2>3, <2>8
    <3> QED
      BY <1>4, <2>1, <2>8, <3>1
  <2>9. CASE i = 6
    <3>1. c[6] = (v \div w[7]) % 2
      BY <2>3, <2>9
    <3> QED
      BY <1>4, <2>1, <2>9, <3>1
  <2>10. CASE i = 7
    <3>1. c[7] = (v \div w[8]) % 2
      BY <2>3, <2>10
    <3> QED
      BY <1>4, <2>1, <2>10, <3>1
  <2> QED
    BY <2>2, <2>4, <2>5, <2>6, <2>7, <2>8, <2>9, <2>10
<1>6. c = b
  <2>1. c \in Seq(Bit) /\ Len(c) = 7
    <3>1. \A i \in 1 .. 7 : c[i] \in Bit
      <4>1. \A i \in 1 .. 7 : b[i] \in Bit
        BY ElementOfSeq
      <4> QED
        BY <1>5, <4>1
    <3>2. c = [i \in 1 .. 7 |-> c[i]]
      BY <1>3
    <3>3. c \in [1 .. 7 -> Bit]
      BY <3>1, <3>2, Zenon
    <3> QED
      BY <3>3, SeqIs
  <2> QED
    BY <1>5, <2>1, SeqEqual
<1> QED
  BY <1>4, <1>6 DEF v, c

\* The bits of some octets one behind the other.
BitRow(g) == [i \in DOMAIN g |-> Bits(g[i], 8)]

\* Every bit of an octet has its place in the row.
LEMMA AllBits ==
  ASSUME NEW g \in Seq(Byte)
  PROVE  LET b == FlattenSeq(BitRow(g))
         IN  /\ b \in Seq(Bit) /\ Len(b) = 8 * Len(g)
             /\ \A i \in 1 .. Len(g) : \A j \in 1 .. 8 : b[8 * (i - 1) + j] = Bits(g[i], 8)[j]
<1> DEFINE ss == BitRow(g)
           b == FlattenSeq(ss)
           n == Len(g)
           c == 8
<1>1. n \in Nat /\ DOMAIN g = 1 .. n /\ \A i \in 1 .. n : g[i] \in Byte
  BY LenProperties, ElementOfSeq
<1>2. ss = [i \in 1 .. n |-> Bits(g[i], 8)]
  BY <1>1 DEF BitRow
<1> HIDE DEF ss, n
<1>3. \A i \in 1 .. n : ss[i] = Bits(g[i], 8) /\ ss[i] \in Seq(Bit) /\ Len(ss[i]) = 8
  BY <1>1, <1>2, OctetBits
<1>4. ss \in Seq(Seq(Bit)) /\ Len(ss) = n
  <2>1. ss \in [1 .. n -> Seq(Bit)]
    BY <1>2, <1>3, Zenon
  <2> QED
    BY <1>1, <2>1, SeqIs
<1>5. c \in Widths /\ c \in 1 .. c /\ c = 8
  BY DEF Widths
<1> HIDE DEF c
<1>6. b \in Seq(Bit) /\ Pieces(b, ss, c)
  <2>1. \A k \in 1 .. Len(ss) - 1 : Len(ss[k]) = c
    BY <1>1, <1>3, <1>4, <1>5
  <2>2. Len(ss) > 0 => Len(ss[Len(ss)]) \in 1 .. c
    BY <1>1, <1>3, <1>4, <1>5
  <2> QED
    BY <1>4, <1>5, <2>1, <2>2, FlattenPieces
<1> HIDE DEF b
<1>7. ASSUME NEW i \in 1 .. n, NEW j \in 1 .. 8
      PROVE  b[8 * (i - 1) + j] = Bits(g[i], 8)[j]
  <2>1. ss[i] = Bits(g[i], 8) /\ i \in 1 .. Len(ss) /\ j \in 1 .. Len(ss[i])
    BY <1>3, <1>4
  <2>2. b[c * (i - 1) + j] = ss[i][j]
    BY <1>6, <2>1, Zenon DEF Pieces
  <2> QED
    BY <1>5, <2>1, <2>2
<1>8. Len(b) = 8 * n
  <2>1. CASE n = 0
    BY <1>4, <1>6, <2>1 DEF Pieces
  <2>2. CASE n # 0
    <3>1. Len(b) = 8 * (n - 1) + Len(ss[n])
      BY <1>4, <1>5, <1>6, <2>2, Zenon DEF Pieces
    <3>2. Len(ss[n]) = 8
      BY <1>1, <1>3, <2>2
    <3> QED
      BY <1>1, <3>1, <3>2
  <2> QED
    BY <2>1, <2>2
<1> QED
  BY <1>6, <1>7, <1>8 DEF b, ss, n

\* The same with zeros behind them.
Filled(g, k) == FlattenSeq(BitRow(g)) \o [i \in 1 .. k |-> 0]

\* The places are the same with zeros behind them.
LEMMA FilledBits ==
  ASSUME NEW g \in Seq(Byte), NEW k \in Nat
  PROVE  LET b == Filled(g, k)
         IN  /\ b \in Seq(Bit) /\ Len(b) = 8 * Len(g) + k
             /\ \A i \in 1 .. Len(g) : \A j \in 1 .. 8 : b[8 * (i - 1) + j] = Bits(g[i], 8)[j]
             /\ \A x \in 1 .. k : b[8 * Len(g) + x] = 0
<1> DEFINE a == FlattenSeq(BitRow(g))
           z == [i \in 1 .. k |-> 0]
           m == 8 * Len(g)
<1>1. /\ a \in Seq(Bit) /\ Len(a) = m /\ Len(g) \in Nat
      /\ \A i \in 1 .. Len(g) : \A j \in 1 .. 8 : a[8 * (i - 1) + j] = Bits(g[i], 8)[j]
  BY AllBits, LenProperties
<1>2. z \in Seq(Bit) /\ Len(z) = k
  <2>1. z \in [1 .. k -> Bit]
    BY DEF Bit
  <2> QED
    BY <2>1, SeqIs
<1>3. \A x \in 1 .. k : z[x] = 0
  OBVIOUS
<1>4. ASSUME NEW i \in 1 .. Len(g), NEW j \in 1 .. 8 PROVE 8 * (i - 1) + j \in 1 .. m
  BY <1>1
<1> HIDE DEF a, z, m
<1>5. /\ a \o z \in Seq(Bit) /\ Len(a \o z) = m + k
      /\ \A i \in 1 .. m : (a \o z)[i] = a[i]
      /\ \A i \in 1 .. k : (a \o z)[m + i] = z[i]
  <2>1. IsBehind(a \o z, Bit, a, z, m, k)
    BY <1>1, <1>2, BehindIs
  <2> QED
    BY <2>1 DEF IsBehind
<1>6. Filled(g, k) = a \o z
  BY DEF Filled, a, z
<1> DEFINE b == Filled(g, k)
<1>7. \A i \in 1 .. Len(g) : \A j \in 1 .. 8 : b[8 * (i - 1) + j] = Bits(g[i], 8)[j]
  BY <1>1, <1>4, <1>5, <1>6, Zenon
<1>8. \A x \in 1 .. k : b[m + x] = 0
  BY <1>3, <1>5, <1>6, Zenon
<1> QED
  BY <1>5, <1>6, <1>7, <1>8 DEF m

-----------------------------------------------------------------------------
(* base 128.                                                               *)

\* A group of up to seven octets is one more that is not ASCII, and decoded to what
\* it was.
LEMMA Group128 ==
  ASSUME NEW g \in Seq(Byte), Len(g) \in 1 .. 7
  PROVE  LET e == R128EncodeGroup(g)
         IN  e \in Seq(128 .. 255) /\ Len(e) = Len(g) + 1 /\ R128DecodeGroup(e) = g
<1> DEFINE l == Len(g)
           b == Filled(g, 7 - l)
           e == R128EncodeGroup(g)
           ss == [i \in 1 .. l + 1 |-> SubSeq(b, 7 * i - 6, 7 * i)]
           u == [i \in DOMAIN e |-> Bits(e[i] % 128, 7)]
<1>1. l \in 1 .. 7 /\ \A i \in 1 .. l : g[i] \in Byte
  BY ElementOfSeq
<1>2. e = [i \in 1 .. l + 1 |-> 128 + Value(SubSeq(b, 7 * i - 6, 7 * i))]
  BY DEF R128EncodeGroup, Filled, BitRow
<1>3. /\ b \in Seq(Bit) /\ Len(b) = 7 * (l + 1)
      /\ \A i \in 1 .. l : \A j \in 1 .. 8 : b[8 * (i - 1) + j] = Bits(g[i], 8)[j]
  <2> DEFINE k == 7 - l
  <2>1. k \in Nat /\ 8 * l + k = 7 * (l + 1)
    BY <1>1
  <2> HIDE DEF k
  <2>2. /\ Filled(g, k) \in Seq(Bit) /\ Len(Filled(g, k)) = 8 * l + k
        /\ \A i \in 1 .. l : \A j \in 1 .. 8 : Filled(g, k)[8 * (i - 1) + j] = Bits(g[i], 8)[j]
    BY <2>1, FilledBits
  <2> QED
    BY <2>1, <2>2 DEF k
<1> HIDE DEF b, e, l
<1>14. b \in Seq(Bit) /\ Len(b) = 7 * (l + 1)
  BY <1>3
<1>4. ASSUME NEW i \in 1 .. l + 1
      PROVE  /\ ss[i] \in Seq(Bit) /\ Len(ss[i]) = 7
             /\ \A j \in 1 .. 7 : ss[i][j] = b[7 * (i - 1) + j]
             /\ e[i] = 128 + Value(ss[i])
  <2> DEFINE x == 7 * (i - 1)
             y == 7 * i
  <2>1. x \in Nat /\ y \in Nat /\ x <= y /\ y <= Len(b) /\ y - x = 7 /\ x + 1 = 7 * i - 6
    BY <1>1, <1>14
  <2>2. ss[i] = SubSeq(b, 7 * i - 6, y)
    OBVIOUS
  <2> HIDE DEF x, y
  <2>3. ss[i] = Part(b, x, y)
    BY <2>1, <2>2 DEF Part
  <2>4. IsPart(Part(b, x, y), Bit, b, x, y)
    BY <1>14, <2>1, PartIs
  <2>5. ss[i] \in Seq(Bit) /\ Len(ss[i]) = 7 /\ \A j \in 1 .. 7 : ss[i][j] = b[x + j]
    BY <2>1, <2>3, <2>4 DEF IsPart
  <2>6. e[i] = 128 + Value(ss[i])
    BY <1>2
  <2> QED
    BY <2>5, <2>6 DEF x
<1>5. DOMAIN e = 1 .. l + 1 /\ l + 1 \in Nat
  BY <1>1, <1>2
<1>6. ss \in Seq(Seq(Bit)) /\ Len(ss) = l + 1
  <2>1. ss \in [1 .. l + 1 -> Seq(Bit)]
    BY <1>4, Zenon
  <2> QED
    BY <1>5, <2>1, SeqIs
<1>7. ASSUME NEW i \in 1 .. l + 1
      PROVE  e[i] \in 128 .. 255 /\ Bits(e[i] % 128, 7) = ss[i]
  <2> DEFINE v == Value(ss[i])
  <2>1. v \in 0 .. 127 /\ Bits(v, 7) = ss[i] /\ e[i] = 128 + v
    BY <1>4, BitsOfValue
  <2> HIDE DEF v
  <2>2. e[i] \in 128 .. 255 /\ e[i] % 128 = v
    <3>1. v \in 0 .. 127
      BY <2>1
    <3>2. 128 + v \in 128 .. 255 /\ (128 + v) % 128 = v
      BY <3>1
    <3> QED
      BY <2>1, <3>2
  <2> QED
    BY <2>1, <2>2
<1>8. e \in Seq(128 .. 255) /\ Len(e) = l + 1
  <2>1. e = [i \in 1 .. l + 1 |-> e[i]]
    BY <1>2
  <2> DEFINE S == 128 .. 255
             m == l + 1
  <2>2. e \in [1 .. m -> S] /\ m \in Nat
    BY <1>5, <1>7, <2>1, Zenon
  <2> HIDE DEF S, m
  <2>3. e \in Seq(S) /\ Len(e) = m
    BY <2>2, SeqIs
  <2> QED
    BY <2>3 DEF S, m
<1>9. u = ss
  BY <1>5, <1>7, Zenon
<1> HIDE DEF ss, u
<1>10. FlattenSeq(ss) = b
  <2> DEFINE c == 7
  <2>1. c \in Widths /\ c \in 1 .. c /\ c = 7
    BY DEF Widths
  <2> HIDE DEF c
  <2>2. l + 1 # 0 /\ l + 1 > 0 /\ l + 1 \in 1 .. l + 1 /\ \A k \in 1 .. (l + 1) - 1 : k \in 1 .. l + 1
    BY <1>1
  <2>3. Len(b) = c * (Len(ss) - 1) + Len(ss[Len(ss)])
    <3>1. Len(ss[l + 1]) = 7
      BY <1>4, <2>2
    <3>2. 7 * (l + 1) = 7 * ((l + 1) - 1) + 7
      BY <1>1
    <3> QED
      BY <1>3, <1>6, <2>1, <3>1, <3>2
  <2>4. Pieces(b, ss, c)
    <3>1. \A k \in 1 .. Len(ss) - 1 : Len(ss[k]) = c
      BY <1>4, <1>6, <2>1, <2>2
    <3>2. Len(ss[Len(ss)]) \in 1 .. c /\ Len(ss) # 0
      BY <1>4, <1>6, <2>1, <2>2
    <3>3. ASSUME NEW k \in 1 .. Len(ss), NEW j \in 1 .. Len(ss[k])
          PROVE  b[c * (k - 1) + j] = ss[k][j]
      <4>1. k \in 1 .. l + 1
        BY <1>6
      <4>2. j \in 1 .. 7
        BY <1>4, <4>1
      <4>3. ss[k][j] = b[7 * (k - 1) + j]
        BY <1>4, <4>1, <4>2, Zenon
      <4> QED
        BY <2>1, <4>3
    <3> QED
      BY <2>3, <3>1, <3>2, <3>3 DEF Pieces
  <2>5. FlattenSeq(ss) \in Seq(Bit) /\ Pieces(FlattenSeq(ss), ss, c)
    <3>1. \A k \in 1 .. Len(ss) - 1 : Len(ss[k]) = c
      BY <2>4 DEF Pieces
    <3>2. Len(ss) > 0 => Len(ss[Len(ss)]) \in 1 .. c
      BY <1>4, <1>6, <2>1, <2>2
    <3> QED
      BY <1>6, <2>1, <3>1, <3>2, FlattenPieces
  <2> QED
    BY <1>3, <1>6, <2>1, <2>4, <2>5, PiecesEqual
<1>11. R128DecodeGroup(e) = [i \in 1 .. l |-> Value(SubSeq(b, 8 * i - 7, 8 * i))]
  <2>1. FlattenSeq(u) = b
    BY <1>9, <1>10
  <2>2. (l + 1) - 1 = l
    BY <1>1
  <2> QED
    BY <1>8, <2>1, <2>2 DEF R128DecodeGroup, u
<1>12. ASSUME NEW i \in 1 .. l PROVE Value(SubSeq(b, 8 * i - 7, 8 * i)) = g[i]
  <2> DEFINE x == 8 * (i - 1)
             y == 8 * i
             w == SubSeq(b, 8 * i - 7, y)
             d == Bits(g[i], 8)
  <2>1. x \in Nat /\ y \in Nat /\ x <= y /\ y <= Len(b) /\ y - x = 8 /\ x + 1 = 8 * i - 7
    <3>1. l \in 1 .. 7 /\ Len(b) = 7 * (l + 1)
      BY <1>1, <1>14
    <3> QED
      BY <3>1
  <2>2. \A j \in 1 .. 8 : b[x + j] = d[j]
    BY <1>3
  <2>3. d \in Seq(Bit) /\ Len(d) = 8 /\ Value(d) = g[i]
    BY <1>1, OctetBits, ValueOfBits
  <2> HIDE DEF x, y, d
  <2>4. w = Part(b, x, y)
    BY <2>1 DEF Part
  <2>5. IsPart(Part(b, x, y), Bit, b, x, y)
    BY <1>14, <2>1, PartIs
  <2>6. w \in Seq(Bit) /\ Len(w) = 8 /\ \A j \in 1 .. 8 : w[j] = d[j]
    BY <2>1, <2>2, <2>4, <2>5 DEF IsPart
  <2>7. w = d
    BY <2>3, <2>6, SeqEqual
  <2> QED
    BY <2>3, <2>7 DEF y
<1>13. g = [i \in 1 .. l |-> g[i]]
  BY LenProperties DEF l
<1> QED
  BY <1>8, <1>11, <1>12, <1>13 DEF e, l

Coded128(s) == [k \in DOMAIN Groups(s, 7) |-> R128EncodeGroup(Groups(s, 7)[k])]
Text128(s) == FlattenSeq(Coded128(s))

\* The text of base 128: as long as the encoder says, and its groups are those that
\* were encoded.
LEMMA Text128Lemma ==
  ASSUME NEW s \in Seq(Byte)
  PROVE  LET t == Text128(s)
         IN  /\ t \in Seq(128 .. 255) /\ Len(t) = (Len(s) * 8 + 6) \div 7
             /\ (Len(t) * 7) \div 8 = Len(s) /\ Len(t) * 7 <= Len(s) * 8 + 6
             /\ Groups(t, 8) = Coded128(s)
<1> DEFINE a == 7
           c == 8
           S == 128 .. 255
           g == Groups(s, a)
           n == Len(g)
           e == Coded128(s)
           t == Text128(s)
           L == Len(s)
           l == Len(g[n])
<1>1. a \in Widths /\ a = 7 /\ c \in Widths /\ c = 8
  BY DEF Widths
<1>2. e = [k \in DOMAIN g |-> R128EncodeGroup(g[k])]
  BY DEF Coded128
<1>3. t = FlattenSeq(e)
  BY DEF Text128
<1> HIDE DEF a, c, S, e, t
<1>4. /\ g \in Seq(Seq(Byte)) /\ n \in Nat /\ DOMAIN g = 1 .. n /\ Pieces(s, g, a)
      /\ \A k \in 1 .. n : g[k] \in Seq(Byte) /\ Len(g[k]) \in 1 .. a /\ (k < n => Len(g[k]) = a)
  BY <1>1, GroupLemma
<1>5. n \in Nat
  BY <1>4
<1> HIDE DEF g, n
<1>6. ASSUME NEW k \in 1 .. n
      PROVE  e[k] \in Seq(S) /\ Len(e[k]) = Len(g[k]) + 1
  <2>1. g[k] \in Seq(Byte) /\ Len(g[k]) \in 1 .. 7 /\ e[k] = R128EncodeGroup(g[k])
    BY <1>1, <1>2, <1>4
  <2> QED
    BY <2>1, Group128 DEF S
<1>7. e \in Seq(Seq(S)) /\ Len(e) = n
  <2>1. e \in [1 .. n -> Seq(S)]
    BY <1>2, <1>4, <1>6, Zenon
  <2> QED
    BY <1>5, <2>1, SeqIs
<1>8. n # 0 => l \in 1 .. 7 /\ Len(e[n]) = l + 1
  <2> SUFFICES ASSUME n # 0 PROVE l \in 1 .. 7 /\ Len(e[n]) = l + 1
    OBVIOUS
  <2>1. n \in 1 .. n
    BY <1>5
  <2> QED
    BY <1>1, <1>4, <1>6, <2>1
<1>9. t \in Seq(S) /\ Pieces(t, e, c)
  <2>1. ASSUME NEW k \in 1 .. Len(e) - 1 PROVE Len(e[k]) = c
    <3>1. k \in 1 .. n /\ k < n
      BY <1>5, <1>7
    <3>2. Len(g[k]) = 7 /\ Len(e[k]) = Len(g[k]) + 1
      BY <1>1, <1>4, <1>6, <3>1
    <3> QED
      BY <1>1, <3>2
  <2>2. Len(e) > 0 => Len(e[Len(e)]) \in 1 .. c
    <3> SUFFICES ASSUME n > 0 PROVE Len(e[n]) \in 1 .. 8
      BY <1>1, <1>7
    <3> HIDE DEF l
    <3>1. l \in 1 .. 7 /\ Len(e[n]) = l + 1
      BY <1>5, <1>8
    <3> QED
      BY <3>1
  <2> QED
    BY <1>1, <1>3, <1>7, <2>1, <2>2, FlattenPieces
<1>10. Groups(t, c) = e
  BY <1>1, <1>7, <1>9, GroupsAre
<1> HIDE DEF L, l
<1>11. Len(t) = (L * 8 + 6) \div 7 /\ (Len(t) * 7) \div 8 = L /\ Len(t) * 7 <= L * 8 + 6
  <2> DEFINE x == Len(t)
  <2>1. CASE n = 0
    <3>1. x = 0 /\ L = 0
      BY <1>4, <1>7, <1>9, <2>1, Zenon DEF Pieces, L, n
    <3> HIDE DEF x
    <3>2. x = (L * 8 + 6) \div 7 /\ (x * 7) \div 8 = L /\ x * 7 <= L * 8 + 6
      BY <3>1
    <3> QED
      BY <3>2 DEF x
  <2>2. CASE n # 0
    <3>1. x = c * (n - 1) + Len(e[n])
      BY <1>7, <1>9, <2>2, Zenon DEF Pieces
    <3>2. L = a * (n - 1) + l
      BY <1>4, <2>2, Zenon DEF Pieces, L, n, l
    <3>3. l \in 1 .. 7 /\ x = 8 * (n - 1) + l + 1 /\ L = 7 * (n - 1) + l
      <4> DEFINE z == Len(e[n])
                 y == n - 1
      <4>1. l \in 1 .. 7 /\ z = l + 1
        BY <1>8, <2>2
      <4>2. y \in Int /\ x = c * y + z /\ L = a * y + l
        BY <1>5, <3>1, <3>2
      <4> HIDE DEF x, y, z
      <4>3. x = 8 * y + l + 1 /\ L = 7 * y + l
        BY <1>1, <4>1, <4>2
      <4> QED
        BY <4>1, <4>3 DEF y
    <3> HIDE DEF x
    <3>4. x = (L * 8 + 6) \div 7 /\ (x * 7) \div 8 = L /\ x * 7 <= L * 8 + 6
      BY <1>5, <2>2, <3>3, Z3
    <3> QED
      BY <3>4 DEF x
  <2> QED
    BY <2>1, <2>2
<1> QED
  BY <1>1, <1>9, <1>10, <1>11 DEF S, e, t, L

\* What base 128 encodes for any octets is as long as it says, has no ASCII character
\* in it, and is decoded to the octets.
THEOREM R128TripAll == \A s : Counted(s) => R128Trip(s)
<1> SUFFICES ASSUME NEW s, Counted(s) PROVE R128Trip(s)
  OBVIOUS
<1> DEFINE t == Text128(s)
           L == Len(s)
           g == Groups(s, 7)
           e == Coded128(s)
           room == R128EncodeSize(L)
<1>1. s \in Seq(Byte) /\ L \in Nat /\ 8 * L + 6 < Word /\ Word \in Nat
  BY CodecAssumption, LenProperties DEF Counted
<1>2. /\ t \in Seq(128 .. 255) /\ Len(t) = (L * 8 + 6) \div 7
      /\ (Len(t) * 7) \div 8 = L /\ Len(t) * 7 <= L * 8 + 6
      /\ Groups(t, 8) = e
  BY <1>1, Text128Lemma
<1>3. Len(t) \in Nat
  BY <1>2, LenProperties
<1> HIDE DEF L, t
<1>4. room = Len(t) /\ ~(room > room)
  <2>1. (L * 8 + 6) % Word = L * 8 + 6
    BY <1>1, SmallCount
  <2> QED
    BY <1>2, <1>3, <2>1 DEF R128EncodeSize
<1>5. R128DecodeSize(Len(t)) = L /\ ~(L > L)
  <2>1. Len(t) * 7 \in Nat /\ Len(t) * 7 < Word
    BY <1>1, <1>2, <1>3
  <2>2. (Len(t) * 7) % Word = Len(t) * 7
    BY <2>1, SmallCount
  <2> QED
    BY <1>1, <1>2, <2>2 DEF R128DecodeSize
<1> HIDE DEF room
<1>6. R128Encode(s, room) = Done(t)
  BY <1>4, Zenon DEF R128Encode, Text128, Coded128, room, L, t
<1>7. R128Decode(t, L) = Done(s)
  <2> DEFINE o == [k \in DOMAIN e |-> R128DecodeGroup(e[k])]
  <2>1. /\ g \in Seq(Seq(Byte)) /\ DOMAIN g = 1 .. Len(g)
        /\ \A k \in 1 .. Len(g) : g[k] \in Seq(Byte) /\ Len(g[k]) \in 1 .. 7
        /\ FlattenSeq(g) = s
    <3> DEFINE c == 7
    <3>1. c \in Widths
      BY DEF Widths
    <3> HIDE DEF c
    <3>2. /\ Groups(s, c) \in Seq(Seq(Byte)) /\ DOMAIN Groups(s, c) = 1 .. Len(Groups(s, c))
          /\ \A k \in 1 .. Len(Groups(s, c)) :
               Groups(s, c)[k] \in Seq(Byte) /\ Len(Groups(s, c)[k]) \in 1 .. c
          /\ FlattenSeq(Groups(s, c)) = s
      BY <1>1, <3>1, GroupLemma, FlattenGroups
    <3> QED
      BY <3>2 DEF c
  <2>2. e = [k \in DOMAIN g |-> R128EncodeGroup(g[k])]
    BY DEF Coded128
  <2> HIDE DEF e, g
  <2>3. \A k \in DOMAIN g : R128DecodeGroup(e[k]) = g[k]
    BY <2>1, <2>2, Group128
  <2>4. DOMAIN e = DOMAIN g /\ g = [k \in DOMAIN g |-> g[k]]
    BY <2>1, <2>2, LenProperties
  <2>5. o = g
    BY <2>3, <2>4
  <2>6. FlattenSeq(o) = s
    BY <2>1, <2>5
  <2> QED
    BY <1>2, <1>5, <2>6, Zenon DEF R128Decode
<1>8. \A i \in DOMAIN t : t[i] \in 128 .. 255
  <2>1. t \in Seq(128 .. 255) /\ DOMAIN t = 1 .. Len(t)
    BY <1>2, LenProperties
  <2> QED
    BY <2>1, ElementOfSeq, Zenon
<1>9. Done(t).ok /\ Done(t).out = t
  BY DEF Done
<1> QED
  BY <1>4, <1>6, <1>7, <1>8, <1>9, Zenon DEF R128Trip, L, room

-----------------------------------------------------------------------------
(* The text of base64 is the reference's.                                  *)

\* Three octets are four numbers of six bits.
LEMMA FourSixes ==
  ASSUME NEW c1 \in Byte, NEW c2 \in Byte, NEW c3 \in Byte
  PROVE  LET x == Bits(c1, 8)
             y == Bits(c2, 8)
             z == Bits(c3, 8)
         IN  /\ Number(0, 0, x[1], x[2], x[3], x[4], x[5], x[6]) = c1 \div 4
             /\ Number(0, 0, x[7], x[8], y[1], y[2], y[3], y[4]) = (c1 % 4) * 16 + c2 \div 16
             /\ Number(0, 0, y[5], y[6], y[7], y[8], z[1], z[2]) = (c2 % 16) * 4 + c3 \div 64
             /\ Number(0, 0, z[3], z[4], z[5], z[6], z[7], z[8]) = c3 % 64
<1>1. ASSUME NEW c \in Byte
      PROVE  LET x == Bits(c, 8)
             IN  /\ Number(0, 0, x[1], x[2], x[3], x[4], x[5], x[6]) = c \div 4
                 /\ c % 4 = 2 * x[7] + x[8]
                 /\ c \div 16 = 8 * x[1] + 4 * x[2] + 2 * x[3] + x[4]
                 /\ c % 16 = 8 * x[5] + 4 * x[6] + 2 * x[7] + x[8]
                 /\ c \div 64 = 2 * x[1] + x[2]
                 /\ c % 64 = Number(0, 0, x[3], x[4], x[5], x[6], x[7], x[8])
                 /\ \A i \in 1 .. 8 : x[i] \in 0 .. 1
  <2> DEFINE x == Bits(c, 8)
             x1 == x[1]
             x2 == x[2]
             x3 == x[3]
             x4 == x[4]
             x5 == x[5]
             x6 == x[6]
             x7 == x[7]
             x8 == x[8]
  <2>1. /\ \A i \in 1 .. 8 : x[i] \in 0 .. 1
        /\ c = Number(x1, x2, x3, x4, x5, x6, x7, x8)
    BY OctetBits DEF Bit
  <2>2. /\ x1 \in 0 .. 1 /\ x2 \in 0 .. 1 /\ x3 \in 0 .. 1 /\ x4 \in 0 .. 1
        /\ x5 \in 0 .. 1 /\ x6 \in 0 .. 1 /\ x7 \in 0 .. 1 /\ x8 \in 0 .. 1
    BY <2>1
  <2> HIDE DEF x1, x2, x3, x4, x5, x6, x7, x8
  <2>3. c = 128 * x1 + 64 * x2 + 32 * x3 + 16 * x4 + 8 * x5 + 4 * x6 + 2 * x7 + x8
    BY <2>1 DEF Number
  <2>4. c \div 4 = 32 * x1 + 16 * x2 + 8 * x3 + 4 * x4 + 2 * x5 + x6 /\ c % 4 = 2 * x7 + x8
    BY <2>2, <2>3, Z3
  <2>5. /\ c \div 16 = 8 * x1 + 4 * x2 + 2 * x3 + x4
        /\ c % 16 = 8 * x5 + 4 * x6 + 2 * x7 + x8
    BY <2>2, <2>3, Z3
  <2>6. /\ c \div 64 = 2 * x1 + x2
        /\ c % 64 = 32 * x3 + 16 * x4 + 8 * x5 + 4 * x6 + 2 * x7 + x8
    BY <2>2, <2>3, Z3
  <2>7. /\ Number(0, 0, x1, x2, x3, x4, x5, x6) = c \div 4
        /\ c % 64 = Number(0, 0, x3, x4, x5, x6, x7, x8)
    BY <2>2, <2>4, <2>6 DEF Number
  <2> QED
    BY <2>1, <2>4, <2>5, <2>6, <2>7, Zenon DEF x1, x2, x3, x4, x5, x6, x7, x8
<1> DEFINE x == Bits(c1, 8)
           y == Bits(c2, 8)
           z == Bits(c3, 8)
<1>2. /\ Number(0, 0, x[1], x[2], x[3], x[4], x[5], x[6]) = c1 \div 4
      /\ c1 % 4 = 2 * x[7] + x[8]
      /\ c2 \div 16 = 8 * y[1] + 4 * y[2] + 2 * y[3] + y[4]
      /\ c2 % 16 = 8 * y[5] + 4 * y[6] + 2 * y[7] + y[8]
      /\ c3 \div 64 = 2 * z[1] + z[2]
      /\ c3 % 64 = Number(0, 0, z[3], z[4], z[5], z[6], z[7], z[8])
  BY <1>1
<1>3. /\ x[7] \in 0 .. 1 /\ x[8] \in 0 .. 1
      /\ y[1] \in 0 .. 1 /\ y[2] \in 0 .. 1 /\ y[3] \in 0 .. 1 /\ y[4] \in 0 .. 1
      /\ y[5] \in 0 .. 1 /\ y[6] \in 0 .. 1 /\ y[7] \in 0 .. 1 /\ y[8] \in 0 .. 1
      /\ z[1] \in 0 .. 1 /\ z[2] \in 0 .. 1
  BY <1>1
<1>4. \A a1, a2, a3, a4, a5, a6 \in 0 .. 1 :
        Number(0, 0, a1, a2, a3, a4, a5, a6)
          = (2 * a1 + a2) * 16 + (8 * a3 + 4 * a4 + 2 * a5 + a6)
  BY DEF Number
<1>5. \A a1, a2, a3, a4, a5, a6 \in 0 .. 1 :
        Number(0, 0, a1, a2, a3, a4, a5, a6)
          = (8 * a1 + 4 * a2 + 2 * a3 + a4) * 4 + (2 * a5 + a6)
  BY DEF Number
<1>6. Number(0, 0, x[7], x[8], y[1], y[2], y[3], y[4])
        = (2 * x[7] + x[8]) * 16 + (8 * y[1] + 4 * y[2] + 2 * y[3] + y[4])
  BY <1>3, <1>4
<1>7. Number(0, 0, y[5], y[6], y[7], y[8], z[1], z[2])
        = (8 * y[5] + 4 * y[6] + 2 * y[7] + y[8]) * 4 + (2 * z[1] + z[2])
  BY <1>3, <1>5
<1> HIDE DEF x, y, z
<1> QED
  BY <1>2, <1>6, <1>7 DEF x, y, z

\* The digits of a group.
Sixes(g) ==
  LET c1 == OrZero(g, 1)
      c2 == OrZero(g, 2)
      c3 == OrZero(g, 3)
  IN  <<c1 \div 4, (c1 % 4) * 16 + c2 \div 16, (c2 % 16) * 4 + c3 \div 64, c3 % 64>>

\* How many bits, digits and characters of padding there are.
LEMMA Counts64 ==
  ASSUME NEW s \in Seq(Byte)
  PROVE  LET G == Len(Groups(s, 3))
             m == Signs(s)
             k == (4 * Len(s)) % 6
         IN  /\ k \in Nat /\ m \in Nat /\ 8 * Len(s) + k = 6 * m /\ (6 * m) \div 6 = m
             /\ (4 - (m % 4)) % 4 = 4 * G - m /\ 4 * G - m \in Nat
<1> DEFINE g == Groups(s, 3)
           G == Len(g)
           m == Signs(s)
           L == Len(s)
           l == Len(g[G])
<1>1. G \in Nat
  BY Groups3
<1>2. CASE G = 0
  <2>1. m = 0 /\ L = 0
    BY <1>2, Groups3, Zenon DEF Pieces, Signs
  <2> HIDE DEF m, L, G
  <2>2. /\ (4 * L) % 6 \in Nat /\ m \in Nat /\ 8 * L + ((4 * L) % 6) = 6 * m /\ (6 * m) \div 6 = m
        /\ (4 - (m % 4)) % 4 = 4 * G - m /\ 4 * G - m \in Nat
    BY <1>2, <2>1, Z3
  <2> QED
    BY <2>2 DEF m, L, G
<1>3. CASE G # 0
  <2>1. G \in 1 .. G
    BY <1>1, <1>3
  <2>2. m = 4 * (G - 1) + l + 1 /\ L = 3 * (G - 1) + l /\ l \in 1 .. 3
    BY <1>3, <2>1, Groups3, Zenon DEF Pieces, Signs
  <2> HIDE DEF m, L, l, G
  <2>3. /\ (4 * L) % 6 \in Nat /\ m \in Nat /\ 8 * L + ((4 * L) % 6) = 6 * m /\ (6 * m) \div 6 = m
        /\ (4 - (m % 4)) % 4 = 4 * G - m /\ 4 * G - m \in Nat
    <3> DEFINE p == G - 1
    <3>1. p \in Nat /\ G = p + 1 /\ m = 4 * p + l + 1 /\ L = 3 * p + l
      BY <1>1, <1>3, <2>2
    <3> HIDE DEF p
    <3>2. l = 1 \/ l = 2 \/ l = 3
      BY <2>2
    <3>3. CASE l = 1
      BY <3>1, <3>3, Z3
    <3>4. CASE l = 2
      BY <3>1, <3>4, Z3
    <3>5. CASE l = 3
      BY <3>1, <3>5, Z3
    <3> QED
      BY <3>2, <3>3, <3>4, <3>5
  <2> QED
    BY <2>3 DEF m, L, G
<1> QED
  BY <1>2, <1>3


\* The bits of zero.
LEMMA ZeroBits == \A z \in 1 .. 8 : Bits(0, 8)[z] = 0
<1> DEFINE b == Bits(0, 8)
           b1 == b[1]
           b2 == b[2]
           b3 == b[3]
           b4 == b[4]
           b5 == b[5]
           b6 == b[6]
           b7 == b[7]
           b8 == b[8]
<1>1. 0 \in Byte
  BY DEF Byte
<1>2. (\A i \in 1 .. 8 : b[i] \in Bit) /\ 0 = Number(b1, b2, b3, b4, b5, b6, b7, b8)
  BY <1>1, OctetBits
<1>3. /\ b1 \in 0 .. 1 /\ b2 \in 0 .. 1 /\ b3 \in 0 .. 1 /\ b4 \in 0 .. 1
      /\ b5 \in 0 .. 1 /\ b6 \in 0 .. 1 /\ b7 \in 0 .. 1 /\ b8 \in 0 .. 1
  BY <1>2 DEF Bit
<1> HIDE DEF b1, b2, b3, b4, b5, b6, b7, b8
<1>4. b1 = 0 /\ b2 = 0 /\ b3 = 0 /\ b4 = 0 /\ b5 = 0 /\ b6 = 0 /\ b7 = 0 /\ b8 = 0
  BY <1>2, <1>3 DEF Number
<1>5. \A z \in 1 .. 8 : z = 1 \/ z = 2 \/ z = 3 \/ z = 4 \/ z = 5 \/ z = 6 \/ z = 7 \/ z = 8
  OBVIOUS
<1> HIDE DEF b
<1> QED
  BY <1>4, <1>5 DEF b, b1, b2, b3, b4, b5, b6, b7, b8

\* The bits of the reference.
Bits64(s) == Filled(s, (4 * Len(s)) % 6)

\* They can be cut into sixes, one for every digit.
LEMMA Bits64Type ==
  ASSUME NEW s \in Seq(Byte)
  PROVE  Bits64(s) \in Seq(Bit) /\ Len(Bits64(s)) = 6 * Signs(s) /\ Signs(s) \in Nat
<1> DEFINE k == (4 * Len(s)) % 6
<1>1. k \in Nat /\ 8 * Len(s) + k = 6 * Signs(s) /\ Signs(s) \in Nat
  BY Counts64
<1> HIDE DEF k
<1>2. Filled(s, k) \in Seq(Bit) /\ Len(Filled(s, k)) = 8 * Len(s) + k
  BY <1>1, FilledBits
<1> QED
  BY <1>1, <1>2 DEF Bits64, k

\* Those of the w-th octet of a group; the octets it does not have are zero.
LEMMA BitAt ==
  ASSUME NEW s \in Seq(Byte), NEW q \in 1 .. Len(Groups(s, 3)), NEW w \in 1 .. 3,
         NEW z \in 1 .. 8, 24 * (q - 1) + 8 * (w - 1) + z <= 6 * Signs(s)
  PROVE  Bits64(s)[24 * (q - 1) + 8 * (w - 1) + z] = Bits(OrZero(Groups(s, 3)[q], w), 8)[z]
<1> DEFINE g == Groups(s, 3)
           G == Len(g)
           L == Len(s)
           k == (4 * Len(s)) % 6
           m == Signs(s)
           l == Len(g[G])
           b == Filled(s, k)
           y == 24 * (q - 1) + 8 * (w - 1) + z
<1>1. /\ G \in Nat /\ Pieces(s, g, 3)
      /\ \A i \in 1 .. G : Len(g[i]) \in 1 .. 3 /\ (i < G => Len(g[i]) = 3)
  BY Groups3
<1>2. k \in Nat /\ 8 * L + k = 6 * m /\ L \in Nat /\ m \in Nat
  BY Counts64, LenProperties
<1> HIDE DEF k, g, m
<1>3. /\ \A i \in 1 .. L : \A j \in 1 .. 8 : b[8 * (i - 1) + j] = Bits(s[i], 8)[j]
      /\ \A x \in 1 .. k : b[8 * L + x] = 0
  BY <1>2, FilledBits
<1>4. G \in Nat
  BY <1>1
<1> HIDE DEF G, L
<1>5. L = 3 * (G - 1) + l /\ l \in 1 .. 3
  <2>1. G # 0 /\ G \in 1 .. G
    BY <1>4 DEF G, g
  <2> QED
    BY <1>1, <2>1, Zenon DEF Pieces, L, G
<1> HIDE DEF l
<1>6. q \in 1 .. G /\ y <= 6 * m
  BY DEF G, g, m
<1> HIDE DEF y, b
<1>7. y = 24 * (q - 1) + 8 * (w - 1) + z
  BY DEF y
<1>8. CASE w <= Len(g[q])
  <2> DEFINE i == 3 * (q - 1) + w
  <2>1. w \in 1 .. Len(g[q])
    BY <1>1, <1>6, <1>8
  <2>2. s[i] = g[q][w]
    BY <1>1, <1>6, <2>1, Zenon DEF Pieces, G
  <2>3. q = G => w <= l
    BY <1>8 DEF l
  <2>4. i \in 1 .. L /\ 8 * (i - 1) + z = y
    BY <1>4, <1>5, <1>6, <1>7, <2>3
  <2> HIDE DEF i
  <2>5. b[y] = Bits(s[i], 8)[z]
    BY <1>3, <2>4
  <2>6. OrZero(g[q], w) = s[i]
    BY <1>8, <2>2 DEF OrZero
  <2> QED
    BY <2>5, <2>6, Zenon DEF Bits64, b, k, g, y
<1>9. CASE ~(w <= Len(g[q]))
  <2>1. q = G
    <3> SUFFICES ASSUME q < G PROVE FALSE
      BY <1>4, <1>6
    <3>1. Len(g[q]) = 3
      BY <1>1, <1>6
    <3> QED
      BY <1>9, <3>1
  <2>2. ~(w <= l)
    BY <1>9, <2>1 DEF l
  <2> DEFINE x == y - 8 * L
  <2>3. y = 24 * (G - 1) + 8 * (w - 1) + z /\ G - 1 \in Nat
    BY <1>4, <1>6, <1>7, <2>1
  <2>4. x \in 1 .. k /\ 8 * L + x = y
    <3>1. l + 1 <= w
      BY <1>5, <2>2
    <3>2. 8 * L = 24 * (G - 1) + 8 * l
      BY <1>4, <1>5
    <3>3. y \in Nat /\ y <= 8 * L + k /\ 8 * L + 1 <= y
      BY <1>2, <1>4, <1>5, <1>6, <2>3, <3>1, <3>2
    <3> QED
      BY <1>2, <3>3
  <2> HIDE DEF x
  <2>5. b[y] = 0
    BY <1>3, <2>4
  <2>6. OrZero(g[q], w) = 0
    BY <1>9 DEF OrZero
  <2>7. Bits(0, 8)[z] = 0
    BY ZeroBits
  <2> QED
    BY <2>5, <2>6, <2>7, Zenon DEF Bits64, b, k, g, y
<1> QED
  BY <1>8, <1>9

\* Six of them are a digit of a group.
LEMMA SixValue ==
  ASSUME NEW s \in Seq(Byte), NEW q \in 1 .. Len(Groups(s, 3)), NEW j \in 1 .. 4,
         NEW i \in 1 .. Signs(s), i = 4 * (q - 1) + j
  PROVE  Value(SubSeq(Bits64(s), 6 * i - 5, 6 * i)) = Sixes(Groups(s, 3)[q])[j]
<1> DEFINE g == Groups(s, 3)[q]
           b == Bits64(s)
           m == Signs(s)
           c1 == OrZero(g, 1)
           c2 == OrZero(g, 2)
           c3 == OrZero(g, 3)
           X == Bits(c1, 8)
           Y == Bits(c2, 8)
           Z == Bits(c3, 8)
           d == Sixes(g)
           lo == 6 * (i - 1)
           hi == 6 * i
           v == SubSeq(b, 6 * i - 5, 6 * i)
           p == 24 * (q - 1)
<1>1. g \in Seq(Byte) /\ Len(g) \in 1 .. 3 /\ \A x \in 1 .. Len(g) : g[x] \in Byte
  BY Groups3, ElementOfSeq
<1>2. c1 \in Byte /\ c2 \in Byte /\ c3 \in Byte
  BY <1>1 DEF OrZero, Byte
<1>3. b \in Seq(Bit) /\ Len(b) = 6 * m /\ m \in Nat
  BY Bits64Type
<1>4. q \in Nat \ {0} /\ i = 4 * (q - 1) + j /\ i <= m
  BY Groups3
<1>5. /\ \A z \in 1 .. 8 : p + 0 + z <= 6 * m => b[p + 0 + z] = X[z]
      /\ \A z \in 1 .. 8 : p + 8 + z <= 6 * m => b[p + 8 + z] = Y[z]
      /\ \A z \in 1 .. 8 : p + 16 + z <= 6 * m => b[p + 16 + z] = Z[z]
  <2>1. \A w \in 1 .. 3, z \in 1 .. 8 : p + 8 * (w - 1) + z <= 6 * m =>
          b[p + 8 * (w - 1) + z] = Bits(OrZero(g, w), 8)[z]
    BY BitAt
  <2>2. /\ 1 \in 1 .. 3 /\ 2 \in 1 .. 3 /\ 3 \in 1 .. 3
        /\ 8 * (1 - 1) = 0 /\ 8 * (2 - 1) = 8 /\ 8 * (3 - 1) = 16
    OBVIOUS
  <2> HIDE DEF b, p, g, m
  <2> QED
    BY <2>1, <2>2
<1> HIDE DEF b, m, g
<1>6. /\ Number(0, 0, X[1], X[2], X[3], X[4], X[5], X[6]) = d[1]
      /\ Number(0, 0, X[7], X[8], Y[1], Y[2], Y[3], Y[4]) = d[2]
      /\ Number(0, 0, Y[5], Y[6], Y[7], Y[8], Z[1], Z[2]) = d[3]
      /\ Number(0, 0, Z[3], Z[4], Z[5], Z[6], Z[7], Z[8]) = d[4]
  <2>1. /\ Number(0, 0, X[1], X[2], X[3], X[4], X[5], X[6]) = c1 \div 4
        /\ Number(0, 0, X[7], X[8], Y[1], Y[2], Y[3], Y[4]) = (c1 % 4) * 16 + c2 \div 16
        /\ Number(0, 0, Y[5], Y[6], Y[7], Y[8], Z[1], Z[2]) = (c2 % 16) * 4 + c3 \div 64
        /\ Number(0, 0, Z[3], Z[4], Z[5], Z[6], Z[7], Z[8]) = c3 % 64
    BY <1>2, FourSixes
  <2> DEFINE d1 == c1 \div 4
             d2 == (c1 % 4) * 16 + c2 \div 16
             d3 == (c2 % 16) * 4 + c3 \div 64
             d4 == c3 % 64
  <2>2. d = <<d1, d2, d3, d4>>
    BY DEF Sixes
  <2> HIDE DEF d1, d2, d3, d4, d
  <2>3. d[1] = d1 /\ d[2] = d2 /\ d[3] = d3 /\ d[4] = d4
    BY <2>2
  <2> QED
    BY <2>1, <2>3, Zenon DEF d1, d2, d3, d4
<1>7. lo \in Nat /\ hi \in Nat /\ lo <= hi /\ hi <= Len(b) /\ hi - lo = 6 /\ lo + 1 = 6 * i - 5
  BY <1>3, <1>4
<1>8. lo = p + 6 * (j - 1) /\ lo + 6 <= 6 * m /\ p \in Nat
  BY <1>3, <1>4
<1> HIDE DEF X, Y, Z, d, lo, hi, p
<1>9. v \in Seq(Bit) /\ Len(v) = 6 /\ \A x \in 1 .. 6 : v[x] = b[lo + x]
  <2>1. v = Part(b, lo, hi)
    BY <1>7 DEF Part, hi
  <2> HIDE DEF v
  <2>2. IsPart(Part(b, lo, hi), Bit, b, lo, hi)
    BY <1>3, <1>7, PartIs
  <2> QED
    BY <1>7, <2>1, <2>2 DEF IsPart
<1> HIDE DEF v
<1>10. Value(v) = Number(0, 0, v[1], v[2], v[3], v[4], v[5], v[6])
  BY <1>9, ValueIs
<1>11. /\ v[1] = b[lo + 1] /\ v[2] = b[lo + 2] /\ v[3] = b[lo + 3]
       /\ v[4] = b[lo + 4] /\ v[5] = b[lo + 5] /\ v[6] = b[lo + 6]
  BY <1>9
<1>12. CASE j = 1
  <2>1. /\ lo + 1 = p + 0 + 1 /\ lo + 2 = p + 0 + 2 /\ lo + 3 = p + 0 + 3
        /\ lo + 4 = p + 0 + 4 /\ lo + 5 = p + 0 + 5 /\ lo + 6 = p + 0 + 6
    BY <1>8, <1>12
  <2>2. /\ p + 0 + 1 <= 6 * m /\ p + 0 + 2 <= 6 * m /\ p + 0 + 3 <= 6 * m
        /\ p + 0 + 4 <= 6 * m /\ p + 0 + 5 <= 6 * m /\ p + 0 + 6 <= 6 * m
    BY <1>3, <1>8, <1>12
  <2>3. /\ b[p + 0 + 1] = X[1] /\ b[p + 0 + 2] = X[2] /\ b[p + 0 + 3] = X[3]
        /\ b[p + 0 + 4] = X[4] /\ b[p + 0 + 5] = X[5] /\ b[p + 0 + 6] = X[6]
    BY <1>5, <2>2
  <2>4. v[1] = X[1] /\ v[2] = X[2] /\ v[3] = X[3] /\ v[4] = X[4] /\ v[5] = X[5] /\ v[6] = X[6]
    BY <1>11, <2>1, <2>3
  <2>5. Value(v) = Number(0, 0, X[1], X[2], X[3], X[4], X[5], X[6])
    BY <1>10, <2>4
  <2> QED
    BY <1>6, <1>12, <2>5, Zenon DEF v, d, b, g
<1>13. CASE j = 2
  <2>1. /\ lo + 1 = p + 0 + 7 /\ lo + 2 = p + 0 + 8 /\ lo + 3 = p + 8 + 1
        /\ lo + 4 = p + 8 + 2 /\ lo + 5 = p + 8 + 3 /\ lo + 6 = p + 8 + 4
    BY <1>8, <1>13
  <2>2. /\ p + 0 + 7 <= 6 * m /\ p + 0 + 8 <= 6 * m /\ p + 8 + 1 <= 6 * m
        /\ p + 8 + 2 <= 6 * m /\ p + 8 + 3 <= 6 * m /\ p + 8 + 4 <= 6 * m
    BY <1>3, <1>8, <1>13
  <2>3. /\ b[p + 0 + 7] = X[7] /\ b[p + 0 + 8] = X[8] /\ b[p + 8 + 1] = Y[1]
        /\ b[p + 8 + 2] = Y[2] /\ b[p + 8 + 3] = Y[3] /\ b[p + 8 + 4] = Y[4]
    BY <1>5, <2>2
  <2>4. v[1] = X[7] /\ v[2] = X[8] /\ v[3] = Y[1] /\ v[4] = Y[2] /\ v[5] = Y[3] /\ v[6] = Y[4]
    BY <1>11, <2>1, <2>3
  <2>5. Value(v) = Number(0, 0, X[7], X[8], Y[1], Y[2], Y[3], Y[4])
    BY <1>10, <2>4
  <2> QED
    BY <1>6, <1>13, <2>5, Zenon DEF v, d, b, g
<1>14. CASE j = 3
  <2>1. /\ lo + 1 = p + 8 + 5 /\ lo + 2 = p + 8 + 6 /\ lo + 3 = p + 8 + 7
        /\ lo + 4 = p + 8 + 8 /\ lo + 5 = p + 16 + 1 /\ lo + 6 = p + 16 + 2
    BY <1>8, <1>14
  <2>2. /\ p + 8 + 5 <= 6 * m /\ p + 8 + 6 <= 6 * m /\ p + 8 + 7 <= 6 * m
        /\ p + 8 + 8 <= 6 * m /\ p + 16 + 1 <= 6 * m /\ p + 16 + 2 <= 6 * m
    BY <1>3, <1>8, <1>14
  <2>3. /\ b[p + 8 + 5] = Y[5] /\ b[p + 8 + 6] = Y[6] /\ b[p + 8 + 7] = Y[7]
        /\ b[p + 8 + 8] = Y[8] /\ b[p + 16 + 1] = Z[1] /\ b[p + 16 + 2] = Z[2]
    BY <1>5, <2>2
  <2>4. v[1] = Y[5] /\ v[2] = Y[6] /\ v[3] = Y[7] /\ v[4] = Y[8] /\ v[5] = Z[1] /\ v[6] = Z[2]
    BY <1>11, <2>1, <2>3
  <2>5. Value(v) = Number(0, 0, Y[5], Y[6], Y[7], Y[8], Z[1], Z[2])
    BY <1>10, <2>4
  <2> QED
    BY <1>6, <1>14, <2>5, Zenon DEF v, d, b, g
<1>15. CASE j = 4
  <2>1. /\ lo + 1 = p + 16 + 3 /\ lo + 2 = p + 16 + 4 /\ lo + 3 = p + 16 + 5
        /\ lo + 4 = p + 16 + 6 /\ lo + 5 = p + 16 + 7 /\ lo + 6 = p + 16 + 8
    BY <1>8, <1>15
  <2>2. /\ p + 16 + 3 <= 6 * m /\ p + 16 + 4 <= 6 * m /\ p + 16 + 5 <= 6 * m
        /\ p + 16 + 6 <= 6 * m /\ p + 16 + 7 <= 6 * m /\ p + 16 + 8 <= 6 * m
    BY <1>3, <1>8, <1>15
  <2>3. /\ b[p + 16 + 3] = Z[3] /\ b[p + 16 + 4] = Z[4] /\ b[p + 16 + 5] = Z[5]
        /\ b[p + 16 + 6] = Z[6] /\ b[p + 16 + 7] = Z[7] /\ b[p + 16 + 8] = Z[8]
    BY <1>5, <2>2
  <2>4. v[1] = Z[3] /\ v[2] = Z[4] /\ v[3] = Z[5] /\ v[4] = Z[6] /\ v[5] = Z[7] /\ v[6] = Z[8]
    BY <1>11, <2>1, <2>3
  <2>5. Value(v) = Number(0, 0, Z[3], Z[4], Z[5], Z[6], Z[7], Z[8])
    BY <1>10, <2>4
  <2> QED
    BY <1>6, <1>15, <2>5, Zenon DEF v, d, b, g
<1> QED
  BY <1>12, <1>13, <1>14, <1>15

\* The text is the reference's.
LEMMA ReferenceIs ==
  ASSUME NEW s \in Seq(Byte)
  PROVE  Base64Reference(s) = Text64(s)
<1> DEFINE g == Groups(s, 3)
           G == Len(g)
           t == Text64(s)
           e == Coded(s)
           m == Signs(s)
           b == Bits64(s)
           r == 4 * G - m
           A == [i \in 1 .. m |-> Base64Char(Value(SubSeq(b, 6 * i - 5, 6 * i)))]
           P == [i \in 1 .. r |-> Padding]
<1>1. /\ t \in Seq(Byte) /\ Len(t) = 4 * G /\ m \in Nat /\ m <= Len(t)
      /\ \A i \in 1 .. m : t[i] # Padding
      /\ \A i \in m + 1 .. Len(t) : t[i] = Padding
  BY TextLemma
<1>2. (6 * m) \div 6 = m /\ (4 - (m % 4)) % 4 = r /\ r \in Nat
  BY Counts64
<1>3. b \in Seq(Bit) /\ Len(b) = 6 * m
  BY Bits64Type
<1>4. Base64Reference(s) = A \o P
  <2> DEFINE c == FlattenSeq([i \in DOMAIN s |-> Bits(s[i], 8)])
                    \o [i \in 1 .. ((4 * Len(s)) % 6) |-> 0]
             n == Len(c) \div 6
  <2>1. c = b
    BY Zenon DEF Bits64, Filled, BitRow
  <2>2. Base64Reference(s)
          = [k \in 1 .. n |-> Base64Char(Value(SubSeq(c, 6 * k - 5, 6 * k)))]
              \o [k \in 1 .. (4 - (n % 4)) % 4 |-> Padding]
    BY Zenon DEF Base64Reference
  <2> HIDE DEF c, b, m, r
  <2>3. n = m
    BY <1>2, <1>3, <2>1
  <2> HIDE DEF n
  <2> QED
    BY <1>2, <2>1, <2>2, <2>3
<1>5. ASSUME NEW i \in 1 .. m
      PROVE  A[i] = t[i] /\ t[i] \in Byte
  <2>1. i \in 1 .. Len(t)
    BY <1>1, LenProperties
  <2>2. PICK q \in 1 .. G : \E j \in 1 .. 4 : i = 4 * (q - 1) + j /\ t[i] = Base256to64(g[q])[j]
    <3> DEFINE c == 4
    <3>1. c \in Widths /\ Pieces(t, e, c)
      BY TextLemma DEF Widths
    <3>2. DOMAIN g = 1 .. G /\ \A k \in 1 .. G : g[k] \in Seq(Byte) /\ Len(g[k]) \in 1 .. 3
      BY Groups3
    <3>3. e = [k \in 1 .. G |-> Base256to64(g[k])]
      BY <3>2 DEF Coded
    <3>4. \A k \in 1 .. G : Base256to64(g[k]) \in Seq(Byte) /\ Len(Base256to64(g[k])) = 4
      BY <3>2, Group64
    <3>5. G \in Nat
      BY Groups3
    <3> HIDE DEF c, t, e, G
    <3>6. e \in Seq(Seq(Byte)) /\ Len(e) = G
      <4>1. e \in [1 .. G -> Seq(Byte)]
        BY <3>3, <3>4, Zenon
      <4> QED
        BY <3>5, <4>1, SeqIs
    <3>7. InPiece(t, e, c, i)
      BY <1>1, <2>1, <3>1, <3>6, PieceOf
    <3>8. \A k \in 1 .. G : e[k] = Base256to64(g[k]) /\ Len(e[k]) = 4
      BY <3>3, <3>4
    <3> QED
      BY <3>6, <3>7, <3>8, Zenon DEF InPiece, c
  <2>3. PICK j \in 1 .. 4 : i = 4 * (q - 1) + j /\ t[i] = Base256to64(g[q])[j]
    BY <2>2
  <2>4. g[q] \in Seq(Byte) /\ Len(g[q]) \in 1 .. 3
    BY Groups3
  <2> DEFINE d == Sixes(g[q])
             l == Len(g[q])
  <2>5. Base256to64(g[q]) = [k \in 1 .. 4 |-> IF k <= l + 1 THEN Base64Char(d[k]) ELSE Padding]
    BY Zenon DEF Base256to64, Sixes
  <2>6. t[i] # Padding
    BY <1>1
  <2> HIDE DEF d, l, t, g
  <2>7. t[i] = Base64Char(d[j])
    <3>1. Base256to64(g[q])[j] = IF j <= l + 1 THEN Base64Char(d[j]) ELSE Padding
      BY <2>5
    <3> QED
      BY <2>3, <2>6, <3>1, Zenon
  <2>8. Value(SubSeq(b, 6 * i - 5, 6 * i)) = d[j]
    BY <2>3, SixValue DEF d, g
  <2>9. t[i] \in Byte
    BY <1>1, <2>1, ElementOfSeq
  <2> QED
    BY <2>7, <2>8, <2>9
<1>6. /\ A \in Seq(Byte) /\ Len(A) = m
      /\ P \in Seq(Byte) /\ Len(P) = r /\ \A i \in 1 .. r : P[i] = Padding
  <2> HIDE DEF m, t, b, r
  <2>1. A \in [1 .. m -> Byte]
    <3>1. \A i \in 1 .. m : A[i] \in Byte
      BY <1>5
    <3>2. A = [i \in 1 .. m |-> A[i]]
      OBVIOUS
    <3> HIDE DEF A
    <3> QED
      BY <3>1, <3>2, Zenon
  <2>2. P \in [1 .. r -> Byte] /\ \A i \in 1 .. r : P[i] = Padding
    BY DEF Padding, Byte
  <2> HIDE DEF A, P
  <2> QED
    BY <1>1, <1>2, <2>1, <2>2, SeqIs
<1> HIDE DEF A, P, t, m
<1>7. /\ A \o P \in Seq(Byte) /\ Len(A \o P) = m + r
      /\ \A i \in 1 .. m : (A \o P)[i] = A[i]
      /\ \A i \in 1 .. r : (A \o P)[m + i] = P[i]
  <2> HIDE DEF r
  <2>1. IsBehind(A \o P, Byte, A, P, m, r)
    BY <1>6, BehindIs
  <2> QED
    BY <2>1 DEF IsBehind
<1>8. G \in Nat
  BY Groups3
<1>9. ASSUME NEW i \in 1 .. 4 * G PROVE (A \o P)[i] = t[i]
  <2> HIDE DEF G
  <2>1. CASE i <= m
    <3>1. i \in 1 .. m
      BY <1>1, <1>8, <2>1
    <3> QED
      BY <1>5, <1>7, <3>1
  <2>2. CASE ~(i <= m)
    <3> DEFINE x == i - m
    <3>1. x \in 1 .. r /\ m + x = i /\ i \in m + 1 .. Len(t)
      BY <1>1, <1>8, <2>2
    <3> HIDE DEF x, r
    <3>2. (A \o P)[m + x] = Padding
      BY <1>6, <1>7, <3>1
    <3> QED
      BY <1>1, <3>1, <3>2
  <2> QED
    BY <2>1, <2>2
<1>10. m + r = 4 * G
  BY <1>1, <1>8
<1>11. A \o P = t
  <2> DEFINE w == A \o P
  <2>1. w \in Seq(Byte) /\ Len(w) = Len(t) /\ \A i \in 1 .. Len(w) : w[i] = t[i]
    BY <1>1, <1>7, <1>9, <1>10
  <2> HIDE DEF w
  <2>2. w = t
    BY <1>1, <2>1, SeqEqual
  <2> QED
    BY <2>2 DEF w
<1> QED
  BY <1>4, <1>11 DEF t

-----------------------------------------------------------------------------
(* What holds of base64 for any octets.                                    *)

\* What is encoded is the standard's text, fits into the room the encoder asks for,
\* and is decoded into a buffer of exactly its length and into none that is shorter.
THEOREM Base64TripAll == \A s : Counted(s) => Base64Trip(s)
<1> SUFFICES ASSUME NEW s, Counted(s) PROVE Base64Trip(s)
  OBVIOUS
<1> DEFINE room == Base64EncodeSize(Len(s))
           t == Text64(s)
<1>1. s \in Seq(Byte) /\ Len(s) \in Nat
  BY LenProperties DEF Counted
<1>2. Base64Encode(s, room) = Done(t) /\ Len(t) <= room
  BY EncodeText
<1>3. Base64Reference(s) = t
  BY <1>1, ReferenceIs
<1>4. Base64Decode(t, Len(s)) = Done(s)
  BY <1>1, DecodeText
<1>5. Base64Decode(t, Len(s) - 1) = TooSmall
  <2>1. Len(s) - 1 \in Int /\ Len(s) - 1 < Len(s)
    BY <1>1
  <2> QED
    BY <1>1, <2>1, DecodeText
<1>6. Done(t).ok /\ Done(t).out = t /\ ~TooSmall.ok
  BY DEF Done, TooSmall
<1> HIDE DEF t, room
<1> QED
  BY <1>2, <1>3, <1>4, <1>5, <1>6, Zenon DEF Base64Trip, room

\* Line breaks in the text do not matter as long as its last digit is behind them.
THEOREM BreaksIgnoredAll ==
  \A s : Counted(s) => \A at \in Nat : BreaksIgnored(s, at)
<1> SUFFICES ASSUME NEW s, Counted(s), NEW at \in Nat PROVE BreaksIgnored(s, at)
  OBVIOUS
<1> DEFINE t == Text64(s)
<1>1. s \in Seq(Byte)
  BY DEF Counted
<1>2. Base64Reference(s) = t /\ Len(Unpadded(t)) = Signs(s)
  BY <1>1, ReferenceIs, DigitsOfText
<1>3. ASSUME at < Len(Unpadded(t))
      PROVE  Base64Decode(Broken(t, at), Len(s) + 2) = Done(s)
  BY <1>1, <1>2, <1>3, DecodeBroken
<1>4. Done(s).out = s
  BY DEF Done
<1> HIDE DEF t
<1> QED
  BY <1>2, <1>3, <1>4, Zenon DEF BreaksIgnored, Broken

-----------------------------------------------------------------------------
(* The octets of a file, as they are read.                                 *)

WireInv == octets \in Seq(Byte) /\ Len(octets) <= MaxOctets /\ block \in Nat

\* What is read of a file are octets, and no more of them than MaxOctets.
LEMMA WireInductive == Spec => []WireInv
<1>1. Init => WireInv
  BY WireAssumption DEF Init, WireInv
<1>2. WireInv /\ [Next]_vars => WireInv'
  <2> SUFFICES ASSUME WireInv, [Next]_vars PROVE WireInv'
    OBVIOUS
  <2>1. CASE Create
    BY <2>1 DEF Create, WireInv
  <2>2. CASE Add
    BY <2>2 DEF Add, WireInv
  <2>3. CASE AddContents
    BY <2>3 DEF AddContents, WireInv
  <2>4. CASE Write
    BY <2>4 DEF Write, WireInv
  <2>5. CASE Prase
    BY <2>5 DEF Prase, WireInv
  <2>6. CASE Authorizate
    BY <2>6 DEF Authorizate, WireInv
  <2>7. CASE Read
    <3>1. PICK o \in Octets : octets' = Append(octets, o)
      BY <2>7 DEF Read
    <3>2. o \in Byte /\ octets \in Seq(Byte) /\ Len(octets) < MaxOctets /\ MaxOctets \in Nat
      BY <2>7, WireAssumption DEF Read, WireInv, Byte
    <3>3. octets' \in Seq(Byte) /\ Len(octets') = Len(octets) + 1 /\ Len(octets) \in Nat
      BY <3>1, <3>2, AppendProperties, LenProperties
    <3>4. block' \in Nat
      BY <2>7 DEF Read, WireInv
    <3> QED
      BY <3>2, <3>3, <3>4 DEF WireInv
  <2>8. CASE Resize
    BY <2>8 DEF Resize, WireInv
  <2>9. CASE UNCHANGED vars
    BY <2>9 DEF vars, WireInv
  <2> QED
    BY <2>1, <2>2, <2>3, <2>4, <2>5, <2>6, <2>7, <2>8, <2>9 DEF Next
<1> QED
  BY <1>1, <1>2, PTL DEF Spec

\* Counted in bits they do not go round.
LEMMA WireCounted == WireInv => Counted(octets)
<1> SUFFICES ASSUME WireInv PROVE Counted(octets)
  OBVIOUS
<1>1. octets \in Seq(Byte) /\ Len(octets) <= MaxOctets /\ Len(octets) \in Nat
  BY LenProperties DEF WireInv
<1>2. MaxOctets \in Nat /\ 8 * MaxOctets + 6 < Word /\ Word \in Nat
  BY WireAssumption, CodecAssumption
<1> QED
  BY <1>1, <1>2 DEF Counted

\* At every time of a run: what a sender reads for a block fits into it when it is
\* encoded.
THEOREM BlockFitsCorrect == Spec => []BlockFits
<1>1. WireInv => BlockFits
  BY Base64FitsAll, R128FitsAll DEF WireInv, BlockFits
<1> QED
  BY <1>1, WireInductive, PTL

\* base64 gives back the octets that were read, in the text of the standard and with
\* the room it asks for, and with a line break in the text.
THEOREM Base64RoundTripCorrect == Spec => []Base64RoundTrip
<1>1. WireInv => Base64RoundTrip
  <2> SUFFICES ASSUME WireInv PROVE Base64RoundTrip
    OBVIOUS
  <2>1. Counted(octets)
    BY WireCounted
  <2>2. 0 .. 2 * MaxOctets \subseteq Nat
    BY WireAssumption
  <2> QED
    BY <2>1, <2>2, Base64TripAll, BreaksIgnoredAll DEF Base64RoundTrip
<1> QED
  BY <1>1, WireInductive, PTL

\* Base 128 gives them back too, in a text without ASCII characters.
THEOREM R128RoundTripCorrect == Spec => []R128RoundTrip
<1>1. WireInv => R128RoundTrip
  BY WireCounted, R128TripAll DEF R128RoundTrip
<1> QED
  BY <1>1, WireInductive, PTL

-----------------------------------------------------------------------------
(* What the constructors make can be written.                              *)

\* A word of one token for a uri.
LEMMA UriToken ==
  /\ <<"msrp">> \in UriWords /\ <<"msrps">> \in UriWords /\ <<"tcp">> \in UriWords
<1>1. {"msrp", "msrps", "tcp"} \subseteq Written
  BY DEF Written
<1>2. "msrp" \in STRING /\ "msrps" \in STRING /\ "tcp" \in STRING
  BY <1>1, WrittenAssumption
<1> DEFINE C == {" ", ":", "/", "@", ";"}
<1>3. /\ "msrp" \notin C \cup {CR, LF} /\ "msrps" \notin C \cup {CR, LF}
      /\ "tcp" \notin C \cup {CR, LF}
  BY DEF CR, LF
<1> HIDE DEF C
<1>4. <<"msrp">> \in WordsWithout(C) /\ <<"msrps">> \in WordsWithout(C)
      /\ <<"tcp">> \in WordsWithout(C)
  BY <1>2, <1>3, TokenWord
<1> QED
  BY <1>4 DEF UriWords, C

\* What lmsrp_uri_create makes of its arguments.
IsRoute(a) ==
  /\ a.host \in UriWords /\ a.port \in Numbers /\ <<a.transport>> \in UriWords
  /\ a.session_id \in UriWords \cup {<<>>} /\ a.user \in UriWords \cup {<<>>}

\* It is a uri that can be written.
LEMMA UriCreateIs ==
  ASSUME NEW a, IsRoute(a)
  PROVE  UriCreate(a) \in Uris
<1>1. SchemeOf(a.transport) \in UriWords
  BY UriToken, Zenon DEF SchemeOf
<1>2. TransportOf(a.transport) \in UriWords \cup {<<>>}
  BY Zenon DEF TransportOf, IsRoute
<1> DEFINE s == SchemeOf(a.transport)
           t == TransportOf(a.transport)
<1>3. UriCreate(a) = [scheme |-> s, user |-> a.user, host |-> a.host, port |-> a.port,
                      session_id |-> a.session_id, transport |-> t]
  BY Zenon DEF UriCreate
<1> HIDE DEF s, t
<1>4. s \in UriWords /\ t \in UriWords \cup {<<>>}
  BY <1>1, <1>2 DEF s, t
<1> QED
  BY <1>3, <1>4 DEF Uris, IsRoute

\* The routes that are given.
LEMMA RouteIs ==
  ASSUME NEW r \in Routes
  PROVE  ListUriCreate(r) \in Seq(Uris)
<1> DEFINE A == [host : UriWords, port : Numbers, session_id : UriWords \cup {<<>>},
                 user : UriWords \cup {<<>>}, transport : STRING]
<1>1. r \in Seq(A) /\ \A i \in DOMAIN r : <<r[i].transport>> \in UriWords
  BY TextAssumption, Zenon
<1>2. DOMAIN r = 1 .. Len(r) /\ Len(r) \in Nat /\ \A i \in 1 .. Len(r) : r[i] \in A
  <2> HIDE DEF A
  <2> QED
    BY <1>1
<1>3. ASSUME NEW i \in 1 .. Len(r) PROVE UriCreate(r[i]) \in Uris
  <2>1. r[i] \in A /\ <<r[i].transport>> \in UriWords
    BY <1>1, <1>2
  <2> DEFINE a == r[i]
  <2>2. IsRoute(a)
    <3> HIDE DEF a
    <3>1. a \in A /\ <<a.transport>> \in UriWords
      BY <2>1 DEF a
    <3> QED
      BY <3>1 DEF IsRoute
  <2> QED
    BY <2>2, UriCreateIs, Zenon
<1> DEFINE g == [i \in 1 .. Len(r) |-> UriCreate(r[i])]
           n == Len(r)
<1>4. ListUriCreate(r) = g
  BY <1>2, Zenon DEF ListUriCreate
<1>5. g \in [1 .. n -> Uris]
  BY <1>3
<1> HIDE DEF g
<1>6. g \in Seq(Uris)
  <2>1. n \in Nat
    BY <1>2
  <2> HIDE DEF n
  <2> QED
    BY <1>5, <2>1, SeqIs
<1> QED
  BY <1>4, <1>6

\* A Status and a Byte-Range that are given.
LEMMA StatusIs ==
  ASSUME NEW a \in Reports
  PROVE  StatusCreate(a) \in StatusValues
<1> DEFINE R == Seq(STRING \ {CR, LF, ":"})
<1>1. Reports \subseteq [code : Numbers, rfc_code : Numbers, reason : R]
  BY TextAssumption, Zenon
<1>2. ~StartsWith(a.reason, " ")
  BY TextAssumption, Zenon
<1>3. a.code \in Numbers /\ a.rfc_code \in Numbers /\ a.reason \in R
  <2> HIDE DEF R
  <2> QED
    BY <1>1
<1>4. a.reason \in Reasons
  BY <1>2, <1>3, Zenon DEF Reasons
<1> HIDE DEF R
<1> QED
  BY <1>3, <1>4 DEF StatusCreate, StatusValues

\* So is a Byte-Range.
LEMMA RangeIs ==
  ASSUME NEW a \in Ranges
  PROVE  ByteRangeCreate(a) \in RangeValues
<1>1. Ranges \subseteq [start : Numbers, end : Numbers, total : Numbers]
  BY TextAssumption, Zenon
<1> QED
  BY <1>1 DEF ByteRangeCreate, RangeValues

\* A challenge and credentials, with what is not given left empty.
Given(names, a) ==
  [NoValues(names) EXCEPT !.scheme = <<"Digest">>,
     !.value = [n \in names |-> IF n \in DOMAIN a THEN a[n] ELSE <<>>]]

\* Nothing may stand for every value.
LEMMA EmptyValue == \A n : <<>> \in ValueFor(n)
<1>1. <<>> \in Quotable
  BY DEF Quotable
<1>2. <<>> \in Lists
  <2>1. <<>> \in Seq(STRING \ {Quote, "=", CR, LF}) /\ DOMAIN <<>> = {}
    OBVIOUS
  <2> QED
    BY <2>1 DEF Lists
<1> QED
  BY <1>1, <1>2, Zenon DEF ValueFor

\* Every value is a text.
LEMMA ValueText == \A n : \A v \in ValueFor(n) : v \in Seq(STRING)
<1>1. ASSUME NEW D, NEW v \in Seq(STRING \ D) PROVE v \in Seq(STRING)
  <2> DEFINE S == STRING \ D
             s == v
  <2>1. s \in Seq(S)
    OBVIOUS
  <2> HIDE DEF s
  <2>2. \A i \in 1 .. Len(s) : s[i] \in S
    <3> HIDE DEF S
    <3> QED
      BY <2>1
  <2>3. \A i \in 1 .. Len(s) : s[i] \in STRING
    BY <2>2
  <2> HIDE DEF S
  <2>4. s \in Seq(STRING)
    BY <2>1, <2>3, SeqNarrow
  <2> QED
    BY <2>4 DEF s
<1>2. \A v \in Quotable : v \in Seq(STRING)
  BY <1>1, Zenon DEF Quotable
<1>3. \A v \in Lists : v \in Seq(STRING)
  <2> TAKE v \in Lists
  <2>1. v \in Seq(STRING \ {Quote, "=", CR, LF})
    BY DEF Lists
  <2> QED
    BY <1>1, <2>1, Zenon
<1> QED
  BY <1>2, <1>3, Zenon DEF ValueFor

\* Values with a scheme and a text for every name.
LEMMA WritableIs ==
  ASSUME NEW names, NEW V, V = [n \in names |-> V[n]], \A n \in names : V[n] \in ValueFor(n),
         NEW a, a = [gone |-> FALSE, scheme |-> <<"Digest">>, value |-> V]
  PROVE  Writable(names, a) /\ a \in Values(names)
<1>1. "Digest" \in STRING
  <2>1. "Digest" \in Written
    BY DEF Written
  <2> QED
    BY <2>1, WrittenAssumption
<1> DEFINE d == <<"Digest">>
           S == Seq(STRING)
<1>2. d \in S
  BY <1>1, Token, Zenon
<1>3. \A n \in names : V[n] \in S
  BY ValueText, Zenon
<1> HIDE DEF S
<1>4. V \in [names -> S]
  BY <1>3
<1>5. a.gone = FALSE /\ a.scheme = d /\ a.value = V
  OBVIOUS
<1>6. a \in Values(names)
  <2> DEFINE no == FALSE
  <2>1. no \in BOOLEAN
    OBVIOUS
  <2>2. a = [gone |-> no, scheme |-> d, value |-> V]
    OBVIOUS
  <2> HIDE DEF no, d
  <2>3. a \in [gone : BOOLEAN, scheme : S, value : [names -> S]]
    BY <1>2, <1>4, <2>1, <2>2
  <2> QED
    BY <2>3, Zenon DEF Values, S
<1> QED
  BY <1>5, <1>6, Zenon DEF Writable

\* What is given, with nothing for the rest.
LEMMA GivenRecord ==
  ASSUME NEW names, NEW a
  PROVE  Given(names, a) = [gone |-> FALSE, scheme |-> <<"Digest">>,
                            value |-> [n \in names |-> IF n \in DOMAIN a THEN a[n] ELSE <<>>]]
<1> DEFINE V == [n \in names |-> IF n \in DOMAIN a THEN a[n] ELSE <<>>]
           none == [n \in names |-> <<>>]
           no == FALSE
           d == <<"Digest">>
           e == <<>>
           r == [gone |-> no, scheme |-> e, value |-> none]
           u == [gone |-> no, scheme |-> d, value |-> none]
<1>1. Given(names, a) = [r EXCEPT !.scheme = d, !.value = V]
  BY Zenon DEF Given, NoValues
<1> HIDE DEF no, d, e, none, V
<1>2. [r EXCEPT !.scheme = d] = u
  OBVIOUS
<1>3. [u EXCEPT !.value = V] = [gone |-> no, scheme |-> d, value |-> V]
  OBVIOUS
<1> HIDE DEF r, u
<1> QED
  BY <1>1, <1>2, <1>3, Zenon DEF no, d, V

\* What is given can be written.
LEMMA GivenIs ==
  ASSUME NEW names, NEW a, \A n \in DOMAIN a : a[n] \in ValueFor(n)
  PROVE  Writable(names, Given(names, a)) /\ Given(names, a) \in Values(names)
<1> DEFINE V == [n \in names |-> IF n \in DOMAIN a THEN a[n] ELSE <<>>]
           g == Given(names, a)
<1>1. \A n \in names : V[n] \in ValueFor(n)
  BY EmptyValue
<1>2. V = [n \in names |-> V[n]]
  OBVIOUS
<1>3. g = [gone |-> FALSE, scheme |-> <<"Digest">>, value |-> V]
  BY GivenRecord, Zenon
<1> HIDE DEF V, g
<1>4. Writable(names, g) /\ g \in Values(names)
  BY <1>1, <1>2, <1>3, WritableIs
<1> QED
  BY <1>4 DEF g

\* A value that is given has the form the header asks for.
LEMMA ValuesOfIs ==
  ASSUME NEW f \in Fields, NEW v \in ValuesOf(f)
  PROVE  v \in HeaderValues(f)
<1> DEFINE paths    == {ListUriCreate(r) : r \in Routes}
           states   == {StatusCreate(a) : a \in Reports}
           ranges   == {ByteRangeCreate(a) : a \in Ranges}
           wwws     == {[NoValues(Www) EXCEPT !.scheme = <<"Digest">>,
                           !.value = [n \in Www |-> IF n \in DOMAIN a THEN a[n] ELSE <<>>]] :
                          a \in Challenges}
           auths    == {AuthorizationCreate(a) : a \in Credentials}
           anyWww   == {a \in Values(Www) : Writable(Www, a)}
           anyAuth  == {a \in Values(Auth) : Writable(Auth, a)}
           numbers  == Numbers \ {0}
           entries  == Seq(Entries) \ {<<>>}
           words    == WordsWithout({" ", ":"})
           anyPath  == Seq(Uris)
           anyState == StatusValues
           anyRange == RangeValues
<1>1. ValuesOf(f) =
        CASE f \in Paths         -> paths
          [] f = "status"        -> states
          [] f \in Expiries      -> Times
          [] f = "byte_range"    -> ranges
          [] f = "www"           -> wwws
          [] f = "auth"          -> auths
          [] f = "content_type"  -> Types
          [] OTHER               -> Words
  BY Zenon DEF ValuesOf
<1>2. HeaderValues(f) =
        CASE f \in Paths         -> anyPath
          [] f = "status"        -> anyState
          [] f \in Expiries      -> numbers
          [] f = "byte_range"    -> anyRange
          [] f = "www"           -> anyWww
          [] f = "auth"          -> anyAuth
          [] f = "content_type"  -> entries
          [] OTHER               -> words
  BY Zenon DEF HeaderValues
<1>3. v \in ValuesOf(f)
  OBVIOUS
<1>4. \A x \in paths : x \in anyPath
  BY RouteIs
<1>5. \A x \in states : x \in anyState
  BY StatusIs
<1>6. \A x \in Times : x \in numbers
  BY TextAssumption, Zenon
<1>7. \A x \in ranges : x \in anyRange
  BY RangeIs
<1>8. \A a \in Challenges \cup Credentials : \A n \in DOMAIN a : a[n] \in ValueFor(n)
  BY TextAssumption, Zenon DEF ValueFor
<1>9. \A x \in wwws : x \in anyWww
  <2> TAKE x \in wwws
  <2>1. PICK a \in Challenges : x = Given(Www, a)
    <3> DEFINE G(a) == [NoValues(Www) EXCEPT !.scheme = <<"Digest">>,
                          !.value = [n \in Www |-> IF n \in DOMAIN a THEN a[n] ELSE <<>>]]
    <3>1. wwws = {G(a) : a \in Challenges}
      BY Zenon
    <3>2. \A a : Given(Www, a) = G(a)
      BY Zenon DEF Given
    <3>3. x \in wwws
      OBVIOUS
    <3> HIDE DEF G, wwws
    <3> QED
      BY <3>1, <3>2, <3>3
  <2>2. \A n \in DOMAIN a : a[n] \in ValueFor(n)
    BY <1>8
  <2>3. Writable(Www, x) /\ x \in Values(Www)
    BY <2>1, <2>2, GivenIs
  <2> QED
    BY <2>3
<1>10. \A x \in auths : x \in anyAuth
  <2> TAKE x \in auths
  <2>1. PICK a \in Credentials : x = AuthorizationCreate(a)
    OBVIOUS
  <2>2. x = Given(Auth, a)
    BY <2>1, Zenon DEF AuthorizationCreate, Given
  <2>3. \A n \in DOMAIN a : a[n] \in ValueFor(n)
    BY <1>8
  <2>4. Writable(Auth, x) /\ x \in Values(Auth)
    BY <2>2, <2>3, GivenIs
  <2> QED
    BY <2>4
<1>11. \A x \in Types : x \in entries
  <2>1. Types \subseteq Seq([name : TypeWords, value : TypeWords]) \ {<<>>}
    BY TextAssumption, Zenon
  <2> QED
    BY <2>1 DEF Entries
<1>12. \A x \in Words : x \in words
  BY TextAssumption, Zenon
<1> HIDE DEF paths, states, ranges, wwws, auths, anyWww, anyAuth, numbers, entries, words,
             anyPath, anyState, anyRange
<1>13. CASE f \in Paths
  <2>1. /\ f # "status" /\ f \notin Expiries /\ f # "byte_range"
        /\ f # "www" /\ f # "auth" /\ f # "content_type"
    BY <1>13 DEF Paths, Expiries
  <2> QED
    BY <1>13, <1>1, <1>2, <1>3, <1>4, <2>1
<1>14. CASE f = "status"
  <2>1. /\ f \notin Paths /\ f \notin Expiries /\ f # "byte_range"
        /\ f # "www" /\ f # "auth" /\ f # "content_type"
    BY <1>14 DEF Paths, Expiries
  <2> QED
    BY <1>14, <1>1, <1>2, <1>3, <1>5, <2>1
<1>15. CASE f \in Expiries
  <2>1. /\ f \notin Paths /\ f # "status" /\ f # "byte_range"
        /\ f # "www" /\ f # "auth" /\ f # "content_type"
    BY <1>15 DEF Paths, Expiries
  <2> QED
    BY <1>15, <1>1, <1>2, <1>3, <1>6, <2>1
<1>16. CASE f = "byte_range"
  <2>1. /\ f \notin Paths /\ f # "status" /\ f \notin Expiries
        /\ f # "www" /\ f # "auth" /\ f # "content_type"
    BY <1>16 DEF Paths, Expiries
  <2> QED
    BY <1>16, <1>1, <1>2, <1>3, <1>7, <2>1
<1>17. CASE f = "www"
  <2>1. /\ f \notin Paths /\ f # "status" /\ f \notin Expiries
        /\ f # "byte_range" /\ f # "auth" /\ f # "content_type"
    BY <1>17 DEF Paths, Expiries
  <2> QED
    BY <1>17, <1>1, <1>2, <1>3, <1>9, <2>1
<1>18. CASE f = "auth"
  <2>1. /\ f \notin Paths /\ f # "status" /\ f \notin Expiries
        /\ f # "byte_range" /\ f # "www" /\ f # "content_type"
    BY <1>18 DEF Paths, Expiries
  <2> QED
    BY <1>18, <1>1, <1>2, <1>3, <1>10, <2>1
<1>19. CASE f = "content_type"
  <2>1. /\ f \notin Paths /\ f # "status" /\ f \notin Expiries
        /\ f # "byte_range" /\ f # "www" /\ f # "auth"
    BY <1>19 DEF Paths, Expiries
  <2> QED
    BY <1>19, <1>1, <1>2, <1>3, <1>11, <2>1
<1>20. CASE f \in Tables
  <2>1. /\ f \notin Paths /\ f # "status" /\ f \notin Expiries /\ f # "byte_range"
        /\ f # "www" /\ f # "auth" /\ f # "content_type"
    BY <1>20 DEF Paths, Expiries, Tables
  <2> QED
    BY <1>20, <1>1, <1>2, <1>3, <1>12, <2>1
<1>21. \/ f \in Paths \/ f = "status" \/ f \in Expiries \/ f = "byte_range" \/ f = "www"
       \/ f = "auth" \/ f = "content_type" \/ f \in Tables
  BY DEF Fields, Paths, Expiries, Tables
<1> QED
  BY <1>21, <1>13, <1>14, <1>15, <1>16, <1>17, <1>18, <1>19, <1>20

\* A message with a header put in.
Put(m, f, v) == [m EXCEPT !.head[f] = {v}]
IsPut(y, m, f, v) ==
  /\ IsMess(y) /\ y.tid = m.tid
  /\ y.head = [g \in Fields |-> IF g = f THEN {v} ELSE m.head[g]]

\* It can be written, too.
LEMMA PutIs ==
  ASSUME NEW m, IsMess(m), NEW f \in Fields, NEW v \in HeaderValues(f)
  PROVE  IsPut(Put(m, f, v), m, f, v)
<1> DEFINE A == {v}
           H == [g \in Fields |-> IF g = f THEN A ELSE m.head[g]]
           y == Put(m, f, v)
           a == m.tid
           b == m.info
           c == m.head
           d == m.contend
           e == m.flag
           r == [tid |-> a, info |-> b, head |-> c, contend |-> d, flag |-> e]
<1>1. m = r
  BY Zenon DEF IsMess
<1>2. y = [m EXCEPT !.head[f] = A]
  BY Zenon DEF Put
<1>3. [c EXCEPT ![f] = A] = H
  BY DEF IsMess
<1>4. a \in Ids /\ b \in Requests \cup Responses /\ d \in Seq(STRING) /\ e \in Flags
  BY Zenon DEF IsMess
<1>5. \A g \in Fields : H[g] = {} \/ \E u \in HeaderValues(g) : H[g] = {u}
  <2> TAKE g \in Fields
  <2>1. c[g] = {} \/ \E u \in HeaderValues(g) : c[g] = {u}
    BY Zenon DEF IsMess
  <2>2. H[g] = IF g = f THEN A ELSE c[g]
    OBVIOUS
  <2> HIDE DEF H, c
  <2>3. CASE g = f
    BY <2>2, <2>3, Zenon
  <2>4. CASE g # f
    BY <2>1, <2>2, <2>4, Zenon
  <2> QED
    BY <2>3, <2>4
<1>6. H = [g \in Fields |-> H[g]]
  OBVIOUS
<1>7. y = [r EXCEPT !.head[f] = A]
  BY <1>1, <1>2, Zenon
<1>8. y = [tid |-> a, info |-> b, head |-> H, contend |-> d, flag |-> e]
  <2> HIDE DEF a, b, c, d, e, A, H
  <2>1. [r EXCEPT !.head[f] = A] =
          [tid |-> a, info |-> b, head |-> [c EXCEPT ![f] = A], contend |-> d, flag |-> e]
    OBVIOUS
  <2> QED
    BY <1>3, <1>7, <2>1, Zenon
<1> HIDE DEF y, H, a, b, d, e
<1>9. y.tid = a /\ y.info = b /\ y.head = H /\ y.contend = d /\ y.flag = e
  BY <1>8
<1>10. IsMess(y)
  BY <1>4, <1>5, <1>6, <1>8, <1>9, Zenon DEF IsMess
<1> QED
  BY <1>9, <1>10, Zenon DEF IsPut, y, H, a

\* A message without headers.
MessOf(tid, info) ==
  [tid |-> tid, info |-> info, head |-> [f \in Fields |-> {}], contend |-> <<>>, flag |-> "$"]

\* It can be written.
LEMMA MessOfIs ==
  ASSUME NEW tid \in Ids, NEW info \in Requests \cup Responses
  PROVE  IsMess(MessOf(tid, info))
<1> DEFINE H == [f \in Fields |-> {}]
           m == MessOf(tid, info)
<1>1. m = [tid |-> tid, info |-> info, head |-> H, contend |-> <<>>, flag |-> "$"]
  BY Zenon DEF MessOf
<1>2. H = [f \in Fields |-> H[f]] /\ \A f \in Fields : H[f] = {}
  OBVIOUS
<1>3. <<>> \in Seq(STRING) /\ "$" \in Flags
  BY DEF Flags
<1> HIDE DEF H, m
<1>4. m.tid = tid /\ m.info = info /\ m.head = H /\ m.contend = <<>> /\ m.flag = "$"
  BY <1>1
<1> QED
  BY <1>1, <1>2, <1>3, <1>4, Zenon DEF IsMess, m

\* The answer with a code, as Create makes it.
Answer(tid, c, r) == [CreateRequest(tid, <<>>) EXCEPT !.info.code = c, !.info.reason = r]

\* A request and an answer without headers are such messages.
LEMMA CreateIs ==
  /\ \A tid, method : CreateRequest(tid, method) =
                        MessOf(tid, [method |-> method, code |-> 0, reason |-> <<>>])
  /\ \A tid, c, r : Answer(tid, c, r) = MessOf(tid, [method |-> <<>>, code |-> c, reason |-> r])
<1> DEFINE none == <<>>
           flag == "$"
           head == [f \in ToSet(Order) |-> {}]
           empty == [f \in Fields |-> {}]
           I(method, c, r) == [method |-> method, code |-> c, reason |-> r]
           M(tid, info) == [tid |-> tid, info |-> info, head |-> head, contend |-> none,
                            flag |-> flag]
           zero == 0
<1>1. head = empty
  BY OrderOnce, Zenon
<1>2. NoMess = M(none, I(none, zero, none))
  BY Zenon DEF NoMess
<1>3. \A tid, info : M(tid, info) = MessOf(tid, info)
  BY <1>1, Zenon DEF MessOf
<1>4. \A tid, method : CreateRequest(tid, method) =
                         [NoMess EXCEPT !.tid = tid, !.info.method = method, !.flag = flag]
  BY Zenon DEF CreateRequest
<1> HIDE DEF none, flag, head, empty, zero
<1>5. ASSUME NEW tid, NEW method
      PROVE  [M(none, I(none, zero, none)) EXCEPT !.tid = tid, !.info.method = method,
                                                  !.flag = flag] = M(tid, I(method, zero, none))
  <2> DEFINE u == M(none, I(none, zero, none))
             v == M(tid, I(none, zero, none))
             w == M(tid, I(method, zero, none))
  <2>1. [u EXCEPT !.tid = tid] = v
    OBVIOUS
  <2>2. [v EXCEPT !.info.method = method] = w
    <3> DEFINE i == I(none, zero, none)
    <3>1. [i EXCEPT !.method = method] = I(method, zero, none)
      OBVIOUS
    <3> HIDE DEF i, I
    <3>2. [M(tid, i) EXCEPT !.info.method = method] = M(tid, [i EXCEPT !.method = method])
      OBVIOUS
    <3> QED
      BY <3>1, <3>2, Zenon DEF i
  <2>3. [w EXCEPT !.flag = flag] = w
    OBVIOUS
  <2> HIDE DEF u, v, w, M, I
  <2> QED
    BY <2>1, <2>2, <2>3, Zenon DEF u, w
<1> HIDE DEF M
<1>6. \A tid, method : CreateRequest(tid, method) = M(tid, I(method, zero, none))
  BY <1>2, <1>4, <1>5, Zenon
<1>7. ASSUME NEW tid, NEW c, NEW r
      PROVE  [M(tid, I(none, zero, none)) EXCEPT !.info.code = c, !.info.reason = r] =
               M(tid, I(none, c, r))
  <2> DEFINE i == I(none, zero, none)
             j == I(none, c, none)
             k == I(none, c, r)
  <2>1. [i EXCEPT !.code = c] = j /\ [j EXCEPT !.reason = r] = k
    OBVIOUS
  <2> HIDE DEF i, j, k, I
  <2>2. [M(tid, i) EXCEPT !.info.code = c] = M(tid, [i EXCEPT !.code = c])
    BY DEF M
  <2>3. [M(tid, j) EXCEPT !.info.reason = r] = M(tid, [j EXCEPT !.reason = r])
    BY DEF M
  <2> QED
    BY <2>1, <2>2, <2>3, Zenon DEF i, k
<1>8. \A tid, c, r : [CreateRequest(tid, none) EXCEPT !.info.code = c, !.info.reason = r] =
                       M(tid, I(none, c, r))
  BY <1>6, <1>7, Zenon
<1>9. \A tid, method : CreateRequest(tid, method) = MessOf(tid, I(method, zero, none))
  BY <1>3, <1>6, Zenon
<1>10. \A tid, c, r : [CreateRequest(tid, none) EXCEPT !.info.code = c, !.info.reason = r] =
                        MessOf(tid, I(none, c, r))
  BY <1>3, <1>8, Zenon
<1>11. \A tid, method : CreateRequest(tid, method) =
                          MessOf(tid, [method |-> method, code |-> 0, reason |-> <<>>])
  BY <1>9, Zenon DEF none, zero
<1>12. \A tid, c, r : Answer(tid, c, r) = MessOf(tid, [method |-> <<>>, code |-> c, reason |-> r])
  BY <1>10, Zenon DEF none, Answer
<1> QED
  BY <1>11, <1>12, Zenon

\* They can be written.
LEMMA CreatedIs ==
  ASSUME NEW tid \in Tids
  PROVE  /\ \A method \in Methods : IsMess(CreateRequest(tid, method))
         /\ \A a \in Answers : IsMess(Answer(tid, a.code, a.reason))
<1>1. tid \in Ids
  BY TextAssumption, Zenon
<1>2. ASSUME NEW method \in Methods
      PROVE  [method |-> method, code |-> 0, reason |-> <<>>] \in Requests
  <2>1. method \in WordsWithout({" ", ":"}) /\ Strtol(method) = 0
    BY TextAssumption, Zenon
  <2>2. method \in MethodWords
    BY <2>1, Zenon DEF MethodWords
  <2> QED
    BY <2>2 DEF Requests
<1>3. ASSUME NEW a \in Answers
      PROVE  [method |-> <<>>, code |-> a.code, reason |-> a.reason] \in Responses
  <2>1. Answers \subseteq [code : Numbers \ {0}, reason : OneLine]
    BY TextAssumption, Zenon
  <2>2. ~StartsWith(a.reason, " ") /\ (a.reason # <<>> => Last(a.reason) # " ")
    BY TextAssumption, Zenon
  <2>3. a.code \in Numbers \ {0} /\ a.reason \in OneLine
    <3> HIDE DEF OneLine
    <3> QED
      BY <2>1
  <2>4. a.reason \in Phrases
    BY <2>2, <2>3, Zenon DEF Phrases
  <2> QED
    BY <2>3, <2>4 DEF Responses
<1>4. \A method \in Methods : IsMess(CreateRequest(tid, method))
  <2> TAKE method \in Methods
  <2> DEFINE info == [method |-> method, code |-> 0, reason |-> <<>>]
  <2>1. CreateRequest(tid, method) = MessOf(tid, info)
    BY CreateIs, Zenon
  <2>2. info \in Requests
    BY <1>2
  <2> HIDE DEF info
  <2>3. info \in Requests \cup Responses
    BY <2>2
  <2> QED
    BY <1>1, <2>1, <2>3, MessOfIs, Zenon
<1>5. \A a \in Answers : IsMess(Answer(tid, a.code, a.reason))
  <2> TAKE a \in Answers
  <2> DEFINE info == [method |-> <<>>, code |-> a.code, reason |-> a.reason]
  <2>1. Answer(tid, a.code, a.reason) = MessOf(tid, info)
    BY CreateIs, Zenon
  <2>2. info \in Responses
    BY <1>3
  <2> HIDE DEF info
  <2>3. info \in Requests \cup Responses
    BY <2>2
  <2> QED
    BY <1>1, <2>1, <2>3, MessOfIs, Zenon
<1> QED
  BY <1>4, <1>5

\* The contents and the flag of a message, in place of others.
WithContents(m, c, flag) == [m EXCEPT !.contend = c, !.flag = flag]

\* It can be written with them.
LEMMA ContentsIs ==
  ASSUME NEW m, IsMess(m), NEW c \in Contents, NEW flag \in Flags,
         NEW y, y = WithContents(m, c, flag)
  PROVE  IsMess(y) /\ y.head = m.head
<1> DEFINE a == m.tid
           b == m.info
           h == m.head
           d == m.contend
           e == m.flag
           r == [tid |-> a, info |-> b, head |-> h, contend |-> d, flag |-> e]
           u == [tid |-> a, info |-> b, head |-> h, contend |-> c, flag |-> e]
           w == [tid |-> a, info |-> b, head |-> h, contend |-> c, flag |-> flag]
<1>1. m = r
  BY Zenon DEF IsMess
<1>2. a \in Ids /\ b \in Requests \cup Responses /\ h = [f \in Fields |-> h[f]]
      /\ \A f \in Fields : h[f] = {} \/ \E v \in HeaderValues(f) : h[f] = {v}
  BY Zenon DEF IsMess
<1>3. c \in Seq(STRING)
  BY TextAssumption, Zenon
<1> HIDE DEF a, b, h, d, e
<1>4. [r EXCEPT !.contend = c] = u
  OBVIOUS
<1>5. [u EXCEPT !.flag = flag] = w
  OBVIOUS
<1>6. w.tid = a /\ w.info = b /\ w.head = h /\ w.contend = c /\ w.flag = flag
  OBVIOUS
<1>7. w = [tid |-> a, info |-> b, head |-> h, contend |-> c, flag |-> flag]
  OBVIOUS
<1> HIDE DEF r, u, w
<1>8. y = w
  BY <1>1, <1>4, <1>5, Zenon DEF WithContents
<1>9. y.tid = a /\ y.info = b /\ y.head = h /\ y.contend = c /\ y.flag = flag
  BY <1>8, <1>6, Zenon
<1>10. IsMess(y)
  BY <1>2, <1>3, <1>8, <1>9, <1>7, Zenon DEF IsMess
<1> QED
  BY <1>9, <1>10 DEF a, h

-----------------------------------------------------------------------------
(* The answer to a challenge.                                              *)

\* A text is its part before the first character of C, and what is behind it.
IsSplit(s, C, p, x) ==
  /\ p \in Seq(STRING) /\ x \in Seq(STRING) /\ s = Cat(p, x)
  /\ FirstPart(s, C) = p /\ FirstPart(p, C) = p

\* Every text is.
LEMMA SplitIs ==
  ASSUME NEW s \in Seq(STRING), NEW C
  PROVE  \E p, x : IsSplit(s, C, p, x)
<1> DEFINE S == STRING
           D == STRING \ C
<1>1. \E p \in Seq(D), x \in Seq(S) : p \in Seq(S) /\ s = p \o x /\ (x # <<>> => x[1] \notin D)
  <2>1. s \in Seq(S)
    OBVIOUS
  <2> HIDE DEF S, D
  <2> QED
    BY <2>1, Span
<1>2. PICK p \in Seq(D), x \in Seq(S) :
        p \in Seq(S) /\ s = p \o x /\ (x # <<>> => x[1] \notin D)
  BY <1>1
<1>3. \A i \in 1 .. Len(p) : p[i] \notin C
  <2>1. \A i \in 1 .. Len(p) : p[i] \in D
    <3> HIDE DEF D
    <3> QED
      OBVIOUS
  <2> QED
    BY <2>1
<1>4. x # <<>> => x[1] \in C
  <2>1. x # <<>> => x[1] \in S
    <3> HIDE DEF S
    <3> QED
      BY FirstPlace
  <2> QED
    BY <1>2, <2>1
<1>5. s = Cat(p, x) /\ p \in Seq(STRING) /\ x \in Seq(STRING)
  BY <1>2, Zenon DEF Cat
<1>6. FirstPart(Cat(p, x), C) = p
  <2>1. Starts(x, C)
    BY <1>4 DEF Starts
  <2> HIDE DEF S, D
  <2> QED
    BY <1>3, <1>5, <2>1, FirstPartIs
<1>7. FirstPart(p, C) = p
  <2> DEFINE none == <<>>
  <2>1. Starts(none, C) /\ none \in Seq(STRING)
    BY DEF Starts
  <2>2. Cat(p, none) = p
    BY <1>5, TextEmpty, Zenon
  <2> HIDE DEF none, S, D
  <2>3. FirstPart(Cat(p, none), C) = p
    BY <1>3, <1>5, <2>1, FirstPartIs
  <2> QED
    BY <2>2, <2>3, Zenon
<1>8. IsSplit(s, C, p, x)
  BY <1>5, <1>6, <1>7, Zenon DEF IsSplit
<1> QED
  BY <1>8

\* The first entry of a list is one, and its own first entry.
LEMMA FirstEntry ==
  ASSUME NEW l \in Lists
  PROVE  LET p == FirstPart(l, {",", " "})
         IN  p \in Lists /\ FirstPart(p, {",", " "}) = p
<1> DEFINE C == {",", " "}
           D == {Quote, "=", CR, LF}
           S == STRING \ D
           Names == Www \cup Auth \cup {"Digest"}
           Ok(u) == \A i \in DOMAIN u : IF i = 1 THEN u[i] \notin {" ", ","} ELSE u[i] \notin Names
<1>1. l \in Seq(S) /\ Ok(l)
  BY DEF Lists
<1>2. l \in Seq(STRING)
  <2>1. l \in ValueFor("qop")
    BY DEF ValueFor, Unquoted
  <2> QED
    BY <2>1, ValueText, Zenon
<1>3. PICK p, x : IsSplit(l, C, p, x)
  <2> HIDE DEF C
  <2> QED
    BY <1>2, SplitIs
<1>4. p \in Seq(STRING) /\ x \in Seq(STRING) /\ l = Cat(p, x) /\ FirstPart(l, C) = p
      /\ FirstPart(p, C) = p
  BY <1>3, Zenon DEF IsSplit
<1> DEFINE n == Len(p)
<1>5. IsTwo(l, STRING, p, x, n)
  <2> HIDE DEF C, D, S, Names, Ok
  <2> QED
    BY <1>4, TwoParts
<1>6. /\ n \in Nat /\ n <= Len(l) /\ Len(l) \in Nat /\ DOMAIN l = 1 .. Len(l)
      /\ \A i \in 1 .. n : l[i] = p[i]
  <2>1. n \in Nat /\ n <= Len(l) /\ Len(l) = n + Len(x) /\ Len(x) \in Nat
        /\ DOMAIN l = 1 .. Len(l) /\ \A i \in 1 .. n : l[i] = p[i]
    BY <1>5, Zenon DEF IsTwo
  <2> HIDE DEF n
  <2> QED
    BY <2>1
<1>7. p \in Seq(S)
  <2>1. l \in Seq(S)
    BY <1>1, Zenon
  <2>2. \A i \in 1 .. Len(l) : l[i] \in S
    <3> HIDE DEF S
    <3> QED
      BY <2>1
  <2>3. \A i \in 1 .. Len(p) : p[i] \in S
    <3> HIDE DEF S
    <3> QED
      BY <1>6, <2>2
  <2> HIDE DEF S
  <2> QED
    BY <1>4, <2>3, SeqNarrow
<1>8. DOMAIN p = 1 .. n
  <2>1. p \in Seq(STRING)
    BY <1>4, Zenon
  <2> QED
    BY <2>1
<1>9. Ok(p)
  <2> TAKE i \in DOMAIN p
  <2>1. i \in DOMAIN l /\ p[i] = l[i]
    <3> HIDE DEF Ok, S, C, D, Names
    <3> QED
      BY <1>6, <1>8
  <2>2. IF i = 1 THEN l[i] \notin {" ", ","} ELSE l[i] \notin Names
    BY <1>1, <2>1, Zenon
  <2> QED
    BY <2>1, <2>2, Zenon
<1>10. p \in Lists
  BY <1>7, <1>9, Zenon DEF Lists
<1> QED
  BY <1>4, <1>10, Zenon

\* A hash may stand between quotes.
LEMMA Md5Is == \A s : Md5(s) \in Quotable
<1> DEFINE T == STRING \ {Quote, CR, LF}
<1>1. "0" \in T
  <2>1. "0" \in Written
    BY DEF Written
  <2>2. "0" \in STRING
    BY <2>1, WrittenAssumption
  <2> QED
    BY <2>2 DEF Quote, CR, LF
<1>2. \A s : ToString(s) \in STRING \ Marks => ToString(s) \in T
  BY DEF Marks, Quote, CR, LF
<1> HIDE DEF T
<1>3. \A c \in T : <<c>> \in Seq(T)
  BY OneElement
<1>4. \A s : Md5(s) \in Seq(T)
  BY <1>1, <1>2, <1>3, Zenon DEF Md5
<1> QED
  BY <1>4, Zenon DEF Quotable, T


\* A text of a message with a header twice, as Twice makes it.
LEMMA TwiceIs ==
  ASSUME NEW m, IsMess(m), NEW i \in 1 .. 14, text = MessText(m)
  PROVE  Twice(m, i) = TwiceText(m, i)
<1> DEFINE F == FirstLine(m)
           L == HeaderLines(m, i)
           T == BehindHeaders(m, 0)
           none == <<>>
<1>1. F \in Seq(STRING) /\ T \in Seq(STRING)
  <2>1. F \in Seq(STRING)
    BY FirstLineText, Zenon
  <2>2. T \in Seq(STRING)
    BY HeadersTrip, Zenon
  <2> QED
    BY <2>1, <2>2
<1>2. L \in Seq(STRING)
  <2>1. none \in Seq(STRING)
    OBVIOUS
  <2> HIDE DEF none
  <2>2. IsHeaderText(m, i, none)
    BY <2>1, HeaderText
  <2> QED
    BY <2>2, Zenon DEF IsHeaderText
<1>3. text = Cat(F, T)
  BY Zenon DEF MessText
<1> HIDE DEF F, L, T
<1>4. SubSeq(text, 1, FirstIn(text, {LF})) = F
      /\ SubSeq(text, FirstIn(text, {LF}) + 1, Len(text)) = T
  BY <1>1, <1>3, FirstLineEnd, Zenon DEF F
<1>5. Twice(m, i) = Cat(Cat(F, L), T)
  BY <1>4, Zenon DEF Twice, Cat, L
<1>6. Cat(Cat(F, L), T) = Cat(F, Cat(L, T))
  BY <1>1, <1>2, TextAssoc, Zenon
<1> QED
  BY <1>5, <1>6, Zenon DEF TwiceText, F, L, T

\* The response of a user is the one that is expected of the words it was made from.
LEMMA DigestIs ==
  ASSUME NEW user, NEW realm, NEW h, h = HashOf(user, realm), h \in Seq(STRING),
         NEW n \in Seq(STRING), NEW c \in Seq(STRING), NEW k \in Seq(STRING),
         NEW q \in Seq(STRING), NEW u,
         NEW a, a["nonce"] = n, a["nc"] = c, a["cnonce"] = k, a["qop"] = q, a["uri"] = u
  PROVE  AuthCreateDigest(n, c, k, q, u, realm, user, <<"AUTH">>) = Expected(a, h)
<1> DEFINE o == <<":">>
           none == <<>>
           e == Md5(<<"AUTH">> \o o \o u)
           X == Cat(Cat(Cat(h, o), n), o)
           M == Cat(Cat(Cat(Cat(Cat(c, o), k), o), q), o)
           mid == IF q = none THEN none ELSE M
           Y == Cat(Cat(Cat(Cat(Cat(Cat(Cat(h, o), n), o), c), o), k), o)
           Z == Cat(Cat(Cat(Y, q), o), e)
<1>1. AuthCreateDigest(n, c, k, q, u, realm, user, <<"AUTH">>) = Md5(Cat(Cat(X, mid), e))
  BY Zenon DEF AuthCreateDigest, HashOf, Colon, Cat
<1>2. Expected(a, h) = IF q = none THEN Md5(Cat(X, e)) ELSE Md5(Z)
  BY Zenon DEF Expected, Colon, Cat
<1>3. o \in Seq(STRING)
  <2>1. ":" \in STRING
    BY MarksLemma DEF Marks
  <2> QED
    BY <2>1, Token, Zenon
<1> HIDE DEF o, e
<1>4. X \in Seq(STRING)
  <2>1. Cat(h, o) \in Seq(STRING)
    BY <1>3, TextCat
  <2>2. Cat(Cat(h, o), n) \in Seq(STRING)
    BY <2>1, TextCat
  <2> QED
    BY <1>3, <2>2, TextCat
<1>5. CASE q = none
  <2>1. Cat(X, mid) = X
    BY <1>4, <1>5, TextEmpty
  <2> QED
    BY <1>1, <1>2, <1>5, <2>1, Zenon
<1>6. CASE q # none
  <2>1. mid = M
    BY <1>6, Zenon
  <2> DEFINE A1 == Cat(c, o)
             A2 == Cat(A1, k)
             A3 == Cat(A2, o)
             A4 == Cat(A3, q)
  <2> HIDE DEF X, mid, none
  <2>2. A1 \in Seq(STRING)
    BY <1>3, TextCat
  <2>3. Cat(X, A1) = Cat(Cat(X, c), o)
    BY <1>3, <1>4, TextAssoc
  <2> HIDE DEF A1
  <2>4. A2 \in Seq(STRING)
    BY <2>2, TextCat
  <2>5. Cat(X, A2) = Cat(Cat(X, A1), k)
    BY <1>4, <2>2, TextAssoc
  <2> HIDE DEF A2
  <2>6. A3 \in Seq(STRING)
    BY <1>3, <2>4, TextCat
  <2>7. Cat(X, A3) = Cat(Cat(X, A2), o)
    BY <1>3, <1>4, <2>4, TextAssoc
  <2> HIDE DEF A3
  <2>8. A4 \in Seq(STRING)
    BY <2>6, TextCat
  <2>9. Cat(X, A4) = Cat(Cat(X, A3), q)
    BY <1>4, <2>6, TextAssoc
  <2> HIDE DEF A4
  <2>10. Cat(X, Cat(A4, o)) = Cat(Cat(X, A4), o)
    BY <1>3, <1>4, <2>8, TextAssoc
  <2>11. M = Cat(A4, o)
    BY Zenon DEF A1, A2, A3, A4
  <2>12. Cat(Cat(X, M), e) = Z
    <3>1. Cat(X, M) = Cat(Cat(Cat(Cat(Cat(Cat(X, c), o), k), o), q), o)
      BY <2>3, <2>5, <2>7, <2>9, <2>10, <2>11, Zenon
    <3> QED
      BY <3>1, Zenon DEF X
  <2> QED
    BY <1>1, <1>2, <1>6, <2>1, <2>12, Zenon
<1> QED
  BY <1>5, <1>6

\* The answer a to a challenge with the values w.
IsAnswer(a, w, user) ==
  /\ Writable(Auth, a) /\ a \in Values(Auth)
  /\ a.value["realm"] = w["realm"] /\ a.value["nonce"] = w["nonce"]
  /\ a.value["opaque"] = w["opaque"] /\ a.value["username"] = user.username
  /\ a.value["response"] = Expected(Arrived(Auth, a).value, HashOf(user, w["realm"]))

\* What a user gives to the answer.
IsUser(user) ==
  /\ user.username \in UriWords /\ user.username \in Quotable /\ user.realm \in UriWords
  /\ user.port \in Numbers /\ user.session_id \in UriWords /\ user.session_id \in Ids
  /\ \A realm : HashOf(user, realm) \in Seq(STRING)

\* The texts that may stand between quotes, and the ids among them.
LEMMA QuotableIs ==
  /\ \A s \in Quotable : s \in Seq(STRING)
  /\ \A s \in Ids : s \in Quotable
<1> DEFINE S == STRING
           T == STRING \ {Quote, CR, LF}
           U == STRING \ ({" ", ":", Quote, Dashes} \cup {CR, LF})
<1>1. \A x \in T : x \in S
  OBVIOUS
<1>2. \A x \in U : x \in T
  OBVIOUS
<1>3. \A s \in Ids : s \in Seq(U)
  BY DEF Ids, WordsWithout
<1> HIDE DEF S, T, U
<1>4. \A s \in Seq(T) : s \in Seq(S)
  BY <1>1
<1>5. \A s \in Seq(U) : s \in Seq(T)
  BY <1>2
<1> QED
  BY <1>3, <1>4, <1>5, Zenon DEF Quotable, S, T

\* Every user of the system is one.
LEMMA UserIs ==
  ASSUME NEW user \in Users
  PROVE  IsUser(user)
<1>1. user \in [username : UriWords \cap Quotable, realm : UriWords,
               data_type : {"plain", "digest"}, data : Seq(STRING),
               session_id : UriWords \cap Ids, port : Numbers]
  BY TextAssumption, Zenon
<1> DEFINE D == Seq(STRING)
           A == UriWords \cap Quotable
           B == UriWords \cap Ids
           C == UriWords
<1> HIDE DEF A, B, C, D
<1>2. user.username \in A /\ user.realm \in C /\ user.data \in D /\ user.session_id \in B
      /\ user.port \in Numbers
  BY <1>1 DEF A, B, C, D
<1>3. user.username \in UriWords /\ user.username \in Quotable
  BY <1>2 DEF A
<1>4. user.session_id \in UriWords /\ user.session_id \in Ids
  BY <1>2 DEF B
<1>5. \A realm : HashOf(user, realm) \in Seq(STRING)
  BY <1>2, Md5Is, QuotableIs, Zenon DEF HashOf, D
<1> QED
  BY <1>2, <1>3, <1>4, <1>5, Zenon DEF IsUser, C

\* The counter of the answers is a list of its own.
LEMMA CountIs ==
  /\ <<"00000001">> \in Lists
  /\ FirstPart(<<"00000001">>, {",", " "}) = <<"00000001">>
<1> DEFINE nc == <<"00000001">>
           one == "00000001"
           T == STRING \ {Quote, "=", CR, LF}
           S == STRING
           none == <<>>
           C == {",", " "}
<1>1. one \in T
  <2>1. one \in Written
    BY DEF Written
  <2>2. one \in STRING
    BY <2>1, WrittenAssumption
  <2> QED
    BY <2>2 DEF Quote, CR, LF
<1>2. one \notin {" ", ","} /\ one \notin C
  OBVIOUS
<1>3. one \in S
  BY <1>1
<1> HIDE DEF one, T, S, C
<1>4. nc \in Seq(T) /\ DOMAIN nc = 1 .. 1 /\ nc[1] = one /\ nc \in Seq(S) /\ Len(nc) = 1
  BY <1>1, <1>3 DEF one
<1> HIDE DEF nc
<1>5. \A i \in DOMAIN nc : i = 1
  BY <1>4
<1>6. nc \in Lists
  BY <1>2, <1>4, <1>5, Zenon DEF Lists, T
<1>7. FirstPart(nc, C) = nc
  <2>1. \A i \in 1 .. Len(nc) : nc[i] \notin C
    <3>1. 1 .. Len(nc) = DOMAIN nc
      BY <1>4
    <3> QED
      BY <1>2, <1>4, <1>5, <3>1, Zenon
  <2>2. nc \in Seq(STRING) /\ none \in Seq(STRING)
    BY <1>4 DEF S
  <2>3. Starts(none, C)
    BY DEF Starts
  <2>4. Cat(nc, none) = nc
    BY <2>2, TextEmpty, Zenon
  <2> HIDE DEF none
  <2>5. FirstPart(Cat(nc, none), C) = nc
    BY <2>1, <2>2, <2>3, FirstPartIs
  <2> QED
    BY <2>4, <2>5, Zenon
<1> QED
  BY <1>6, <1>7, Zenon DEF nc, one, C

\* The Authorization that msrp_make_authorization_header makes of a challenge as it arrived
\* answers the challenge as the relay made it.
THEOREM AnswerIs ==
  ASSUME NEW b, Writable(Www, b), NEW response, response.tid \in Ids, NEW user, IsUser(user)
  PROVE  IsAnswer(MakeAuthorizationHeader(response, Arrived(Www, b), user), b.value, user)
<1> DEFINE w == b.value
           v == [n \in Www |-> Arriving(n, w[n])]
           D == <<"Digest">>
           A == Arrived(Www, b)
           realm == v["realm"]
           nonce == v["nonce"]
           opaque == v["opaque"]
           q == v["qop"]
           tid == response.tid
           nc == <<"00000001">>
           name == user.username
           d == AuthCreateDigest(nonce, nc, Cnonce, q, tid, realm, user, <<"AUTH">>)
           rec == [username |-> name, realm |-> realm, nonce |-> nonce, uri |-> tid,
                   cnonce |-> Cnonce, opaque |-> opaque, qop |-> q, nc |-> nc, response |-> d]
           g == Given(Auth, rec)
           V == [n \in Auth |-> IF n \in DOMAIN rec THEN rec[n] ELSE <<>>]
           no == FALSE
<1>1. A.value = v /\ A.scheme = D
  BY DEF Arrived
<1>2. \A n \in Www : w[n] \in ValueFor(n)
  BY Zenon DEF Writable
<1>3. realm = w["realm"] /\ nonce = w["nonce"] /\ opaque = w["opaque"]
  BY DEF Arriving, Www, Unquoted
<1>4. realm \in Quotable /\ nonce \in Quotable /\ opaque \in Quotable
  BY <1>2, <1>3 DEF ValueFor, Www, Unquoted
<1>5. q \in Lists /\ FirstPart(q, {",", " "}) = q
  <2>1. w["qop"] \in Lists
    BY <1>2 DEF ValueFor, Www, Unquoted
  <2>2. q = FirstPart(w["qop"], {",", " "})
    BY DEF Arriving, Www, Unquoted
  <2> QED
    BY <2>1, <2>2, FirstEntry, Zenon
<1>6. tid \in Quotable /\ name \in Quotable /\ Cnonce \in Quotable
  <2>1. tid \in Quotable
    BY QuotableIs, Zenon
  <2>2. name \in Quotable
    BY Zenon DEF IsUser
  <2>3. Cnonce \in Quotable
    BY TextAssumption, Zenon
  <2> QED
    BY <2>1, <2>2, <2>3
<1>7. nc \in Lists /\ FirstPart(nc, {",", " "}) = nc
  BY CountIs, Zenon
<1>8. d \in Quotable
  BY Md5Is, Zenon DEF AuthCreateDigest
<1>9. MakeAuthorizationHeader(response, A, user) = [g EXCEPT !.scheme = D]
  <2> HIDE DEF A, v
  <2> QED
    BY <1>1, Zenon DEF MakeAuthorizationHeader, AuthorizationCreate, Given
<1> HIDE DEF A, v, D, realm, nonce, opaque, q, tid, nc, name, d, no, w
<1>10. g = [gone |-> no, scheme |-> D, value |-> V]
  BY GivenRecord, Zenon DEF no, D
<1>11. DOMAIN rec = {"username", "realm", "nonce", "uri", "cnonce", "opaque", "qop", "nc",
                     "response"}
  OBVIOUS
<1>12. /\ rec["username"] = name /\ rec["realm"] = realm /\ rec["nonce"] = nonce
       /\ rec["uri"] = tid /\ rec["cnonce"] = Cnonce /\ rec["opaque"] = opaque
       /\ rec["qop"] = q /\ rec["nc"] = nc /\ rec["response"] = d
  OBVIOUS
<1>13. \A n \in DOMAIN rec : rec[n] \in ValueFor(n)
  <2> HIDE DEF rec
  <2> QED
    BY <1>4, <1>5, <1>6, <1>7, <1>8, <1>11, <1>12 DEF ValueFor, Unquoted
<1> HIDE DEF rec
<1>14. /\ V["username"] = name /\ V["realm"] = realm /\ V["nonce"] = nonce
       /\ V["uri"] = tid /\ V["cnonce"] = Cnonce /\ V["opaque"] = opaque
       /\ V["qop"] = q /\ V["nc"] = nc /\ V["response"] = d
  BY <1>11, <1>12 DEF Auth
<1> HIDE DEF V
<1>15. [g EXCEPT !.scheme = D] = g
  <2> DEFINE r == [gone |-> no, scheme |-> D, value |-> V]
  <2>1. [r EXCEPT !.scheme = D] = r
    OBVIOUS
  <2> HIDE DEF r, g
  <2> QED
    BY <1>10, <2>1, Zenon DEF r
<1>16. g.value = V
  <2> HIDE DEF g
  <2> QED
    BY <1>10
<1>17. Writable(Auth, g) /\ g \in Values(Auth)
  BY <1>13, GivenIs
<1> DEFINE W == Arrived(Auth, g).value
<1>18. W = [n \in Auth |-> Arriving(n, V[n])]
  <2> HIDE DEF g
  <2> QED
    BY <1>16 DEF Arrived
<1>19. \A n \in Auth : W[n] = Arriving(n, V[n])
  <2> HIDE DEF W
  <2> QED
    BY <1>18
<1>20. W["nonce"] = nonce /\ W["cnonce"] = Cnonce /\ W["uri"] = tid
  <2> HIDE DEF W
  <2> QED
    BY <1>14, <1>19 DEF Auth, Arriving, Unquoted
<1>21. W["nc"] = nc /\ W["qop"] = q
  <2> HIDE DEF W
  <2>1. "nc" \in Auth /\ "qop" \in Auth /\ "nc" \in Unquoted /\ "qop" \in Unquoted
    BY DEF Auth, Unquoted
  <2> QED
    BY <1>5, <1>7, <1>14, <1>19, <2>1, Zenon DEF Arriving
<1> HIDE DEF W
<1>22. d = Expected(W, HashOf(user, realm))
  <2> DEFINE h == HashOf(user, realm)
  <2>1. h \in Seq(STRING)
    BY Zenon DEF IsUser
  <2>2. nonce \in Seq(STRING) /\ Cnonce \in Seq(STRING)
    BY <1>4, <1>6, QuotableIs, Zenon
  <2>3. nc \in Seq(STRING) /\ q \in Seq(STRING)
    <3>1. nc \in ValueFor("qop") /\ q \in ValueFor("qop")
      BY <1>5, <1>7 DEF ValueFor, Unquoted
    <3> QED
      BY <3>1, ValueText, Zenon
  <2>4. h = HashOf(user, realm)
    OBVIOUS
  <2> HIDE DEF h
  <2>5. AuthCreateDigest(nonce, nc, Cnonce, q, tid, realm, user, <<"AUTH">>) = Expected(W, h)
    BY <1>20, <1>21, <2>1, <2>2, <2>3, <2>4, DigestIs
  <2> QED
    BY <2>5, Zenon DEF d, h
<1> HIDE DEF g
<1>23. IsAnswer(g, w, user)
  BY <1>3, <1>14, <1>16, <1>17, <1>22, Zenon DEF IsAnswer, W, name
<1> QED
  BY <1>9, <1>15, <1>23, Zenon DEF A, w

-----------------------------------------------------------------------------
(* Messages through the system.                                            *)

\* There is one message at most, and it can be written.
MessInv == mess = {} \/ \E m \in mess : IsMess(m) /\ mess = {m}

\* It is the one that was written, and what was written was read.
TextInv ==
  /\ phase \in {"written", "read"} =>
       \E m \in mess : IsMess(m) /\ mess = {m} /\ text = MessToString(m, Room)
  /\ phase = "read" => text # <<>> /\ got = MessPraseFromBuff(text)

\* m is the answer to the challenge q, and the peer will not refuse it.
Answered(q, m) ==
  /\ m.head["www"] = {} /\ m.head["auth"] # {} /\ \A f \in Expiries : m.head[f] = {}
  /\ \A a \in m.head["auth"] : IsAnswer(a, q.www, q.user)

\* Behind a challenge there is a message, which is the answer.
AskedInv ==
  /\ asked # {} => mess # {}
  /\ \A q \in asked, m \in mess : Answered(q, m)

MessagesInv == MessInv /\ TextInv /\ AskedInv

\* What the peer has of a message.
LEMMA ArrivalHas ==
  ASSUME NEW m, IsMess(m)
  PROVE  /\ Arrival(m).tid = m.tid
         /\ \A f \in Fields : Arrival(m).head[f] = Arriven(m, f)
<1> DEFINE H == HeadAfter(m, 14)
           x == MessAfter(m, 14)
           a == m.tid
           b == m.info
           c == m.contend
           d == m.flag
           none == <<>>
           y == [tid |-> a, info |-> b, head |-> H, contend |-> none, flag |-> d]
           z == [tid |-> a, info |-> b, head |-> H, contend |-> c, flag |-> d]
<1>1. H = [f \in Fields |-> Arriven(m, f)]
  BY KeptAll, Zenon
<1>2. x = y
  BY Zenon DEF MessAfter
<1>3. [x EXCEPT !.contend = c] = Arrival(m)
  BY ArrivalIs, Zenon
<1> HIDE DEF H, x, a, b, c, d, none
<1>4. [y EXCEPT !.contend = c] = z
  OBVIOUS
<1>5. z.tid = a /\ z.head = H
  OBVIOUS
<1> HIDE DEF y, z
<1>6. Arrival(m) = z
  BY <1>2, <1>3, <1>4, Zenon
<1>7. \A f \in Fields : H[f] = Arriven(m, f)
  BY <1>1
<1> QED
  BY <1>5, <1>6, <1>7, Zenon DEF a

\* What the peer makes of what was written.
LEMMA ReadIs ==
  ASSUME MessagesInv, phase = "read", NEW m \in mess
  PROVE  /\ IsMess(m) /\ mess = {m} /\ text = MessText(m)
         /\ got = IF Refused(m) THEN {} ELSE {Arrival(m)}
<1>1. TextInv
  BY Zenon DEF MessagesInv
<1>2. text # <<>> /\ got = MessPraseFromBuff(text)
  BY <1>1, Zenon DEF TextInv
<1>3. phase \in {"written", "read"}
  OBVIOUS
<1>4. PICK n \in mess : IsMess(n) /\ mess = {n} /\ text = MessToString(n, Room)
  BY <1>1, <1>3, Zenon DEF TextInv
<1>5. n = m
  BY <1>4, Zenon
<1>6. IsMess(m) /\ mess = {m} /\ text = MessToString(m, Room)
  BY <1>4, <1>5, Zenon
<1>7. text = MessText(m)
  BY <1>2, <1>6, WrittenText, Zenon
<1> QED
  BY <1>2, <1>6, <1>7, MessageTrip, Zenon

\* The message there is.
LEMMA MessIs ==
  ASSUME MessInv, NEW m \in mess
  PROVE  IsMess(m) /\ mess = {m}
BY Zenon DEF MessInv

\* A message is made while there is none, so it is no answer.
LEMMA CreateStep == MessagesInv /\ Create => MessagesInv'
<1> SUFFICES ASSUME MessagesInv, Create PROVE MessagesInv'
  OBVIOUS
<1>1. phase = "make" /\ mess = {} /\ phase' = phase /\ asked' = asked
  BY Zenon DEF Create
<1>2. PICK tid \in Tids : \/ \E m \in Methods : mess' = {CreateRequest(tid, m)}
                          \/ \E a \in Answers : mess' = {Answer(tid, a.code, a.reason)}
  BY Zenon DEF Create, Answer
<1>3. \E m : IsMess(m) /\ mess' = {m}
  BY <1>2, CreatedIs, Zenon
<1>4. MessInv'
  BY <1>3, Zenon DEF MessInv
<1>5. TextInv'
  BY <1>1 DEF TextInv
<1>6. AskedInv'
  <2>1. asked = {}
    BY <1>1, Zenon DEF MessagesInv, AskedInv
  <2> QED
    BY <1>1, <2>1, Zenon DEF AskedInv
<1> QED
  BY <1>4, <1>5, <1>6, Zenon DEF MessagesInv

\* An answer stays one when its other headers stay.
LEMMA AnsweredKept ==
  ASSUME NEW q, NEW m, Answered(q, m), NEW y,
         \A f \in Expiries \cup {"www", "auth"} : y.head[f] = m.head[f]
  PROVE  Answered(q, y)
<1>1. y.head["www"] = m.head["www"] /\ y.head["auth"] = m.head["auth"]
      /\ \A f \in Expiries : y.head[f] = m.head[f]
  OBVIOUS
<1> QED
  BY <1>1, Zenon DEF Answered

\* Headers are put in in their order, so behind the Authorization of an answer comes
\* a Content-Type at most.
LEMMA AddStep == MessagesInv /\ Add => MessagesInv'
<1> SUFFICES ASSUME MessagesInv, Add PROVE MessagesInv'
  OBVIOUS
<1>1. phase = "make" /\ phase' = phase /\ asked' = asked
  BY Zenon DEF Add
<1>2. PICK m \in mess, i \in DOMAIN Order :
        /\ \A j \in i .. Len(Order) : ~Has(m, j)
        /\ \E v \in ValuesOf(Order[i]) : mess' = {Put(m, Order[i], v)}
  BY Zenon DEF Add, Put
<1>3. PICK v \in ValuesOf(Order[i]) : mess' = {Put(m, Order[i], v)}
  BY <1>2
<1>4. MessInv /\ AskedInv
  BY Zenon DEF MessagesInv
<1>5. IsMess(m)
  BY <1>4, MessIs, Zenon
<1>6. DOMAIN Order = 1 .. 14 /\ Len(Order) = 14
  BY DEF Order
<1>7. i \in 1 .. 14 /\ Order[i] \in Fields
  BY <1>6, OrderOnce, Zenon
<1> DEFINE f == Order[i]
           y == Put(m, f, v)
<1>8. IsPut(y, m, f, v)
  <2>1. v \in HeaderValues(f)
    BY <1>3, <1>7, ValuesOfIs, Zenon
  <2> QED
    BY <1>5, <1>7, <2>1, PutIs, Zenon
<1>9. mess' = {y}
  BY <1>3
<1> HIDE DEF y
<1>10. IsMess(y) /\ y.head = [g \in Fields |-> IF g = f THEN {v} ELSE m.head[g]]
  BY <1>8, Zenon DEF IsPut
<1>11. MessInv'
  BY <1>9, <1>10, Zenon DEF MessInv
<1>12. TextInv'
  BY <1>1 DEF TextInv
<1>13. ASSUME NEW q \in asked PROVE Answered(q, y)
  <2>1. Answered(q, m)
    BY <1>4, Zenon DEF AskedInv
  <2>2. m.head["auth"] # {}
    BY <2>1, Zenon DEF Answered
  <2>3. i = 14
    <3>1. Order[13] = "auth"
      BY OrderAt, Zenon
    <3>2. Has(m, 13)
      BY <2>2, <3>1, Zenon DEF Has
    <3>3. i <= 13 => 13 \in i .. Len(Order)
      BY <1>6, <1>7
    <3>4. ~(i <= 13)
      BY <1>2, <3>2, <3>3, Zenon
    <3> QED
      BY <1>7, <3>4
  <2>4. f = "content_type"
    BY <2>3, OrderAt, Zenon
  <2>5. \A g \in Expiries \cup {"www", "auth"} : y.head[g] = m.head[g]
    <3>1. \A g \in Expiries \cup {"www", "auth"} : g \in Fields /\ g # f
      BY <2>4 DEF Expiries, Fields
    <3> HIDE DEF f
    <3> QED
      BY <1>10, <3>1
  <2> QED
    BY <2>1, <2>5, AnsweredKept
<1>14. AskedInv'
  BY <1>1, <1>9, <1>13, Zenon DEF AskedInv
<1> QED
  BY <1>11, <1>12, <1>14, Zenon DEF MessagesInv

\* Contents change no header.
LEMMA AddContentsStep == MessagesInv /\ AddContents => MessagesInv'
<1> SUFFICES ASSUME MessagesInv, AddContents PROVE MessagesInv'
  OBVIOUS
<1>1. phase = "make" /\ phase' = phase /\ asked' = asked
  BY Zenon DEF AddContents
<1>2. PICK m \in mess, c \in Contents, flag \in Flags :
        mess' = {WithContents(m, c, flag)}
  BY Zenon DEF AddContents, WithContents
<1>3. MessInv /\ AskedInv
  BY Zenon DEF MessagesInv
<1>4. IsMess(m)
  BY <1>3, MessIs, Zenon
<1> DEFINE y == WithContents(m, c, flag)
<1>5. y = WithContents(m, c, flag)
  OBVIOUS
<1> HIDE DEF y
<1>6. IsMess(y) /\ y.head = m.head
  BY <1>4, <1>5, ContentsIs, Zenon
<1>7. MessInv'
  BY <1>2, <1>6, Zenon DEF MessInv, y
<1>8. TextInv'
  BY <1>1 DEF TextInv
<1>9. \A q \in asked : Answered(q, y)
  BY <1>3, <1>6, Zenon DEF AskedInv, Answered
<1>10. AskedInv'
  BY <1>1, <1>2, <1>9, Zenon DEF AskedInv, y
<1> QED
  BY <1>7, <1>8, <1>10, Zenon DEF MessagesInv

\* The text is that of the message, and read as it is.
LEMMA WriteStep == MessagesInv /\ (Write \/ Prase) => MessagesInv'
<1> SUFFICES ASSUME MessagesInv, Write \/ Prase PROVE MessagesInv'
  OBVIOUS
<1>1. mess' = mess /\ asked' = asked
  BY Zenon DEF Write, Prase
<1>2. MessInv /\ TextInv /\ AskedInv
  BY Zenon DEF MessagesInv
<1>3. MessInv' /\ AskedInv'
  BY <1>1, <1>2, Zenon DEF MessInv, AskedInv
<1>4. CASE Write
  <2>1. mess # {} /\ phase' = "written" /\ \E m \in mess : text' = MessToString(m, Room)
    BY <1>4, Zenon DEF Write
  <2>2. phase' # "read"
    BY <2>1
  <2>3. \E m \in mess : IsMess(m) /\ mess = {m} /\ text' = MessToString(m, Room)
    BY <1>2, <2>1, MessIs, Zenon
  <2> QED
    BY <1>1, <1>3, <2>2, <2>3, Zenon DEF MessagesInv, TextInv
<1>5. CASE Prase
  <2>1. phase = "written" /\ text # <<>> /\ got' = MessPraseFromBuff(text) /\ text' = text
    BY <1>5, Zenon DEF Prase
  <2>2. phase \in {"written", "read"}
    BY <2>1
  <2> QED
    BY <1>1, <1>2, <1>3, <2>1, <2>2, Zenon DEF MessagesInv, TextInv
<1> QED
  BY <1>4, <1>5

\* The values of the three paths.
LEMMA PathValues ==
  /\ "to_path" \in Fields /\ "from_path" \in Fields
  /\ HeaderValues("to_path") = Seq(Uris) /\ HeaderValues("from_path") = Seq(Uris)
<1>1. \A f \in Paths : f # "status" /\ f \notin Expiries /\ f # "byte_range" /\ f # "www"
                         /\ f # "auth" /\ f # "content_type"
  BY DEF Paths, Expiries
<1>2. "to_path" \in Paths /\ "from_path" \in Paths
  BY DEF Paths
<1>3. \A f \in Paths : HeaderValues(f) = Seq(Uris)
  BY <1>1, Zenon DEF HeaderValues
<1>4. "to_path" \in Fields /\ "from_path" \in Fields
  BY DEF Fields
<1> QED
  BY <1>2, <1>3, <1>4, Zenon

\* The request a login sends: an id and a method that may be written, and a path of
\* one uri in two headers.
LEMMA GenIs ==
  ASSUME NEW user, IsUser(user)
  PROVE  /\ IsMess(GenAuthMess(user))
         /\ GenAuthMess(user).head["www"] = {}
         /\ \A f \in Expiries : GenAuthMess(user).head[f] = {}
<1> DEFINE sid == user.session_id
           auth == <<"AUTH">>
           info == [method |-> auth, code |-> 0, reason |-> <<>>]
           r == [transport |-> "tcp", user |-> user.username, host |-> user.realm,
                 port |-> user.port, session_id |-> sid]
           p == UriCreate(r)
           path == ListUriCreate(<<r>>)
           x == MessOf(sid, info)
           y == Put(x, "to_path", path)
           z == Put(y, "from_path", path)
<1>1. auth \in MethodWords
  <2>1. "AUTH" \in Written
    BY DEF Written
  <2>2. "AUTH" \in STRING
    BY <2>1, WrittenAssumption
  <2> DEFINE C == {" ", ":"}
  <2>3. "AUTH" \notin C \cup {CR, LF}
    BY DEF CR, LF
  <2> HIDE DEF C
  <2>4. auth \in WordsWithout(C)
    BY <2>2, <2>3, TokenWord
  <2>5. auth \in Methods \cup {auth}
    OBVIOUS
  <2>6. Strtol(auth) = 0
    BY <2>5, TextAssumption, Zenon
  <2> QED
    BY <2>4, <2>6, Zenon DEF MethodWords, C
<1>2. info \in Requests \cup Responses
  <2> HIDE DEF auth
  <2> QED
    BY <1>1 DEF Requests
<1>3. IsMess(x)
  <2>1. sid \in Ids
    BY Zenon DEF IsUser
  <2> HIDE DEF sid, info
  <2> QED
    BY <1>2, <2>1, MessOfIs, Zenon
<1>4. \A f \in Fields : x.head[f] = {}
  BY DEF MessOf
<1>5. path \in Seq(Uris)
  <2>1. IsRoute(r)
    <3> DEFINE a == user.username
               b == user.realm
               c == user.port
    <3>1. a \in UriWords /\ b \in UriWords /\ c \in Numbers /\ sid \in UriWords
      BY Zenon DEF IsUser
    <3> HIDE DEF a, b, c, sid
    <3>2. r.host = b /\ r.port = c /\ r.session_id = sid /\ r.user = a /\ r.transport = "tcp"
      BY DEF a, b, c
    <3> HIDE DEF r
    <3>3. <<r.transport>> \in UriWords
      BY <3>2, UriToken, Zenon
    <3>4. r.host \in UriWords /\ r.port \in Numbers /\ r.session_id \in UriWords \cup {<<>>}
          /\ r.user \in UriWords \cup {<<>>}
      BY <3>1, <3>2
    <3> QED
      BY <3>3, <3>4, Zenon DEF IsRoute
  <2>2. p \in Uris
    <3> HIDE DEF r
    <3> QED
      BY <2>1, UriCreateIs, Zenon
  <2>3. path = <<p>>
    <3> HIDE DEF r
    <3> QED
      BY DEF ListUriCreate
  <2> HIDE DEF p, path
  <2> QED
    BY <2>2, <2>3, OneElement
<1>6. GenAuthMess(user) = z
  <2>1. CreateRequest(sid, auth) = x
    BY CreateIs, Zenon
  <2> HIDE DEF x, path, auth, sid
  <2> QED
    BY <2>1, Zenon DEF GenAuthMess, Put, path, auth, sid
<1> HIDE DEF path, x
<1>7. IsPut(y, x, "to_path", path)
  <2>1. "to_path" \in Fields /\ path \in HeaderValues("to_path")
    BY <1>5, PathValues, Zenon
  <2> QED
    BY <1>3, <2>1, PutIs, Zenon
<1> HIDE DEF y
<1>8. IsPut(z, y, "from_path", path)
  <2>1. IsMess(y)
    BY <1>7, Zenon DEF IsPut
  <2>2. "from_path" \in Fields /\ path \in HeaderValues("from_path")
    BY <1>5, PathValues, Zenon
  <2> QED
    BY <2>1, <2>2, PutIs, Zenon
<1> HIDE DEF z
<1>9. /\ y.head = [g \in Fields |-> IF g = "to_path" THEN {path} ELSE x.head[g]]
      /\ z.head = [g \in Fields |-> IF g = "from_path" THEN {path} ELSE y.head[g]]
      /\ IsMess(z)
  BY <1>7, <1>8, Zenon DEF IsPut
<1>10. \A g \in Expiries \cup {"www"} : g \in Fields /\ g # "to_path" /\ g # "from_path"
  BY DEF Expiries, Fields
<1>11. \A g \in Expiries \cup {"www"} : z.head[g] = {}
  BY <1>4, <1>9, <1>10
<1>12. z.head["www"] = {} /\ \A f \in Expiries : z.head[f] = {}
  BY <1>11
<1> QED
  BY <1>6, <1>9, <1>12, Zenon

\* A challenge that was read is the one that was written; the answer is made to it.
LEMMA AuthorizateStep == MessagesInv /\ Authorizate => MessagesInv'
<1> SUFFICES ASSUME MessagesInv, Authorizate PROVE MessagesInv'
  OBVIOUS
<1>1. phase = "read" /\ phase' = "make"
  BY Zenon DEF Authorizate
<1>2. PICK response \in got, user \in Users :
        /\ response.info.code \in {401, 407} /\ response.head["www"] # {}
        /\ mess' = {AuthorizateMess(GenAuthMess(user), response, user)}
        /\ asked' = UNION {{[www |-> www.value, user |-> user] : www \in m.head["www"]} :
                             m \in mess}
  BY DEF Authorizate
<1>3. TextInv
  BY Zenon DEF MessagesInv
<1>4. PICK m \in mess : mess = {m}
  BY <1>1, <1>3, Zenon DEF TextInv
<1>5. IsMess(m) /\ response = Arrival(m)
  <2>1. IsMess(m) /\ got = IF Refused(m) THEN {} ELSE {Arrival(m)}
    BY <1>1, ReadIs, Zenon
  <2> QED
    BY <1>2, <2>1, Zenon
<1>6. "www" \in Fields /\ "auth" \in Fields
  BY DEF Fields
<1>7. response.head["www"] = {Arrives("www", v) : v \in m.head["www"]} /\ response.tid = m.tid
  BY <1>5, <1>6, ArrivalHas, Zenon DEF Arriven
<1>8. m.head["www"] # {}
  BY <1>2, <1>7
<1>9. PICK b \in HeaderValues("www") : m.head["www"] = {b}
  BY <1>5, <1>6, <1>8, Zenon DEF IsMess
<1>10. Writable(Www, b)
  BY <1>9 DEF HeaderValues, Paths, Expiries
<1> DEFINE B == Arrived(Www, b)
<1>11. response.head["www"] = {B}
  <2>1. Arrives("www", b) = B
    BY <1>10, ArrivesIs, Zenon
  <2> QED
    BY <1>7, <1>9, <2>1, Zenon
<1>12. response.tid \in Ids
  BY <1>5, <1>7, Zenon DEF IsMess
<1>13. IsUser(user)
  BY UserIs, Zenon
<1> DEFINE a == MakeAuthorizationHeader(response, B, user)
           g == GenAuthMess(user)
           y == Put(g, "auth", a)
           w == b.value
<1>14. IsAnswer(a, w, user)
  BY <1>10, <1>12, <1>13, AnswerIs, Zenon
<1>15. IsMess(g) /\ g.head["www"] = {} /\ \A f \in Expiries : g.head[f] = {}
  BY <1>13, GenIs, Zenon
<1> HIDE DEF B, a, g
<1>16. mess' = {y}
  <2>1. AuthorizateMess(g, response, user) = y
    BY <1>11, Zenon DEF AuthorizateMess, Put, a
  <2> QED
    BY <1>2, <2>1, Zenon DEF g
<1>17. IsPut(y, g, "auth", a)
  <2>1. Writable(Auth, a) /\ a \in Values(Auth)
    BY <1>14, Zenon DEF IsAnswer
  <2>2. HeaderValues("auth") = {u \in Values(Auth) : Writable(Auth, u)}
    BY DEF HeaderValues, Paths, Expiries
  <2>3. a \in HeaderValues("auth")
    BY <2>1, <2>2, Zenon
  <2> QED
    BY <1>6, <1>15, <2>3, PutIs, Zenon
<1> HIDE DEF y
<1>18. IsMess(y) /\ y.head = [f \in Fields |-> IF f = "auth" THEN {a} ELSE g.head[f]]
  BY <1>17, Zenon DEF IsPut
<1>19. y.head["auth"] = {a} /\ y.head["www"] = {} /\ \A f \in Expiries : y.head[f] = {}
  <2>1. \A f \in Expiries \cup {"www"} : f \in Fields /\ f # "auth"
    BY DEF Fields, Expiries
  <2>2. \A f \in Fields : y.head[f] = IF f = "auth" THEN {a} ELSE g.head[f]
    BY <1>18
  <2>3. "www" \in Expiries \cup {"www"} /\ \A f \in Expiries : f \in Expiries \cup {"www"}
    OBVIOUS
  <2> QED
    BY <1>6, <1>15, <2>1, <2>2, <2>3, Zenon
<1>20. asked' = {[www |-> w, user |-> user]}
  <2> DEFINE F(x) == {[www |-> www.value, user |-> user] : www \in x.head["www"]}
  <2>1. F(m) = {[www |-> w, user |-> user]}
    BY <1>9
  <2>2. asked' = UNION {F(x) : x \in mess}
    BY <1>2
  <2> HIDE DEF F
  <2> QED
    BY <1>4, <2>1, <2>2, Zenon
<1>21. ASSUME NEW q \in asked' PROVE Answered(q, y)
  <2> HIDE DEF w
  <2>1. q = [www |-> w, user |-> user]
    BY <1>20
  <2>2. q.www = w /\ q.user = user
    BY <2>1
  <2> QED
    BY <1>14, <1>19, <2>2, Zenon DEF Answered
<1>22. MessInv'
  BY <1>16, <1>18, Zenon DEF MessInv
<1>23. TextInv'
  BY <1>1 DEF TextInv
<1>24. AskedInv'
  BY <1>16, <1>21, Zenon DEF AskedInv
<1> QED
  BY <1>22, <1>23, <1>24, Zenon DEF MessagesInv

\* Messages stay what MessagesInv says whatever happens; the octets and the blocks of
\* a file have no part in them.
LEMMA MessagesStep == MessagesInv /\ [Next]_vars => MessagesInv'
<1> SUFFICES ASSUME MessagesInv, [Next]_vars PROVE MessagesInv'
  OBVIOUS
<1>1. CASE UNCHANGED <<mess, text, got, phase, asked>>
  <2>1. mess' = mess /\ text' = text /\ got' = got /\ phase' = phase /\ asked' = asked
    BY <1>1
  <2>2. MessInv /\ TextInv /\ AskedInv
    BY Zenon DEF MessagesInv
  <2>3. MessInv' /\ TextInv' /\ AskedInv'
    BY <2>1, <2>2, Zenon DEF MessInv, TextInv, AskedInv
  <2> QED
    BY <2>3, Zenon DEF MessagesInv
<1>2. CASE Create
  BY <1>2, CreateStep
<1>3. CASE Add
  BY <1>3, AddStep
<1>4. CASE AddContents
  BY <1>4, AddContentsStep
<1>5. CASE Write \/ Prase
  BY <1>5, WriteStep
<1>6. CASE Authorizate
  BY <1>6, AuthorizateStep
<1>7. CASE Read \/ Resize
  BY <1>1, <1>7 DEF Read, Resize
<1>8. CASE UNCHANGED vars
  BY <1>1, <1>8 DEF vars
<1> QED
  BY <1>2, <1>3, <1>4, <1>5, <1>6, <1>7, <1>8, Zenon DEF Next

\* The invariant about messages.
THEOREM MessagesCorrect == Spec => []MessagesInv
<1>1. Init => MessagesInv
  <2> SUFFICES ASSUME Init PROVE MessagesInv
    OBVIOUS
  <2>1. mess = {} /\ asked = {} /\ phase \notin {"written", "read"} /\ phase # "read"
    BY DEF Init
  <2> QED
    BY <2>1, Zenon DEF MessagesInv, MessInv, TextInv, AskedInv
<1>2. MessagesInv /\ [Next]_vars => MessagesInv'
  BY MessagesStep
<1> QED
  BY <1>1, <1>2, PTL DEF Spec

\* A message that is written into a buffer and parsed arrives with its id, its method
\* or its answer, its headers, its contents and its flag (lmsrp_mess_tostring and
\* lmsrp_mess_prase_from_buff), whatever they are; one with an expiry is refused, and
\* one with a challenge and an Authorization.
THEOREM RoundTripCorrect == Spec => []RoundTrip
<1>1. MessagesInv => RoundTrip
  <2> SUFFICES ASSUME MessagesInv, phase = "read" PROVE RoundTrip
    BY Zenon DEF RoundTrip
  <2>1. \E m \in mess : mess = {m}
    BY Zenon DEF MessagesInv, TextInv
  <2>2. PICK m \in mess : mess = {m}
    BY <2>1
  <2>3. got = IF Refused(m) THEN {} ELSE {Arrival(m)}
    BY ReadIs, Zenon
  <2>4. {n \in mess : ~Refused(n)} = IF Refused(m) THEN {} ELSE {m}
    BY <2>2
  <2>5. got = {Arrival(n) : n \in {x \in mess : ~Refused(x)}}
    <3>1. CASE Refused(m)
      BY <2>3, <2>4, <3>1, Zenon
    <3>2. CASE ~Refused(m)
      BY <2>3, <2>4, <3>2, Zenon
    <3> QED
      BY <3>1, <3>2
  <2> QED
    BY <2>5, Zenon DEF RoundTrip, Arrival
<1> QED
  BY <1>1, MessagesCorrect, PTL

\* A message whose text has a header twice is refused (lmsrp_mess_set_header), but for
\* Authorization, before which the parser looks for a challenge.
THEOREM HeaderOnceCorrect == Spec => []HeaderOnce
<1>1. MessagesInv => HeaderOnce
  <2> SUFFICES ASSUME MessagesInv, phase = "read", NEW m \in mess, NEW i \in DOMAIN Order,
                      Has(m, i), Order[i] # "auth"
               PROVE  MessPraseFromBuff(Twice(m, i)) = {}
    BY Zenon DEF HeaderOnce
  <2>1. IsMess(m) /\ text = MessText(m)
    BY ReadIs, Zenon
  <2>2. i \in 1 .. 14
    BY DEF Order
  <2>3. Twice(m, i) = TwiceText(m, i)
    BY <2>1, <2>2, TwiceIs, Zenon
  <2>4. m.head[Order[i]] # {}
    BY Zenon DEF Has
  <2> QED
    BY <2>1, <2>2, <2>3, <2>4, TwiceTrip, Zenon
<1> QED
  BY <1>1, MessagesCorrect, PTL

\* A relay whose challenge was read, answered by lmsrp_authorizate_mess, written and
\* sent back finds its words in the Authorization, and the response that its own hash
\* of the user's password gives.
THEOREM ResponseAcceptedCorrect == Spec => []ResponseAccepted
<1>1. MessagesInv => ResponseAccepted
  <2> SUFFICES ASSUME MessagesInv, phase = "read", NEW q \in asked
               PROVE  \E m \in got : \E auth \in m.head["auth"] :
                        /\ \A n \in {"realm", "nonce", "opaque"} : auth.value[n] = q.www[n]
                        /\ auth.value["username"] = q.user.username
                        /\ auth.value["response"] =
                             Expected(auth.value, HashOf(q.user, q.www["realm"]))
    BY Zenon DEF ResponseAccepted
  <2>1. AskedInv
    BY Zenon DEF MessagesInv
  <2>2. PICK m \in mess : Answered(q, m)
    BY <2>1, Zenon DEF AskedInv
  <2>3. IsMess(m) /\ got = IF Refused(m) THEN {} ELSE {Arrival(m)}
    BY ReadIs, Zenon
  <2>4. got = {Arrival(m)}
    BY <2>2, <2>3, Zenon DEF Refused, Answered
  <2>5. PICK a \in m.head["auth"] : IsAnswer(a, q.www, q.user)
    BY <2>2, Zenon DEF Answered
  <2> DEFINE b == Arrived(Auth, a)
             V == b.value
  <2>6. b \in Arrival(m).head["auth"]
    <3>1. "auth" \in Fields
      BY DEF Fields
    <3>2. Arrival(m).head["auth"] = Arriven(m, "auth")
      BY <2>3, <3>1, ArrivalHas, Zenon
    <3>3. Arrives("auth", a) = b
      <4>1. Writable(Auth, a)
        BY <2>5, Zenon DEF IsAnswer
      <4> QED
        BY <4>1, ArrivesIs, Zenon
    <3> QED
      BY <3>2, <3>3, Zenon DEF Arriven
  <2>7. V = [n \in Auth |-> Arriving(n, a.value[n])]
    BY DEF Arrived
  <2> HIDE DEF b, V
  <2>8. \A n \in {"realm", "nonce", "opaque", "username", "response"} : V[n] = a.value[n]
    BY <2>7 DEF Auth, Arriving, Unquoted
  <2>9. \A n \in {"realm", "nonce", "opaque"} : V[n] = q.www[n]
    <3>1. a.value["realm"] = q.www["realm"] /\ a.value["nonce"] = q.www["nonce"]
          /\ a.value["opaque"] = q.www["opaque"]
      BY <2>5, Zenon DEF IsAnswer
    <3> QED
      BY <2>8, <3>1
  <2>10. V["username"] = q.user.username
    BY <2>5, <2>8, Zenon DEF IsAnswer
  <2>11. V["response"] = Expected(V, HashOf(q.user, q.www["realm"]))
    BY <2>5, <2>8, Zenon DEF IsAnswer, V, b
  <2> QED
    BY <2>4, <2>6, <2>9, <2>10, <2>11, Zenon DEF V
<1> QED
  BY <1>1, MessagesCorrect, PTL
=============================================================================
