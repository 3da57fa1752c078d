--------------------------- MODULE SequenceLemmas ---------------------------
(***************************************************************************)
(* What the proofs need to know of numbers and of sequences: induction     *)
(* over the natural numbers, the least element of a set, the parts of a    *)
(* sequence, and the sequences that FlattenSeq puts one behind the other.  *)
(*                                                                         *)
(* Induction is stated for a set of numbers, and recursive functions are   *)
(* unfolded with it.                                                       *)
(***************************************************************************)
EXTENDS Integers, Sequences, SequencesExt, SequenceTheorems, WellFoundedInduction, TLAPS

\* Every set of natural numbers has a least element.
LEMMA LeastNumber ==
  ASSUME NEW T \in SUBSET Nat, T # {}
  PROVE  \E n \in T : \A m \in T : n <= m
<1> DEFINE R == {ss \in Nat \X Nat : ss[1] < ss[2]}
<1>1. IsWellFoundedOn(R, Nat)
  BY NatLessThanWellFounded DEF OpToRel
<1>2. \A x, y \in Nat : <<y, x>> \in R <=> y < x
  OBVIOUS
<1> HIDE DEF R
<1>3. PICK x \in T : \A y \in T : ~(<<y, x>> \in R)
  BY <1>1, WFMin
<1>4. \A y \in T : x <= y
  <2> SUFFICES ASSUME NEW y \in T PROVE x <= y
    OBVIOUS
  <2>1. x \in Nat /\ y \in Nat
    OBVIOUS
  <2>2. ~(y < x)
    BY <1>2, <1>3, <2>1
  <2> QED
    BY <2>1, <2>2
<1> QED
  BY <1>4

\* Induction: a set of numbers with 0 and every successor has them all.
LEMMA Induction ==
  ASSUME NEW T, 0 \in T, \A n \in Nat : n \in T => n + 1 \in T
  PROVE  \A n \in Nat : n \in T
<1> DEFINE C == {n \in Nat : n \notin T}
<1> SUFFICES ASSUME C # {} PROVE FALSE
  OBVIOUS
<1>1. PICK n \in C : \A m \in C : n <= m
  <2> HIDE DEF C
  <2>1. C \in SUBSET Nat
    BY DEF C
  <2> QED
    BY <2>1, LeastNumber
<1>2. n \in Nat /\ n # 0
  OBVIOUS
<1>3. n - 1 \in Nat /\ n - 1 \notin C
  <2>1. n - 1 \in Nat /\ ~(n <= n - 1)
    BY <1>2
  <2> QED
    BY <1>1, <2>1
<1>4. n - 1 \in T /\ (n - 1) + 1 = n
  BY <1>2, <1>3
<1> QED
  BY <1>3, <1>4

\* The least element of a set, as Min has it.
LEMMA MinLemma ==
  ASSUME NEW T \in SUBSET Nat, T # {}
  PROVE  Min(T) \in T /\ \A m \in T : Min(T) <= m
<1>1. \E n \in T : \A m \in T : n <= m
  BY LeastNumber
<1> QED
  BY <1>1 DEF Min

\* A number that is below all of a set is its least one.
LEMMA MinIs ==
  ASSUME NEW T \in SUBSET Nat, NEW n \in T, \A m \in T : n <= m
  PROVE  T # {} /\ Min(T) = n
<1>1. Min(T) \in T /\ Min(T) <= n /\ n <= Min(T)
  BY MinLemma
<1>2. Min(T) \in Nat /\ n \in Nat
  BY <1>1
<1> QED
  BY <1>1, <1>2

\* The greatest element of a set, as Max has it.
LEMMA MaxIs ==
  ASSUME NEW T \in SUBSET Nat, NEW n \in T, \A m \in T : m <= n
  PROVE  T # {} /\ Max(T) = n
<1>1. \A x \in T : (\A m \in T : x >= m) => x = n
  <2> SUFFICES ASSUME NEW x \in T, \A m \in T : x >= m PROVE x = n
    OBVIOUS
  <2>1. x >= n /\ x <= n /\ x \in Nat /\ n \in Nat
    OBVIOUS
  <2> QED
    BY <2>1
<1>2. \A m \in T : n >= m
  OBVIOUS
<1> QED
  BY <1>1, <1>2, Zenon DEF Max

\* A function on the first numbers is a sequence.
LEMMA SeqIs ==
  ASSUME NEW S, NEW n \in Nat, NEW f \in [1 .. n -> S]
  PROVE  f \in Seq(S) /\ Len(f) = n /\ DOMAIN f = 1 .. n
<1>1. f \in Seq(S)
  BY SeqDef
<1>2. DOMAIN f = 1 .. n
  OBVIOUS
<1> QED
  BY <1>1, <1>2, LenProperties

\* A sequence of one element.
LEMMA OneElement ==
  ASSUME NEW S, NEW v \in S
  PROVE  <<v>> \in Seq(S) /\ Len(<<v>>) = 1 /\ <<v>>[1] = v
OBVIOUS

-----------------------------------------------------------------------------
(* The part of a sequence between two places.                              *)

Part(s, a, b) == SubSeq(s, a + 1, b)

\* How long a part is, and what stands in it.
LEMMA PartLemma ==
  ASSUME NEW S, NEW s \in Seq(S), NEW a \in Nat, NEW b \in Nat, a <= b, b <= Len(s)
  PROVE  /\ Part(s, a, b) \in Seq(S) /\ Len(Part(s, a, b)) = b - a
         /\ \A i \in 1 .. b - a : Part(s, a, b)[i] = s[a + i]
<1>1. \A i \in a + 1 .. b : s[i] \in S
  BY ElementOfSeq
<1>2. /\ SubSeq(s, a + 1, b) \in Seq(S)
      /\ Len(SubSeq(s, a + 1, b)) = IF a + 1 <= b THEN b - (a + 1) + 1 ELSE 0
      /\ \A i \in 1 .. b - (a + 1) + 1 : SubSeq(s, a + 1, b)[i] = s[a + 1 + i - 1]
  <2>1. a + 1 \in Int /\ b \in Int
    OBVIOUS
  <2> QED
    BY <1>1, <2>1, SubSeqProperties
<1>3. Len(SubSeq(s, a + 1, b)) = b - a
  BY <1>2
<1>4. \A i \in 1 .. b - a : i \in 1 .. b - (a + 1) + 1 /\ a + 1 + i - 1 = a + i
  OBVIOUS
<1> QED
  BY <1>2, <1>3, <1>4 DEF Part

\* The beginning of a sequence.
LEMMA Beginning ==
  ASSUME NEW S, NEW s \in Seq(S), NEW n \in Nat, n <= Len(s)
  PROVE  /\ SubSeq(s, 1, n) \in Seq(S) /\ Len(SubSeq(s, 1, n)) = n
         /\ \A i \in 1 .. n : SubSeq(s, 1, n)[i] = s[i]
<1> DEFINE a == 0
<1>1. a \in Nat /\ a <= n /\ a + 1 = 1 /\ n - a = n /\ \A i \in 1 .. n : a + i = i
  OBVIOUS
<1> HIDE DEF a
<1>2. /\ Part(s, a, n) \in Seq(S) /\ Len(Part(s, a, n)) = n - a
      /\ \A i \in 1 .. n - a : Part(s, a, n)[i] = s[a + i]
  BY <1>1, PartLemma
<1> QED
  BY <1>1, <1>2 DEF Part

\* Two sequences one behind the other.
LEMMA ConcatLemma ==
  ASSUME NEW S, NEW s \in Seq(S), NEW t \in Seq(S), NEW a, NEW b, Len(s) = a, Len(t) = b
  PROVE  /\ s \o t \in Seq(S) /\ Len(s \o t) = a + b /\ a \in Nat /\ b \in Nat
         /\ \A i \in 1 .. a : (s \o t)[i] = s[i]
         /\ \A i \in 1 .. b : (s \o t)[a + i] = t[i]
<1> DEFINE u == s \o t
<1>1. a \in Nat /\ b \in Nat
  BY LenProperties
<1>2. /\ u \in Seq(S) /\ Len(u) = Len(s) + Len(t)
      /\ \A k \in 1 .. Len(s) + Len(t) : u[k] = IF k <= Len(s) THEN s[k] ELSE t[k - Len(s)]
  BY ConcatProperties
<1> HIDE DEF u
<1>3. \A i \in 1 .. a : u[i] = s[i]
  BY <1>1, <1>2
<1>4. \A i \in 1 .. b : u[a + i] = t[i]
  <2> SUFFICES ASSUME NEW i \in 1 .. b PROVE u[a + i] = t[i]
    OBVIOUS
  <2>1. a + i \in 1 .. a + b /\ ~(a + i <= a) /\ a + i - a = i
    BY <1>1
  <2> QED
    BY <1>2, <2>1
<1> QED
  BY <1>1, <1>2, <1>3, <1>4 DEF u

\* What PartLemma says of a part, as one formula: the places a + 1 .. b of s.
IsPart(p, S, s, a, b) ==
  /\ p \in Seq(S) /\ Len(p) = b - a
  /\ \A i \in 1 .. b - a : p[i] = s[a + i]

\* A part of a sequence is those places of it.
LEMMA PartIs ==
  ASSUME NEW S, NEW s \in Seq(S), NEW a \in Nat, NEW b \in Nat, a <= b, b <= Len(s)
  PROVE  IsPart(Part(s, a, b), S, s, a, b)
BY PartLemma DEF IsPart

\* What ConcatLemma says of s, a places long, with t, b places long, behind it.
IsBehind(u, S, s, t, a, b) ==
  /\ u \in Seq(S) /\ Len(u) = a + b /\ a \in Nat /\ b \in Nat
  /\ \A i \in 1 .. a : u[i] = s[i]
  /\ \A i \in 1 .. b : u[a + i] = t[i]

\* A sequence with another one behind it is the places of both.
LEMMA BehindIs ==
  ASSUME NEW S, NEW s \in Seq(S), NEW t \in Seq(S), NEW a, NEW b, Len(s) = a, Len(t) = b
  PROVE  IsBehind(s \o t, S, s, t, a, b)
BY ConcatLemma DEF IsBehind

\* A part of a part.
LEMMA PartOfPart ==
  ASSUME NEW S, NEW s \in Seq(S), NEW a \in Nat, NEW b \in Nat, b <= Len(s),
         NEW x \in Nat, NEW y \in Nat, x <= y, a + y <= b
  PROVE  Part(Part(s, a, b), x, y) = Part(s, a + x, a + y)
<1> DEFINE p == Part(s, a, b)
<1>0. a <= b
  OBVIOUS
<1>1. p \in Seq(S) /\ Len(p) = b - a /\ \A i \in 1 .. b - a : p[i] = s[a + i]
  BY <1>0, PartLemma
<1>2. a + x \in Nat /\ a + y \in Nat /\ a + x <= a + y /\ a + y <= Len(s) /\ y <= Len(p)
  BY <1>1
<1> HIDE DEF p
<1>3. /\ Part(p, x, y) \in Seq(S) /\ Len(Part(p, x, y)) = y - x
      /\ \A i \in 1 .. y - x : Part(p, x, y)[i] = p[x + i]
  <2>1. p \in Seq(S) /\ y <= Len(p)
    BY <1>1, <1>2
  <2> QED
    BY <2>1, PartLemma
<1>4. /\ Part(s, a + x, a + y) \in Seq(S) /\ Len(Part(s, a + x, a + y)) = (a + y) - (a + x)
      /\ \A i \in 1 .. (a + y) - (a + x) : Part(s, a + x, a + y)[i] = s[a + x + i]
  <2> DEFINE u == a + x
             v == a + y
  <2>1. u \in Nat /\ v \in Nat /\ u <= v /\ v <= Len(s)
    BY <1>2
  <2> HIDE DEF u, v
  <2>2. /\ Part(s, u, v) \in Seq(S) /\ Len(Part(s, u, v)) = v - u
        /\ \A i \in 1 .. v - u : Part(s, u, v)[i] = s[u + i]
    BY <2>1, PartLemma
  <2> QED
    BY <2>2, Zenon DEF u, v
<1>5. \A i \in 1 .. y - x : x + i \in 1 .. b - a /\ i \in 1 .. (a + y) - (a + x)
  BY <1>1, <1>2
<1>6. \A i \in 1 .. y - x : Part(p, x, y)[i] = Part(s, a + x, a + y)[i]
  BY <1>1, <1>3, <1>4, <1>5
<1>7. Part(p, x, y) = Part(s, a + x, a + y)
  BY <1>3, <1>4, <1>6, SeqEqual
<1> QED
  BY <1>7 DEF p

\* Two parts that follow each other.
LEMMA PartConcat ==
  ASSUME NEW S, NEW s \in Seq(S), NEW a \in Nat, NEW b \in Nat, NEW c \in Nat,
         a <= b, b <= c, c <= Len(s)
  PROVE  Part(s, a, b) \o Part(s, b, c) = Part(s, a, c)
<1>1. a + 1 \in 1 .. Len(s) + 1 /\ b \in (a + 1) - 1 .. Len(s) /\ c \in b .. Len(s)
  OBVIOUS
<1> QED
  BY <1>1, ConcatAdjacentSubSeq DEF Part

\* Between a place and itself there is nothing.
LEMMA PartEmpty ==
  ASSUME NEW S, NEW s \in Seq(S), NEW a \in Nat
  PROVE  Part(s, a, a) = <<>>
<1>1. a + 1 \in Int /\ a \in Int /\ a < a + 1
  OBVIOUS
<1> QED
  BY <1>1, SubSeqEmpty DEF Part

-----------------------------------------------------------------------------
(* Sequences one behind the other.                                         *)

\* f has, for every number of the sequences ss, as many of them one behind the other.
Joins(f, ss, S) ==
  /\ f \in [0 .. Len(ss) -> Seq(S)]
  /\ f[0] = <<>>
  /\ \A i \in 1 .. Len(ss) : f[i] = f[i - 1] \o ss[i]

\* There is such a function.
LEMMA JoinsExist ==
  ASSUME NEW S, NEW ss \in Seq(Seq(S))
  PROVE  \E f : Joins(f, ss, S)
<1> DEFINE n == Len(ss)
           J(f, m) == /\ f \in [0 .. m -> Seq(S)] /\ f[0] = <<>>
                      /\ \A i \in 1 .. m : f[i] = f[i - 1] \o ss[i]
           T == {m \in Nat : m <= n => \E f : J(f, m)}
<1> HIDE DEF J
<1>1. 0 \in T
  <2> DEFINE f == [i \in 0 .. 0 |-> <<>>]
  <2>1. J(f, 0)
    BY EmptySeq DEF J
  <2> QED
    BY <2>1
<1>2. ASSUME NEW m \in Nat, m \in T PROVE m + 1 \in T
  <2> SUFFICES ASSUME m + 1 <= n PROVE \E f : J(f, m + 1)
    BY <1>2
  <2>1. n \in Nat /\ m <= n /\ m + 1 \in 1 .. n
    BY LenProperties
  <2>2. PICK f : J(f, m)
    BY <1>2, <2>1
  <2>3. ss[m + 1] \in Seq(S) /\ f[m] \in Seq(S)
    BY <2>1, <2>2, ElementOfSeq DEF J
  <2> DEFINE l == f[m] \o ss[m + 1]
             g == [i \in 0 .. m + 1 |-> IF i <= m THEN f[i] ELSE l]
  <2>4. l \in Seq(S)
    BY <2>3, ConcatProperties
  <2> HIDE DEF l
  <2>5. \A i \in 0 .. m : g[i] = f[i] /\ f[i] \in Seq(S)
    BY <2>2 DEF J
  <2>6. g[m + 1] = l
    OBVIOUS
  <2>7. g \in [0 .. m + 1 -> Seq(S)]
    <3>1. \A i \in 0 .. m + 1 : i \notin 0 .. m => i = m + 1
      OBVIOUS
    <3>2. \A i \in 0 .. m + 1 : g[i] \in Seq(S)
      <4> HIDE DEF g
      <4> QED
        BY <2>4, <2>5, <2>6, <3>1
    <3> QED
      BY <3>2, Zenon
  <2> HIDE DEF g
  <2>8. \A i \in 1 .. m + 1 : g[i] = g[i - 1] \o ss[i]
    <3> SUFFICES ASSUME NEW i \in 1 .. m + 1 PROVE g[i] = g[i - 1] \o ss[i]
      OBVIOUS
    <3>1. CASE i = m + 1
      <4>1. i - 1 = m /\ m \in 0 .. m
        BY <3>1
      <4> QED
        BY <2>5, <2>6, <3>1, <4>1 DEF l
    <3>2. CASE i # m + 1
      <4>1. i \in 1 .. m /\ i \in 0 .. m /\ i - 1 \in 0 .. m
        BY <3>2
      <4> QED
        BY <2>2, <2>5, <4>1 DEF J
    <3> QED
      BY <3>1, <3>2
  <2>9. g[0] = <<>>
    BY <2>2, <2>5 DEF J
  <2> QED
    BY <2>7, <2>8, <2>9 DEF J
<1>3. n \in Nat /\ n \in T
  <2>1. n \in Nat
    BY LenProperties
  <2> HIDE DEF T, n
  <2> QED
    BY <1>1, <1>2, <2>1, Induction
<1>4. \E f : J(f, n)
  BY <1>3
<1> QED
  BY <1>4 DEF Joins, J

\* The end of FlattenSeq's recursion is the last of them.
LEMMA FlattenLemma ==
  ASSUME NEW S, NEW ss \in Seq(Seq(S)), NEW f, Joins(f, ss, S)
  PROVE  FlattenSeq(ss) = f[Len(ss)]
<1> DEFINE n == Len(ss)
           E(h) == [i \in 1 .. n |-> IF i = 1 THEN ss[i] ELSE h[i - 1] \o ss[i]]
           h == CHOOSE x : x = E(x)
<1>1. n \in Nat /\ DOMAIN ss = 1 .. n /\ \A i \in 1 .. n : ss[i] \in Seq(S)
  BY LenProperties, ElementOfSeq
<1>2. CASE n = 0
  <2>1. ss = <<>>
    BY <1>2, EmptySeq
  <2> QED
    BY <1>2, <2>1 DEF FlattenSeq, Joins
<1>3. CASE n # 0
  <2> DEFINE g == [i \in 1 .. n |-> f[i]]
  <2>1. \A i \in 1 .. n : f[i] = IF i = 1 THEN ss[i] ELSE f[i - 1] \o ss[i]
    <3>1. <<>> \o ss[1] = ss[1]
      BY <1>1, <1>3, ConcatEmptySeq
    <3>2. ASSUME NEW i \in 1 .. n, i = 1 PROVE f[i] = ss[i]
      <4>1. 1 \in 1 .. n /\ 1 - 1 = 0
        BY <1>1, <1>3
      <4>2. f[1] = f[1 - 1] \o ss[1] /\ f[0] = <<>>
        BY <4>1, Zenon DEF Joins
      <4> QED
        BY <3>1, <3>2, <4>1, <4>2
    <3> QED
      BY <3>2 DEF Joins
  <2>2. g = E(g)
    BY <1>1, <2>1
  <2>3. h = E(h)
    BY <2>2
  <2> HIDE DEF h
  <2>4. \A i \in 1 .. n : h[i] = IF i = 1 THEN ss[i] ELSE h[i - 1] \o ss[i]
    BY <2>3
  <2> DEFINE T == {m \in Nat : m + 1 <= n => h[m + 1] = f[m + 1]}
  <2>5. 0 \in T
    BY <1>1, <1>3, <2>1, <2>4
  <2>6. ASSUME NEW m \in Nat, m \in T PROVE m + 1 \in T
    <3> SUFFICES ASSUME m + 1 + 1 <= n PROVE h[m + 1 + 1] = f[m + 1 + 1]
      OBVIOUS
    <3>1. m + 1 + 1 \in 1 .. n /\ m + 1 + 1 # 1 /\ m + 1 + 1 - 1 = m + 1 /\ m + 1 <= n
      BY <1>1
    <3>2. h[m + 1] = f[m + 1]
      BY <2>6, <3>1
    <3> QED
      BY <2>1, <2>4, <3>1, <3>2
  <2>7. n - 1 \in Nat /\ n - 1 + 1 = n
    BY <1>1, <1>3
  <2>8. n - 1 \in T
    <3> HIDE DEF T
    <3> QED
      BY <2>5, <2>6, <2>7, Induction
  <2>9. h[n] = f[n]
    BY <2>7, <2>8
  <2>10. FlattenSeq(ss) = h[n]
    BY <1>3 DEF FlattenSeq, h
  <2> QED
    BY <2>9, <2>10
<1> QED
  BY <1>2, <1>3

\* The i-th of f; the provers take it as it stands.
At(f, i) == f[i]

\* One more of them.
LEMMA JoinsStep ==
  ASSUME NEW S, NEW ss \in Seq(Seq(S)), NEW f, Joins(f, ss, S),
         NEW h \in 0 .. Len(ss), NEW i \in 1 .. Len(ss), i = h + 1
  PROVE  /\ At(f, h) \in Seq(S) /\ At(ss, i) \in Seq(S) /\ At(f, i) \in Seq(S)
         /\ Len(At(f, h)) \in Nat /\ Len(At(ss, i)) \in Nat /\ Len(At(f, i)) \in Nat
         /\ At(f, i) = At(f, h) \o At(ss, i)
         /\ Len(At(f, i)) = Len(At(f, h)) + Len(At(ss, i))
         /\ \A j \in 1 .. Len(At(f, h)) : At(f, i)[j] = At(f, h)[j]
         /\ \A j \in 1 .. Len(At(ss, i)) : At(f, i)[Len(At(f, h)) + j] = At(ss, i)[j]
<1> DEFINE s == At(f, h)
           t == At(ss, i)
           u == At(f, i)
<1>0. i - 1 = h /\ i \in 0 .. Len(ss)
  BY LenProperties
<1>1. f[i] = f[i - 1] \o ss[i]
  BY Zenon DEF Joins
<1>2. s \in Seq(S) /\ t \in Seq(S) /\ u = s \o t /\ u \in Seq(S)
  BY <1>0, <1>1, ElementOfSeq DEF Joins, At
<1> HIDE DEF s, t, u
<1>3. Len(s) \in Nat /\ Len(t) \in Nat /\ Len(u) \in Nat
  BY <1>2, LenProperties
<1>4. /\ Len(u) = Len(s) + Len(t)
      /\ \A k \in 1 .. Len(s) + Len(t) : u[k] = IF k <= Len(s) THEN s[k] ELSE t[k - Len(s)]
  BY <1>2, ConcatProperties
<1>5. \A j \in 1 .. Len(s) : u[j] = s[j]
  BY <1>3, <1>4
<1>6. \A j \in 1 .. Len(t) : u[Len(s) + j] = t[j]
  <2> SUFFICES ASSUME NEW j \in 1 .. Len(t) PROVE u[Len(s) + j] = t[j]
    OBVIOUS
  <2>1. /\ Len(s) + j \in 1 .. Len(s) + Len(t) /\ ~(Len(s) + j <= Len(s))
        /\ Len(s) + j - Len(s) = j
    BY <1>3
  <2> QED
    BY <1>4, <2>1
<1> QED
  BY <1>2, <1>3, <1>4, <1>5, <1>6 DEF s, t, u

\* The whole begins with as many of them as one likes.
LEMMA JoinsPrefix ==
  ASSUME NEW S, NEW ss \in Seq(Seq(S)), NEW f, Joins(f, ss, S), NEW i \in 0 .. Len(ss)
  PROVE  LET u == At(f, i)
             w == At(f, Len(ss))
         IN  /\ u \in Seq(S) /\ w \in Seq(S) /\ Len(u) \in Nat /\ Len(w) \in Nat
             /\ Len(u) <= Len(w)
             /\ \A j \in 1 .. Len(u) : w[j] = u[j]
<1> DEFINE n == Len(ss)
           w == At(f, n)
           P(k) == /\ Len(At(f, k)) <= Len(w)
                   /\ \A j \in 1 .. Len(At(f, k)) : w[j] = At(f, k)[j]
           T == {d \in Nat : d <= n => P(n - d)}
<1>1. n \in Nat /\ \A k \in 0 .. n : At(f, k) \in Seq(S) /\ Len(At(f, k)) \in Nat
  BY LenProperties DEF Joins, At
<1>2. w \in Seq(S) /\ Len(w) \in Nat
  BY <1>1
<1>3. 0 \in T
  <2>1. n - 0 = n /\ P(n)
    BY <1>1, <1>2
  <2> HIDE DEF P
  <2> QED
    BY <2>1
<1> HIDE DEF P, w
<1>4. ASSUME NEW d \in Nat, d \in T PROVE d + 1 \in T
  <2> SUFFICES ASSUME d + 1 <= n PROVE P(n - (d + 1))
    BY <1>4
  <2> DEFINE k == n - d
             h == n - (d + 1)
  <2>1. k \in 1 .. n /\ h \in 0 .. n /\ k = h + 1 /\ k \in 0 .. n /\ d <= n
    BY <1>1
  <2>2. P(k)
    BY <1>4, <2>1
  <2> HIDE DEF k, h
  <2>3. /\ Len(At(f, h)) \in Nat /\ Len(At(ss, k)) \in Nat
        /\ Len(At(f, k)) = Len(At(f, h)) + Len(At(ss, k))
        /\ \A j \in 1 .. Len(At(f, h)) : At(f, k)[j] = At(f, h)[j]
    BY <2>1, JoinsStep
  <2>4. \A j \in 1 .. Len(At(f, h)) : j \in 1 .. Len(At(f, k))
    BY <2>3
  <2>5. Len(At(f, h)) <= Len(w)
    BY <1>2, <2>2, <2>3 DEF P
  <2>6. P(h)
    BY <2>2, <2>3, <2>4, <2>5 DEF P
  <2> QED
    BY <2>6 DEF h
<1>5. \A d \in Nat : d \in T
  <2> HIDE DEF T
  <2> QED
    BY <1>3, <1>4, Induction
<1>6. n - i \in Nat /\ n - i <= n /\ n - (n - i) = i
  BY <1>1
<1>7. P(i)
  BY <1>5, <1>6
<1> QED
  BY <1>1, <1>2, <1>7 DEF P, w

\* Where each of them lies.
LEMMA JoinsPlace ==
  ASSUME NEW S, NEW ss \in Seq(Seq(S)), NEW f, Joins(f, ss, S),
         NEW h \in 0 .. Len(ss), NEW i \in 1 .. Len(ss), i = h + 1
  PROVE  LET s == At(f, h)
             t == At(ss, i)
             u == At(f, i)
             w == At(f, Len(ss))
         IN  /\ Len(s) \in Nat /\ t \in Seq(S) /\ Len(t) \in Nat /\ Len(w) \in Nat
             /\ Len(u) = Len(s) + Len(t) /\ Len(u) <= Len(w)
             /\ \A j \in 1 .. Len(t) : w[Len(s) + j] = t[j]
<1> DEFINE s == At(f, h)
           t == At(ss, i)
           u == At(f, i)
           w == At(f, Len(ss))
<1>1. /\ Len(s) \in Nat /\ t \in Seq(S) /\ Len(t) \in Nat /\ Len(u) = Len(s) + Len(t)
      /\ \A j \in 1 .. Len(t) : u[Len(s) + j] = t[j]
  BY JoinsStep
<1>2. Len(u) <= Len(w) /\ Len(w) \in Nat /\ \A j \in 1 .. Len(u) : w[j] = u[j]
  <2>1. i \in 0 .. Len(ss)
    OBVIOUS
  <2> QED
    BY <2>1, JoinsPrefix
<1> HIDE DEF s, t, u, w
<1>3. \A j \in 1 .. Len(t) : Len(s) + j \in 1 .. Len(u)
  BY <1>1
<1>4. \A j \in 1 .. Len(t) : w[Len(s) + j] = t[j]
  BY <1>1, <1>2, <1>3
<1> QED
  BY <1>1, <1>2, <1>4 DEF s, t, u, w

\* What FlattenSeq returns is a sequence.
LEMMA FlattenType ==
  ASSUME NEW S, NEW ss \in Seq(Seq(S))
  PROVE  FlattenSeq(ss) \in Seq(S)
<1>1. PICK f : Joins(f, ss, S)
  BY JoinsExist
<1>2. Len(ss) \in 0 .. Len(ss)
  BY LenProperties
<1>3. FlattenSeq(ss) = f[Len(ss)]
  BY <1>1, FlattenLemma
<1> QED
  BY <1>1, <1>2, <1>3 DEF Joins

\* The first k of the sequences one behind the other.
LEMMA FlattenFirst ==
  ASSUME NEW S, NEW ss \in Seq(Seq(S)), NEW f, Joins(f, ss, S), NEW k \in 0 .. Len(ss)
  PROVE  SubSeq(ss, 1, k) \in Seq(Seq(S)) /\ FlattenSeq(SubSeq(ss, 1, k)) = At(f, k)
<1> DEFINE p == SubSeq(ss, 1, k)
           g == [i \in 0 .. k |-> f[i]]
<1>1. Len(ss) \in Nat /\ k \in Nat /\ k <= Len(ss) /\ 1 \in Int /\ k \in Int
  BY LenProperties
<1>2. \A i \in 1 .. k : ss[i] \in Seq(S)
  <2>1. \A i \in 1 .. k : i \in 1 .. Len(ss)
    BY <1>1
  <2> QED
    BY <2>1, ElementOfSeq
<1>3. /\ p \in Seq(Seq(S)) /\ Len(p) = IF 1 <= k THEN k - 1 + 1 ELSE 0
      /\ \A i \in 1 .. k - 1 + 1 : p[i] = ss[1 + i - 1]
  BY <1>1, <1>2, SubSeqProperties
<1>4. Len(p) = k /\ \A i \in 1 .. k : p[i] = ss[i]
  <2>1. Len(p) = k
    BY <1>1, <1>3
  <2>2. \A i \in 1 .. k : i \in 1 .. k - 1 + 1 /\ 1 + i - 1 = i
    BY <1>1
  <2> QED
    BY <1>3, <2>1, <2>2
<1> HIDE DEF p
<1>5. Joins(g, p, S)
  <2>1. \A i \in 0 .. k : i \in 0 .. Len(ss)
    BY <1>1
  <2>2. \A i \in 1 .. k : i \in 1 .. Len(ss) /\ i \in 0 .. k /\ i - 1 \in 0 .. k
    BY <1>1
  <2>3. g \in [0 .. k -> Seq(S)]
    <3>1. \A i \in 0 .. k : f[i] \in Seq(S)
      BY <2>1 DEF Joins
    <3> QED
      BY <3>1, Zenon
  <2>4. \A i \in 0 .. k : g[i] = f[i]
    OBVIOUS
  <2> HIDE DEF g
  <2>6. 0 \in 0 .. k /\ f[0] = <<>>
    BY <1>1 DEF Joins
  <2>5. ASSUME NEW i \in 1 .. k PROVE g[i] = g[i - 1] \o p[i]
    <3>1. f[i] = f[i - 1] \o ss[i]
      BY <2>2, Zenon DEF Joins
    <3> QED
      BY <1>4, <2>2, <2>4, <3>1
  <2> QED
    BY <1>4, <2>3, <2>4, <2>5, <2>6 DEF Joins
<1>6. FlattenSeq(p) = g[k]
  <2> HIDE DEF g
  <2> QED
    BY <1>3, <1>4, <1>5, FlattenLemma
<1>7. g[k] = f[k]
  BY <1>1
<1> QED
  BY <1>3, <1>6, <1>7 DEF p, At

\* How long the first k of the sequences are.
Reach(ss, k) == Len(FlattenSeq(SubSeq(ss, 1, k)))

\* None of them reach nowhere, and all of them to the end.
LEMMA ReachEnds ==
  ASSUME NEW S, NEW ss \in Seq(Seq(S))
  PROVE  Reach(ss, 0) = 0 /\ Reach(ss, Len(ss)) = Len(FlattenSeq(ss))
<1>1. SubSeq(ss, 1, 0) = <<>>
  BY SubSeqEmpty
<1>2. FlattenSeq(<<>>) = <<>>
  BY DEF FlattenSeq
<1>3. Reach(ss, 0) = 0
  BY <1>1, <1>2, EmptySeq, Zenon DEF Reach
<1>4. SubSeq(ss, 1, Len(ss)) = ss
  BY SubSeqFull
<1> QED
  BY <1>3, <1>4 DEF Reach

\* The i-th of the sequences lies behind the first h of them.
LEMMA ReachStep ==
  ASSUME NEW S, NEW ss \in Seq(Seq(S)), NEW h \in 0 .. Len(ss), NEW i \in 1 .. Len(ss),
         i = h + 1
  PROVE  LET t == At(ss, i)
             w == FlattenSeq(ss)
         IN  /\ t \in Seq(S) /\ w \in Seq(S) /\ Reach(ss, h) \in Nat
             /\ Reach(ss, i) = Reach(ss, h) + Len(t) /\ Reach(ss, i) <= Len(w)
             /\ \A j \in 1 .. Len(t) : w[Reach(ss, h) + j] = t[j]
<1>1. PICK f : Joins(f, ss, S)
  BY JoinsExist
<1>2. FlattenSeq(ss) = At(f, Len(ss)) /\ FlattenSeq(ss) \in Seq(S)
  BY <1>1, FlattenLemma, FlattenType DEF At
<1>3. FlattenSeq(SubSeq(ss, 1, h)) = At(f, h)
  BY <1>1, FlattenFirst
<1>4. FlattenSeq(SubSeq(ss, 1, i)) = At(f, i)
  <2>1. i \in 0 .. Len(ss)
    OBVIOUS
  <2> QED
    BY <1>1, <2>1, FlattenFirst
<1>5. LET s == At(f, h)
          t == At(ss, i)
          u == At(f, i)
          w == At(f, Len(ss))
      IN  /\ Len(s) \in Nat /\ t \in Seq(S) /\ Len(t) \in Nat /\ Len(w) \in Nat
          /\ Len(u) = Len(s) + Len(t) /\ Len(u) <= Len(w)
          /\ \A j \in 1 .. Len(t) : w[Len(s) + j] = t[j]
  BY <1>1, JoinsPlace
<1> QED
  BY <1>2, <1>3, <1>4, <1>5 DEF Reach


\* Sequences of one element each: what FlattenSeq returns has these elements.
LEMMA FlattenSingles ==
  ASSUME NEW S, NEW ss \in Seq(Seq(S)), \A i \in 1 .. Len(ss) : Len(At(ss, i)) = 1
  PROVE  LET w == FlattenSeq(ss)
         IN  /\ w \in Seq(S) /\ Len(w) = Len(ss)
             /\ \A i \in 1 .. Len(ss) : w[i] = At(ss, i)[1]
<1> DEFINE n == Len(ss)
           w == FlattenSeq(ss)
           T == {k \in Nat : k <= n => Reach(ss, k) = k}
<1>1. n \in Nat /\ w \in Seq(S)
  BY LenProperties, FlattenType
<1>2. Reach(ss, 0) = 0 /\ Reach(ss, n) = Len(w)
  BY ReachEnds
<1>3. ASSUME NEW h \in 0 .. n, NEW i \in 1 .. n, i = h + 1
      PROVE  /\ Reach(ss, h) \in Nat /\ Reach(ss, i) = Reach(ss, h) + 1
             /\ w[Reach(ss, h) + 1] = At(ss, i)[1]
  <2>1. /\ Reach(ss, h) \in Nat /\ Reach(ss, i) = Reach(ss, h) + Len(At(ss, i))
        /\ \A j \in 1 .. Len(At(ss, i)) : w[Reach(ss, h) + j] = At(ss, i)[j]
    BY <1>3, ReachStep
  <2>2. Len(At(ss, i)) = 1
    OBVIOUS
  <2> QED
    BY <2>1, <2>2
<1> HIDE DEF n, w
<1>4. 0 \in T
  BY <1>2
<1>5. ASSUME NEW k \in Nat, k \in T PROVE k + 1 \in T
  <2> SUFFICES ASSUME k + 1 <= n PROVE Reach(ss, k + 1) = k + 1
    BY <1>5
  <2>1. k \in 0 .. n /\ k + 1 \in 1 .. n /\ Reach(ss, k) = k
    BY <1>1, <1>5
  <2> QED
    BY <1>3, <2>1
<1>6. \A k \in Nat : k \in T
  <2> HIDE DEF T
  <2> QED
    BY <1>4, <1>5, Induction
<1>7. Len(w) = n
  BY <1>1, <1>2, <1>6
<1>8. ASSUME NEW i \in 1 .. n PROVE w[i] = At(ss, i)[1]
  <2> DEFINE h == i - 1
  <2>1. h \in 0 .. n /\ i = h + 1 /\ h \in Nat /\ h <= n
    BY <1>1
  <2> HIDE DEF h
  <2>2. Reach(ss, h) = h
    BY <1>6, <2>1
  <2> QED
    BY <1>3, <2>1, <2>2
<1> QED
  BY <1>1, <1>7, <1>8 DEF n, w

-----------------------------------------------------------------------------
(* A sequence and its pieces: ss are w in pieces of c, the last of them   *)
(* possibly shorter.                                                       *)

Pieces(w, ss, c) ==
  /\ \A k \in 1 .. Len(ss) - 1 : Len(ss[k]) = c
  /\ IF Len(ss) = 0 THEN Len(w) = 0
       ELSE Len(ss[Len(ss)]) \in 1 .. c /\ Len(w) = c * (Len(ss) - 1) + Len(ss[Len(ss)])
  /\ \A k \in 1 .. Len(ss) : \A j \in 1 .. Len(ss[k]) : w[c * (k - 1) + j] = ss[k][j]

Widths == 3 .. 8

\* In which piece a place is.
LEMMA WhichPiece ==
  ASSUME NEW c \in Widths, NEW x \in Nat \ {0}
  PROVE  \E k \in Nat \ {0} : \E j \in 1 .. c : x = c * (k - 1) + j
<1>1. ASSUME NEW q \in Nat, NEW j \in 1 .. c, x = c * q + j
      PROVE  \E k \in Nat \ {0} : \E i \in 1 .. c : x = c * (k - 1) + i
  <2>1. q + 1 \in Nat \ {0} /\ q + 1 - 1 = q
    OBVIOUS
  <2> QED
    BY <1>1, <2>1
<1>2. \E q \in Nat : \E j \in 1 .. c : x = c * q + j
  <2>3. CASE c = 3
    <3>1. (x - 1) \div 3 \in Nat /\ ((x - 1) % 3) + 1 \in 1 .. 3
            /\ x = 3 * ((x - 1) \div 3) + (((x - 1) % 3) + 1)
      BY Z3
    <3> QED
      BY <2>3, <3>1
  <2>4. CASE c = 4
    <3>1. (x - 1) \div 4 \in Nat /\ ((x - 1) % 4) + 1 \in 1 .. 4
            /\ x = 4 * ((x - 1) \div 4) + (((x - 1) % 4) + 1)
      BY Z3
    <3> QED
      BY <2>4, <3>1
  <2>5. CASE c = 5
    <3>1. (x - 1) \div 5 \in Nat /\ ((x - 1) % 5) + 1 \in 1 .. 5
            /\ x = 5 * ((x - 1) \div 5) + (((x - 1) % 5) + 1)
      BY Z3
    <3> QED
      BY <2>5, <3>1
  <2>6. CASE c = 6
    <3>1. (x - 1) \div 6 \in Nat /\ ((x - 1) % 6) + 1 \in 1 .. 6
            /\ x = 6 * ((x - 1) \div 6) + (((x - 1) % 6) + 1)
      BY Z3
    <3> QED
      BY <2>6, <3>1
  <2>7. CASE c = 7
    <3>1. (x - 1) \div 7 \in Nat /\ ((x - 1) % 7) + 1 \in 1 .. 7
            /\ x = 7 * ((x - 1) \div 7) + (((x - 1) % 7) + 1)
      BY Z3
    <3> QED
      BY <2>7, <3>1
  <2>8. CASE c = 8
    <3>1. (x - 1) \div 8 \in Nat /\ ((x - 1) % 8) + 1 \in 1 .. 8
            /\ x = 8 * ((x - 1) \div 8) + (((x - 1) % 8) + 1)
      BY Z3
    <3> QED
      BY <2>8, <3>1
  <2> QED
    BY <2>3, <2>4, <2>5, <2>6, <2>7, <2>8 DEF Widths
<1> QED
  BY <1>1, <1>2

\* Multiples of a width are in the order of their numbers, one width apart.
LEMMA TimesLemma ==
  ASSUME NEW c \in Widths, NEW a \in Nat, NEW b \in Nat
  PROVE  /\ c \in Nat /\ c * a \in Nat /\ c * b \in Nat /\ c * (a + 1) = c * a + c
         /\ a < b => c * a + c <= c * b
<1>3. CASE c = 3
  <2>1. 3 * a \in Nat /\ 3 * b \in Nat /\ 3 * (a + 1) = 3 * a + 3 /\ (a < b => 3 * a + 3 <= 3 * b)
    OBVIOUS
  <2> QED
    BY <1>3, <2>1
<1>4. CASE c = 4
  <2>1. 4 * a \in Nat /\ 4 * b \in Nat /\ 4 * (a + 1) = 4 * a + 4 /\ (a < b => 4 * a + 4 <= 4 * b)
    OBVIOUS
  <2> QED
    BY <1>4, <2>1
<1>5. CASE c = 5
  <2>1. 5 * a \in Nat /\ 5 * b \in Nat /\ 5 * (a + 1) = 5 * a + 5 /\ (a < b => 5 * a + 5 <= 5 * b)
    OBVIOUS
  <2> QED
    BY <1>5, <2>1
<1>6. CASE c = 6
  <2>1. 6 * a \in Nat /\ 6 * b \in Nat /\ 6 * (a + 1) = 6 * a + 6 /\ (a < b => 6 * a + 6 <= 6 * b)
    OBVIOUS
  <2> QED
    BY <1>6, <2>1
<1>7. CASE c = 7
  <2>1. 7 * a \in Nat /\ 7 * b \in Nat /\ 7 * (a + 1) = 7 * a + 7 /\ (a < b => 7 * a + 7 <= 7 * b)
    OBVIOUS
  <2> QED
    BY <1>7, <2>1
<1>8. CASE c = 8
  <2>1. 8 * a \in Nat /\ 8 * b \in Nat /\ 8 * (a + 1) = 8 * a + 8 /\ (a < b => 8 * a + 8 <= 8 * b)
    OBVIOUS
  <2> QED
    BY <1>8, <2>1
<1> QED
  BY <1>3, <1>4, <1>5, <1>6, <1>7, <1>8 DEF Widths

\* Every element of w is one of a piece.
InPiece(w, ss, c, x) ==
  \E k \in 1 .. Len(ss) : \E j \in 1 .. Len(ss[k]) : x = c * (k - 1) + j /\ w[x] = ss[k][j]

\* Every place lies in a piece.
LEMMA PieceOf ==
  ASSUME NEW S, NEW w \in Seq(S), NEW ss \in Seq(Seq(S)), NEW c \in Widths,
         Pieces(w, ss, c), NEW x \in 1 .. Len(w)
  PROVE  InPiece(w, ss, c, x)
<1> DEFINE n == Len(ss)
<1>1. n \in Nat /\ Len(w) \in Nat /\ x \in Nat \ {0} /\ x <= Len(w)
  BY LenProperties
<1>2. PICK k \in Nat \ {0} : \E j \in 1 .. c : x = c * (k - 1) + j
  BY <1>1, WhichPiece
<1>3. PICK j \in 1 .. c : x = c * (k - 1) + j
  BY <1>2
<1>4. n # 0 /\ Len(ss[n]) \in 1 .. c /\ Len(w) = c * (n - 1) + Len(ss[n])
  BY <1>1 DEF Pieces
<1>5. k <= n
  <2> SUFFICES ASSUME n - 1 < k - 1 PROVE FALSE
    BY <1>1
  <2>1. n - 1 \in Nat /\ k - 1 \in Nat
    BY <1>1, <1>4
  <2>2. /\ c \in Nat /\ c * (n - 1) \in Nat /\ c * (k - 1) \in Nat
        /\ c * (n - 1) + c <= c * (k - 1)
    BY <2>1, TimesLemma
  <2> DEFINE y == c * (n - 1)
             z == c * (k - 1)
             r == Len(ss[n])
  <2>3. /\ y + c <= z /\ y \in Nat /\ z \in Nat /\ c \in Nat /\ r \in 1 .. c
        /\ x = z + j /\ x <= y + r
    BY <1>1, <1>3, <1>4, <2>2, Zenon
  <2> HIDE DEF y, z, r
  <2> QED
    BY <2>3
<1>6. j \in 1 .. Len(ss[k])
  <2>1. CASE k < n
    <3>1. k \in 1 .. n - 1
      BY <1>1, <2>1
    <3>2. Len(ss[k]) = c
      BY <3>1 DEF Pieces
    <3> QED
      BY <3>2
  <2>2. CASE k = n
    <3> DEFINE y == c * (n - 1)
               r == Len(ss[n])
    <3>1. y \in Nat /\ c \in Nat
      <4>1. n - 1 \in Nat
        BY <1>1, <1>4
      <4> QED
        BY <4>1, TimesLemma
    <3>2. x = y + j /\ x <= y + r /\ r \in 1 .. c
      BY <1>1, <1>3, <1>4, <2>2, Zenon
    <3>3. j \in 1 .. r
      <4> HIDE DEF y, r
      <4> QED
        BY <3>1, <3>2
    <3> QED
      BY <2>2, <3>3
  <2> QED
    BY <1>1, <1>5, <2>1, <2>2
<1>7. k \in 1 .. n
  BY <1>1, <1>5
<1>8. w[c * (k - 1) + j] = ss[k][j]
  BY <1>6, <1>7, Zenon DEF Pieces
<1> QED
  BY <1>3, <1>6, <1>7, <1>8 DEF InPiece

\* The pieces say what w is.
LEMMA PiecesEqual ==
  ASSUME NEW S, NEW v \in Seq(S), NEW w \in Seq(S), NEW ss \in Seq(Seq(S)), NEW c \in Widths,
         Pieces(v, ss, c), Pieces(w, ss, c)
  PROVE  v = w
<1>1. Len(v) = Len(w)
  BY DEF Pieces
<1>2. ASSUME NEW x \in 1 .. Len(v) PROVE v[x] = w[x]
  <2>0. InPiece(v, ss, c, x)
    BY PieceOf
  <2>1. PICK k \in 1 .. Len(ss) :
          \E j \in 1 .. Len(ss[k]) : x = c * (k - 1) + j /\ v[x] = ss[k][j]
    BY <2>0 DEF InPiece
  <2>2. PICK j \in 1 .. Len(ss[k]) : x = c * (k - 1) + j /\ v[x] = ss[k][j]
    BY <2>1
  <2>3. w[c * (k - 1) + j] = ss[k][j]
    BY Zenon DEF Pieces
  <2> QED
    BY <2>2, <2>3
<1> QED
  BY <1>1, <1>2, SeqEqual

\* There are as many pieces as there have to be.
LEMMA PiecesCount ==
  ASSUME NEW S, NEW w \in Seq(S), NEW ss \in Seq(Seq(S)), NEW tt \in Seq(Seq(S)),
         NEW c \in Widths, Pieces(w, ss, c), Pieces(w, tt, c)
  PROVE  Len(ss) <= Len(tt)
<1> DEFINE n == Len(ss)
           m == Len(tt)
<1>1. n \in Nat /\ m \in Nat /\ Len(w) \in Nat
  BY LenProperties
<1> SUFFICES ASSUME m < n PROVE FALSE
  BY <1>1
<1>2. n # 0
  BY <1>1
<1> DEFINE y == c * (n - 1)
           q == Len(ss[n])
<1>3. q \in 1 .. c /\ Len(w) = y + q
  BY <1>2, Zenon DEF Pieces
<1>4. n - 1 \in Nat
  BY <1>1, <1>2
<1>5. y \in Nat /\ c \in Nat
  BY <1>4, TimesLemma
<1>6. CASE m = 0
  <2>1. Len(w) = 0
    BY <1>6 DEF Pieces
  <2>2. y + q = 0
    BY <1>3, <2>1, Zenon
  <2> HIDE DEF y, q
  <2> QED
    BY <1>3, <1>5, <2>2
<1>7. CASE m # 0
  <2> DEFINE z == c * (m - 1)
             r == Len(tt[m])
  <2>1. r \in 1 .. c /\ Len(w) = z + r
    BY <1>7, Zenon DEF Pieces
  <2>2. m - 1 \in Nat /\ m - 1 < n - 1
    BY <1>1, <1>7
  <2>3. z \in Nat /\ z + c <= y
    BY <1>4, <2>2, TimesLemma
  <2> HIDE DEF y, z, q, r
  <2> QED
    BY <1>3, <1>5, <2>1, <2>3
<1> QED
  BY <1>6, <1>7

\* w says what its pieces are.
LEMMA PiecesUnique ==
  ASSUME NEW S, NEW w \in Seq(S), NEW ss \in Seq(Seq(S)), NEW tt \in Seq(Seq(S)),
         NEW c \in Widths, Pieces(w, ss, c), Pieces(w, tt, c)
  PROVE  ss = tt
<1> DEFINE n == Len(ss)
<1>1. n \in Nat /\ Len(tt) = n
  <2>1. Len(ss) \in Nat /\ Len(tt) \in Nat
    BY LenProperties
  <2>2. Len(ss) <= Len(tt) /\ Len(tt) <= Len(ss)
    BY PiecesCount
  <2> QED
    BY <2>1, <2>2
<1>2. ASSUME NEW k \in 1 .. n PROVE Len(ss[k]) = Len(tt[k])
  <2>1. CASE k = n
    <3>1. n # 0 /\ n - 1 \in Nat
      BY <1>1
    <3> DEFINE y == c * (n - 1)
               q == Len(ss[n])
               r == Len(tt[n])
    <3>2. q \in 1 .. c /\ r \in 1 .. c /\ Len(w) = y + q /\ Len(w) = y + r
      BY <1>1, <3>1, Zenon DEF Pieces
    <3>3. y \in Nat /\ c \in Nat
      BY <3>1, TimesLemma
    <3>4. q = r
      <4> HIDE DEF y, q, r
      <4> QED
        BY <3>2, <3>3
    <3> QED
      BY <2>1, <3>4
  <2>2. CASE k # n
    <3>1. k \in 1 .. n - 1
      BY <1>1, <2>2
    <3> QED
      BY <1>1, <3>1, Zenon DEF Pieces
  <2> QED
    BY <2>1, <2>2
<1>3. ASSUME NEW k \in 1 .. n PROVE ss[k] = tt[k]
  <2>1. ss[k] \in Seq(S) /\ tt[k] \in Seq(S)
    BY <1>1, ElementOfSeq
  <2>2. ASSUME NEW j \in 1 .. Len(ss[k]) PROVE ss[k][j] = tt[k][j]
    <3>1. w[c * (k - 1) + j] = ss[k][j]
      BY Zenon DEF Pieces
    <3>2. w[c * (k - 1) + j] = tt[k][j]
      BY <1>1, <1>2, Zenon DEF Pieces
    <3> QED
      BY <3>1, <3>2
  <2> QED
    BY <1>2, <2>1, <2>2, SeqEqual
<1> QED
  BY <1>1, <1>3, SeqEqual

\* Pieces one behind the other.
LEMMA FlattenPieces ==
  ASSUME NEW S, NEW ss \in Seq(Seq(S)), NEW c \in Widths,
         \A k \in 1 .. Len(ss) - 1 : Len(ss[k]) = c,
         Len(ss) > 0 => Len(ss[Len(ss)]) \in 1 .. c
  PROVE  FlattenSeq(ss) \in Seq(S) /\ Pieces(FlattenSeq(ss), ss, c)
<1> DEFINE n == Len(ss)
           w == FlattenSeq(ss)
           T == {k \in Nat : k < n => Reach(ss, k) = c * k}
<1>1. n \in Nat /\ c \in Nat
  BY LenProperties DEF Widths
<1>2. w \in Seq(S)
  BY FlattenType
<1>3. Reach(ss, 0) = 0 /\ Reach(ss, n) = Len(w)
  BY ReachEnds
<1>4. ASSUME NEW i \in 1 .. n
      PROVE  /\ Len(ss[i]) \in Nat /\ Reach(ss, i - 1) \in Nat
             /\ Reach(ss, i) = Reach(ss, i - 1) + Len(ss[i])
             /\ \A j \in 1 .. Len(ss[i]) : w[Reach(ss, i - 1) + j] = ss[i][j]
  <2> DEFINE h == i - 1
  <2>1. h \in 0 .. n /\ i = h + 1
    BY <1>1
  <2> HIDE DEF h
  <2>2. /\ At(ss, i) \in Seq(S) /\ Reach(ss, h) \in Nat
        /\ Reach(ss, i) = Reach(ss, h) + Len(At(ss, i))
        /\ \A j \in 1 .. Len(At(ss, i)) : w[Reach(ss, h) + j] = At(ss, i)[j]
    BY <2>1, ReachStep
  <2>3. Len(At(ss, i)) \in Nat
    BY <2>2, LenProperties
  <2> QED
    BY <2>2, <2>3, Zenon DEF At, h
<1> HIDE DEF w
<1>5. 0 \in T
  BY <1>1, <1>3
<1>6. ASSUME NEW k \in Nat, k \in T PROVE k + 1 \in T
  <2> SUFFICES ASSUME k + 1 < n PROVE Reach(ss, k + 1) = c * (k + 1)
    BY <1>6
  <2>1. k + 1 \in 1 .. n - 1 /\ k + 1 \in 1 .. n /\ k + 1 - 1 = k /\ k < n
    BY <1>1
  <2>2. Reach(ss, k + 1) = Reach(ss, k) + Len(ss[k + 1]) /\ Len(ss[k + 1]) = c
    BY <1>4, <2>1
  <2>3. Reach(ss, k) = c * k
    BY <1>6, <2>1
  <2>4. c * (k + 1) = c * k + c
    BY TimesLemma
  <2> QED
    BY <2>2, <2>3, <2>4
<1>7. ASSUME NEW i \in 1 .. n PROVE Reach(ss, i - 1) = c * (i - 1)
  <2>1. \A k \in Nat : k \in T
    <3> HIDE DEF T
    <3> QED
      BY <1>5, <1>6, Induction
  <2>2. i - 1 \in Nat /\ i - 1 < n
    BY <1>1
  <2> QED
    BY <2>1, <2>2
<1>8. \A k \in 1 .. n : \A j \in 1 .. Len(ss[k]) : w[c * (k - 1) + j] = ss[k][j]
  BY <1>4, <1>7
<1>9. IF n = 0 THEN Len(w) = 0
        ELSE Len(ss[n]) \in 1 .. c /\ Len(w) = c * (n - 1) + Len(ss[n])
  <2>1. CASE n = 0
    BY <1>3, <2>1
  <2>2. CASE n # 0
    <3>1. n \in 1 .. n /\ n > 0
      BY <1>1, <2>2
    <3>2. Len(w) = c * (n - 1) + Len(ss[n])
      BY <1>3, <1>4, <1>7, <3>1
    <3> QED
      BY <2>2, <3>1, <3>2
  <2> QED
    BY <2>1, <2>2
<1>10. Pieces(w, ss, c)
  BY <1>8, <1>9 DEF Pieces
<1> QED
  BY <1>2, <1>10 DEF w

-----------------------------------------------------------------------------
(* Functions that are defined by recursion.                                *)

\* F has, for a function and an argument, the body of the definition; what it says of
\* an argument depends on arguments of a smaller measure only.
Local(F, X, Y, measure) ==
  \A f, g \in [X -> Y], x \in X :
    (\A y \in X : measure[y] < measure[x] => f[y] = g[y]) => F[f][x] = F[g][x]

\* What is asked of a definition by recursion over what becomes smaller, and what it
\* gives; the provers take them as they stand.
IsRecursion(F, X, Y, measure) ==
  /\ Y # {} /\ measure \in [X -> Nat] /\ F \in [[X -> Y] -> [X -> Y]]
  /\ Local(F, X, Y, measure)

HasFixpoint(F, X, Y) == \E f \in [X -> Y] : F[f] = f

\* The definition has a function.
LEMMA Recursion ==
  ASSUME NEW F, NEW X, NEW Y, NEW measure, IsRecursion(F, X, Y, measure)
  PROVE  HasFixpoint(F, X, Y)
<1> SUFFICES ASSUME Y # {}, measure \in [X -> Nat], F \in [[X -> Y] -> [X -> Y]],
                    Local(F, X, Y, measure)
             PROVE  \E f \in [X -> Y] : F[f] = f
  BY DEF IsRecursion, HasFixpoint
<1> DEFINE Upto(n) == {g \in [X -> Y] : \A x \in X : measure[x] < n => F[g][x] = g[x]}
           T == {n \in Nat : Upto(n) # {}}
           U == {n \in Nat : \A g, h \in Upto(n), x \in X : measure[x] < n => g[x] = h[x]}
           Pick(n) == CHOOSE g : g \in Upto(n)
           f == [x \in X |-> Pick(measure[x] + 1)[x]]
<1>1. ASSUME NEW f1 \in [X -> Y], NEW f2 \in [X -> Y], NEW x \in X,
             \A y \in X : measure[y] < measure[x] => f1[y] = f2[y]
      PROVE  F[f1][x] = F[f2][x]
  BY <1>1, Zenon DEF Local
<1>2. \A x \in X : measure[x] \in Nat
  OBVIOUS
<1>3. 0 \in T
  <2>1. PICK y \in Y : TRUE
    OBVIOUS
  <2> DEFINE g == [x \in X |-> y]
  <2>2. g \in Upto(0)
    BY <1>2
  <2> QED
    BY <2>2
<1>4. ASSUME NEW n \in Nat, n \in T PROVE n + 1 \in T
  <2>1. PICK g \in Upto(n) : TRUE
    BY <1>4
  <2> DEFINE h == F[g]
  <2>2. h \in [X -> Y] /\ g \in [X -> Y]
    BY <2>1
  <2>3. ASSUME NEW x \in X, measure[x] < n + 1 PROVE F[h][x] = h[x]
    <3>1. ASSUME NEW y \in X, measure[y] < measure[x] PROVE h[y] = g[y]
      <4>1. measure[y] < n
        BY <1>2, <2>3, <3>1
      <4> QED
        BY <2>1, <4>1
    <3> HIDE DEF h
    <3>2. F[h][x] = F[g][x]
      BY <1>1, <2>2, <3>1
    <3> QED
      BY <3>2 DEF h
  <2>4. h \in Upto(n + 1)
    <3> HIDE DEF h
    <3> QED
      BY <2>2, <2>3
  <2> QED
    BY <2>4
<1>5. ASSUME NEW n \in Nat PROVE Upto(n) # {}
  <2> HIDE DEF T
  <2>1. n \in T
    BY <1>3, <1>4, Induction
  <2> QED
    BY <2>1 DEF T
<1>6. 0 \in U
  BY <1>2
<1>7. ASSUME NEW n \in Nat, n \in U PROVE n + 1 \in U
  <2> SUFFICES ASSUME NEW g \in Upto(n + 1), NEW h \in Upto(n + 1), NEW x \in X,
                      measure[x] < n + 1
               PROVE  g[x] = h[x]
    OBVIOUS
  <2>1. g \in Upto(n) /\ h \in Upto(n)
    BY <1>2
  <2>2. g \in [X -> Y] /\ h \in [X -> Y] /\ F[g][x] = g[x] /\ F[h][x] = h[x]
    OBVIOUS
  <2>3. ASSUME NEW y \in X, measure[y] < measure[x] PROVE g[y] = h[y]
    <3>1. measure[y] < n
      BY <1>2, <2>3
    <3> QED
      BY <1>7, <2>1, <3>1
  <2> QED
    BY <1>1, <2>2, <2>3
<1>8. ASSUME NEW n \in Nat, NEW g \in Upto(n), NEW h \in Upto(n), NEW x \in X, measure[x] < n
      PROVE  g[x] = h[x]
  <2> HIDE DEF U
  <2>1. n \in U
    BY <1>6, <1>7, Induction
  <2> QED
    BY <1>8, <2>1 DEF U
<1>9. ASSUME NEW n \in Nat PROVE Pick(n) \in Upto(n)
  BY <1>5
<1> HIDE DEF Pick
<1>10. \A n \in Nat : Pick(n) \in [X -> Y]
  BY <1>9
<1>11. f \in [X -> Y]
  BY <1>2, <1>10
<1>12. ASSUME NEW x \in X PROVE F[f][x] = f[x]
  <2> DEFINE n == measure[x] + 1
             g == Pick(n)
  <2>1. n \in Nat /\ g \in Upto(n) /\ g \in [X -> Y] /\ measure[x] < n
    BY <1>2, <1>9
  <2>2. F[g][x] = g[x]
    BY <2>1
  <2>3. ASSUME NEW y \in X, measure[y] < measure[x] PROVE f[y] = g[y]
    <3> DEFINE k == measure[y] + 1
               h == Pick(k)
    <3>1. k \in Nat /\ h \in Upto(k) /\ measure[y] < k /\ k <= n
      BY <1>2, <1>9, <2>3
    <3>2. g \in Upto(k)
      <4> HIDE DEF k, n, g
      <4> QED
        BY <1>2, <2>1, <3>1
    <3>3. h[y] = g[y]
      <4> HIDE DEF k, g, h, Upto
      <4> QED
        BY <1>8, <3>1, <3>2
    <3> QED
      BY <3>3
  <2>4. F[f][x] = F[g][x]
    <3> HIDE DEF f, g
    <3> QED
      BY <1>1, <1>11, <2>1, <2>3
  <2> QED
    BY <2>2, <2>4
<1>13. F[f] = f
  <2> HIDE DEF f
  <2>1. F[f] \in [X -> Y]
    BY <1>11
  <2> QED
    BY <1>11, <1>12, <2>1
<1> QED
  BY <1>11, <1>13

-----------------------------------------------------------------------------
(* Sequences one behind the other, without brackets.                       *)

\* A sequence of the elements of another set.
LEMMA SeqNarrow ==
  ASSUME NEW S, NEW T, NEW s \in Seq(S), \A i \in 1 .. Len(s) : s[i] \in T
  PROVE  s \in Seq(T)
<1>1. Len(s) \in Nat /\ s \in [1 .. Len(s) -> T]
  BY LenProperties
<1> QED
  BY <1>1, SeqIs

\* One sequence behind another; the provers take it as it stands.
Cat(s, t) == s \o t

\* What the brackets are moved by.
LEMMA CatLemma ==
  ASSUME NEW S
  PROVE  /\ \A s, t \in Seq(S) : Cat(s, t) \in Seq(S)
         /\ \A s, t, u \in Seq(S) : Cat(Cat(s, t), u) = Cat(s, Cat(t, u))
<1>1. \A s, t \in Seq(S) : s \o t \in Seq(S)
  BY ConcatProperties
<1>2. \A s, t, u \in Seq(S) : (s \o t) \o u = s \o (t \o u)
  BY ConcatAssociative
<1> QED
  BY <1>1, <1>2 DEF Cat

\* The brackets of three sequences.
LEMMA BracketsThree ==
  ASSUME NEW S, NEW a \in Seq(S), NEW b \in Seq(S), NEW c \in Seq(S)
  PROVE  /\ Cat(Cat(a, b), c) \in Seq(S)
         /\ Cat(Cat(a, b), c) = Cat(a, Cat(b, c))
BY CatLemma

\* The brackets of four sequences.
LEMMA BracketsFour ==
  ASSUME NEW S, NEW a \in Seq(S), NEW b \in Seq(S), NEW c \in Seq(S), NEW d \in Seq(S)
  PROVE  /\ Cat(Cat(Cat(a, b), c), d) \in Seq(S)
         /\ Cat(Cat(Cat(a, b), c), d) = Cat(a, Cat(b, Cat(c, d)))
<1> DEFINE x == Cat(a, b)
           r == Cat(c, d)
<1>1. x \in Seq(S)
  BY CatLemma
<1>2. r \in Seq(S)
  BY CatLemma
<1> HIDE DEF x
<1>3. Cat(Cat(x, c), d) \in Seq(S) /\ Cat(Cat(x, c), d) = Cat(x, r)
  BY <1>1, BracketsThree
<1> HIDE DEF r
<1>4. Cat(Cat(a, b), r) = Cat(a, Cat(b, r))
  BY <1>2, CatLemma
<1> QED
  BY <1>3, <1>4 DEF x, r

\* The brackets of five sequences.
LEMMA BracketsFive ==
  ASSUME NEW S, NEW a \in Seq(S), NEW b \in Seq(S), NEW c \in Seq(S), NEW d \in Seq(S),
         NEW e \in Seq(S)
  PROVE  /\ Cat(Cat(Cat(Cat(a, b), c), d), e) \in Seq(S)
         /\ Cat(Cat(Cat(Cat(a, b), c), d), e) = Cat(a, Cat(b, Cat(c, Cat(d, e))))
<1> DEFINE x == Cat(a, b)
           r == Cat(c, Cat(d, e))
<1>1. x \in Seq(S)
  BY CatLemma
<1>2. r \in Seq(S)
  BY BracketsThree
<1> HIDE DEF x
<1>3. Cat(Cat(Cat(x, c), d), e) \in Seq(S) /\ Cat(Cat(Cat(x, c), d), e) = Cat(x, r)
  BY <1>1, BracketsFour
<1> HIDE DEF r
<1>4. Cat(Cat(a, b), r) = Cat(a, Cat(b, r))
  BY <1>2, CatLemma
<1> QED
  BY <1>3, <1>4 DEF x, r

\* The brackets of six sequences.
LEMMA BracketsSix ==
  ASSUME NEW S, NEW a \in Seq(S), NEW b \in Seq(S), NEW c \in Seq(S), NEW d \in Seq(S),
         NEW e \in Seq(S), NEW f \in Seq(S)
  PROVE  /\ Cat(Cat(Cat(Cat(Cat(a, b), c), d), e), f) \in Seq(S)
         /\ Cat(Cat(Cat(Cat(Cat(a, b), c), d), e), f) = Cat(a, Cat(b, Cat(c, Cat(d, Cat(e, f)))))
<1> DEFINE x == Cat(a, b)
           r == Cat(c, Cat(d, Cat(e, f)))
<1>1. x \in Seq(S)
  BY CatLemma
<1>2. r \in Seq(S)
  BY BracketsFour
<1> HIDE DEF x
<1>3. Cat(Cat(Cat(Cat(x, c), d), e), f) \in Seq(S) /\ Cat(Cat(Cat(Cat(x, c), d), e), f) = Cat(x, r)
  BY <1>1, BracketsFive
<1> HIDE DEF r
<1>4. Cat(Cat(a, b), r) = Cat(a, Cat(b, r))
  BY <1>2, CatLemma
<1> QED
  BY <1>3, <1>4 DEF x, r

\* Every sequence is elements of C and what is behind them.
LEMMA Span ==
  ASSUME NEW S, NEW C, NEW s \in Seq(S)
  PROVE  \E p \in Seq(C), x \in Seq(S) :
           p \in Seq(S) /\ s = p \o x /\ (x # <<>> => x[1] \notin C)
<1> DEFINE n == Len(s)
           T == {i \in 1 .. n + 1 : i = n + 1 \/ s[i] \notin C}
<1>1. n \in Nat
  BY LenProperties
<1>2. PICK i \in T : \A j \in T : i <= j
  <2>1. T \in SUBSET Nat /\ n + 1 \in T
    BY <1>1
  <2> HIDE DEF T
  <2> QED
    BY <2>1, LeastNumber
<1> DEFINE k == i - 1
           p == Part(s, 0, k)
           x == Part(s, k, n)
<1>3. k \in Nat /\ k <= n /\ 0 \in Nat /\ 0 <= k /\ n \in Nat /\ n <= Len(s) /\ k <= Len(s)
  BY <1>1
<1>4. \A j \in 1 .. k : s[j] \in C
  <2> SUFFICES ASSUME NEW j \in 1 .. k, s[j] \notin C PROVE FALSE
    OBVIOUS
  <2>1. j \in T /\ ~(i <= j)
    BY <1>1, <1>3
  <2> QED
    BY <1>2, <2>1
<1>5. k < n => s[k + 1] \notin C
  BY <1>1
<1> HIDE DEF k, T
<1>6. p \in Seq(S) /\ Len(p) = k /\ \A j \in 1 .. k : p[j] = s[j]
  <2>1. IsPart(p, S, s, 0, k)
    BY <1>3, PartIs
  <2> HIDE DEF p
  <2>2. p \in Seq(S) /\ Len(p) = k - 0 /\ \A j \in 1 .. k - 0 : p[j] = s[0 + j]
    BY <2>1 DEF IsPart
  <2> QED
    BY <1>3, <2>2
<1>7. x \in Seq(S) /\ Len(x) = n - k /\ \A j \in 1 .. n - k : x[j] = s[k + j]
  <2>1. IsPart(x, S, s, k, n)
    BY <1>3, PartIs
  <2> QED
    BY <2>1 DEF IsPart
<1>8. s = p \o x
  <2>1. Part(s, 0, n) = s
    <3>1. SubSeq(s, 1, n) = s
      BY SubSeqFull
    <3> QED
      BY <3>1 DEF Part
  <2>2. p \o x = Part(s, 0, n)
    BY <1>3, PartConcat
  <2> QED
    BY <2>1, <2>2
<1> HIDE DEF p, x
<1>9. p \in Seq(C)
  BY <1>4, <1>6, SeqNarrow
<1>10. x # <<>> => x[1] \notin C
  <2> SUFFICES ASSUME x # <<>> PROVE x[1] \notin C
    OBVIOUS
  <2>1. Len(x) \in Nat \ {0}
    BY <1>7, EmptySeq
  <2>2. 1 \in 1 .. n - k /\ k < n
    BY <1>1, <1>3, <1>7, <2>1
  <2> QED
    BY <1>5, <1>7, <2>2
<1> QED
  BY <1>6, <1>7, <1>8, <1>9, <1>10

\* What FlattenSeq puts behind the first k of the sequences.
Beyond(ss, k) == Part(FlattenSeq(ss), Reach(ss, k), Len(FlattenSeq(ss)))

\* Behind none of them are all, and behind all of them is nothing.
LEMMA BeyondEnds ==
  ASSUME NEW S, NEW ss \in Seq(Seq(S))
  PROVE  Beyond(ss, 0) = FlattenSeq(ss) /\ Beyond(ss, Len(ss)) = <<>>
<1> DEFINE w == FlattenSeq(ss)
<1>1. w \in Seq(S) /\ Reach(ss, 0) = 0 /\ Reach(ss, Len(ss)) = Len(w)
  BY FlattenType, ReachEnds
<1>2. Len(w) \in Nat
  BY <1>1, LenProperties
<1> HIDE DEF w
<1>3. Part(w, 0, Len(w)) = w
  <2>1. SubSeq(w, 1, Len(w)) = w
    BY <1>1, SubSeqFull
  <2> QED
    BY <2>1 DEF Part
<1>4. Part(w, Len(w), Len(w)) = <<>>
  BY <1>1, <1>2, PartEmpty
<1> QED
  BY <1>1, <1>3, <1>4 DEF Beyond, w

\* Behind the first h of them is the next one, and what is behind that.
LEMMA BeyondStep ==
  ASSUME NEW S, NEW ss \in Seq(Seq(S)), NEW h \in 0 .. Len(ss), NEW i \in 1 .. Len(ss),
         i = h + 1
  PROVE  /\ At(ss, i) \in Seq(S) /\ Beyond(ss, i) \in Seq(S)
         /\ Beyond(ss, h) = At(ss, i) \o Beyond(ss, i)
<1> DEFINE w == FlattenSeq(ss)
           t == At(ss, i)
           a == Reach(ss, h)
           b == Reach(ss, i)
           c == Len(w)
<1>1. /\ t \in Seq(S) /\ w \in Seq(S) /\ a \in Nat /\ b = a + Len(t) /\ b <= c
      /\ \A j \in 1 .. Len(t) : w[a + j] = t[j]
  BY ReachStep
<1>2. Len(t) \in Nat /\ c \in Nat
  BY <1>1, LenProperties
<1> HIDE DEF w, t, a, b
<1>3. b \in Nat /\ a <= b /\ c <= Len(w) /\ b <= Len(w) /\ b - a = Len(t)
  BY <1>1, <1>2
<1>4. Part(w, a, b) = t
  <2> DEFINE p == Part(w, a, b)
  <2>1. IsPart(p, S, w, a, b)
    BY <1>1, <1>3, PartIs
  <2> HIDE DEF p
  <2>2. p \in Seq(S) /\ Len(p) = Len(t) /\ \A j \in 1 .. Len(t) : p[j] = w[a + j]
    BY <1>3, <2>1 DEF IsPart
  <2>3. p = t
    BY <1>1, <2>2, SeqEqual
  <2> QED
    BY <2>3 DEF p
<1>5. Part(w, a, b) \o Part(w, b, c) = Part(w, a, c)
  BY <1>1, <1>2, <1>3, PartConcat
<1>6. Part(w, b, c) \in Seq(S)
  BY <1>1, <1>2, <1>3, PartLemma
<1> QED
  BY <1>1, <1>4, <1>5, <1>6 DEF Beyond, w, t, a, b

\* Induction down from n, and up to it.
LEMMA Downwards ==
  ASSUME NEW n \in Nat, NEW T, n \in T,
         \A h \in 0 .. n, i \in 1 .. n : i = h + 1 /\ i \in T => h \in T
  PROVE  \A k \in 0 .. n : k \in T
<1> DEFINE U == {j \in Nat : j <= n => n - j \in T}
<1>1. 0 \in U
  OBVIOUS
<1>2. ASSUME NEW j \in Nat, j \in U PROVE j + 1 \in U
  <2> SUFFICES ASSUME j + 1 <= n PROVE n - (j + 1) \in T
    OBVIOUS
  <2> DEFINE h == n - (j + 1)
             i == n - j
  <2>1. h \in 0 .. n /\ i \in 1 .. n /\ i = h + 1
    OBVIOUS
  <2>2. i \in T
    BY <1>2
  <2> HIDE DEF h, i
  <2>3. h \in T
    BY <2>1, <2>2
  <2> QED
    BY <2>3 DEF h
<1> HIDE DEF U
<1>3. \A j \in Nat : j \in U
  BY <1>1, <1>2, Induction
<1>4. ASSUME NEW k \in 0 .. n PROVE k \in T
  <2> DEFINE j == n - k
  <2>1. j \in Nat /\ j <= n /\ n - j = k
    OBVIOUS
  <2>2. j \in U
    BY <1>3, <2>1
  <2> HIDE DEF j
  <2> QED
    BY <2>1, <2>2 DEF U
<1> QED
  BY <1>4

\* Induction over the numbers up to n, from zero on.
LEMMA Upwards ==
  ASSUME NEW n \in Nat, NEW T, 0 \in T,
         \A h \in 0 .. n, i \in 1 .. n : i = h + 1 /\ h \in T => i \in T
  PROVE  \A k \in 0 .. n : k \in T
<1> DEFINE U == {j \in Nat : j <= n => j \in T}
<1>1. 0 \in U
  OBVIOUS
<1>2. ASSUME NEW j \in Nat, j \in U PROVE j + 1 \in U
  <2> SUFFICES ASSUME j + 1 <= n PROVE j + 1 \in T
    OBVIOUS
  <2> DEFINE i == j + 1
  <2>1. j \in 0 .. n /\ i \in 1 .. n /\ i = j + 1
    OBVIOUS
  <2>2. j \in T
    BY <1>2
  <2> HIDE DEF i
  <2>3. i \in T
    BY <2>1, <2>2
  <2> QED
    BY <2>3 DEF i
<1> HIDE DEF U
<1>3. \A j \in Nat : j \in U
  BY <1>1, <1>2, Induction
<1> QED
  BY <1>3 DEF U

\* What is behind the first h elements of a sequence.
LEMMA PartStep ==
  ASSUME NEW S, NEW s \in Seq(S), NEW h \in 0 .. Len(s), NEW i \in 1 .. Len(s), i = h + 1
  PROVE  /\ Part(s, i, Len(s)) \in Seq(S)
         /\ Part(s, h, Len(s)) = Cat(<<s[i]>>, Part(s, i, Len(s)))
<1> DEFINE n == Len(s)
<1>1. /\ n \in Nat /\ h \in Nat /\ i \in Nat /\ h <= i /\ i <= n /\ n <= Len(s) /\ i <= Len(s)
      /\ i - h = 1 /\ s[i] \in S
  BY LenProperties, ElementOfSeq
<1> HIDE DEF n
<1>2. Part(s, h, i) = <<s[i]>>
  <2> DEFINE p == Part(s, h, i)
             q == <<s[i]>>
  <2>1. IsPart(p, S, s, h, i)
    BY <1>1, PartIs
  <2>2. q \in Seq(S) /\ Len(q) = 1 /\ q[1] = s[i]
    BY <1>1, OneElement
  <2> HIDE DEF p, q
  <2>3. p \in Seq(S) /\ Len(p) = 1 /\ p[1] = s[i]
    BY <1>1, <2>1 DEF IsPart
  <2>4. p = q
    BY <2>2, <2>3, SeqEqual
  <2> QED
    BY <2>4 DEF p, q
<1>3. Part(s, h, i) \o Part(s, i, n) = Part(s, h, n)
  BY <1>1, PartConcat
<1>4. Part(s, i, n) \in Seq(S)
  BY <1>1, PartLemma
<1> QED
  BY <1>2, <1>3, <1>4 DEF Cat, n

\* All of a sequence.
LEMMA PartAll ==
  ASSUME NEW S, NEW s \in Seq(S)
  PROVE  Part(s, 0, Len(s)) = s /\ Part(s, Len(s), Len(s)) = <<>>
<1>1. SubSeq(s, 1, Len(s)) = s
  BY SubSeqFull
<1>2. Part(s, Len(s), Len(s)) = <<>>
  BY LenProperties, PartEmpty
<1> QED
  BY <1>1, <1>2 DEF Part


\* Induction over sequences, from the last element to the first.
LEMMA SeqInduction ==
  ASSUME NEW S, NEW T, <<>> \in T, \A e \in S, s \in Seq(S) : s \in T => Cat(<<e>>, s) \in T
  PROVE  \A s \in Seq(S) : s \in T
<1> SUFFICES ASSUME NEW s \in Seq(S) PROVE s \in T
  OBVIOUS
<1> DEFINE n == Len(s)
           U == {k \in 0 .. n : Part(s, k, n) \in T}
<1>1. n \in Nat /\ \A i \in 1 .. n : s[i] \in S
  BY LenProperties, ElementOfSeq
<1>2. Part(s, 0, n) = s /\ Part(s, n, n) = <<>>
  BY PartAll
<1>3. n \in U
  BY <1>1, <1>2
<1>4. ASSUME NEW h \in 0 .. n, NEW i \in 1 .. n, i = h + 1, i \in U PROVE h \in U
  <2>1. Part(s, i, n) \in T
    BY <1>4
  <2>2. Part(s, i, n) \in Seq(S) /\ Part(s, h, n) = Cat(<<s[i]>>, Part(s, i, n))
    BY <1>4, PartStep
  <2>3. Cat(<<s[i]>>, Part(s, i, n)) \in T
    BY <1>1, <2>1, <2>2
  <2> QED
    BY <2>2, <2>3
<1>5. \A k \in 0 .. n : k \in U
  <2> HIDE DEF U, n
  <2> QED
    BY <1>1, <1>3, <1>4, Downwards
<1>6. 0 \in 0 .. n
  BY <1>1
<1>7. 0 \in U
  <2> HIDE DEF U, n
  <2> QED
    BY <1>5, <1>6
<1> QED
  BY <1>2, <1>7

\* What stands in a sequence that has one more element in front.
IsCons(u, S, e, s, n) ==
  /\ u \in Seq(S) /\ n \in Nat /\ Len(s) = n /\ Len(u) = n + 1 /\ u[1] = e
  /\ \A h \in 0 .. n, i \in 1 .. n : i = h + 1 => At(u, i + 1) = s[i]

\* A sequence with one more element in front is one.
LEMMA ConsIs ==
  ASSUME NEW S, NEW e \in S, NEW s \in Seq(S), NEW u, u = Cat(<<e>>, s), NEW n, n = Len(s)
  PROVE  IsCons(u, S, e, s, n)
<1> DEFINE x == <<e>>
<1>1. x \in Seq(S) /\ Len(x) = 1 /\ x[1] = e /\ n \in Nat
  BY OneElement, LenProperties
<1> HIDE DEF x
<1>2. IsBehind(u, S, x, s, 1, n)
  <2> DEFINE one == Len(x)
  <2>1. u = x \o s
    BY DEF Cat, x
  <2> HIDE DEF one
  <2>2. IsBehind(u, S, x, s, one, n)
    BY <1>1, <2>1, BehindIs DEF one
  <2> QED
    BY <1>1, <2>2 DEF one
<1>3. /\ u \in Seq(S) /\ Len(u) = 1 + n
      /\ \A i \in 1 .. 1 : u[i] = x[i]
      /\ \A i \in 1 .. n : u[1 + i] = s[i]
  BY <1>2 DEF IsBehind
<1>4. u[1] = e
  BY <1>1, <1>3
<1>5. \A i \in 1 .. n : 1 + i = i + 1
  OBVIOUS
<1>6. \A h \in 0 .. n, i \in 1 .. n : i = h + 1 => At(u, i + 1) = s[i]
  BY <1>3, <1>5 DEF At
<1>7. Len(u) = n + 1
  BY <1>1, <1>3
<1> QED
  BY <1>1, <1>3, <1>4, <1>6, <1>7 DEF IsCons

\* One sequence behind the other, with one more in front.
LEMMA FlattenCons ==
  ASSUME NEW S, NEW t \in Seq(S), NEW ts \in Seq(Seq(S))
  PROVE  /\ Cat(<<t>>, ts) \in Seq(Seq(S)) /\ FlattenSeq(ts) \in Seq(S)
         /\ FlattenSeq(Cat(<<t>>, ts)) = Cat(t, FlattenSeq(ts))
<1> DEFINE n  == Len(ts)
           ss == Cat(<<t>>, ts)
           m  == n + 1
<1>1. IsCons(ss, Seq(S), t, ts, n)
  BY ConsIs
<1> HIDE DEF ss, n
<1>2. /\ ss \in Seq(Seq(S)) /\ n \in Nat /\ Len(ss) = m /\ ss[1] = t
      /\ \A h \in 0 .. n, i \in 1 .. n : i = h + 1 => At(ss, i + 1) = ts[i]
  BY <1>1 DEF IsCons
<1>3. PICK f : Joins(f, ss, S)
  BY <1>2, JoinsExist
<1>4. PICK g : Joins(g, ts, S)
  BY JoinsExist
<1>5. FlattenSeq(ss) = f[m] /\ FlattenSeq(ts) = g[n] /\ FlattenSeq(ts) \in Seq(S)
  <2>1. FlattenSeq(ss) = f[Len(ss)] /\ FlattenSeq(ts) = g[Len(ts)]
    BY <1>2, <1>3, <1>4, FlattenLemma
  <2> QED
    BY <1>2, <2>1, FlattenType DEF n
<1>6. /\ f[0] = <<>> /\ \A i \in 1 .. m : f[i] = f[i - 1] \o ss[i]
      /\ g \in [0 .. n -> Seq(S)] /\ g[0] = <<>> /\ \A i \in 1 .. n : g[i] = g[i - 1] \o ts[i]
  BY <1>2, <1>3, <1>4 DEF Joins, n
<1> DEFINE U == {k \in 0 .. n : f[k + 1] = Cat(t, g[k])}
<1>7. 0 \in U
  <2>1. 1 \in 1 .. m /\ 1 - 1 = 0 /\ 0 + 1 = 1 /\ 0 \in 0 .. n
    BY <1>2
  <2>2. f[1] = f[0] \o ss[1]
    BY <1>6, <2>1
  <2>3. f[1] = t
    BY <1>2, <1>6, <2>2, ConcatEmptySeq
  <2>4. Cat(t, g[0]) = t
    BY <1>6, ConcatEmptySeq DEF Cat
  <2> QED
    BY <2>1, <2>3, <2>4
<1>8. ASSUME NEW h \in 0 .. n, NEW i \in 1 .. n, i = h + 1, h \in U PROVE i \in U
  <2>1. f[i] = Cat(t, g[h])
    BY <1>8
  <2>2. i + 1 \in 1 .. m /\ (i + 1) - 1 = i /\ i - 1 = h /\ i \in 0 .. n
    BY <1>2, <1>8
  <2>3. f[i + 1] = f[i] \o ss[i + 1]
    BY <1>6, <2>2
  <2>4. ss[i + 1] = ts[i] /\ ts[i] \in Seq(S)
    <3>1. At(ss, i + 1) = ts[i]
      BY <1>2, <1>8
    <3>2. ts[i] \in Seq(S)
      BY ElementOfSeq DEF n
    <3> QED
      BY <3>1, <3>2 DEF At
  <2>5. g[i] = g[h] \o ts[i] /\ g[h] \in Seq(S)
    BY <1>6, <2>2
  <2> DEFINE a == g[h]
             b == ts[i]
  <2>6. f[i + 1] = Cat(Cat(t, a), b) /\ g[i] = Cat(a, b)
    BY <2>1, <2>3, <2>4, <2>5, Zenon DEF Cat
  <2>7. a \in Seq(S) /\ b \in Seq(S)
    BY <2>4, <2>5
  <2> HIDE DEF a, b
  <2>8. Cat(Cat(t, a), b) = Cat(t, Cat(a, b))
    BY <2>7, CatLemma
  <2> QED
    BY <2>2, <2>6, <2>8
<1>9. n \in U
  <2>1. \A k \in 0 .. n : k \in U
    <3> HIDE DEF U
    <3> QED
      BY <1>2, <1>7, <1>8, Upwards
  <2>2. n \in 0 .. n
    BY <1>2
  <2> HIDE DEF U
  <2> QED
    BY <2>1, <2>2
<1> QED
  BY <1>2, <1>5, <1>9 DEF ss, m

\* The reverse of a sequence, with one more element in front.
LEMMA ReverseCons ==
  ASSUME NEW S, NEW e \in S, NEW s \in Seq(S)
  PROVE  /\ Reverse(s) \in Seq(S)
         /\ Reverse(Cat(<<e>>, s)) = Cat(Reverse(s), <<e>>)
<1> DEFINE n == Len(s)
           m == n + 1
           u == Cat(<<e>>, s)
           x == <<e>>
           r == Reverse(s)
           v == Reverse(u)
           w == Cat(r, x)
<1>1. IsCons(u, S, e, s, n)
  BY ConsIs
<1>2. \A i \in 1 .. n : s[i] \in S
  BY ElementOfSeq
<1> HIDE DEF u
<1>3. /\ u \in Seq(S) /\ n \in Nat /\ Len(u) = m /\ u[1] = e
      /\ \A h \in 0 .. n, i \in 1 .. n : i = h + 1 => At(u, i + 1) = s[i]
  BY <1>1 DEF IsCons
<1>4. r = [i \in 1 .. n |-> s[(n - i) + 1]]
  BY Zenon DEF Reverse
<1>5. v = [i \in 1 .. m |-> u[(m - i) + 1]]
  BY <1>3, Zenon DEF Reverse
<1> HIDE DEF n, r, v
<1>6. r \in Seq(S) /\ Len(r) = n /\ \A i \in 1 .. n : r[i] = s[(n - i) + 1]
  <2>1. r \in [1 .. n -> S]
    BY <1>2, <1>3, <1>4
  <2> QED
    BY <1>3, <1>4, <2>1, SeqIs
<1>7. v \in Seq(S) /\ Len(v) = m /\ \A i \in 1 .. m : v[i] = u[(m - i) + 1]
  <2>1. m \in Nat /\ \A i \in 1 .. m : (m - i) + 1 \in 1 .. m
    BY <1>3
  <2>2. \A i \in 1 .. m : u[i] \in S
    BY <1>3, ElementOfSeq
  <2> HIDE DEF m
  <2>3. v \in [1 .. m -> S]
    BY <1>5, <2>1, <2>2
  <2> QED
    BY <1>5, <2>1, <2>3, SeqIs
<1>8. x \in Seq(S) /\ Len(x) = 1 /\ x[1] = e
  BY OneElement
<1> HIDE DEF x
<1>9. IsBehind(w, S, r, x, n, 1)
  <2> DEFINE one == Len(x)
             k == Len(r)
  <2>1. w = r \o x
    BY DEF Cat
  <2> HIDE DEF one, k, w
  <2>2. IsBehind(w, S, r, x, k, one)
    BY <1>6, <1>8, <2>1, BehindIs DEF k, one
  <2> QED
    BY <1>6, <1>8, <2>2 DEF k, one
<1> HIDE DEF w
<1>10. /\ w \in Seq(S) /\ Len(w) = n + 1
       /\ \A i \in 1 .. n : w[i] = r[i]
       /\ \A i \in 1 .. 1 : w[n + i] = x[i]
  BY <1>9 DEF IsBehind
<1>11. ASSUME NEW i \in 1 .. m PROVE v[i] = w[i]
  <2>1. CASE i = m
    <3>1. (m - i) + 1 = 1 /\ 1 \in 1 .. 1 /\ n + 1 = i
      BY <1>3, <2>1
    <3> QED
      BY <1>3, <1>7, <1>8, <1>10, <3>1
  <2>2. CASE i # m
    <3> DEFINE j == (n - i) + 1
               h == n - i
    <3>1. i \in 1 .. n /\ j \in 1 .. n /\ h \in 0 .. n /\ j = h + 1 /\ (m - i) + 1 = j + 1
      BY <1>3, <2>2
    <3>2. r[i] = s[j] /\ w[i] = r[i]
      BY <1>6, <1>10, <3>1
    <3>3. v[i] = u[j + 1]
      BY <1>7, <3>1
    <3> HIDE DEF j, h
    <3>4. At(u, j + 1) = s[j]
      BY <1>3, <3>1
    <3> QED
      BY <3>2, <3>3, <3>4 DEF At
  <2> QED
    BY <2>1, <2>2
<1>12. v = w
  BY <1>7, <1>10, <1>11, SeqEqual
<1> QED
  BY <1>6, <1>12 DEF v, w, u, x, r
=============================================================================
