--------------------------- MODULE ReplyTextProofs ---------------------------
(***************************************************************************)
(* Theorems about what becomes of the text of a reply, for any characters, *)
(* tags, replies and pieces: ReplyText, with the splitter and the cutter;  *)
(* and, at the end, about the styles remembered between replies:           *)
(* ReasoningStyle.                                                         *)
(*                                                                         *)
(* The splitter keeps a promise about the future: Outcome is what the      *)
(* whole reply would come to if a text x came next, and every turn of its  *)
(* loop leaves it as it is, for every x (EveryTurn).  The cutter can be    *)
(* stopped anywhere: what a text with more behind it gives is what the     *)
(* text gave and what the rest gives with the more (TakeResumed).          *)
(***************************************************************************)
EXTENDS ReplyText, ReasoningStyle, SequenceTheorems, FiniteSetTheorems,
        WellFoundedInduction, TLAPS

-----------------------------------------------------------------------------
(* Numbers and functions defined by recursion on them.                     *)

\* A set of numbers that is not empty has a least one.
LEMMA LeastNumber ==
  ASSUME NEW S \in SUBSET Nat, S # {}
  PROVE  \E x \in S : \A y \in S : x <= y
<1> DEFINE Below == {0..n : n \in S}
<1>1. Below \subseteq FiniteSubsetsOf(Nat) /\ Below # {}
  <2>1. ASSUME NEW n \in S PROVE 0..n \in SUBSET Nat /\ IsFiniteSet(0..n)
    BY FS_Interval
  <2> QED BY <2>1 DEF FiniteSubsetsOf
<1>2. PICK I \in Below : \A J \in Below : ~(<<J, I>> \in StrictSubsetOrdering(Nat))
  BY <1>1, WFMin, FS_StrictSubsetOrderingWellFounded
<1>3. PICK x \in S : I = 0..x
  OBVIOUS
<1>4. ASSUME NEW y \in S, y < x PROVE FALSE
  <2>1. 0..y \in Below /\ 0..y \subseteq 0..x /\ x \in 0..x /\ x \notin 0..y
    BY <1>4
  <2>2. <<0..y, I>> \in StrictSubsetOrdering(Nat)
    BY <1>3, <2>1 DEF StrictSubsetOrdering
  <2> QED BY <1>2, <2>1, <2>2
<1> QED BY <1>4

\* Induction up to n, over a set.
LEMMA UpTheNumbers ==
  ASSUME NEW n \in Nat, NEW S, 0 \in S, \A i \in 1..n : i - 1 \in S => i \in S
  PROVE  0..n \subseteq S
<1> DEFINE Out == {i \in 0..n : i \notin S}
<1> SUFFICES ASSUME Out # {} PROVE FALSE
  OBVIOUS
<1>1. PICK m \in Out : \A k \in Out : m <= k
  <2>1. Out \in SUBSET Nat
    OBVIOUS
  <2> HIDE DEF Out
  <2> QED BY <2>1, LeastNumber
<1>2. m \in 1..n /\ m - 1 \in 0..n /\ ~(m <= m - 1)
  BY <1>1
<1>3. m - 1 \in S
  BY <1>1, <1>2
<1> QED BY <1>1, <1>2, <1>3

\* f is made step by step.
Stepwise(f, n, base, step) ==
  f[0] = base /\ \A i \in 1..n : f[i] = step[i][f[i - 1]]

\* A value of T for each number up to n, each made from the one before.
LEMMA StepByStep ==
  ASSUME NEW n \in Nat, NEW T, NEW base \in T, NEW step \in [1..n -> [T -> T]]
  PROVE  \E f \in [0..n -> T] : Stepwise(f, n, base, step)
<1> DEFINE Made(f, m) == Stepwise(f, m, base, step)
           With == {m \in 0..n : \E f \in [0..m -> T] : Made(f, m)}
<1>1. 0 \in With
  <2>1. [i \in 0..0 |-> base] \in [0..0 -> T] /\ Made([i \in 0..0 |-> base], 0)
    BY DEF Stepwise
  <2>2. 0 \in 0..n
    OBVIOUS
  <2> HIDE DEF Made
  <2> QED BY <2>1, <2>2
<1>2. ASSUME NEW m \in 1..n, m - 1 \in With PROVE m \in With
  <2>1. PICK f \in [0..m - 1 -> T] : Made(f, m - 1)
    BY <1>2
  <2>2. m \in Nat /\ m - 1 \in 0..m - 1 /\ m > 0
    OBVIOUS
  <2> DEFINE new == step[m][f[m - 1]]
             g == [i \in 0..m |-> IF i < m THEN f[i] ELSE new]
  <2>3. new \in T
    <3>1. f[m - 1] \in T
      BY <2>1, <2>2
    <3> QED BY <3>1
  <2> HIDE DEF new
  <2>4. g \in [0..m -> T]
    <3>1. ASSUME NEW i \in 0..m PROVE g[i] \in T
      <4>1. CASE i < m
        <5>1. i \in 0..m - 1
          BY <4>1, <2>2
        <5> QED BY <4>1, <5>1, <2>1
      <4>2. CASE ~(i < m)
        BY <4>2, <2>3
      <4> QED BY <4>1, <4>2
    <3> QED BY <3>1
  <2>5. g[0] = base
    BY <2>1, <2>2 DEF Stepwise
  <2>6. ASSUME NEW i \in 1..m PROVE g[i] = step[i][g[i - 1]]
    <3>1. i - 1 \in 0..m /\ i - 1 < m /\ i \in 0..m
      BY <2>2
    <3>2. g[i - 1] = f[i - 1]
      BY <3>1
    <3>3. CASE i = m
      BY <3>1, <3>2, <3>3 DEF new
    <3>4. CASE i # m
      <4>1. i < m /\ i \in 1..m - 1
        BY <3>4, <2>2
      <4> QED BY <3>1, <3>2, <4>1, <2>1 DEF Stepwise
    <3> QED BY <3>3, <3>4
  <2>7. Made(g, m)
    BY <2>5, <2>6 DEF Stepwise
  <2> QED
    <3> HIDE DEF Made, g
    <3> QED BY <2>4, <2>7
<1>3. n \in With
  <2>1. 0..n \subseteq With
    <3> HIDE DEF With
    <3> QED BY <1>1, <1>2, UpTheNumbers
  <2> QED BY <2>1
<1> QED BY <1>3

-----------------------------------------------------------------------------
(* Text: what is where in it.                                              *)

Text == Seq(Chars)

\* A set of numbers that is not empty and goes no further than n has a greatest.
LEMMA GreatestNumber ==
  ASSUME NEW n \in Nat, NEW S \in SUBSET (0..n), S # {}
  PROVE  \E x \in S : \A y \in S : x >= y
<1> DEFINE R == {n - x : x \in S}
<1>1. R \in SUBSET Nat /\ R # {}
  <2>1. ASSUME NEW x \in S PROVE n - x \in Nat
    <3>1. x \in 0..n
      OBVIOUS
    <3> QED BY <3>1
  <2>2. PICK x \in S : TRUE
    OBVIOUS
  <2>3. n - x \in R
    OBVIOUS
  <2> QED BY <2>1, <2>3
<1>2. PICK r \in R : \A q \in R : r <= q
  <2> HIDE DEF R
  <2> QED BY <1>1, LeastNumber
<1>3. PICK x \in S : r = n - x
  OBVIOUS
<1>4. ASSUME NEW y \in S PROVE x >= y
  <2>1. n - x <= n - y
    BY <1>2, <1>3
  <2> QED BY <2>1
<1> QED BY <1>4

\* The parts of a text: a piece of it, what is left when n characters are
\* dropped, and two texts joined.
LEMMA Part ==
  ASSUME NEW s \in Text, NEW a \in Nat, NEW b \in Nat, a <= b, b <= Len(s)
  PROVE  /\ SubSeq(s, a + 1, b) \in Text /\ Len(SubSeq(s, a + 1, b)) = b - a
         /\ \A i \in 1..b - a : SubSeq(s, a + 1, b)[i] = s[a + i]
<1>1. Len(s) \in Nat /\ \A i \in a + 1..b : s[i] \in Chars
  BY DEF Text
<1>2. /\ SubSeq(s, a + 1, b) \in Seq(Chars)
      /\ Len(SubSeq(s, a + 1, b)) = IF a + 1 <= b THEN b - (a + 1) + 1 ELSE 0
      /\ \A i \in 1..b - (a + 1) + 1 : SubSeq(s, a + 1, b)[i] = s[a + 1 + i - 1]
  <2>1. a + 1 \in Int /\ b \in Int
    OBVIOUS
  <2> QED BY <1>1, <2>1, SubSeqProperties
<1>3. (IF a + 1 <= b THEN b - (a + 1) + 1 ELSE 0) = b - a /\ b - (a + 1) + 1 = b - a
  OBVIOUS
<1>4. \A i \in 1..b - a : a + 1 + i - 1 = a + i
  OBVIOUS
<1> QED BY <1>2, <1>3, <1>4 DEF Text

LEMMA Begun ==
  ASSUME NEW s \in Text, NEW n \in Nat, n <= Len(s)
  PROVE  /\ SubSeq(s, 1, n) \in Text /\ Len(SubSeq(s, 1, n)) = n
         /\ \A i \in 1..n : SubSeq(s, 1, n)[i] = s[i]
<1> DEFINE u == SubSeq(s, 1, n)
<1>1. /\ u \in Seq(Chars) /\ Len(u) = IF 1 <= n THEN n - 1 + 1 ELSE 0
      /\ \A i \in 1..n - 1 + 1 : u[i] = s[1 + i - 1]
  <2>1. Len(s) \in Nat /\ \A i \in 1..n : s[i] \in Chars
    BY DEF Text
  <2>2. 1 \in Int /\ n \in Int
    OBVIOUS
  <2> QED BY <2>1, <2>2, SubSeqProperties
<1> HIDE DEF u
<1>2. (IF 1 <= n THEN n - 1 + 1 ELSE 0) = n /\ n - 1 + 1 = n
  OBVIOUS
<1>3. \A i \in 1..n : 1 + i - 1 = i
  OBVIOUS
<1>4. u \in Text /\ Len(u) = n /\ \A i \in 1..n : u[i] = s[i]
  BY <1>1, <1>2, <1>3 DEF Text
<1> QED BY <1>4 DEF u

LEMMA Dropped ==
  ASSUME NEW s \in Text, NEW n \in Nat, n <= Len(s)
  PROVE  /\ Drop(s, n) \in Text /\ Len(Drop(s, n)) = Len(s) - n
         /\ \A i \in 1..Len(s) - n : Drop(s, n)[i] = s[n + i]
<1>1. Len(s) \in Nat
  BY DEF Text
<1> QED BY <1>1, Part DEF Drop

LEMMA Joined ==
  ASSUME NEW s \in Text, NEW t \in Text
  PROVE  /\ s \o t \in Text /\ Len(s \o t) = Len(s) + Len(t)
         /\ \A i \in 1..Len(s) : (s \o t)[i] = s[i]
         /\ \A i \in 1..Len(t) : (s \o t)[Len(s) + i] = t[i]
<1>1. Len(s) \in Nat /\ Len(t) \in Nat
  BY DEF Text
<1>2. /\ s \o t \in Text /\ Len(s \o t) = Len(s) + Len(t)
      /\ \A i \in 1..Len(s) + Len(t) :
           (s \o t)[i] = IF i <= Len(s) THEN s[i] ELSE t[i - Len(s)]
  BY ConcatProperties DEF Text
<1>3. ASSUME NEW i \in 1..Len(t) PROVE (s \o t)[Len(s) + i] = t[i]
  <2>1. Len(s) + i \in 1..Len(s) + Len(t) /\ ~(Len(s) + i <= Len(s))
        /\ Len(s) + i - Len(s) = i
    BY <1>1
  <2> QED BY <1>2, <2>1
<1>4. ASSUME NEW i \in 1..Len(s) PROVE (s \o t)[i] = s[i]
  <2>1. i \in 1..Len(s) + Len(t) /\ i <= Len(s)
    BY <1>1
  <2> QED BY <1>2, <2>1
<1> QED BY <1>2, <1>3, <1>4

\* Two texts with the same characters are one.
LEMMA SameText ==
  ASSUME NEW s \in Text, NEW t \in Text, Len(s) = Len(t),
         \A i \in 1..Len(s) : s[i] = t[i]
  PROVE  s = t
BY SeqEqual DEF Text

LEMMA Lengths == ASSUME NEW s \in Text
  PROVE Len(s) \in Nat /\ DOMAIN s = 1..Len(s) /\ \A i \in 1..Len(s) : s[i] \in Chars
BY DEF Text

LEMMA NoText == <<>> \in Text /\ Len(<<>>) = 0 /\ \A s \in Text : Len(s) = 0 => s = <<>>
BY DEF Text

\* What is cut from a joined text lies in the first or begins in it.
LEMMA PartOfJoined ==
  ASSUME NEW s \in Text, NEW t \in Text, NEW a \in Nat, NEW b \in Nat,
         a <= b, b <= Len(s)
  PROVE  SubSeq(s \o t, a + 1, b) = SubSeq(s, a + 1, b)
<1>1. /\ Len(s) \in Nat /\ Len(t) \in Nat /\ s \o t \in Text
      /\ Len(s \o t) = Len(s) + Len(t)
      /\ \A i \in 1..Len(s) : (s \o t)[i] = s[i]
  BY Joined, Lengths
<1>2. b <= Len(s \o t)
  BY <1>1
<1> DEFINE u == SubSeq(s \o t, a + 1, b)
           v == SubSeq(s, a + 1, b)
<1>3. /\ u \in Text /\ Len(u) = b - a /\ v \in Text /\ Len(v) = b - a
      /\ \A i \in 1..b - a : u[i] = (s \o t)[a + i] /\ v[i] = s[a + i]
  BY <1>1, <1>2, Part, ZenonT(60)
<1>4. \A i \in 1..b - a : a + i \in 1..Len(s)
  BY <1>1
<1> HIDE DEF u, v
<1>5. u = v
  BY <1>1, <1>3, <1>4, SameText
<1> QED BY <1>5 DEF u, v

LEMMA DropOfJoined ==
  ASSUME NEW s \in Text, NEW t \in Text, NEW n \in Nat, n <= Len(s)
  PROVE  Drop(s \o t, n) = Drop(s, n) \o t
<1>1. /\ Len(s) \in Nat /\ Len(t) \in Nat /\ s \o t \in Text
      /\ Len(s \o t) = Len(s) + Len(t)
      /\ \A i \in 1..Len(s) : (s \o t)[i] = s[i]
      /\ \A i \in 1..Len(t) : (s \o t)[Len(s) + i] = t[i]
  BY Joined, Lengths
<1>2. n <= Len(s \o t)
  BY <1>1
<1>3. /\ Drop(s, n) \in Text /\ Len(Drop(s, n)) = Len(s) - n
      /\ \A i \in 1..Len(s) - n : Drop(s, n)[i] = s[n + i]
  BY Dropped
<1> DEFINE u == Drop(s \o t, n)
           d == Drop(s, n)
           v == d \o t
<1>4. /\ u \in Text /\ Len(u) = Len(s) + Len(t) - n
      /\ \A i \in 1..Len(s) + Len(t) - n : u[i] = (s \o t)[n + i]
  <2> DEFINE w == s \o t
  <2>1. w \in Text /\ n <= Len(w) /\ Len(w) = Len(s) + Len(t)
    BY <1>1, <1>2
  <2> HIDE DEF w
  <2>2. /\ Drop(w, n) \in Text /\ Len(Drop(w, n)) = Len(w) - n
        /\ \A i \in 1..Len(w) - n : Drop(w, n)[i] = w[n + i]
    BY <2>1, Dropped
  <2> QED BY <2>1, <2>2 DEF w
<1>5. /\ v \in Text /\ Len(v) = Len(s) - n + Len(t)
      /\ \A i \in 1..Len(s) - n : v[i] = d[i]
      /\ \A i \in 1..Len(t) : v[Len(s) - n + i] = t[i]
  <2> HIDE DEF d
  <2>1. d \in Text /\ Len(d) = Len(s) - n
    BY <1>3 DEF d
  <2>2. /\ v \in Text /\ Len(v) = Len(d) + Len(t)
        /\ \A i \in 1..Len(d) : v[i] = d[i]
        /\ \A i \in 1..Len(t) : v[Len(d) + i] = t[i]
    BY <2>1, Joined
  <2> QED BY <2>1, <2>2
<1> HIDE DEF u, v, d
<1>6. ASSUME NEW i \in 1..Len(s) + Len(t) - n PROVE u[i] = v[i]
  <2>1. CASE i <= Len(s) - n
    <3>1. i \in 1..Len(s) - n /\ n + i \in 1..Len(s)
      BY <1>1, <2>1
    <3> QED BY <1>1, <1>3, <1>4, <1>5, <3>1 DEF d
  <2>2. CASE ~(i <= Len(s) - n)
    <3> DEFINE j == i - (Len(s) - n)
    <3>1. j \in 1..Len(t) /\ n + i = Len(s) + j /\ i = Len(s) - n + j
      BY <1>1, <2>2
    <3> HIDE DEF j
    <3>2. u[i] = (s \o t)[Len(s) + j] /\ v[i] = t[j]
      BY <1>4, <1>5, <3>1
    <3> QED BY <1>1, <3>1, <3>2
  <2> QED BY <2>1, <2>2
<1>7. Len(u) = Len(v) /\ \A i \in 1..Len(u) : u[i] = v[i]
  <2>1. Len(s) + Len(t) - n = Len(s) - n + Len(t)
    BY <1>1
  <2> QED BY <1>4, <1>5, <1>6, <2>1
<1>8. u = v
  BY <1>4, <1>5, <1>7, SameText
<1> QED BY <1>8 DEF u, v, d

\* A piece of what is left lies further on in the whole.
LEMMA PartOfDropped ==
  ASSUME NEW s \in Text, NEW n \in Nat, NEW a \in Nat, NEW b \in Nat,
         a <= b, n + b <= Len(s)
  PROVE  SubSeq(Drop(s, n), a + 1, b) = SubSeq(s, n + a + 1, n + b)
<1>1. Len(s) \in Nat /\ n <= Len(s)
  BY Lengths
<1> DEFINE d == Drop(s, n)
           u == SubSeq(d, a + 1, b)
           v == SubSeq(s, n + a + 1, n + b)
<1>2. /\ d \in Text /\ Len(d) = Len(s) - n
      /\ \A i \in 1..Len(s) - n : d[i] = s[n + i]
  BY <1>1, Dropped
<1> HIDE DEF d
<1>3. b <= Len(d)
  BY <1>1, <1>2
<1>4. u \in Text /\ Len(u) = b - a /\ \A i \in 1..b - a : u[i] = d[a + i]
  BY <1>2, <1>3, Part
<1>5. v \in Text /\ Len(v) = b - a /\ \A i \in 1..b - a : v[i] = s[n + a + i]
  <2> DEFINE x == n + a
             y == n + b
  <2>1. x \in Nat /\ y \in Nat /\ x <= y /\ y <= Len(s) /\ y - x = b - a
    OBVIOUS
  <2>2. v = SubSeq(s, x + 1, y)
    OBVIOUS
  <2> HIDE DEF x, y, v
  <2>3. v \in Text /\ Len(v) = y - x /\ \A i \in 1..y - x : v[i] = s[x + i]
    BY <2>1, <2>2, Part
  <2> QED BY <2>1, <2>3 DEF x
<1> HIDE DEF u, v
<1>6. \A i \in 1..b - a : a + i \in 1..Len(s) - n /\ n + (a + i) = n + a + i
  BY <1>1
<1>7. \A i \in 1..b - a : u[i] = v[i]
  <2>1. ASSUME NEW i \in 1..b - a PROVE u[i] = v[i]
    <3>1. d[a + i] = s[n + (a + i)]
      BY <1>2, <1>6
    <3> QED BY <1>4, <1>5, <1>6, <3>1
  <2> QED BY <2>1
<1>8. u = v
  BY <1>4, <1>5, <1>7, SameText, SMTT(60)
<1> QED BY <1>8 DEF u, v, d

LEMMA DropTwice ==
  ASSUME NEW s \in Text, NEW n \in Nat, NEW m \in Nat, n + m <= Len(s)
  PROVE  Drop(Drop(s, n), m) = Drop(s, n + m)
<1>1. Len(s) \in Nat /\ n <= Len(s)
  BY Lengths
<1>2. Len(Drop(s, n)) = Len(s) - n
  BY <1>1, Dropped
<1> DEFINE b == Len(s) - n
<1>3. b \in Nat /\ m <= b /\ n + b <= Len(s) /\ n + b = Len(s)
  BY <1>1
<1> HIDE DEF b
<1>4. SubSeq(Drop(s, n), m + 1, b) = SubSeq(s, n + m + 1, n + b)
  <2>1. b \in Nat /\ m <= b /\ n + b <= Len(s)
    BY <1>3
  <2> QED BY ONLY <2>1, PartOfDropped, s \in Text, n \in Nat, m \in Nat
<1> QED BY <1>2, <1>3, <1>4 DEF Drop, b

\* A text is its beginning and the rest.
LEMMA BeginningAndRest ==
  ASSUME NEW s \in Text, NEW n \in Nat, n <= Len(s)
  PROVE  s = SubSeq(s, 1, n) \o Drop(s, n)
<1>1. Len(s) \in Nat /\ 1 \in 1..Len(s) + 1 /\ n \in 1 - 1..Len(s) /\ Len(s) \in n..Len(s)
  BY Lengths
<1>2. SubSeq(s, 1, n) \o SubSeq(s, n + 1, Len(s)) = SubSeq(s, 1, Len(s))
  BY <1>1, ConcatAdjacentSubSeq DEF Text
<1>3. SubSeq(s, 1, Len(s)) = s
  BY SubSeqFull DEF Text
<1> QED BY <1>2, <1>3 DEF Drop

LEMMA JoinedTwice ==
  ASSUME NEW s \in Text, NEW t \in Text, NEW u \in Text
  PROVE  (s \o t) \o u = s \o (t \o u)
BY ConcatAssociative DEF Text

LEMMA JoinedWithNone ==
  ASSUME NEW s \in Text
  PROVE  s \o <<>> = s /\ <<>> \o s = s
BY ConcatEmptySeq DEF Text

-----------------------------------------------------------------------------
(* Tags in a text: str.find, startswith, _partial_tag and lstrip.          *)

\* tag stands behind the first k characters.
At(s, k, tag) ==
  k + Len(tag) <= Len(s) /\ \A j \in 1..Len(tag) : s[k + j] = tag[j]

LEMMA AtIsPart ==
  ASSUME NEW s \in Text, NEW tag \in Text, NEW k \in Nat, k + Len(tag) <= Len(s)
  PROVE  SubSeq(s, k + 1, k + Len(tag)) = tag <=> At(s, k, tag)
<1>1. Len(s) \in Nat /\ Len(tag) \in Nat
  BY Lengths
<1> DEFINE b == k + Len(tag)
           u == SubSeq(s, k + 1, b)
<1>2. b \in Nat /\ k <= b /\ b <= Len(s) /\ b - k = Len(tag)
  BY <1>1
<1> HIDE DEF b
<1>3. u \in Text /\ Len(u) = b - k /\ \A i \in 1..b - k : u[i] = s[k + i]
  BY <1>2, Part
<1> HIDE DEF u
<1>4. u = tag <=> \A i \in 1..Len(tag) : u[i] = tag[i]
  BY <1>2, <1>3, SameText
<1>5. u = tag <=> At(s, k, tag)
  BY <1>2, <1>3, <1>4 DEF At
<1> QED BY <1>5 DEF u, b

\* str.find: 0 when there is no tag, else the place of the first.
LEMMA Found ==
  ASSUME NEW s \in Text, NEW tag \in Text, Len(tag) > 0
  PROVE  /\ Find(s, tag) \in Nat
         /\ Find(s, tag) = 0 => \A k \in Nat : ~At(s, k, tag)
         /\ Find(s, tag) > 0 =>
              /\ At(s, Find(s, tag) - 1, tag)
              /\ \A k \in Nat : k < Find(s, tag) - 1 => ~At(s, k, tag)
<1>1. Len(s) \in Nat /\ Len(tag) \in Nat
  BY Lengths
<1> DEFINE places == {i \in 1..(Len(s) - Len(tag) + 1) :
                        SubSeq(s, i, i + Len(tag) - 1) = tag}
<1>2. ASSUME NEW k \in Nat, At(s, k, tag) PROVE k + 1 \in places
  <2>1. k + Len(tag) <= Len(s)
    BY <1>2 DEF At
  <2>2. k + 1 \in 1..(Len(s) - Len(tag) + 1) /\ k + 1 + Len(tag) - 1 = k + Len(tag)
    BY <1>1, <2>1
  <2>3. SubSeq(s, k + 1, k + Len(tag)) = tag
    BY <1>2, <2>1, AtIsPart
  <2> QED BY <2>2, <2>3
<1>3. ASSUME NEW i \in places PROVE i - 1 \in Nat /\ At(s, i - 1, tag)
  <2> DEFINE k == i - 1
  <2>1. i \in 1..(Len(s) - Len(tag) + 1) /\ SubSeq(s, i, i + Len(tag) - 1) = tag
    OBVIOUS
  <2>2. k \in Nat /\ i = k + 1 /\ i + Len(tag) - 1 = k + Len(tag) /\ k + Len(tag) <= Len(s)
    BY <1>1, <2>1
  <2> HIDE DEF k
  <2>3. SubSeq(s, k + 1, k + Len(tag)) = tag
    BY <2>1, <2>2
  <2>4. At(s, k, tag)
    BY <2>2, <2>3, AtIsPart
  <2> QED BY <2>2, <2>4 DEF k
<1>4. places \in SUBSET Nat
  OBVIOUS
<1>5. Find(s, tag) = IF places = {} THEN 0 ELSE Min(places)
  BY DEF Find
<1> HIDE DEF places
<1>6. CASE places = {}
  BY <1>2, <1>5, <1>6
<1>7. CASE places # {}
  <2>1. PICK x \in places : \A y \in places : x <= y
    BY <1>4, <1>7, LeastNumber
  <2>2. Min(places) \in places /\ \A y \in places : Min(places) <= y
    BY <2>1 DEF Min
  <2> DEFINE m == Min(places)
  <2> HIDE DEF m
  <2>3. m \in places /\ m \in Nat /\ \A y \in places : m <= y
    BY <1>4, <2>2 DEF m
  <2>4. m - 1 \in Nat /\ At(s, m - 1, tag)
    BY <1>3, <2>3
  <2>5. ASSUME NEW k \in Nat, k < m - 1, At(s, k, tag) PROVE FALSE
    <3>1. m <= k + 1
      BY <1>2, <2>3, <2>5
    <3> QED BY <2>3, <2>5, <3>1
  <2>6. Find(s, tag) = m
    BY <1>5, <1>7 DEF m
  <2>7. m > 0
    BY <2>3, <2>4
  <2> QED BY <2>3, <2>4, <2>5, <2>6, <2>7
<1> QED BY <1>6, <1>7

LEMMA FoundAt ==
  ASSUME NEW s \in Text, NEW tag \in Text, Len(tag) > 0,
         NEW k \in Nat, At(s, k, tag), \A j \in Nat : j < k => ~At(s, j, tag)
  PROVE  Find(s, tag) = k + 1
<1> DEFINE i == Find(s, tag)
<1>1. i \in Nat /\ i # 0
  BY Found
<1>2. At(s, i - 1, tag) /\ \A j \in Nat : j < i - 1 => ~At(s, j, tag)
  BY <1>1, Found
<1> HIDE DEF i
<1>3. i - 1 \in Nat
  BY <1>1
<1>4. ~(k < i - 1) /\ ~(i - 1 < k)
  BY <1>2, <1>3
<1>5. i = k + 1
  BY <1>1, <1>4
<1> QED BY <1>5 DEF i

LEMMA NotFound ==
  ASSUME NEW s \in Text, NEW tag \in Text, Len(tag) > 0,
         \A k \in Nat : ~At(s, k, tag)
  PROVE  Find(s, tag) = 0
<1> DEFINE i == Find(s, tag)
<1>1. i \in Nat /\ (i > 0 => At(s, i - 1, tag))
  BY Found
<1> HIDE DEF i
<1>2. i > 0 => i - 1 \in Nat
  BY <1>1
<1>3. i = 0
  BY <1>1, <1>2
<1> QED BY <1>3 DEF i

\* A tag in the first of two texts is one of both, and one that ends there is
\* one of the first; what stands in what is left stands further on in the whole.
LEMMA AtInJoined ==
  ASSUME NEW s \in Text, NEW x \in Text, NEW tag \in Text, NEW k \in Nat,
         k + Len(tag) <= Len(s)
  PROVE  At(s \o x, k, tag) <=> At(s, k, tag)
<1>1. /\ Len(s) \in Nat /\ Len(x) \in Nat /\ Len(tag) \in Nat
      /\ Len(s \o x) = Len(s) + Len(x)
      /\ \A i \in 1..Len(s) : (s \o x)[i] = s[i]
  BY Joined, Lengths
<1>2. \A j \in 1..Len(tag) : k + j \in 1..Len(s)
  BY <1>1
<1>3. k + Len(tag) <= Len(s \o x)
  BY <1>1
<1> QED BY <1>1, <1>2, <1>3 DEF At

LEMMA AtInDropped ==
  ASSUME NEW s \in Text, NEW tag \in Text, NEW n \in Nat, n <= Len(s), NEW k \in Nat
  PROVE  At(Drop(s, n), k, tag) <=> At(s, n + k, tag)
<1>1. /\ Len(s) \in Nat /\ Len(tag) \in Nat
      /\ Len(Drop(s, n)) = Len(s) - n
      /\ \A i \in 1..Len(s) - n : Drop(s, n)[i] = s[n + i]
  BY Dropped, Lengths
<1>2. k + Len(tag) <= Len(Drop(s, n)) <=> n + k + Len(tag) <= Len(s)
  BY <1>1
<1>3. ASSUME k + Len(tag) <= Len(s) - n, NEW j \in 1..Len(tag)
      PROVE  Drop(s, n)[k + j] = s[n + k + j]
  <2>1. k + j \in 1..Len(s) - n /\ n + (k + j) = n + k + j
    BY <1>1, <1>3
  <2> QED BY <1>1, <2>1
<1> QED BY <1>1, <1>2, <1>3 DEF At

LEMMA FindInJoined ==
  ASSUME NEW s \in Text, NEW x \in Text, NEW tag \in Text, Len(tag) > 0,
         Find(s, tag) > 0
  PROVE  Find(s \o x, tag) = Find(s, tag)
<1> DEFINE k == Find(s, tag) - 1
<1>1. /\ Find(s, tag) \in Nat /\ k \in Nat /\ At(s, k, tag)
      /\ \A j \in Nat : j < k => ~At(s, j, tag)
  BY Found
<1>2. Len(tag) \in Nat /\ Len(s) \in Nat /\ s \o x \in Text
  BY Lengths, Joined
<1>3. k + Len(tag) <= Len(s)
  BY <1>1 DEF At
<1> HIDE DEF k
<1>4. At(s \o x, k, tag)
  BY <1>1, <1>3, AtInJoined
<1>5. ASSUME NEW j \in Nat, j < k PROVE ~At(s \o x, j, tag)
  <2>1. j + Len(tag) <= Len(s)
    BY <1>1, <1>2, <1>3, <1>5
  <2> QED BY <1>1, <1>5, <2>1, AtInJoined
<1>6. Find(s \o x, tag) = k + 1
  BY <1>1, <1>2, <1>4, <1>5, FoundAt
<1> QED BY <1>1, <1>6 DEF k

\* s ends with the first n characters of tag.
Ends(s, n, tag) == n <= Len(s) /\ \A j \in 1..n : s[Len(s) - n + j] = tag[j]

LEMMA EndsIsPart ==
  ASSUME NEW s \in Text, NEW tag \in Text, NEW n \in Nat, n <= Len(s), n <= Len(tag)
  PROVE  Drop(s, Len(s) - n) = SubSeq(tag, 1, n) <=> Ends(s, n, tag)
<1>1. Len(s) \in Nat /\ Len(tag) \in Nat
  BY Lengths
<1> DEFINE m == Len(s) - n
           u == Drop(s, m)
           v == SubSeq(tag, 1, n)
<1>2. m \in Nat /\ m <= Len(s) /\ Len(s) - m = n
  BY <1>1
<1> HIDE DEF m
<1>3. u \in Text /\ Len(u) = n /\ \A i \in 1..n : u[i] = s[m + i]
  BY <1>2, Dropped
<1>4. v \in Text /\ Len(v) = n /\ \A i \in 1..n : v[i] = tag[i]
  BY <1>1, Begun
<1> HIDE DEF u, v
<1>5. u = v <=> \A i \in 1..n : s[m + i] = tag[i]
  BY <1>3, <1>4, SameText
<1>6. u = v <=> Ends(s, n, tag)
  BY <1>5 DEF Ends, m
<1> QED BY <1>6 DEF u, v, m

\* _partial_tag is the greatest of them that is not the whole tag.
LEMMA Partial ==
  ASSUME NEW s \in Text, NEW tag \in Text, Len(tag) > 0
  PROVE  /\ PartialTag(s, tag) \in Nat /\ PartialTag(s, tag) < Len(tag)
         /\ PartialTag(s, tag) <= Len(s) /\ Ends(s, PartialTag(s, tag), tag)
         /\ \A n \in Nat : n < Len(tag) /\ Ends(s, n, tag) => n <= PartialTag(s, tag)
<1>1. Len(s) \in Nat /\ Len(tag) \in Nat
  BY Lengths
<1> DEFINE S == {0} \cup {n \in 1..(Len(tag) - 1) :
                  n <= Len(s) /\ Drop(s, Len(s) - n) = SubSeq(tag, 1, n)}
<1>2. ASSUME NEW n \in Nat PROVE n \in S <=> n < Len(tag) /\ Ends(s, n, tag)
  <2>1. CASE n = 0
    BY <1>1, <2>1 DEF Ends
  <2>2. CASE n # 0
    <3>1. n \in S <=> n \in 1..(Len(tag) - 1) /\ n <= Len(s)
                      /\ Drop(s, Len(s) - n) = SubSeq(tag, 1, n)
      BY <2>2
    <3>2. n \in 1..(Len(tag) - 1) <=> n < Len(tag)
      BY <1>1, <2>2
    <3>3. Ends(s, n, tag) => n <= Len(s)
      BY DEF Ends
    <3>4. n < Len(tag) /\ n <= Len(s) =>
            (Drop(s, Len(s) - n) = SubSeq(tag, 1, n) <=> Ends(s, n, tag))
      <4>1. n < Len(tag) => n <= Len(tag)
        BY <1>1
      <4> QED BY <4>1, EndsIsPart
    <3> HIDE DEF S
    <3> QED BY <3>1, <3>2, <3>3, <3>4
  <2> QED BY <2>1, <2>2
<1>3. S \in SUBSET (0..Len(tag)) /\ S # {} /\ S \in SUBSET Nat
  BY <1>1
<1>4. PartialTag(s, tag) = Max(S)
  BY DEF PartialTag
<1> HIDE DEF S
<1>5. PICK x \in S : \A y \in S : x >= y
  BY <1>1, <1>3, GreatestNumber
<1>6. Max(S) \in S /\ \A y \in S : Max(S) >= y
  BY <1>5 DEF Max
<1> DEFINE m == Max(S)
<1> HIDE DEF m
<1>7. m \in S /\ m \in Nat /\ \A y \in S : m >= y
  BY <1>3, <1>6 DEF m
<1>8. m < Len(tag) /\ Ends(s, m, tag) /\ m <= Len(s)
  BY <1>2, <1>7 DEF Ends
<1>9. ASSUME NEW n \in Nat, n < Len(tag), Ends(s, n, tag) PROVE n <= m
  <2>1. m >= n
    BY <1>2, <1>7, <1>9
  <2> QED BY <1>7, <2>1
<1> QED BY <1>4, <1>7, <1>8, <1>9 DEF m

\* A tag of which the beginning is in s begins in what is held back of s.
LEMMA TagsBegin ==
  ASSUME NEW s \in Text, NEW x \in Text, NEW tag \in Text, Len(tag) > 0,
         Find(s, tag) = 0, NEW k \in Nat, At(s \o x, k, tag)
  PROVE  Len(s) - PartialTag(s, tag) <= k
<1>1. /\ Len(s) \in Nat /\ Len(tag) \in Nat
      /\ \A i \in 1..Len(s) : (s \o x)[i] = s[i]
  BY Joined, Lengths
<1>2. /\ PartialTag(s, tag) \in Nat
      /\ \A n \in Nat : n < Len(tag) /\ Ends(s, n, tag) => n <= PartialTag(s, tag)
  BY Partial
<1>3. CASE k + Len(tag) <= Len(s)
  BY <1>3, AtInJoined, Found
<1>4. CASE k >= Len(s)
  BY <1>1, <1>2, <1>4
<1>5. CASE ~(k + Len(tag) <= Len(s)) /\ k < Len(s)
  <2> DEFINE n == Len(s) - k
  <2>1. /\ n \in Nat /\ n < Len(tag) /\ n <= Len(s) /\ Len(s) - n = k
        /\ \A j \in 1..n : k + j \in 1..Len(s) /\ j \in 1..Len(tag)
    BY <1>1, <1>5
  <2> HIDE DEF n
  <2>2. \A j \in 1..n : s[k + j] = tag[j]
    BY <1>1, <2>1 DEF At
  <2>3. Ends(s, n, tag)
    BY <2>1, <2>2 DEF Ends
  <2>4. n <= PartialTag(s, tag)
    BY <1>2, <2>1, <2>3
  <2> QED BY <1>1, <1>2, <2>1, <2>4
<1> QED BY <1>1, <1>3, <1>4, <1>5

\* Without what is held back of s, its tags are found that much earlier, and the
\* same is held back of what comes.
LEMMA HeldBack ==
  ASSUME NEW s \in Text, NEW x \in Text, NEW tag \in Text, Len(tag) > 0,
         Find(s, tag) = 0, NEW m \in Nat, m = Len(s) - PartialTag(s, tag)
  PROVE  /\ Drop(s, m) \o x = Drop(s \o x, m) /\ m <= Len(s)
         /\ IF Find(s \o x, tag) = 0 THEN Find(Drop(s, m) \o x, tag) = 0
            ELSE /\ Find(s \o x, tag) - m \in Nat \ {0}
                 /\ Find(Drop(s, m) \o x, tag) = Find(s \o x, tag) - m
         /\ PartialTag(Drop(s, m) \o x, tag) = PartialTag(s \o x, tag)
         /\ PartialTag(s \o x, tag) <= Len(s \o x) - m
<1> DEFINE w == s \o x
           v == Drop(w, m)
           p == PartialTag(s, tag)
           q == PartialTag(w, tag)
<1>1. /\ Len(s) \in Nat /\ Len(x) \in Nat /\ Len(tag) \in Nat
      /\ w \in Text /\ Len(w) = Len(s) + Len(x)
      /\ \A i \in 1..Len(s) : w[i] = s[i]
  BY Joined, Lengths
<1>2. /\ p \in Nat /\ p <= Len(s)
      /\ \A n \in Nat : n < Len(tag) /\ Ends(s, n, tag) => n <= p
  BY Partial
<1>3. m <= Len(s) /\ Drop(s, m) \o x = v
  <2>1. m <= Len(s)
    BY <1>1, <1>2
  <2>2. Drop(s \o x, m) = Drop(s, m) \o x
    BY <2>1, DropOfJoined
  <2> QED BY <2>1, <2>2
<1> HIDE DEF w, v, p, q
<1>4. m <= Len(w) /\ m + p = Len(s) /\ m = Len(s) - p
  BY <1>1, <1>2, <1>3 DEF p
<1>5. v \in Text /\ Len(v) = Len(w) - m /\ \A i \in 1..Len(w) - m : v[i] = w[m + i]
  BY <1>1, <1>4, Dropped DEF v
<1>6. \A k \in Nat : At(v, k, tag) <=> At(w, m + k, tag)
  BY <1>1, <1>4, AtInDropped DEF v
<1>7. \A k \in Nat : At(w, k, tag) => m <= k
  BY TagsBegin DEF w
<1>8. IF Find(w, tag) = 0 THEN Find(v, tag) = 0
      ELSE Find(w, tag) - m \in Nat \ {0} /\ Find(v, tag) = Find(w, tag) - m
  <2>1. CASE Find(w, tag) = 0
    <3>1. \A k \in Nat : ~At(w, k, tag)
      BY <1>1, <2>1, Found
    <3>2. \A k \in Nat : ~At(v, k, tag)
      <4>1. ASSUME NEW k \in Nat PROVE ~At(v, k, tag)
        <5>1. m + k \in Nat
          OBVIOUS
        <5> QED BY <1>6, <3>1, <5>1
      <4> QED BY <4>1
    <3> QED BY <1>5, <2>1, <3>2, NotFound
  <2>2. CASE Find(w, tag) # 0
    <3> DEFINE k == Find(w, tag) - 1
    <3>1. /\ Find(w, tag) \in Nat /\ k \in Nat /\ At(w, k, tag)
          /\ \A j \in Nat : j < k => ~At(w, j, tag)
      BY <1>1, <2>2, Found
    <3> HIDE DEF k
    <3>2. m <= k
      BY <1>7, <3>1
    <3> DEFINE h == k - m
    <3>3. h \in Nat /\ m + h = k
      BY <3>1, <3>2
    <3> HIDE DEF h
    <3>4. At(v, h, tag)
      BY <1>6, <3>1, <3>3
    <3>5. ASSUME NEW j \in Nat, j < h PROVE ~At(v, j, tag)
      <4>1. m + j \in Nat /\ m + j < k
        BY <3>3, <3>5
      <4> QED BY <1>6, <3>1, <4>1
    <3>6. Find(v, tag) = h + 1
      BY <1>5, <3>3, <3>4, <3>5, FoundAt, SMTT(60)
    <3>7. Find(w, tag) = k + 1
      BY <3>1 DEF k
    <3>8. Find(w, tag) - m = h + 1 /\ h + 1 \in Nat \ {0}
      BY <3>1, <3>3, <3>7
    <3> QED BY <2>2, <3>6, <3>8
  <2> QED BY <2>1, <2>2
<1>9. /\ q \in Nat /\ q < Len(tag) /\ q <= Len(w) /\ Ends(w, q, tag)
      /\ \A n \in Nat : n < Len(tag) /\ Ends(w, n, tag) => n <= q
  BY <1>1, Partial DEF q
<1>10. q <= Len(w) - m
  <2>1. CASE q <= Len(x)
    BY <1>1, <1>2, <1>4, <1>9, <2>1
  <2>2. CASE ~(q <= Len(x))
    <3> DEFINE n == q - Len(x)
    <3>1. /\ n \in Nat /\ n < Len(tag) /\ n <= Len(s) /\ Len(w) - q = Len(s) - n
          /\ n <= q
      BY <1>1, <1>9, <2>2
    <3> HIDE DEF n
    <3>2. ASSUME NEW j \in 1..n PROVE s[Len(s) - n + j] = tag[j]
      <4>1. j \in 1..q /\ Len(s) - n + j \in 1..Len(s)
        BY <1>1, <1>9, <3>1
      <4>2. w[Len(s) - n + j] = tag[j]
        BY <1>9, <3>1, <4>1 DEF Ends
      <4> QED BY <1>1, <4>1, <4>2
    <3>3. n <= p
      BY <1>2, <3>1, <3>2 DEF Ends
    <3> QED BY <1>1, <1>2, <1>4, <1>9, <3>1, <3>3, SMTT(60) DEF n
  <2> QED BY <2>1, <2>2
<1>11. ASSUME NEW n \in Nat, n <= Len(w) - m PROVE Ends(v, n, tag) <=> Ends(w, n, tag)
  <2>1. Len(v) - n \in Nat /\ Len(w) - n = m + (Len(v) - n) /\ n <= Len(w) /\ n <= Len(v)
    BY <1>1, <1>4, <1>5, <1>11, SMTT(60)
  <2>2. ASSUME NEW j \in 1..n PROVE v[Len(v) - n + j] = w[Len(w) - n + j]
    <3>1. Len(v) - n + j \in 1..Len(w) - m /\ m + (Len(v) - n + j) = Len(w) - n + j
      <4>1. \A a, b \in Nat : a = b - m /\ n <= a =>
              a - n + j \in 1..b - m /\ m + (a - n + j) = b - n + j
        BY SMTT(60)
      <4>2. Len(v) \in Nat /\ Len(w) \in Nat
        BY <1>1, <1>5, Lengths
      <4> QED BY <1>5, <2>1, <4>1, <4>2
    <3> QED BY <1>5, <3>1
  <2> QED BY <2>1, <2>2 DEF Ends
<1>12. PartialTag(v, tag) = q
  <2> DEFINE r == PartialTag(v, tag)
  <2>1. /\ r \in Nat /\ r < Len(tag) /\ r <= Len(v) /\ Ends(v, r, tag)
        /\ \A n \in Nat : n < Len(tag) /\ Ends(v, n, tag) => n <= r
    BY <1>5, Partial
  <2> HIDE DEF r
  <2>2. r <= q
    BY <1>5, <1>9, <1>11, <2>1
  <2>3. q <= r
    BY <1>9, <1>10, <1>11, <2>1
  <2>4. r = q
    BY <1>9, <2>1, <2>2, <2>3
  <2> QED BY <2>4 DEF r
<1>13. Drop(s, m) \o x = Drop(w, m)
  BY <1>3 DEF v
<1> QED BY <1>3, <1>8, <1>10, <1>12, <1>13 DEF w, q

\* What is held back may become a tag, and is none yet.
LEMMA KeptIsPartial ==
  ASSUME NEW s \in Text, NEW tag \in Text, Len(tag) > 0,
         Find(s, tag) = 0, NEW m \in Nat, m = Len(s) - PartialTag(s, tag)
  PROVE  /\ PartialTag(Drop(s, m), tag) = Len(Drop(s, m))
         /\ Find(Drop(s, m), tag) = 0
         /\ Len(Drop(s, m)) = PartialTag(s, tag)
<1> DEFINE p == PartialTag(s, tag)
           v == Drop(s, m)
<1>1. Len(s) \in Nat /\ p \in Nat /\ p <= Len(s) /\ p < Len(tag) /\ Ends(s, p, tag)
  BY Lengths, Partial
<1> HIDE DEF p
<1>2. m <= Len(s) /\ Len(s) - m = p /\ Len(s) - p = m
  BY <1>1 DEF p
<1>3. v \in Text /\ Len(v) = p /\ \A i \in 1..p : v[i] = s[m + i]
  BY <1>2, Dropped
<1>4. ASSUME NEW k \in Nat, At(v, k, tag) PROVE FALSE
  <2>1. At(s, m + k, tag)
    BY <1>2, <1>4, AtInDropped
  <2> QED BY <2>1, Found
<1> HIDE DEF v
<1>5. Find(v, tag) = 0
  BY <1>3, <1>4, NotFound
<1>6. Ends(v, p, tag)
  <2>1. \A j \in 1..p : v[p - p + j] = tag[j]
    <3>1. ASSUME NEW j \in 1..p PROVE v[p - p + j] = tag[j]
      <4>1. p - p + j = j
        BY <1>1
      <4> QED BY <1>1, <1>2, <1>3, <4>1 DEF Ends
    <3> QED BY <3>1
  <2> QED BY <1>1, <1>3, <2>1 DEF Ends
<1>7. PartialTag(v, tag) = p
  <2>1. /\ PartialTag(v, tag) \in Nat /\ PartialTag(v, tag) <= Len(v)
        /\ p <= PartialTag(v, tag)
    BY <1>1, <1>3, <1>6, Partial
  <2> QED BY <1>1, <1>3, <2>1
<1> QED BY <1>3, <1>5, <1>7 DEF v, p

\* What is but the beginning of a tag has no tag in it.
LEMMA NoTagInPartial ==
  ASSUME NEW s \in Text, NEW tag \in Text, Len(tag) > 0, PartialTag(s, tag) = Len(s)
  PROVE  Find(s, tag) = 0
<1>1. Len(s) < Len(tag) /\ Len(s) \in Nat /\ Len(tag) \in Nat
  BY Partial, Lengths
<1>2. \A k \in Nat : ~At(s, k, tag)
  BY <1>1 DEF At
<1> QED BY <1>2, NotFound

\* str.lstrip drops the white space before the first other character.
LEMMA Stripped ==
  ASSUME NEW s \in Text
  PROVE  \E n \in 0..Len(s) :
           /\ LStrip(s) = Drop(s, n)
           /\ \A i \in 1..n : s[i] = Space
           /\ n < Len(s) => s[n + 1] # Space
<1>1. Len(s) \in Nat
  BY Lengths
<1> DEFINE S == {n \in 0..Len(s) : \A i \in 1..n : s[i] = Space}
<1>2. 0 \in S /\ S \in SUBSET (0..Len(s)) /\ S \in SUBSET Nat
  BY <1>1
<1>3. LStrip(s) = Drop(s, Max(S))
  BY DEF LStrip
<1>4. \A n \in S : n \in 0..Len(s) /\ \A i \in 1..n : s[i] = Space
  OBVIOUS
<1>5. \A n \in 0..Len(s) : (\A i \in 1..n : s[i] = Space) => n \in S
  OBVIOUS
<1> HIDE DEF S
<1>6. PICK x \in S : \A y \in S : x >= y
  BY <1>1, <1>2, GreatestNumber
<1>7. Max(S) \in S /\ \A y \in S : Max(S) >= y
  BY <1>6 DEF Max
<1> DEFINE m == Max(S)
<1> HIDE DEF m
<1>8. m \in S /\ \A y \in S : m >= y
  BY <1>7 DEF m
<1>9. m \in 0..Len(s) /\ \A i \in 1..m : s[i] = Space
  BY <1>4, <1>8
<1>10. m < Len(s) => s[m + 1] # Space
  <2> SUFFICES ASSUME m < Len(s), s[m + 1] = Space PROVE FALSE
    OBVIOUS
  <2>1. \A i \in 1..m + 1 : s[i] = Space
    BY <1>9
  <2>2. m + 1 \in 0..Len(s)
    BY <1>1, <1>9
  <2>3. m + 1 \in S
    BY <1>5, <2>1, <2>2
  <2>4. m >= m + 1
    BY <1>8, <2>3
  <2> QED BY <1>9, <2>4
<1>11. LStrip(s) = Drop(s, m)
  BY <1>3 DEF m
<1> QED BY <1>9, <1>10, <1>11

LEMMA StrippedAt ==
  ASSUME NEW s \in Text, NEW n \in 0..Len(s), \A i \in 1..n : s[i] = Space,
         n < Len(s) => s[n + 1] # Space
  PROVE  LStrip(s) = Drop(s, n)
<1>1. Len(s) \in Nat
  BY Lengths
<1>2. PICK m \in 0..Len(s) : /\ LStrip(s) = Drop(s, m)
                             /\ \A i \in 1..m : s[i] = Space
                             /\ m < Len(s) => s[m + 1] # Space
  BY Stripped
<1>3. ~(m < n)
  <2>1. m < n => m < Len(s) /\ m + 1 \in 1..n
    BY <1>1
  <2> QED BY <1>2, <2>1
<1>4. ~(n < m)
  <2>1. n < m => n < Len(s) /\ n + 1 \in 1..m
    BY <1>1
  <2> QED BY <2>1, <1>2
<1>5. n = m
  BY <1>1, <1>3, <1>4
<1> QED BY <1>2, <1>5

LEMMA NothingToStrip ==
  ASSUME NEW s \in Text, Len(s) = 0
  PROVE  LStrip(s) = s
<1> DEFINE z == 0
<1>1. z \in 0..Len(s) /\ 1..z = {} /\ z = 0
  OBVIOUS
<1> HIDE DEF z
<1>2. LStrip(s) = Drop(s, z)
  BY <1>1, StrippedAt
<1>3. Drop(s, z) \in Text /\ Len(Drop(s, z)) = Len(s) - z
  BY <1>1, Dropped
<1>4. s = <<>> /\ Drop(s, z) = <<>>
  BY <1>1, <1>3, NoText
<1> QED BY <1>2, <1>4

\* As long as nothing else has come white space is dropped, and then no more.
LEMMA StripJoined ==
  ASSUME NEW s \in Text, NEW x \in Text
  PROVE  /\ LStrip(s) \in Text
         /\ LStrip(s \o x) = IF LStrip(s) = <<>> THEN LStrip(x) ELSE LStrip(s) \o x
<1>1. /\ Len(s) \in Nat /\ Len(x) \in Nat /\ s \o x \in Text
      /\ Len(s \o x) = Len(s) + Len(x)
      /\ \A i \in 1..Len(s) : (s \o x)[i] = s[i]
      /\ \A i \in 1..Len(x) : (s \o x)[Len(s) + i] = x[i]
  BY Joined, Lengths
<1>2. PICK n \in 0..Len(s) : /\ LStrip(s) = Drop(s, n)
                             /\ \A i \in 1..n : s[i] = Space
                             /\ n < Len(s) => s[n + 1] # Space
  BY Stripped
<1>3. LStrip(s) \in Text /\ Len(LStrip(s)) = Len(s) - n /\ n \in Nat /\ n <= Len(s)
  BY <1>1, <1>2, Dropped
<1>4. CASE n < Len(s)
  <2>1. LStrip(s) # <<>>
    BY <1>1, <1>3, <1>4, NoText
  <2>2. n \in 0..Len(s \o x) /\ n + 1 \in 1..Len(s) /\ \A i \in 1..n : i \in 1..Len(s)
    BY <1>1, <1>4
  <2>3. (\A i \in 1..n : (s \o x)[i] = Space) /\ (s \o x)[n + 1] # Space
    BY <1>1, <1>2, <1>4, <2>2
  <2>4. LStrip(s \o x) = Drop(s \o x, n)
    BY <1>1, <2>2, <2>3, StrippedAt
  <2>5. Drop(s \o x, n) = Drop(s, n) \o x
    BY <1>3, DropOfJoined
  <2> QED BY <1>2, <1>3, <2>1, <2>4, <2>5
<1>5. CASE ~(n < Len(s))
  <2>1. n = Len(s) /\ LStrip(s) = <<>>
    BY <1>1, <1>3, <1>5, NoText
  <2>2. PICK m \in 0..Len(x) : /\ LStrip(x) = Drop(x, m)
                               /\ \A i \in 1..m : x[i] = Space
                               /\ m < Len(x) => x[m + 1] # Space
    BY Stripped
  <2> DEFINE h == Len(s) + m
  <2>3. h \in 0..Len(s \o x) /\ h \in Nat /\ (h < Len(s \o x) => m + 1 \in 1..Len(x))
        /\ h + 1 = Len(s) + (m + 1)
    BY <1>1
  <2>4. ASSUME NEW i \in 1..h PROVE (s \o x)[i] = Space
    <3>1. CASE i \in 1..Len(s)
      BY <1>1, <1>2, <2>1, <3>1
    <3>2. CASE i \notin 1..Len(s)
      <4> DEFINE j == i - Len(s)
      <4>1. j \in 1..m /\ j \in 1..Len(x) /\ i = Len(s) + j
        BY <1>1, <3>2
      <4> HIDE DEF j
      <4> QED BY <1>1, <2>2, <4>1
    <3> QED BY <3>1, <3>2
  <2>5. h < Len(s \o x) => (s \o x)[h + 1] # Space
    <3>1. h < Len(s \o x) => m < Len(x)
      BY <1>1
    <3> QED BY <1>1, <2>2, <2>3, <3>1
  <2> HIDE DEF h
  <2>6. LStrip(s \o x) = Drop(s \o x, h)
    BY <1>1, <2>3, <2>4, <2>5, StrippedAt
  <2>7. Drop(s \o x, h) = Drop(x, m)
    <3>1. Drop(s \o x, Len(s)) = x
      <4>1. Drop(s \o x, Len(s)) = Drop(s, Len(s)) \o x
        <5>1. Len(s) \in Nat /\ Len(s) <= Len(s)
          BY <1>1
        <5> QED BY <5>1, DropOfJoined
      <4>2. Drop(s, Len(s)) = <<>>
        BY <1>2, <2>1
      <4> QED BY <4>1, <4>2, JoinedWithNone
    <3>2. Drop(Drop(s \o x, Len(s)), m) = Drop(s \o x, Len(s) + m)
      <4>1. Len(s) + m <= Len(s \o x) /\ m \in Nat
        BY <1>1
      <4> QED BY <1>1, <4>1, DropTwice
    <3> QED BY <3>1, <3>2 DEF h
  <2> QED BY <1>3, <2>1, <2>2, <2>6, <2>7
<1> QED BY <1>4, <1>5

\* The tags are text.
LEMMA Tags ==
  /\ OpenTag \in Text /\ Len(OpenTag) \in Nat /\ Len(OpenTag) > 1
  /\ \A i \in 1..Len(OpenTag) : OpenTag[i] # Space
  /\ CloseTag \in Text /\ Len(CloseTag) \in Nat /\ Len(CloseTag) > 1
  /\ Len(CloseTag) > 0 /\ Len(OpenTag) > 0
<1>1. Seq(Chars \ {Space}) \subseteq Seq(Chars)
  <2>1. ASSUME NEW s \in Seq(Chars \ {Space}) PROVE s \in Seq(Chars)
    <3>1. Chars \ {Space} \subseteq Chars
      OBVIOUS
    <3> QED BY <3>1, SeqMonotonic
  <2> QED BY <2>1
<1>2. \A i \in 1..Len(OpenTag) : OpenTag[i] \in Chars \ {Space}
  BY TagAssumption
<1>3. OpenTag \in Text /\ CloseTag \in Text /\ Len(OpenTag) > 1 /\ Len(CloseTag) > 1
  BY <1>1, TagAssumption DEF Text
<1>4. Len(OpenTag) \in Nat /\ Len(CloseTag) \in Nat
  BY <1>3, Lengths
<1> QED BY <1>2, <1>3, <1>4

LEMMA StartsIs ==
  ASSUME NEW s \in Text, NEW t \in Text
  PROVE  StartsWith(s, t) <=> Len(t) <= Len(s) /\ \A i \in 1..Len(t) : s[i] = t[i]
<1>1. Len(s) \in Nat /\ Len(t) \in Nat
  BY Lengths
<1>2. CASE Len(t) <= Len(s)
  <2> DEFINE u == SubSeq(s, 1, Len(t))
  <2>1. u \in Text /\ Len(u) = Len(t) /\ \A i \in 1..Len(t) : u[i] = s[i]
    BY <1>1, <1>2, Begun
  <2> HIDE DEF u
  <2>2. u = t <=> \A i \in 1..Len(t) : s[i] = t[i]
    BY <2>1, SameText
  <2> QED BY <1>2, <2>2 DEF StartsWith, u
<1>3. CASE ~(Len(t) <= Len(s))
  BY <1>3 DEF StartsWith
<1> QED BY <1>2, <1>3

\* What a text begins with it still begins with when more comes; and when it is
\* known to begin otherwise than with a tag, this too stays so.
LEMMA StartsJoined ==
  ASSUME NEW s \in Text, NEW x \in Text, NEW t \in Text
  PROVE  /\ StartsWith(s, t) => StartsWith(s \o x, t)
         /\ ~StartsWith(s, t) /\ ~StartsWith(t, s) =>
              ~StartsWith(s \o x, t) /\ ~StartsWith(t, s \o x)
<1>1. /\ Len(s) \in Nat /\ Len(x) \in Nat /\ Len(t) \in Nat
      /\ s \o x \in Text /\ Len(s \o x) = Len(s) + Len(x)
      /\ \A i \in 1..Len(s) : (s \o x)[i] = s[i]
  BY Joined, Lengths
<1>2. ASSUME StartsWith(s, t) PROVE StartsWith(s \o x, t)
  <2>1. Len(t) <= Len(s) /\ \A i \in 1..Len(t) : s[i] = t[i]
    BY <1>2, StartsIs
  <2>2. Len(t) <= Len(s \o x) /\ \A i \in 1..Len(t) : (s \o x)[i] = t[i]
    BY <1>1, <2>1
  <2> QED BY <1>1, <2>2, StartsIs
<1>3. ASSUME StartsWith(s \o x, t), ~StartsWith(s, t) PROVE StartsWith(t, s)
  <2>1. Len(t) <= Len(s \o x) /\ \A i \in 1..Len(t) : (s \o x)[i] = t[i]
    BY <1>1, <1>3, StartsIs
  <2>2. ~(Len(t) <= Len(s))
    BY <1>1, <1>3, <2>1, StartsIs
  <2>3. Len(s) <= Len(t) /\ \A i \in 1..Len(s) : t[i] = s[i]
    BY <1>1, <2>1, <2>2
  <2> QED BY <2>3, StartsIs
<1>4. ASSUME StartsWith(t, s \o x) PROVE StartsWith(t, s)
  <2>1. Len(s \o x) <= Len(t) /\ \A i \in 1..Len(s \o x) : t[i] = (s \o x)[i]
    BY <1>1, <1>4, StartsIs
  <2>2. Len(s) <= Len(t) /\ \A i \in 1..Len(s) : t[i] = s[i]
    BY <1>1, <2>1
  <2> QED BY <2>2, StartsIs
<1> QED BY <1>2, <1>3, <1>4

-----------------------------------------------------------------------------
(* The tags dropped from an answer.                                        *)

TagWork == [done : Text, todo : Text]

\* Where the first closing tag ends.
Behind(i) == i + Len(CloseTag) - 1

\* The text before and behind a closing tag is text, and shorter.
LEMMA AroundTag ==
  ASSUME NEW s \in Text, Find(s, CloseTag) # 0
  PROVE  LET i == Find(s, CloseTag)
         IN /\ i \in Nat \ {0} /\ Behind(i) \in Nat /\ Behind(i) <= Len(s)
            /\ SubSeq(s, 1, i - 1) \in Text /\ i - 1 <= Len(s)
            /\ Drop(s, Behind(i)) \in Text
            /\ Len(Drop(s, Behind(i))) < Len(s)
<1> DEFINE i == Find(s, CloseTag)
<1>1. Len(s) \in Nat /\ CloseTag \in Text /\ Len(CloseTag) \in Nat /\ Len(CloseTag) > 0
  BY Tags, Lengths
<1>2. i \in Nat /\ i > 0 /\ At(s, i - 1, CloseTag)
  BY <1>1, Found
<1>3. i - 1 + Len(CloseTag) <= Len(s)
  BY <1>2 DEF At
<1> HIDE DEF i
<1>4. /\ Behind(i) \in Nat /\ Behind(i) <= Len(s) /\ Len(s) - Behind(i) < Len(s)
      /\ i - 1 \in Nat /\ i - 1 <= Len(s)
  BY <1>1, <1>2, <1>3 DEF Behind
<1>5. Drop(s, Behind(i)) \in Text /\ Len(Drop(s, Behind(i))) = Len(s) - Behind(i)
  BY <1>4, Dropped
<1>6. SubSeq(s, 1, i - 1) \in Text
  BY <1>4, Begun
<1> QED BY <1>2, <1>4, <1>5, <1>6 DEF i

LEMMA DropTagIs ==
  ASSUME NEW f \in TagWork
  PROVE  /\ Find(f.todo, CloseTag) = 0 => DropTag(f) = f
         /\ Find(f.todo, CloseTag) # 0 =>
              DropTag(f) =
                [done |-> f.done \o SubSeq(f.todo, 1, Find(f.todo, CloseTag) - 1),
                 todo |-> Drop(f.todo, Behind(Find(f.todo, CloseTag)))]
         /\ DropTag(f) \in TagWork
<1>1. Find(f.todo, CloseTag) = 0 => DropTag(f) = f
  BY DEF DropTag
<1>2. ASSUME Find(f.todo, CloseTag) # 0
      PROVE  /\ DropTag(f) =
                  [done |-> f.done \o SubSeq(f.todo, 1, Find(f.todo, CloseTag) - 1),
                   todo |-> Drop(f.todo, Behind(Find(f.todo, CloseTag)))]
             /\ DropTag(f) \in TagWork
  <2> DEFINE i == Find(f.todo, CloseTag)
  <2>1. DropTag(f) = [done |-> f.done \o SubSeq(f.todo, 1, i - 1),
                      todo |-> Drop(f.todo, Behind(i))]
    BY <1>2 DEF DropTag, Behind
  <2>2. f.todo \in Text /\ f.done \in Text
    BY DEF TagWork
  <2>3. SubSeq(f.todo, 1, i - 1) \in Text /\ Drop(f.todo, Behind(i)) \in Text
    BY <1>2, <2>2, AroundTag
  <2>4. f.done \o SubSeq(f.todo, 1, i - 1) \in Text
    BY <2>2, <2>3, Joined
  <2> HIDE DEF i
  <2>5. DropTag(f) \in TagWork
    BY <2>1, <2>3, <2>4 DEF TagWork
  <2> QED BY <2>1, <2>5 DEF i
<1> QED BY <1>1, <1>2

\* The recursion of Untagged.
Dropping(f, s) ==
  /\ f \in [0..Len(s) -> TagWork]
  /\ f[0] = [done |-> <<>>, todo |-> s]
  /\ \A i \in 1..Len(s) : f[i] = DropTag(f[i - 1])

LEMMA UntaggedByDropping ==
  ASSUME NEW s \in Text
  PROVE  \E f : Dropping(f, s) /\ Untagged(s) = f[Len(s)].done \o f[Len(s)].todo
<1> DEFINE n == Len(s)
           base == [done |-> <<>>, todo |-> s]
           step == [i \in 1..n |-> [g \in TagWork |-> DropTag(g)]]
           Rec(f) == f = [i \in 0..n |-> IF i = 0 THEN base ELSE DropTag(f[i - 1])]
           dropping == CHOOSE f : Rec(f)
<1>0. n \in Nat
  BY Lengths
<1>1. base \in TagWork
  BY NoText DEF TagWork
<1>2. step \in [1..n -> [TagWork -> TagWork]]
  BY DropTagIs
<1>3. PICK f \in [0..n -> TagWork] : Stepwise(f, n, base, step)
  <2> HIDE DEF base, step, n
  <2> QED BY <1>0, <1>1, <1>2, StepByStep, Zenon
<1>4. Rec(f)
  <2>1. ASSUME NEW i \in 0..n, i # 0 PROVE f[i] = DropTag(f[i - 1])
    <3>1. i \in 1..n /\ i - 1 \in 0..n
      BY <1>0, <2>1
    <3>2. f[i - 1] \in TagWork
      BY <1>3, <3>1
    <3> QED BY <1>3, <3>1, <3>2 DEF Stepwise
  <2>2. f = [i \in 0..n |-> f[i]]
    BY <1>3
  <2> HIDE DEF n, base, step
  <2>3. \A i \in 0..n : f[i] = IF i = 0 THEN base ELSE DropTag(f[i - 1])
    BY <1>3, <2>1 DEF Stepwise
  <2> QED BY <2>2, <2>3
<1>5. Rec(dropping)
  <2> HIDE DEF Rec
  <2> QED BY <1>4
<1>6. \A i \in 0..n : dropping[i] = IF i = 0 THEN base ELSE DropTag(dropping[i - 1])
  <2> HIDE DEF dropping, base
  <2> QED BY <1>5
<1>7. dropping \in [0..n -> TagWork]
  <2> DEFINE S == {i \in 0..n : dropping[i] \in TagWork}
  <2>1. 0 \in S
    BY <1>0, <1>1, <1>6
  <2>2. ASSUME NEW i \in 1..n, i - 1 \in S PROVE i \in S
    <3>1. i \in 0..n /\ i # 0
      BY <1>0
    <3>2. dropping[i] = DropTag(dropping[i - 1])
      <4> HIDE DEF dropping, base, n
      <4> QED BY <1>6, <3>1
    <3> HIDE DEF dropping
    <3> QED BY <2>2, <3>1, <3>2, DropTagIs
  <2>3. 0..n \subseteq S
    <3> HIDE DEF S, n
    <3> QED BY <1>0, <2>1, <2>2, UpTheNumbers
  <2>4. dropping = [i \in 0..n |-> dropping[i]]
    <3> HIDE DEF dropping, base
    <3> QED BY <1>5
  <2> HIDE DEF dropping
  <2> QED BY <2>3, <2>4
<1>8. Untagged(s) = dropping[n].done \o dropping[n].todo
  BY DEF Untagged
<1> HIDE DEF dropping
<1>9. dropping[0] = base /\ \A i \in 1..n : dropping[i] = DropTag(dropping[i - 1])
  <2>1. 0 \in 0..n /\ \A i \in 1..n : i \in 0..n /\ i # 0
    BY <1>0
  <2> QED BY <1>6, <2>1
<1>10. Dropping(dropping, s)
  BY <1>7, <1>9 DEF Dropping
<1> QED BY <1>8, <1>10

\* A text without closing tags stays as it is.
LEMMA UntaggedSame ==
  ASSUME NEW s \in Text, Find(s, CloseTag) = 0
  PROVE  Untagged(s) = s
<1>1. PICK f : Dropping(f, s) /\ Untagged(s) = f[Len(s)].done \o f[Len(s)].todo
  BY UntaggedByDropping
<1>2. Len(s) \in Nat
  BY Lengths
<1> DEFINE base == [done |-> <<>>, todo |-> s]
           S == {i \in 0..Len(s) : f[i] = base}
<1>3. base \in TagWork /\ base.todo = s /\ base.done = <<>>
  BY NoText DEF TagWork
<1> HIDE DEF base
<1>4. 0 \in S
  BY <1>1, <1>2 DEF Dropping, base
<1>5. ASSUME NEW i \in 1..Len(s), i - 1 \in S PROVE i \in S
  BY <1>1, <1>2, <1>3, <1>5, DropTagIs DEF Dropping
<1>6. 0..Len(s) \subseteq S
  <2> HIDE DEF S
  <2> QED BY <1>2, <1>4, <1>5, UpTheNumbers
<1>7. f[Len(s)] = base
  BY <1>2, <1>6
<1> QED BY <1>1, <1>3, <1>7, JoinedWithNone

\* Otherwise the first is dropped, and then those behind it.
LEMMA UntaggedFirst ==
  ASSUME NEW s \in Text, Find(s, CloseTag) # 0
  PROVE  Untagged(s) = SubSeq(s, 1, Find(s, CloseTag) - 1)
                         \o Untagged(Drop(s, Behind(Find(s, CloseTag))))
<1> DEFINE i == Find(s, CloseTag)
           b == SubSeq(s, 1, i - 1)
           t == Drop(s, Behind(i))
           N == Len(s)
           M == Len(t)
<1>1. b \in Text /\ t \in Text /\ M < N /\ N \in Nat /\ M \in Nat
  <2>1. b \in Text /\ t \in Text /\ M < N
    BY AroundTag
  <2> QED BY <2>1, Lengths
<1>2. PICK f : Dropping(f, s) /\ Untagged(s) = f[N].done \o f[N].todo
  BY UntaggedByDropping
<1>3. PICK g : Dropping(g, t) /\ Untagged(t) = g[M].done \o g[M].todo
  BY <1>1, UntaggedByDropping
<1>4. /\ f[0] = [done |-> <<>>, todo |-> s] /\ f[0] \in TagWork
      /\ \A k \in 1..N : f[k] = DropTag(f[k - 1]) /\ f[k - 1] \in TagWork
  <2>1. 0 \in 0..N /\ \A k \in 1..N : k - 1 \in 0..N
    BY <1>1
  <2> QED BY <1>2, <2>1 DEF Dropping
<1>5. /\ g[0] = [done |-> <<>>, todo |-> t]
      /\ \A k \in 1..M : g[k] = DropTag(g[k - 1])
      /\ \A k \in 0..M : g[k] \in TagWork
  BY <1>3 DEF Dropping
<1>6. f[1] = [done |-> b, todo |-> t]
  <2>1. 1 \in 1..N /\ f[1] = DropTag(f[0])
    <3>1. 1 \in 1..N /\ 1 - 1 = 0
      BY <1>1
    <3> QED BY <1>4, <3>1
  <2>2. f[0].todo = s /\ f[0].done = <<>>
    BY <1>4
  <2>3. DropTag(f[0]) = [done |-> <<>> \o b, todo |-> t]
    BY <1>4, <2>2, DropTagIs
  <2> QED BY <1>1, <2>1, <2>3, JoinedWithNone
<1> HIDE DEF b, t, i, N, M
<1> DEFINE Shifted(k) == [done |-> b \o g[k].done, todo |-> g[k].todo]
           S == {k \in 0..M : f[k + 1] = Shifted(k)}
<1>7. 0 \in S
  <2>1. Shifted(0) = [done |-> b, todo |-> t]
    BY <1>1, <1>5, JoinedWithNone
  <2>2. 0 \in 0..M /\ 0 + 1 = 1
    BY <1>1
  <2> QED BY <1>6, <2>1, <2>2
<1>8. ASSUME NEW k \in 1..M, k - 1 \in S PROVE k \in S
  <2>1. /\ k \in 0..M /\ k - 1 \in 0..M /\ k + 1 \in 1..N
        /\ k + 1 - 1 = k /\ k - 1 + 1 = k
    BY <1>1
  <2> DEFINE h == g[k - 1]
             hs == Shifted(k - 1)
  <2>2. h \in TagWork /\ h.done \in Text /\ h.todo \in Text /\ g[k] = DropTag(h)
    BY <1>5, <2>1 DEF TagWork
  <2>3. f[k + 1] = DropTag(hs)
    BY <1>4, <1>8, <2>1
  <2>4. hs = [done |-> b \o h.done, todo |-> h.todo]
    OBVIOUS
  <2> HIDE DEF hs, h
  <2>5. hs \in TagWork /\ hs.done = b \o h.done /\ hs.todo = h.todo
    BY <1>1, <2>2, <2>4, Joined DEF TagWork
  <2>6. DropTag(hs) = [done |-> b \o DropTag(h).done, todo |-> DropTag(h).todo]
    <3>1. CASE Find(h.todo, CloseTag) = 0
      BY <2>2, <2>4, <2>5, <3>1, DropTagIs
    <3>2. CASE Find(h.todo, CloseTag) # 0
      <4> DEFINE c == SubSeq(h.todo, 1, Find(h.todo, CloseTag) - 1)
                 d == Drop(h.todo, Behind(Find(h.todo, CloseTag)))
      <4>1. c \in Text
        BY <2>2, <3>2, AroundTag
      <4>2. DropTag(h) = [done |-> h.done \o c, todo |-> d]
        BY <2>2, <3>2, DropTagIs
      <4>3. DropTag(hs) = [done |-> hs.done \o c, todo |-> d]
        BY <2>5, <3>2, DropTagIs
      <4> HIDE DEF c, d
      <4>4. (b \o h.done) \o c = b \o (h.done \o c)
        BY <1>1, <2>2, <4>1, JoinedTwice, ZenonT(60)
      <4> QED BY <2>5, <4>2, <4>3, <4>4
    <3> QED BY <3>1, <3>2
  <2>7. Shifted(k) = [done |-> b \o DropTag(h).done, todo |-> DropTag(h).todo]
    BY <2>2
  <2> QED BY <2>1, <2>3, <2>6, <2>7
<1>9. f[M + 1] = Shifted(M)
  <2>1. 0..M \subseteq S
    <3> HIDE DEF S
    <3> QED BY <1>1, <1>7, <1>8, UpTheNumbers
  <2> QED BY <1>1, <2>1, SMTT(60)
<1>10. Find(g[M].todo, CloseTag) = 0
  <2> DEFINE D == {k \in 0..M : \/ Find(g[k].todo, CloseTag) = 0
                                \/ Len(g[k].todo) + k <= M}
  <2>1. 0 \in D
    BY <1>1, <1>5 DEF M
  <2>2. ASSUME NEW k \in 1..M, k - 1 \in D PROVE k \in D
    <3> DEFINE h == g[k - 1]
    <3>1. k - 1 \in 0..M /\ k \in 0..M
      BY <1>1
    <3>2. h \in TagWork /\ h.todo \in Text /\ g[k] = DropTag(h)
      BY <1>5, <3>1 DEF TagWork
    <3>3. Find(h.todo, CloseTag) = 0 \/ Len(h.todo) + (k - 1) <= M
      BY <2>2
    <3> HIDE DEF h
    <3>4. CASE Find(h.todo, CloseTag) = 0
      BY <3>1, <3>2, <3>4, DropTagIs
    <3>5. CASE Find(h.todo, CloseTag) # 0
      <4>1. g[k].todo = Drop(h.todo, Behind(Find(h.todo, CloseTag)))
        BY <3>2, <3>5, DropTagIs
      <4>2. Len(g[k].todo) < Len(h.todo) /\ g[k].todo \in Text
        BY <3>2, <3>5, <4>1, AroundTag
      <4>3. Len(g[k].todo) \in Nat /\ Len(h.todo) \in Nat
        BY <3>2, <4>2, Lengths
      <4>4. Len(g[k].todo) + k <= M
        BY <1>1, <3>3, <3>5, <4>2, <4>3
      <4> QED BY <3>1, <4>4
    <3> QED BY <3>4, <3>5
  <2>3. M \in D
    <3>1. 0..M \subseteq D
      <4> HIDE DEF D
      <4> QED BY <1>1, <2>1, <2>2, UpTheNumbers
    <3> QED BY <1>1, <3>1
  <2>4. g[M].todo \in Text
    BY <1>1, <1>5 DEF TagWork
  <2>5. Len(g[M].todo) + M <= M => Find(g[M].todo, CloseTag) = 0
    <3> SUFFICES ASSUME Len(g[M].todo) + M <= M, Find(g[M].todo, CloseTag) # 0
                 PROVE  FALSE
      OBVIOUS
    <3>1. /\ Len(g[M].todo) \in Nat
          /\ Len(Drop(g[M].todo, Behind(Find(g[M].todo, CloseTag)))) < Len(g[M].todo)
          /\ Drop(g[M].todo, Behind(Find(g[M].todo, CloseTag))) \in Text
      BY <2>4, Lengths, AroundTag
    <3>2. Len(Drop(g[M].todo, Behind(Find(g[M].todo, CloseTag)))) \in Nat
      BY <3>1, Lengths
    <3> QED BY <1>1, <3>1, <3>2
  <2> QED BY <2>3, <2>5
<1>11. f[N] = f[M + 1]
  <2> DEFINE C == {k \in 0..N : k >= M + 1 => f[k] = f[M + 1]}
  <2>1. 0 \in C
    BY <1>1
  <2>2. ASSUME NEW k \in 1..N, k - 1 \in C PROVE k \in C
    <3>0. k \in 0..N /\ (k >= M + 1 => k = M + 1 \/ k > M + 1)
      BY <1>1
    <3> SUFFICES ASSUME k > M + 1 PROVE f[k] = f[M + 1]
      BY <3>0
    <3>1. f[k] = DropTag(f[k - 1]) /\ f[k - 1] \in TagWork
      BY <1>4
    <3>2. f[k - 1] = f[M + 1]
      <4>1. k - 1 >= M + 1
        BY <1>1
      <4> QED BY <2>2, <4>1
    <3>3. f[M + 1].todo = g[M].todo
      BY <1>9
    <3> QED BY <1>10, <3>1, <3>2, <3>3, DropTagIs
  <2>3. 0..N \subseteq C
    <3> HIDE DEF C
    <3> QED BY <1>1, <2>1, <2>2, UpTheNumbers
  <2>4. N \in 0..N /\ N >= M + 1
    BY <1>1
  <2> QED BY <2>3, <2>4
<1>12. Untagged(s) = (b \o g[M].done) \o g[M].todo
  <2>1. f[N] = [done |-> b \o g[M].done, todo |-> g[M].todo]
    BY <1>9, <1>11
  <2>2. f[N].done = b \o g[M].done /\ f[N].todo = g[M].todo
    BY <2>1
  <2> QED BY <1>2, <2>2
<1>13. g[M].done \in Text /\ g[M].todo \in Text
  BY <1>1, <1>5 DEF TagWork
<1>14. Untagged(s) = b \o Untagged(t)
  <2>1. (b \o g[M].done) \o g[M].todo = b \o (g[M].done \o g[M].todo)
    BY <1>1, <1>13, JoinedTwice
  <2> QED BY <1>3, <1>12, <2>1
<1> QED BY <1>14 DEF b, t, i

LEMMA UntaggedText == ASSUME NEW s \in Text PROVE Untagged(s) \in Text
<1>1. PICK f : Dropping(f, s) /\ Untagged(s) = f[Len(s)].done \o f[Len(s)].todo
  BY UntaggedByDropping
<1>2. Len(s) \in 0..Len(s)
  BY Lengths
<1>3. f[Len(s)].done \in Text /\ f[Len(s)].todo \in Text
  BY <1>1, <1>2 DEF Dropping, TagWork
<1> QED BY <1>1, <1>3, Joined

-----------------------------------------------------------------------------
(* What has been given out of a text does not depend on what comes.        *)

\* Two adjacent beginnings.
LEMMA LongerBeginning ==
  ASSUME NEW w \in Text, NEW m \in Nat, NEW h \in Nat, m + h <= Len(w)
  PROVE  SubSeq(w, 1, m + h) = SubSeq(w, 1, m) \o SubSeq(Drop(w, m), 1, h)
<1>1. Len(w) \in Nat
  BY Lengths
<1>2. 1 \in 1..Len(w) + 1 /\ m \in 1 - 1..Len(w) /\ m + h \in m..Len(w)
  BY <1>1
<1>3. SubSeq(w, 1, m) \o SubSeq(w, m + 1, m + h) = SubSeq(w, 1, m + h)
  BY <1>2, ConcatAdjacentSubSeq DEF Text
<1>4. SubSeq(Drop(w, m), 1, h) = SubSeq(w, m + 1, m + h)
  <2> DEFINE z == 0
  <2>1. z \in Nat /\ z <= h /\ z + 1 = 1 /\ m + z + 1 = m + 1
    OBVIOUS
  <2> HIDE DEF z
  <2>2. SubSeq(Drop(w, m), z + 1, h) = SubSeq(w, m + z + 1, m + h)
    BY <2>1, PartOfDropped
  <2> QED BY <2>1, <2>2
<1> QED BY <1>3, <1>4

\* The beginning of two texts, as far as the first goes, is of the first.
LEMMA BeginningJoined ==
  ASSUME NEW s \in Text, NEW x \in Text, NEW m \in Nat, m <= Len(s)
  PROVE  SubSeq(s \o x, 1, m) = SubSeq(s, 1, m)
<1> DEFINE z == 0
<1>1. z \in Nat /\ z <= m /\ z + 1 = 1
  OBVIOUS
<1> HIDE DEF z
<1>2. SubSeq(s \o x, z + 1, m) = SubSeq(s, z + 1, m)
  BY <1>1, PartOfJoined
<1> QED BY <1>1, <1>2

\* What is in front of the first tag of s and x is what s gives out, and then
\* what is in front of the first tag of what s holds back and x.
SameTag(w, v, begun) ==
  LET i == Find(w, CloseTag)
      j == Find(v, CloseTag)
  IN /\ j # 0
     /\ SubSeq(w, 1, i - 1) = begun \o SubSeq(v, 1, j - 1)
     /\ Drop(w, Behind(i)) = Drop(v, Behind(j))

LEMMA HeldBackFound ==
  ASSUME NEW s \in Text, NEW x \in Text, Find(s, CloseTag) = 0,
         NEW m \in Nat, m = Len(s) - PartialTag(s, CloseTag),
         Find(s \o x, CloseTag) # 0
  PROVE  SameTag(s \o x, Drop(s, m) \o x, SubSeq(s, 1, m))
<1> DEFINE w == s \o x
           v == Drop(w, m)
           i == Find(w, CloseTag)
           j == Find(v, CloseTag)
<1>1. w \in Text /\ Len(w) \in Nat /\ Len(CloseTag) \in Nat /\ Len(CloseTag) > 0
  BY Joined, Lengths, Tags
<1>2. Drop(s, m) \o x = v /\ m <= Len(s) /\ i - m \in Nat \ {0} /\ j = i - m
  <2> HIDE DEF w, v, i, j
  <2>1. /\ Drop(s, m) \o x = Drop(s \o x, m) /\ m <= Len(s)
        /\ Find(s \o x, CloseTag) - m \in Nat \ {0}
        /\ Find(Drop(s, m) \o x, CloseTag) = Find(s \o x, CloseTag) - m
    BY Tags, HeldBack, SMTT(60)
  <2> QED BY <2>1 DEF w, v, i, j
<1>3. i \in Nat /\ i > 0 /\ Behind(i) \in Nat /\ Behind(i) <= Len(w) /\ i - 1 <= Len(w)
  <2>1. i \in Nat \ {0} /\ Behind(i) \in Nat /\ Behind(i) <= Len(w) /\ i - 1 <= Len(w)
    BY <1>1, AroundTag
  <2> HIDE DEF w, i
  <2> QED BY <2>1
<1> HIDE DEF w, v, i, j
<1> DEFINE h == j - 1
<1>4. h \in Nat /\ i - 1 = m + h /\ m + h <= Len(w)
  BY <1>1, <1>2, <1>3, SMTT(60)
<1>5. SubSeq(w, 1, i - 1) = SubSeq(w, 1, m) \o SubSeq(v, 1, h)
  <2> HIDE DEF h
  <2>1. SubSeq(w, 1, m + h) = SubSeq(w, 1, m) \o SubSeq(Drop(w, m), 1, h)
    BY <1>1, <1>4, LongerBeginning, ZenonT(60)
  <2> QED BY <1>4, <2>1 DEF v
<1>6. SubSeq(w, 1, m) = SubSeq(s, 1, m)
  BY <1>2, BeginningJoined DEF w
<1>7. Drop(w, Behind(i)) = Drop(v, Behind(j))
  <2>1. Behind(j) \in Nat /\ m + Behind(j) = Behind(i)
    <3> DEFINE l == Len(CloseTag)
    <3>1. Behind(i) = i + l - 1 /\ Behind(j) = j + l - 1
      BY DEF Behind
    <3>2. l \in Nat /\ i \in Nat /\ m \in Nat /\ i - m \in Nat \ {0} /\ j = i - m
      BY <1>1, <1>2, <1>3
    <3> HIDE DEF l, h
    <3> QED BY <3>1, <3>2
  <2>2. m + Behind(j) <= Len(w)
    BY <1>3, <2>1
  <2>3. Drop(Drop(w, m), Behind(j)) = Drop(w, m + Behind(j))
    BY <1>1, <2>1, <2>2, DropTwice
  <2> QED BY <2>1, <2>3 DEF v
<1>8. j # 0
  BY <1>2
<1>9. SameTag(w, v, SubSeq(s, 1, m))
  BY <1>5, <1>6, <1>7, <1>8 DEF SameTag, i, j, h
<1> QED BY <1>2, <1>9 DEF w

\* An answer of which s is given out but for what may become a tag.
LEMMA UntaggedHeldBack ==
  ASSUME NEW s \in Text, NEW x \in Text, Find(s, CloseTag) = 0,
         NEW m \in Nat, m = Len(s) - PartialTag(s, CloseTag)
  PROVE  Untagged(s \o x) = SubSeq(s, 1, m) \o Untagged(Drop(s, m) \o x)
<1> DEFINE w == s \o x
           v == Drop(s, m) \o x
           i == Find(w, CloseTag)
           j == Find(v, CloseTag)
<1>1. m <= Len(s) /\ (i = 0 => j = 0)
  <2>1. /\ m <= Len(s)
        /\ IF Find(s \o x, CloseTag) = 0 THEN Find(Drop(s, m) \o x, CloseTag) = 0
           ELSE /\ Find(s \o x, CloseTag) - m \in Nat \ {0}
                /\ Find(Drop(s, m) \o x, CloseTag) = Find(s \o x, CloseTag) - m
    BY Tags, HeldBack
  <2> QED BY <2>1
<1>2. SubSeq(s, 1, m) \in Text /\ Drop(s, m) \in Text /\ s = SubSeq(s, 1, m) \o Drop(s, m)
  BY <1>1, Begun, Dropped, BeginningAndRest
<1>3. w \in Text /\ v \in Text
  BY <1>2, Joined
<1>4. CASE i = 0
  <2>1. w = SubSeq(s, 1, m) \o v
    <3> DEFINE a == SubSeq(s, 1, m)
               r == Drop(s, m)
    <3>1. a \in Text /\ r \in Text /\ s = a \o r
      BY <1>2
    <3> HIDE DEF a, r
    <3>2. (a \o r) \o x = a \o (r \o x)
      BY <3>1, JoinedTwice, SMTT(60)
    <3>3. s \o x = a \o (r \o x)
      BY <3>1, <3>2
    <3> QED BY <3>3 DEF a, r
  <2>2. Untagged(w) = w /\ Untagged(v) = v
    <3> HIDE DEF w, v
    <3> QED BY <1>1, <1>3, <1>4, UntaggedSame
  <2> HIDE DEF w, v
  <2>3. Untagged(w) = SubSeq(s, 1, m) \o Untagged(v)
    BY <2>1, <2>2
  <2> QED BY <2>3 DEF w, v
<1>5. CASE i # 0
  <2>1. /\ j # 0
        /\ SubSeq(w, 1, i - 1) = SubSeq(s, 1, m) \o SubSeq(v, 1, j - 1)
        /\ Drop(w, Behind(i)) = Drop(v, Behind(j))
    <3> HIDE DEF w, v, i, j
    <3>1. Find(s \o x, CloseTag) # 0
      BY <1>5 DEF w, i
    <3>2. SameTag(s \o x, Drop(s, m) \o x, SubSeq(s, 1, m))
      BY <3>1, HeldBackFound
    <3>3. SameTag(w, v, SubSeq(s, 1, m))
      BY <3>2 DEF w, v
    <3> QED BY <3>3 DEF SameTag, i, j
  <2> HIDE DEF w, v
  <2>2. /\ Untagged(w) = SubSeq(w, 1, i - 1) \o Untagged(Drop(w, Behind(i)))
        /\ Untagged(v) = SubSeq(v, 1, j - 1) \o Untagged(Drop(v, Behind(j)))
    BY <1>3, <1>5, <2>1, UntaggedFirst
  <2>3. SubSeq(v, 1, j - 1) \in Text /\ Drop(v, Behind(j)) \in Text
    BY <1>3, <2>1, AroundTag
  <2> HIDE DEF i, j
  <2>4. Untagged(Drop(v, Behind(j))) \in Text
    BY <2>3, UntaggedText
  <2>5. Untagged(w) = SubSeq(s, 1, m) \o Untagged(v)
    <3> DEFINE a == SubSeq(s, 1, m)
               b == SubSeq(v, 1, j - 1)
               c == Untagged(Drop(v, Behind(j)))
    <3>1. a \in Text /\ b \in Text /\ c \in Text
      BY <1>2, <2>3, <2>4
    <3>2. Untagged(w) = (a \o b) \o c /\ Untagged(v) = b \o c
      BY <2>1, <2>2
    <3> HIDE DEF a, b, c
    <3>3. (a \o b) \o c = a \o (b \o c)
      BY <3>1, JoinedTwice, SMTT(60)
    <3>4. Untagged(w) = a \o Untagged(v)
      BY <3>2, <3>3
    <3> QED BY <3>4 DEF a
  <2> QED BY <2>5 DEF w, v
<1> QED BY <1>4, <1>5

\* The same of text that may be thinking.
LEMMA SplitHeldBack ==
  ASSUME NEW s \in Text, NEW x \in Text, Find(s, CloseTag) = 0, NEW kept,
         NEW m \in Nat, m = Len(s) - PartialTag(s, CloseTag)
  PROVE  SplitAtClose(s \o x, kept) =
           [thought |-> SubSeq(s, 1, m)
                          \o SplitAtClose(Drop(s, m) \o x, kept).thought,
            answer |-> SplitAtClose(Drop(s, m) \o x, kept).answer,
            style |-> SplitAtClose(Drop(s, m) \o x, kept).style]
<1> DEFINE w == s \o x
           v == Drop(s, m) \o x
           i == Find(w, CloseTag)
           j == Find(v, CloseTag)
<1>1. /\ m <= Len(s) /\ v = Drop(w, m)
      /\ i = 0 => j = 0
      /\ PartialTag(v, CloseTag) = PartialTag(w, CloseTag)
      /\ PartialTag(w, CloseTag) <= Len(w) - m
  <2>1. /\ Drop(s, m) \o x = Drop(s \o x, m) /\ m <= Len(s)
        /\ IF Find(s \o x, CloseTag) = 0 THEN Find(Drop(s, m) \o x, CloseTag) = 0
           ELSE /\ Find(s \o x, CloseTag) - m \in Nat \ {0}
                /\ Find(Drop(s, m) \o x, CloseTag) = Find(s \o x, CloseTag) - m
        /\ PartialTag(Drop(s, m) \o x, CloseTag) = PartialTag(s \o x, CloseTag)
        /\ PartialTag(s \o x, CloseTag) <= Len(s \o x) - m
    BY Tags, HeldBack, SMTT(60)
  <2> QED BY <2>1
<1>2. w \in Text /\ Len(w) \in Nat /\ Len(w) = Len(s) + Len(x) /\ Len(s) \in Nat
      /\ Len(x) \in Nat
  BY Joined, Lengths
<1>3. CASE i = 0
  <2> DEFINE q == PartialTag(w, CloseTag)
             h == Len(v) - q
  <2>0. j = 0 /\ SubSeq(w, 1, m) = SubSeq(s, 1, m)
    BY <1>1, <1>3, BeginningJoined
  <2> HIDE DEF w, v
  <2>1. q \in Nat /\ q <= Len(w) - m
    BY <1>1, <1>2, Tags, Partial
  <2>2. m <= Len(w)
    BY <1>1, <1>2
  <2>3. Len(v) = Len(w) - m
    BY <1>1, <1>2, <2>2, Dropped
  <2>4. h \in Nat /\ m + h = Len(w) - q /\ m + h <= Len(w)
    BY <1>2, <2>1, <2>2, <2>3
  <2>5. SubSeq(w, 1, Len(w) - q) = SubSeq(w, 1, m) \o SubSeq(v, 1, h)
    <3> HIDE DEF h
    <3>1. SubSeq(w, 1, m + h) = SubSeq(w, 1, m) \o SubSeq(Drop(w, m), 1, h)
      BY <1>2, <2>4, LongerBeginning, ZenonT(60)
    <3> QED BY <1>1, <2>4, <3>1
  <2>6. /\ SplitAtClose(w, kept) = [thought |-> SubSeq(w, 1, Len(w) - q),
                                    answer |-> kept, style |-> "none"]
        /\ SplitAtClose(v, kept) = [thought |-> SubSeq(v, 1, h),
                                    answer |-> kept, style |-> "none"]
    BY <1>1, <1>3, <2>0 DEF SplitAtClose
  <2>7. SplitAtClose(w, kept) =
          [thought |-> SubSeq(s, 1, m) \o SplitAtClose(v, kept).thought,
           answer |-> SplitAtClose(v, kept).answer,
           style |-> SplitAtClose(v, kept).style]
    <3> HIDE DEF q, h
    <3>1. /\ SplitAtClose(v, kept).thought = SubSeq(v, 1, h)
          /\ SplitAtClose(v, kept).answer = kept
          /\ SplitAtClose(v, kept).style = "none"
      <4> DEFINE T == SubSeq(v, 1, h)
      <4>1. SplitAtClose(v, kept) = [thought |-> T, answer |-> kept, style |-> "none"]
        BY <2>6
      <4> HIDE DEF T
      <4>2. /\ SplitAtClose(v, kept).thought = T
            /\ SplitAtClose(v, kept).answer = kept
            /\ SplitAtClose(v, kept).style = "none"
        BY <4>1
      <4> QED BY <4>2 DEF T
    <3>2. SubSeq(w, 1, Len(w) - q) = SubSeq(s, 1, m) \o SplitAtClose(v, kept).thought
      BY <2>0, <2>5, <3>1
    <3> QED BY <2>6, <3>1, <3>2
  <2> QED BY <2>7 DEF w, v
<1>4. CASE i # 0
  <2>1. /\ j # 0
        /\ SubSeq(w, 1, i - 1) = SubSeq(s, 1, m) \o SubSeq(v, 1, j - 1)
        /\ Drop(w, Behind(i)) = Drop(v, Behind(j))
    <3> HIDE DEF w, v, i, j
    <3>1. Find(s \o x, CloseTag) # 0
      BY <1>4 DEF w, i
    <3>2. SameTag(s \o x, Drop(s, m) \o x, SubSeq(s, 1, m))
      BY <3>1, HeldBackFound
    <3>3. SameTag(w, v, SubSeq(s, 1, m))
      BY <3>2 DEF w, v
    <3> QED BY <3>3 DEF SameTag, i, j
  <2> HIDE DEF w, v
  <2>2. /\ SplitAtClose(w, kept) =
             [thought |-> SubSeq(w, 1, i - 1),
              answer |-> LStrip(Untagged(Drop(w, Behind(i)))), style |-> "closing"]
        /\ SplitAtClose(v, kept) =
             [thought |-> SubSeq(v, 1, j - 1),
              answer |-> LStrip(Untagged(Drop(v, Behind(j)))), style |-> "closing"]
    BY <1>4, <2>1 DEF SplitAtClose, Behind
  <2> HIDE DEF i, j
  <2>3. SplitAtClose(w, kept) =
          [thought |-> SubSeq(s, 1, m) \o SplitAtClose(v, kept).thought,
           answer |-> SplitAtClose(v, kept).answer,
           style |-> SplitAtClose(v, kept).style]
    <3>1. /\ SplitAtClose(v, kept).thought = SubSeq(v, 1, j - 1)
          /\ SplitAtClose(v, kept).answer = LStrip(Untagged(Drop(v, Behind(j))))
          /\ SplitAtClose(v, kept).style = "closing"
      <4> DEFINE T == SubSeq(v, 1, j - 1)
                 A == LStrip(Untagged(Drop(v, Behind(j))))
      <4>1. SplitAtClose(v, kept) = [thought |-> T, answer |-> A, style |-> "closing"]
        BY <2>2
      <4> HIDE DEF T, A
      <4>2. /\ SplitAtClose(v, kept).thought = T
            /\ SplitAtClose(v, kept).answer = A
            /\ SplitAtClose(v, kept).style = "closing"
        BY <4>1
      <4> QED BY <4>2 DEF T, A
    <3>2. /\ SubSeq(w, 1, i - 1) = SubSeq(s, 1, m) \o SplitAtClose(v, kept).thought
          /\ LStrip(Untagged(Drop(w, Behind(i)))) = SplitAtClose(v, kept).answer
      BY <2>1, <3>1
    <3> QED BY <2>2, <3>1, <3>2
  <2> QED BY <2>3 DEF w, v
<1> QED BY <1>3, <1>4

\* Once the closing tag has come all is thinking that stands before it.
LEMMA FoundStays ==
  ASSUME NEW s \in Text, NEW x \in Text, Find(s, CloseTag) # 0
  PROVE  LET i == Find(s, CloseTag)
         IN /\ Find(s \o x, CloseTag) = i
            /\ SubSeq(s \o x, 1, i - 1) = SubSeq(s, 1, i - 1)
            /\ Drop(s \o x, Behind(i)) = Drop(s, Behind(i)) \o x
<1> DEFINE i == Find(s, CloseTag)
<1>1. i \in Nat \ {0} /\ Behind(i) \in Nat /\ Behind(i) <= Len(s) /\ i - 1 <= Len(s)
  BY AroundTag
<1>2. Find(s \o x, CloseTag) = i
  <2>1. i > 0
    BY <1>1
  <2> QED BY <2>1, Tags, FindInJoined
<1> HIDE DEF i
<1>3. i - 1 \in Nat
  BY <1>1
<1>4. SubSeq(s \o x, 1, i - 1) = SubSeq(s, 1, i - 1)
  BY <1>1, <1>3, BeginningJoined
<1>5. Drop(s \o x, Behind(i)) = Drop(s, Behind(i)) \o x
  BY <1>1, DropOfJoined
<1> QED BY <1>2, <1>4, <1>5 DEF i

LEMMA SplitFound ==
  ASSUME NEW s \in Text, NEW x \in Text, Find(s, CloseTag) # 0, NEW kept
  PROVE  SplitAtClose(s \o x, kept) =
           [thought |-> SubSeq(s, 1, Find(s, CloseTag) - 1),
            answer |-> LStrip(Untagged(Drop(s, Behind(Find(s, CloseTag))) \o x)),
            style |-> "closing"]
BY FoundStays DEF SplitAtClose, Behind

LEMMA UntaggedFound ==
  ASSUME NEW s \in Text, NEW x \in Text, Find(s, CloseTag) # 0
  PROVE  Untagged(s \o x) =
           SubSeq(s, 1, Find(s, CloseTag) - 1)
             \o Untagged(Drop(s, Behind(Find(s, CloseTag))) \o x)
<1> DEFINE w == s \o x
           i == Find(s, CloseTag)
<1>1. w \in Text
  BY Joined
<1>2. /\ Find(w, CloseTag) = i
      /\ SubSeq(w, 1, i - 1) = SubSeq(s, 1, i - 1)
      /\ Drop(w, Behind(i)) = Drop(s, Behind(i)) \o x
  BY FoundStays
<1> HIDE DEF w
<1>3. Untagged(w) = SubSeq(w, 1, Find(w, CloseTag) - 1)
                      \o Untagged(Drop(w, Behind(Find(w, CloseTag))))
  BY <1>1, <1>2, UntaggedFirst
<1> HIDE DEF i
<1>4. Untagged(w) = SubSeq(s, 1, i - 1) \o Untagged(Drop(s, Behind(i)) \o x)
  BY <1>2, <1>3
<1> QED BY <1>4 DEF w, i

\* What a split gives is text.
LEMMA SplitIs ==
  ASSUME NEW s \in Text, NEW kept \in Text
  PROVE  LET r == SplitAtClose(s, kept)
         IN /\ r = [thought |-> r.thought, answer |-> r.answer, style |-> r.style]
            /\ r.thought \in Text /\ r.answer \in Text
<1> DEFINE i == Find(s, CloseTag)
           m == Len(s) - PartialTag(s, CloseTag)
           T == IF i = 0 THEN SubSeq(s, 1, m) ELSE SubSeq(s, 1, i - 1)
           A == IF i = 0 THEN kept ELSE LStrip(Untagged(Drop(s, Behind(i))))
           Z == IF i = 0 THEN "none" ELSE "closing"
<1>1. SplitAtClose(s, kept) = [thought |-> T, answer |-> A, style |-> Z]
  BY DEF SplitAtClose, Behind
<1>2. CASE i = 0
  <2>1. m \in Nat /\ m <= Len(s)
    <3>1. /\ Len(s) \in Nat /\ PartialTag(s, CloseTag) \in Nat
          /\ PartialTag(s, CloseTag) <= Len(s)
      BY Tags, Partial, Lengths
    <3> QED BY <3>1
  <2> HIDE DEF m
  <2>2. T \in Text /\ A \in Text
    BY <1>2, <2>1, Begun
  <2> HIDE DEF T, A, Z
  <2> QED BY <1>1, <2>2
<1>3. CASE i # 0
  <2>1. SubSeq(s, 1, i - 1) \in Text /\ Drop(s, Behind(i)) \in Text
    BY <1>3, AroundTag
  <2>2. LStrip(Untagged(Drop(s, Behind(i)))) \in Text
    <3> DEFINE u == Untagged(Drop(s, Behind(i)))
    <3>1. u \in Text
      BY <2>1, UntaggedText
    <3> HIDE DEF u
    <3>2. LStrip(u) \in Text
      BY <3>1, StripJoined
    <3> QED BY <3>2 DEF u
  <2>3. T \in Text /\ A \in Text
    BY <1>3, <2>1, <2>2
  <2> HIDE DEF T, A, Z
  <2> QED BY <1>1, <2>3
<1> QED BY <1>2, <1>3

-----------------------------------------------------------------------------
(* How many characters of a text are of some kind.                         *)

Places(s, kind) == {i \in DOMAIN s : s[i] \in kind}
Count(s, kind) == Cardinality(Places(s, kind))

LEMMA PlacesFinite ==
  ASSUME NEW s \in Text, NEW kind
  PROVE  /\ Places(s, kind) \subseteq 1..Len(s) /\ IsFiniteSet(Places(s, kind))
         /\ Count(s, kind) \in Nat
<1>1. Places(s, kind) \subseteq 1..Len(s) /\ Len(s) \in Nat
  BY Lengths DEF Places
<1>2. IsFiniteSet(1..Len(s))
  BY <1>1, FS_Interval
<1>3. IsFiniteSet(Places(s, kind))
  BY <1>1, <1>2, FS_Subset
<1> QED BY <1>1, <1>3, FS_CardinalityType DEF Count

LEMMA CountNone ==
  ASSUME NEW s \in Text, NEW kind, \A i \in 1..Len(s) : s[i] \notin kind
  PROVE  Count(s, kind) = 0
<1>1. Places(s, kind) = {}
  BY Lengths DEF Places
<1> QED BY <1>1, FS_EmptySet DEF Count

LEMMA CountNothing == ASSUME NEW kind PROVE Count(<<>>, kind) = 0
<1> DEFINE z == <<>>
<1>1. z \in Text /\ Len(z) = 0
  BY NoText
<1> HIDE DEF z
<1>2. \A i \in 1..Len(z) : z[i] \notin kind
  BY <1>1
<1>3. Count(z, kind) = 0
  BY <1>1, <1>2, CountNone
<1> QED BY <1>3 DEF z

\* In two texts there are as many as in both.
LEMMA CountJoined ==
  ASSUME NEW s \in Text, NEW t \in Text, NEW kind
  PROVE  Count(s \o t, kind) = Count(s, kind) + Count(t, kind)
<1> DEFINE w == s \o t
           n == Len(s)
           A == Places(s, kind)
           B == Places(t, kind)
           C == Places(w, kind)
           D == {i \in C : i > n}
           f == [j \in B |-> n + j]
<1>1. /\ w \in Text /\ Len(w) = n + Len(t) /\ n \in Nat /\ Len(t) \in Nat
      /\ \A i \in 1..n : w[i] = s[i]
      /\ \A i \in 1..Len(t) : w[n + i] = t[i]
      /\ DOMAIN w = 1..n + Len(t) /\ DOMAIN s = 1..n /\ DOMAIN t = 1..Len(t)
  <2>1. /\ w \in Text /\ Len(w) = n + Len(t) /\ n \in Nat /\ Len(t) \in Nat
        /\ \A i \in 1..n : w[i] = s[i]
        /\ \A i \in 1..Len(t) : w[n + i] = t[i]
    BY Joined, Lengths
  <2> HIDE DEF w
  <2>2. DOMAIN w = 1..n + Len(t) /\ DOMAIN s = 1..n /\ DOMAIN t = 1..Len(t)
    BY <2>1, Lengths
  <2> QED BY <2>1, <2>2
<1> HIDE DEF w, n
<1>2. /\ A \subseteq 1..n /\ B \subseteq 1..Len(t)
      /\ IsFiniteSet(A) /\ IsFiniteSet(B) /\ Count(s, kind) \in Nat /\ Count(t, kind) \in Nat
  BY PlacesFinite DEF n
<1>3. \A i \in 1..n : i \in C <=> i \in A
  BY <1>1 DEF Places
<1>4. \A j \in 1..Len(t) : n + j \in C <=> j \in B
  <2>1. \A j \in 1..Len(t) : n + j \in 1..n + Len(t)
    BY <1>1
  <2> QED BY <1>1, <2>1 DEF Places
<1>5. C \subseteq 1..n + Len(t)
  BY <1>1 DEF Places
<1> HIDE DEF A, B, C
<1>6. f \in [B -> D]
  <2>1. ASSUME NEW j \in B PROVE n + j \in D
    <3>1. j \in 1..Len(t) /\ n + j > n
      BY <1>1, <1>2
    <3> QED BY <1>4, <3>1
  <2> QED BY <2>1
<1>7. ASSUME NEW i \in D PROVE \E j \in B : f[j] = i
  <2>1. i \in 1..n + Len(t) /\ i > n
    BY <1>5
  <2>2. i - n \in 1..Len(t) /\ n + (i - n) = i
    BY <1>1, <2>1
  <2>3. i - n \in B
    BY <1>4, <2>2
  <2> QED BY <2>2, <2>3
<1>8. \A j \in B : \A k \in B : f[j] = f[k] => j = k
  BY <1>1, <1>2
<1> HIDE DEF D, f
<1>9. f \in Surjection(B, D) /\ f \in Injection(B, D)
  BY <1>6, <1>7, <1>8 DEF Surjection, Injection, IsInjective
<1>10. IsFiniteSet(D) /\ Cardinality(D) = Cardinality(B)
  BY <1>2, <1>9, FS_Surjection
<1>11. C = A \cup D /\ A \cap D = {}
  <2>1. \A i \in A : i \in 1..n /\ ~(i > n)
    BY <1>1, <1>2
  <2>2. \A i \in C : i \in 1..n \/ i > n
    BY <1>1, <1>5
  <2> QED BY <1>3, <2>1, <2>2 DEF D
<1>12. Cardinality(C) = Cardinality(A) + Cardinality(D) - 0
  BY <1>2, <1>10, <1>11, FS_Union, FS_EmptySet
<1> QED BY <1>2, <1>10, <1>12 DEF Count, A, B, C, w

\* White space counts for nothing, nor do tags.
LEMMA CountStripped ==
  ASSUME NEW s \in Text, NEW kind, Space \notin kind
  PROVE  Count(LStrip(s), kind) = Count(s, kind)
<1>1. PICK n \in 0..Len(s) : /\ LStrip(s) = Drop(s, n)
                             /\ \A i \in 1..n : s[i] = Space
  BY Stripped
<1>2. Len(s) \in Nat /\ n \in Nat /\ n <= Len(s)
  BY Lengths
<1> DEFINE a == SubSeq(s, 1, n)
           d == Drop(s, n)
<1>3. /\ a \in Text /\ Len(a) = n /\ (\A i \in 1..n : a[i] = s[i]) /\ d \in Text
      /\ s = a \o d
  BY <1>2, Begun, Dropped, BeginningAndRest
<1> HIDE DEF a, d
<1>4. Count(a, kind) = 0
  BY <1>1, <1>3, CountNone
<1>5. Count(a \o d, kind) = Count(a, kind) + Count(d, kind) /\ Count(d, kind) \in Nat
  BY <1>3, CountJoined, PlacesFinite
<1>6. Count(d, kind) = Count(s, kind)
  BY <1>3, <1>4, <1>5
<1> QED BY <1>1, <1>6 DEF d

\* The characters of a tag, and those that are neither of a tag nor white space.
Plain(kind) ==
  /\ Space \notin kind
  /\ \A i \in 1..Len(OpenTag) : OpenTag[i] \notin kind
  /\ \A i \in 1..Len(CloseTag) : CloseTag[i] \notin kind

LEMMA CountBehindOpening ==
  ASSUME NEW s \in Text, NEW kind, Plain(kind), StartsWith(s, OpenTag)
  PROVE  Count(Drop(s, Len(OpenTag)), kind) = Count(s, kind)
<1> DEFINE n == Len(OpenTag)
           a == SubSeq(s, 1, n)
           d == Drop(s, n)
<1>1. n \in Nat /\ n <= Len(s) /\ a = OpenTag
  BY Tags DEF StartsWith
<1>2. a \in Text /\ d \in Text /\ s = a \o d
  BY <1>1, Begun, Dropped, BeginningAndRest
<1>3. \A i \in 1..Len(a) : a[i] \notin kind
  BY <1>1 DEF Plain
<1> HIDE DEF a, d
<1>4. Count(a, kind) = 0 /\ Count(d, kind) \in Nat
  BY <1>2, <1>3, CountNone, PlacesFinite
<1>5. Count(a \o d, kind) = Count(a, kind) + Count(d, kind)
  BY <1>2, CountJoined
<1>6. Count(d, kind) = Count(s, kind)
  BY <1>2, <1>4, <1>5
<1> QED BY <1>6 DEF d

LEMMA CountAroundTag ==
  ASSUME NEW s \in Text, NEW kind, Plain(kind), Find(s, CloseTag) # 0
  PROVE  LET i == Find(s, CloseTag)
         IN Count(s, kind) =
              Count(SubSeq(s, 1, i - 1), kind) + Count(Drop(s, Behind(i)), kind)
<1> DEFINE i == Find(s, CloseTag)
           n == Len(CloseTag)
           k == i - 1
           a == SubSeq(s, 1, k)
           r == Drop(s, k)
           t == SubSeq(r, 1, n)
           d == Drop(r, n)
<1>1. n \in Nat /\ n > 0 /\ Len(s) \in Nat /\ CloseTag \in Text
  BY Tags, Lengths
<1>2. i \in Nat /\ i > 0 /\ At(s, k, CloseTag)
  BY <1>1, Found
<1> HIDE DEF i
<1>3. k \in Nat /\ k + n <= Len(s) /\ k <= Len(s) /\ n <= Len(s) - k
  BY <1>1, <1>2 DEF At
<1>4. k + n = Behind(i)
  BY <1>1, <1>2 DEF Behind
<1>5. At(r, 0, CloseTag)
  <2> DEFINE z == 0
  <2>1. z \in Nat /\ k + z = k
    BY <1>3
  <2> HIDE DEF z, k, r
  <2>2. At(Drop(s, k), z, CloseTag) <=> At(s, k + z, CloseTag)
    BY <1>1, <1>3, <2>1, AtInDropped
  <2>3. At(r, z, CloseTag)
    BY <1>2, <2>1, <2>2 DEF r
  <2> QED BY <2>3 DEF z
<1> HIDE DEF n, k
<1>6. /\ a \in Text /\ r \in Text /\ s = a \o r /\ Len(r) = Len(s) - k
  BY <1>3, Begun, Dropped, BeginningAndRest
<1> HIDE DEF a, r
<1>7. /\ t \in Text /\ d \in Text /\ r = t \o d
      /\ Len(t) = n /\ \A j \in 1..n : t[j] = r[j]
  BY <1>1, <1>3, <1>6, Begun, Dropped, BeginningAndRest, ZenonT(60)
<1>8. d = Drop(s, Behind(i))
  BY <1>1, <1>3, <1>4, DropTwice DEF r
<1>9. \A j \in 1..Len(t) : t[j] \notin kind
  <2>1. ASSUME NEW j \in 1..n PROVE r[j] = CloseTag[j]
    <3>1. r[0 + j] = CloseTag[j] /\ 0 + j = j
      BY <1>1, <1>5 DEF At, n
    <3> QED BY <3>1
  <2> QED BY <1>7, <2>1 DEF Plain, n
<1> HIDE DEF t, d
<1>10. Count(t, kind) = 0 /\ Count(a, kind) \in Nat /\ Count(d, kind) \in Nat
  BY <1>6, <1>7, <1>9, CountNone, PlacesFinite
<1>11. Count(a \o r, kind) = Count(a, kind) + Count(r, kind)
  BY <1>6, CountJoined
<1>12. Count(t \o d, kind) = Count(t, kind) + Count(d, kind)
  BY <1>7, CountJoined
<1>13. Count(s, kind) = Count(a, kind) + Count(d, kind)
  BY <1>6, <1>7, <1>10, <1>11, <1>12
<1> QED BY <1>8, <1>13 DEF a, d, k, i

\* Nothing but the beginning of a tag.
LEMMA CountPartial ==
  ASSUME NEW s \in Text, NEW kind, Plain(kind), PartialTag(s, CloseTag) = Len(s)
  PROVE  Count(s, kind) = 0
<1>1. Ends(s, Len(s), CloseTag) /\ Len(s) \in Nat /\ Len(s) < Len(CloseTag)
      /\ Len(CloseTag) \in Nat
  BY Tags, Partial, Lengths
<1>2. ASSUME NEW j \in 1..Len(s) PROVE s[j] \notin kind
  <2>1. Len(s) - Len(s) + j = j /\ j \in 1..Len(CloseTag)
    BY <1>1
  <2>2. s[j] = CloseTag[j]
    BY <1>1, <2>1 DEF Ends
  <2> QED BY <2>1, <2>2 DEF Plain
<1> QED BY <1>2, CountNone

-----------------------------------------------------------------------------
(* One turn of the loop of feed(): it changes nothing about what the whole *)
(* reply will give, and comes nearer to the end of the loop.               *)

Work ==
  [state : {"start", "thinking", "undecided", "answer"}, buffer : Text,
   held : Text, close : BOOLEAN, open : BOOLEAN, strip : BOOLEAN,
   thought : Text, answer : Text]

Shape(f) ==
  /\ f.state = "start" => f.thought = <<>> /\ f.held = <<>>
  /\ f.state = "thinking" => f.open
  /\ f.state = "undecided" => f.held = f.thought
  /\ f.state \in {"start", "undecided"} => ~f.open
  /\ f.state # "answer" => f.answer = <<>> /\ ~f.strip /\ ~f.close

\* lstrip, while the answer has not begun.
Shown(cut, s) == IF cut THEN LStrip(s) ELSE s

\* What the reply gives when x is all that still comes.
Outcome(f, x, st) ==
  LET s == f.buffer \o x
  IN CASE f.state = "start" -> Expected(s, st)
       [] f.state = "thinking" ->
            [thought |-> f.thought \o SplitAtClose(s, <<>>).thought,
             answer |-> SplitAtClose(s, <<>>).answer, style |-> "tags"]
       [] f.state = "undecided" ->
            [thought |-> f.thought \o SplitAtClose(s, f.held \o s).thought,
             answer |-> SplitAtClose(s, f.held \o s).answer,
             style |-> SplitAtClose(s, f.held \o s).style]
       [] f.state = "answer" ->
            [thought |-> f.thought,
             answer |-> f.answer \o Shown(f.strip, Untagged(s)),
             style |-> IF f.open THEN "tags"
                       ELSE IF f.close \/ Find(s, CloseTag) > 0 THEN "closing"
                       ELSE "none"]

\* Nothing is held back without need (OnlyPartialTagsHeld).
Settled(f) ==
  IF f.state = "start"
  THEN StartsWith(OpenTag, LStrip(f.buffer)) /\ LStrip(f.buffer) # OpenTag
  ELSE PartialTag(f.buffer, CloseTag) = Len(f.buffer)

\* How many turns the loop can still go on.
Size(f) == IF f.state = "start" THEN Len(f.buffer) + 1 ELSE Len(f.buffer)

\* How many characters of a kind have been given out or are waiting.
Tally(f, kind) ==
  Count(f.thought, kind) + Count(f.answer, kind) + Count(f.buffer, kind)

\* Text is only added.
Grown(s, t) == \E u \in Text : t = s \o u

LEMMA GrownSame == ASSUME NEW s \in Text PROVE Grown(s, s)
<1>1. <<>> \in Text /\ s = s \o <<>>
  BY NoText, JoinedWithNone
<1> QED BY <1>1 DEF Grown

LEMMA GrownTwice ==
  ASSUME NEW s \in Text, NEW t, NEW v, Grown(s, t), Grown(t, v)
  PROVE  Grown(s, v)
<1>1. PICK a \in Text : t = s \o a
  BY DEF Grown
<1>2. PICK b \in Text : v = t \o b
  BY DEF Grown
<1>3. (s \o a) \o b = s \o (a \o b)
  BY JoinedTwice
<1>4. a \o b \in Text
  BY Joined
<1>5. v = s \o (a \o b)
  BY <1>1, <1>2, <1>3
<1> QED BY <1>4, <1>5 DEF Grown

Onward(f, g) ==
  /\ g \in Work /\ Shape(g)
  /\ Grown(f.answer, g.answer) /\ (f.state = "answer" => g.state = "answer")
  /\ \A kind : Plain(kind) => Tally(g, kind) = Tally(f, kind)
  /\ \A x \in Text : Outcome(g, x, style) = Outcome(f, x, style)
  /\ Settled(g) \/ Size(g) < Size(f)
  /\ Settled(f) => Settled(g)

LEMMA ShownJoined ==
  ASSUME NEW cut \in BOOLEAN, NEW s \in Text, NEW x \in Text
  PROVE  /\ Shown(cut, s) \in Text
         /\ Shown(cut, s \o x) =
              Shown(cut, s) \o Shown(cut /\ Shown(cut, s) = <<>>, x)
<1>1. CASE cut = TRUE
  <2> DEFINE l == LStrip(s)
             m == LStrip(x)
  <2>1. /\ l \in Text /\ m \in Text
        /\ LStrip(s \o x) = IF l = <<>> THEN m ELSE l \o x
    BY StripJoined
  <2>2. <<>> \o m = m
    BY <2>1, JoinedWithNone
  <2>3. Shown(cut, s) = l /\ Shown(cut, s \o x) = LStrip(s \o x)
    BY <1>1 DEF Shown
  <2>4. Shown(cut /\ l = <<>>, x) = IF l = <<>> THEN m ELSE x
    BY <1>1 DEF Shown
  <2> HIDE DEF l, m
  <2> QED BY <2>1, <2>2, <2>3, <2>4
<1>2. CASE cut = FALSE
  BY <1>2 DEF Shown
<1> QED BY <1>1, <1>2

\* The outcome by states.
LEMMA OutcomeThinking ==
  ASSUME NEW f \in Work, f.state = "thinking", NEW x \in Text, NEW st
  PROVE  LET r == SplitAtClose(f.buffer \o x, <<>>)
         IN Outcome(f, x, st) = [thought |-> f.thought \o r.thought,
                                 answer |-> r.answer, style |-> "tags"]
BY DEF Outcome

LEMMA OutcomeUndecided ==
  ASSUME NEW f \in Work, f.state = "undecided", NEW x \in Text, NEW st
  PROVE  LET r == SplitAtClose(f.buffer \o x, f.held \o (f.buffer \o x))
         IN Outcome(f, x, st) = [thought |-> f.thought \o r.thought,
                                 answer |-> r.answer, style |-> r.style]
BY DEF Outcome

LEMMA OutcomeAnswer ==
  ASSUME NEW f \in Work, f.state = "answer", NEW x \in Text, NEW st
  PROVE  Outcome(f, x, st) =
           [thought |-> f.thought,
            answer |-> f.answer \o Shown(f.strip, Untagged(f.buffer \o x)),
            style |-> IF f.open THEN "tags"
                      ELSE IF f.close \/ Find(f.buffer \o x, CloseTag) > 0
                      THEN "closing" ELSE "none"]
BY DEF Outcome

\* The opening tag has come.
LEMMA TurnOpens ==
  ASSUME NEW f \in Work, Shape(f), f.state = "start",
         StartsWith(LStrip(f.buffer), OpenTag)
  PROVE  Onward(f, Turn(f))
<1> DEFINE b == f.buffer
           l == LStrip(b)
           d == Drop(l, Len(OpenTag))
           g == [f EXCEPT !.open = TRUE, !.state = "thinking", !.buffer = d]
<1>1. Turn(f) = g
  BY DEF Turn
<1>2. b \in Text /\ l \in Text /\ f.thought = <<>> /\ f.answer = <<>> /\ f.held = <<>>
      /\ ~f.strip /\ ~f.close
  BY StripJoined DEF Work, Shape
<1>3. Len(OpenTag) \in Nat /\ Len(OpenTag) > 1 /\ Len(OpenTag) <= Len(l) /\ OpenTag \in Text
  BY Tags DEF StartsWith
<1>4. d \in Text /\ Len(d) = Len(l) - Len(OpenTag)
  BY <1>2, <1>3, Dropped
<1>5. Len(l) <= Len(b) /\ Len(l) \in Nat /\ Len(b) \in Nat
  <2>1. PICK n \in 0..Len(b) : l = Drop(b, n)
    BY <1>2, Stripped
  <2>2. Len(l) = Len(b) - n /\ n \in Nat /\ Len(b) \in Nat
    BY <1>2, <2>1, Dropped, Lengths
  <2> QED BY <2>2
<1> HIDE DEF b, l, d
<1>6. /\ g \in Work /\ Shape(g) /\ g.state = "thinking" /\ g.buffer = d
      /\ g.thought = <<>>
  BY <1>2, <1>4 DEF Work, Shape
<1>7. ASSUME NEW x \in Text PROVE Outcome(g, x, style) = Outcome(f, x, style)
  <2> HIDE DEF g
  <2> DEFINE r == SplitAtClose(d \o x, <<>>)
  <2>1. Outcome(g, x, style) = [thought |-> <<>> \o r.thought,
                                answer |-> r.answer, style |-> "tags"]
    BY <1>6, OutcomeThinking
  <2>2. l # <<>>
    BY <1>3, NoText
  <2>3. LStrip(b \o x) = l \o x
    BY <1>2, <2>2, StripJoined DEF l
  <2>4. StartsWith(l \o x, OpenTag)
    BY <1>2, <1>3, StartsJoined DEF l, b
  <2>5. Drop(l \o x, Len(OpenTag)) = d \o x
    BY <1>2, <1>3, DropOfJoined DEF d
  <2>6. Outcome(f, x, style) = Expected(b \o x, style)
    BY DEF Outcome, b
  <2>7. Expected(b \o x, style) = [r EXCEPT !.style = "tags"]
    BY <2>3, <2>4, <2>5 DEF Expected
  <2>8. /\ r = [thought |-> r.thought, answer |-> r.answer, style |-> r.style]
        /\ r.thought \in Text
    <3> DEFINE e == d \o x
               z == <<>>
    <3>1. e \in Text /\ z \in Text
      BY <1>4, Joined, NoText
    <3> HIDE DEF e, z
    <3>2. LET q == SplitAtClose(e, z)
          IN /\ q = [thought |-> q.thought, answer |-> q.answer, style |-> q.style]
             /\ q.thought \in Text
      BY <3>1, SplitIs
    <3> QED BY <3>2 DEF e, z
  <2>9. <<>> \o r.thought = r.thought
    BY <2>8, JoinedWithNone
  <2> HIDE DEF r
  <2>10. [r EXCEPT !.style = "tags"] = [thought |-> r.thought, answer |-> r.answer,
                                        style |-> "tags"]
    BY <2>8
  <2> QED BY <2>1, <2>6, <2>7, <2>9, <2>10
<1>8. Size(g) < Size(f)
  <2>1. Size(g) = Len(d) /\ Size(f) = Len(b) + 1
    BY <1>6 DEF Size, b
  <2> QED BY <1>3, <1>4, <1>5, <2>1
<1>9. ~Settled(f)
  <2>1. ASSUME StartsWith(OpenTag, l), StartsWith(l, OpenTag) PROVE l = OpenTag
    <3>1. Len(OpenTag) <= Len(l) /\ \A i \in 1..Len(OpenTag) : l[i] = OpenTag[i]
      BY <1>2, <1>3, <2>1, StartsIs
    <3>2. Len(l) <= Len(OpenTag)
      BY <2>1 DEF StartsWith
    <3>3. Len(l) = Len(OpenTag)
      BY <1>3, <1>5, <3>1, <3>2
    <3> QED BY <1>2, <1>3, <3>1, <3>3, SameText
  <2> QED BY <2>1 DEF Settled, l, b
<1>10. ASSUME NEW kind, Plain(kind) PROVE Tally(g, kind) = Tally(f, kind)
  <2>1. Count(d, kind) = Count(l, kind)
    BY <1>2, <1>10, CountBehindOpening DEF d, l, b
  <2>2. Count(l, kind) = Count(b, kind)
    BY <1>2, <1>10, CountStripped DEF Plain, l
  <2>3. g.thought = f.thought /\ g.answer = f.answer /\ f.buffer = b
    BY <1>2, <1>6 DEF Work, b
  <2> HIDE DEF g
  <2> QED BY <1>6, <2>1, <2>2, <2>3 DEF Tally
<1>11. Grown(f.answer, g.answer)
  <2>1. f.answer \in Text /\ g.answer = f.answer
    BY DEF Work
  <2> HIDE DEF g
  <2> QED BY <2>1, GrownSame
<1> QED BY <1>1, <1>6, <1>7, <1>8, <1>9, <1>10, <1>11 DEF Onward

\* The opening tag may still come.
LEMMA TurnWaits ==
  ASSUME NEW f \in Work, Shape(f), f.state = "start",
         ~StartsWith(LStrip(f.buffer), OpenTag), StartsWith(OpenTag, LStrip(f.buffer))
  PROVE  Turn(f) = f /\ Onward(f, Turn(f))
<1> DEFINE l == LStrip(f.buffer)
<1>1. Turn(f) = f
  BY DEF Turn
<1>2. l # OpenTag
  <2>1. StartsWith(OpenTag, OpenTag)
    BY Tags, StartsIs
  <2> QED BY <2>1
<1>3. Settled(f)
  BY <1>2 DEF Settled
<1>4. Grown(f.answer, f.answer)
  BY GrownSame DEF Work
<1> QED BY <1>1, <1>3, <1>4 DEF Onward

\* The reply begins otherwise.
LEMMA TurnDecides ==
  ASSUME NEW f \in Work, Shape(f), f.state = "start",
         ~StartsWith(LStrip(f.buffer), OpenTag), ~StartsWith(OpenTag, LStrip(f.buffer))
  PROVE  Onward(f, Turn(f))
<1> DEFINE b == f.buffer
           l == LStrip(b)
           g == [f EXCEPT !.state = IF style = "none" THEN "answer" ELSE "undecided"]
<1>1. Turn(f) = g
  BY DEF Turn
<1>2. /\ b \in Text /\ l \in Text /\ f.thought = <<>> /\ f.answer = <<>> /\ f.held = <<>>
      /\ ~f.strip /\ ~f.close /\ ~f.open
  BY StripJoined DEF Work, Shape
<1>3. /\ g \in Work /\ Shape(g) /\ g.buffer = b /\ g.thought = <<>> /\ g.answer = <<>>
      /\ g.held = <<>> /\ ~g.strip /\ ~g.close /\ ~g.open
      /\ g.state = IF style = "none" THEN "answer" ELSE "undecided"
  <2> HIDE DEF b
  <2> QED BY <1>2 DEF Work, Shape, b
<1>4. l # <<>>
  <2>1. ASSUME l = <<>> PROVE StartsWith(OpenTag, l)
    <3>1. l \in Text /\ OpenTag \in Text /\ Len(OpenTag) \in Nat /\ Len(l) = 0
      BY <1>2, <2>1, Tags, NoText
    <3> HIDE DEF l
    <3> QED BY <3>1, StartsIs
  <2> QED BY <2>1
<1> HIDE DEF g
<1>5. ASSUME NEW x \in Text PROVE Outcome(g, x, style) = Outcome(f, x, style)
  <2> DEFINE s == b \o x
  <2>1. s \in Text /\ LStrip(s) = l \o x
    BY <1>2, <1>4, Joined, StripJoined
  <2>2. ~StartsWith(l \o x, OpenTag) /\ ~StartsWith(OpenTag, l \o x)
    BY <1>2, Tags, StartsJoined
  <2>3. Outcome(f, x, style) = Expected(s, style)
    BY DEF Outcome
  <2> HIDE DEF l, s
  <2>4. CASE style = "none"
    <3> DEFINE Z == IF Find(s, CloseTag) > 0 THEN "closing" ELSE "none"
               U == Untagged(s)
    <3>1. Expected(s, style) = [thought |-> <<>>, answer |-> U, style |-> Z]
      BY <2>1, <2>2, <2>4 DEF Expected
    <3> DEFINE A == g.answer \o Shown(g.strip, U)
               Y == IF g.open THEN "tags"
                    ELSE IF g.close \/ Find(s, CloseTag) > 0 THEN "closing" ELSE "none"
    <3>2. Outcome(g, x, style) = [thought |-> g.thought, answer |-> A, style |-> Y]
      BY <1>3, <2>4, OutcomeAnswer DEF s
    <3>3. A = U
      BY <1>3, <2>1, UntaggedText, JoinedWithNone DEF Shown
    <3>4. Y = Z
      BY <1>3
    <3> HIDE DEF A, U, Y, Z
    <3> QED BY <1>3, <2>3, <3>1, <3>2, <3>3, <3>4
  <2>5. CASE style # "none"
    <3> DEFINE r == SplitAtClose(s, s)
    <3>1. Expected(s, style) = r
      BY <2>1, <2>2, <2>5 DEF Expected
    <3>2. <<>> \o s = s
      BY <2>1, JoinedWithNone
    <3>3. Outcome(g, x, style) =
            [thought |-> <<>> \o SplitAtClose(s, <<>> \o s).thought,
             answer |-> SplitAtClose(s, <<>> \o s).answer,
             style |-> SplitAtClose(s, <<>> \o s).style]
      BY <1>3, <2>5, OutcomeUndecided DEF s
    <3>4. /\ r = [thought |-> r.thought, answer |-> r.answer, style |-> r.style]
          /\ r.thought \in Text
      BY <2>1, SplitIs
    <3>5. <<>> \o r.thought = r.thought
      BY <3>4, JoinedWithNone
    <3>6. Outcome(g, x, style) = [thought |-> <<>> \o r.thought,
                                  answer |-> r.answer, style |-> r.style]
      BY <3>2, <3>3
    <3> HIDE DEF r
    <3> QED BY <2>3, <3>1, <3>4, <3>5, <3>6
  <2> QED BY <2>4, <2>5
<1>6. Size(g) < Size(f)
  <2>1. Size(g) = Len(b) /\ Size(f) = Len(b) + 1 /\ Len(b) \in Nat
    BY <1>2, <1>3, Lengths DEF Size
  <2> QED BY <2>1
<1>7. ~Settled(f)
  BY DEF Settled
<1>8. ASSUME NEW kind PROVE Tally(g, kind) = Tally(f, kind)
  BY <1>2, <1>3 DEF Tally
<1>9. Grown(f.answer, g.answer)
  BY <1>2, <1>3, NoText, GrownSame
<1> QED BY <1>1, <1>3, <1>5, <1>6, <1>7, <1>8, <1>9 DEF Onward

\* The closing tag has come: the answer begins behind it.
LEMMA TurnCloses ==
  ASSUME NEW f \in Work, Shape(f), f.state \in {"thinking", "undecided"},
         Find(f.buffer, CloseTag) # 0
  PROVE  Onward(f, Turn(f))
<1> DEFINE b == f.buffer
           B == SubSeq(b, 1, Find(b, CloseTag) - 1)
           A == Drop(b, Behind(Find(b, CloseTag)))
           T == f.thought \o B
           g == [f EXCEPT !.thought = T, !.close = TRUE, !.held = <<>>,
                          !.buffer = A, !.state = "answer", !.strip = TRUE]
<1>1. /\ b \in Text /\ f.thought \in Text /\ f.answer = <<>> /\ ~f.strip /\ ~f.close
      /\ f.state = "thinking" => f.open
      /\ f.state = "undecided" => ~f.open /\ f.held = f.thought
      /\ f.state = "thinking" \/ f.state = "undecided"
  BY DEF Work, Shape
<1>2. /\ B \in Text /\ A \in Text /\ Len(A) < Len(b) /\ Len(A) \in Nat /\ Len(b) \in Nat
      /\ Find(b, CloseTag) > 0
  <2>1. B \in Text /\ A \in Text /\ Len(A) < Len(b) /\ Find(b, CloseTag) \in Nat \ {0}
    BY <1>1, AroundTag
  <2> QED BY <1>1, <2>1, Lengths
<1>3. T \in Text
  BY <1>1, <1>2, Joined
<1>4. Turn(f) = g
  <2>1. /\ Before(f) = B /\ After(f) = A /\ Think(f, B) = [f EXCEPT !.thought = T]
        /\ f.state # "start" /\ Find(f.buffer, CloseTag) > 0
    BY <1>1, <1>2 DEF Before, After, Think, Behind
  <2> HIDE DEF A, B, T
  <2>2. Turn(f) = [Think(f, B) EXCEPT !.close = TRUE, !.held = <<>>, !.buffer = A,
                                      !.state = "answer", !.strip = TRUE]
    BY <1>1, <2>1 DEF Turn
  <2> QED BY <2>1, <2>2 DEF Work
<1> HIDE DEF b, A, B, T
<1>5. <<>> \in Text
  BY NoText
<1>6. /\ g \in Work /\ Shape(g) /\ g.state = "answer" /\ g.buffer = A
      /\ g.thought = T /\ g.answer = <<>> /\ g.strip = TRUE /\ g.close = TRUE
      /\ g.open = f.open
  BY <1>1, <1>2, <1>3, <1>5 DEF Work, Shape
<1> HIDE DEF g
<1>7. ASSUME NEW x \in Text PROVE Outcome(g, x, style) = Outcome(f, x, style)
  <2> DEFINE W == LStrip(Untagged(A \o x))
             Z == IF f.open THEN "tags" ELSE "closing"
  <2>1. W \in Text
    <3> DEFINE v == A \o x
               u == Untagged(v)
    <3>1. v \in Text
      BY <1>2, Joined
    <3> HIDE DEF v
    <3>2. u \in Text
      BY <3>1, UntaggedText
    <3> HIDE DEF u
    <3>3. LStrip(u) \in Text
      BY <3>2, StripJoined
    <3> QED BY <3>3 DEF u, v
  <2>2. Outcome(g, x, style) = [thought |-> T, answer |-> W, style |-> Z]
    <3> DEFINE V == g.answer \o Shown(g.strip, Untagged(g.buffer \o x))
               Y == IF g.open THEN "tags"
                    ELSE IF g.close \/ Find(g.buffer \o x, CloseTag) > 0
                    THEN "closing" ELSE "none"
    <3>1. Outcome(g, x, style) = [thought |-> g.thought, answer |-> V, style |-> Y]
      BY <1>6, OutcomeAnswer
    <3>2. V = W
      <4>1. Shown(g.strip, Untagged(g.buffer \o x)) = W
        BY <1>6 DEF Shown
      <4> HIDE DEF W
      <4> QED BY <1>6, <2>1, <4>1, JoinedWithNone
    <3>3. Y = Z
      BY <1>6
    <3> HIDE DEF V, W, Y, Z
    <3> QED BY <1>6, <3>1, <3>2, <3>3
  <2>3. ASSUME NEW kept
        PROVE  SplitAtClose(b \o x, kept) = [thought |-> B, answer |-> W, style |-> "closing"]
    BY <1>1, <1>2, SplitFound DEF A, B, b
  <2> HIDE DEF W
  <2>4. CASE f.state = "thinking"
    <3> DEFINE r == SplitAtClose(b \o x, <<>>)
    <3>1. r = [thought |-> B, answer |-> W, style |-> "closing"]
      BY <2>3
    <3>2. Outcome(f, x, style) = [thought |-> f.thought \o r.thought,
                                  answer |-> r.answer, style |-> "tags"]
      BY <2>4, OutcomeThinking DEF b
    <3> HIDE DEF r
    <3>3. r.thought = B /\ r.answer = W /\ Z = "tags"
      BY <1>1, <2>4, <3>1
    <3>4. f.thought \o r.thought = T
      BY <3>3 DEF T
    <3> HIDE DEF Z
    <3> QED BY <2>2, <3>2, <3>3, <3>4
  <2>5. CASE f.state = "undecided"
    <3> DEFINE r == SplitAtClose(b \o x, f.held \o (b \o x))
    <3>1. r = [thought |-> B, answer |-> W, style |-> "closing"]
      BY <2>3
    <3>2. Outcome(f, x, style) = [thought |-> f.thought \o r.thought,
                                  answer |-> r.answer, style |-> r.style]
      BY <2>5, OutcomeUndecided DEF b
    <3> HIDE DEF r
    <3>3. r.thought = B /\ r.answer = W /\ r.style = Z
      BY <1>1, <2>5, <3>1
    <3>4. f.thought \o r.thought = T
      BY <3>3 DEF T
    <3> HIDE DEF Z
    <3> QED BY <2>2, <3>2, <3>3, <3>4
  <2> QED BY <1>1, <2>4, <2>5
<1>8. Size(g) < Size(f)
  <2>1. Size(g) = Len(A) /\ Size(f) = Len(b)
    BY <1>1, <1>6 DEF Size, b
  <2> QED BY <1>2, <2>1
<1>9. ~Settled(f)
  <2>1. ASSUME PartialTag(b, CloseTag) = Len(b) PROVE FALSE
    BY <1>1, <1>2, <2>1, Tags, NoTagInPartial
  <2> QED BY <1>1, <2>1 DEF Settled, b
<1>10. ASSUME NEW kind, Plain(kind) PROVE Tally(g, kind) = Tally(f, kind)
  <2>1. Count(b, kind) = Count(B, kind) + Count(A, kind)
    BY <1>1, <1>2, <1>10, CountAroundTag DEF A, B
  <2>2. Count(T, kind) = Count(f.thought, kind) + Count(B, kind)
    BY <1>1, <1>2, CountJoined DEF T
  <2>3. /\ Count(A, kind) \in Nat /\ Count(B, kind) \in Nat
        /\ Count(f.thought, kind) \in Nat /\ Count(f.answer, kind) \in Nat
    BY <1>1, <1>2, <1>5, PlacesFinite
  <2>4. Tally(g, kind) = Count(T, kind) + Count(f.answer, kind) + Count(A, kind)
    BY <1>1, <1>6 DEF Tally
  <2>5. Tally(f, kind) = Count(f.thought, kind) + Count(f.answer, kind) + Count(b, kind)
    BY DEF Tally, b
  <2> QED BY <2>1, <2>2, <2>3, <2>4, <2>5
<1>11. Grown(f.answer, g.answer)
  BY <1>1, <1>5, <1>6, GrownSame
<1> QED BY <1>1, <1>4, <1>6, <1>7, <1>8, <1>9, <1>10, <1>11 DEF Onward

\* No closing tag yet: all but what may become one is thinking.
LEMMA TurnHolds ==
  ASSUME NEW f \in Work, Shape(f), f.state \in {"thinking", "undecided"},
         Find(f.buffer, CloseTag) = 0
  PROVE  Onward(f, Turn(f))
<1> DEFINE b == f.buffer
           m == Len(b) - PartialTag(b, CloseTag)
           R == SubSeq(b, 1, m)
           K == Drop(b, m)
           T == f.thought \o R
           H == IF f.state = "undecided" THEN f.held \o R ELSE f.held
           g == [f EXCEPT !.thought = T, !.buffer = K, !.held = H]
<1>1. /\ b \in Text /\ f.thought \in Text /\ f.held \in Text /\ f.answer = <<>>
      /\ f.state = "thinking" => f.open
      /\ f.state = "undecided" => ~f.open /\ f.held = f.thought
      /\ f.state = "thinking" \/ f.state = "undecided"
      /\ ~f.strip /\ ~f.close
  BY DEF Work, Shape
<1>2. m \in Nat /\ m <= Len(b)
  <2>1. /\ Len(b) \in Nat /\ PartialTag(b, CloseTag) \in Nat
        /\ PartialTag(b, CloseTag) <= Len(b)
    BY <1>1, Tags, Partial, Lengths
  <2> QED BY <2>1
<1> HIDE DEF b
<1>3. /\ R \in Text /\ K \in Text /\ Len(R) = m /\ b = R \o K
      /\ PartialTag(K, CloseTag) = Len(K)
  <2>1. Find(b, CloseTag) = 0 /\ m = Len(b) - PartialTag(b, CloseTag)
    BY DEF b
  <2> HIDE DEF m
  <2>2. PartialTag(Drop(b, m), CloseTag) = Len(Drop(b, m))
    BY <1>1, <1>2, <2>1, Tags, KeptIsPartial
  <2> QED BY <1>1, <1>2, <2>2, Begun, Dropped, BeginningAndRest
<1>4. T \in Text /\ H \in Text
  BY <1>1, <1>3, Joined
<1>5. Turn(f) = g
  <2>1. Ready(f) = R
    BY DEF Ready, b
  <2>2. Keep(f) = K
    BY <1>3, <2>1 DEF Keep, b
  <2>3. Find(f.buffer, CloseTag) > 0 <=> FALSE
    OBVIOUS
  <2>4. Think(f, R) = [f EXCEPT !.thought = T]
    BY DEF Think
  <2> HIDE DEF K, R, T
  <2>5. Turn(f) = [Think(f, R) EXCEPT
                     !.buffer = K,
                     !.held = IF f.state = "undecided" THEN @ \o R ELSE @]
    BY <1>1, <2>1, <2>2, <2>3 DEF Turn
  <2>6. Think(f, R).held = f.held
    BY <2>4 DEF Work
  <2>7. Turn(f) = [Think(f, R) EXCEPT !.buffer = K, !.held = H]
    BY <2>4, <2>5, <2>6 DEF Work
  <2> HIDE DEF H
  <2> QED BY <2>4, <2>7 DEF Work
<1> HIDE DEF m
<1>6. /\ f.state = "undecided" => H = T
      /\ f.state = "thinking" => H = f.held
  BY <1>1
<1>7. ASSUME NEW x \in Text PROVE Outcome(g, x, style) = Outcome(f, x, style)
  <2>1. ASSUME NEW kept
        PROVE  SplitAtClose(b \o x, kept) =
                 [thought |-> R \o SplitAtClose(K \o x, kept).thought,
                  answer |-> SplitAtClose(K \o x, kept).answer,
                  style |-> SplitAtClose(K \o x, kept).style]
    <3>1. Find(b, CloseTag) = 0 /\ m = Len(b) - PartialTag(b, CloseTag)
      BY DEF b, m
    <3> QED BY <1>1, <1>2, <3>1, SplitHeldBack, SMTT(60)
  <2>2. K \o x \in Text /\ b \o x \in Text /\ b \o x = R \o (K \o x)
    <3> HIDE DEF R, K
    <3>1. (R \o K) \o x = R \o (K \o x)
      BY <1>3, JoinedTwice
    <3> QED BY <1>1, <1>3, <3>1, Joined
  <2> HIDE DEF R, K, H
  <2>3. /\ g \in Work /\ g.state = f.state /\ g.buffer = K /\ g.thought = T
        /\ g.held = H
    <3> HIDE DEF T
    <3> QED BY <1>3, <1>4 DEF Work
  <2> HIDE DEF g
  <2>4. CASE f.state = "thinking"
    <3> DEFINE q == SplitAtClose(b \o x, <<>>)
               r == SplitAtClose(K \o x, <<>>)
    <3>1. q = [thought |-> R \o r.thought, answer |-> r.answer, style |-> r.style]
      BY <2>1
    <3>2. Outcome(f, x, style) = [thought |-> f.thought \o q.thought,
                                  answer |-> q.answer, style |-> "tags"]
      BY <2>4, OutcomeThinking DEF b
    <3>3. Outcome(g, x, style) = [thought |-> T \o r.thought,
                                  answer |-> r.answer, style |-> "tags"]
      BY <2>3, <2>4, OutcomeThinking
    <3>4. r.thought \in Text
      <4> DEFINE e == K \o x
                 z == <<>>
      <4>1. e \in Text /\ z \in Text
        BY <2>2, NoText
      <4> HIDE DEF e, z
      <4>2. SplitAtClose(e, z).thought \in Text
        BY <4>1, SplitIs
      <4> QED BY <4>2 DEF e, z
    <3> HIDE DEF q, r
    <3>5. q.thought = R \o r.thought /\ q.answer = r.answer
      BY <3>1
    <3>6. f.thought \o q.thought = T \o r.thought
      <4> DEFINE c == f.thought
                 u == r.thought
      <4>1. c \in Text /\ R \in Text /\ u \in Text /\ T = c \o R /\ q.thought = R \o u
        BY <1>1, <1>3, <3>4, <3>5 DEF T
      <4> HIDE DEF c, u
      <4>2. (c \o R) \o u = c \o (R \o u)
        BY <4>1, JoinedTwice
      <4>3. c \o q.thought = T \o u
        BY <4>1, <4>2
      <4> QED BY <4>3 DEF c, u
    <3> QED BY <3>2, <3>3, <3>5, <3>6
  <2>5. CASE f.state = "undecided"
    <3> DEFINE k == f.held \o (b \o x)
               q == SplitAtClose(b \o x, k)
               r == SplitAtClose(K \o x, k)
    <3>1. q = [thought |-> R \o r.thought, answer |-> r.answer, style |-> r.style]
      BY <2>1
    <3>2. Outcome(f, x, style) = [thought |-> f.thought \o q.thought,
                                  answer |-> q.answer, style |-> q.style]
      BY <2>5, OutcomeUndecided DEF b
    <3>3. H \o (K \o x) = k /\ k \in Text
      <4> DEFINE e == K \o x
      <4>1. f.held \o R = H /\ e \in Text /\ b \o x = R \o e
        BY <2>2, <2>5 DEF H
      <4> HIDE DEF e
      <4>2. H \o e = f.held \o (R \o e)
        <5> DEFINE c == f.held
        <5>1. c \in Text /\ R \in Text /\ H = c \o R
          BY <1>1, <1>3, <4>1
        <5> HIDE DEF c
        <5>2. (c \o R) \o e = c \o (R \o e)
          BY <4>1, <5>1, JoinedTwice
        <5>3. H \o e = c \o (R \o e)
          BY <5>1, <5>2
        <5> QED BY <5>3 DEF c
      <4>3. H \o e = k
        BY <4>1, <4>2
      <4>4. k \in Text
        BY <1>1, <2>2, Joined
      <4> QED BY <4>3, <4>4 DEF e
    <3>4. Outcome(g, x, style) =
            [thought |-> T \o SplitAtClose(K \o x, H \o (K \o x)).thought,
             answer |-> SplitAtClose(K \o x, H \o (K \o x)).answer,
             style |-> SplitAtClose(K \o x, H \o (K \o x)).style]
      BY <2>3, <2>5, OutcomeUndecided
    <3>5. Outcome(g, x, style) = [thought |-> T \o r.thought,
                                  answer |-> r.answer, style |-> r.style]
      BY <3>3, <3>4
    <3>6. r.thought \in Text
      <4> DEFINE e == K \o x
      <4>1. e \in Text
        BY <2>2
      <4> HIDE DEF e, k
      <4>2. SplitAtClose(e, k).thought \in Text
        BY <3>3, <4>1, SplitIs
      <4> QED BY <4>2 DEF e
    <3> HIDE DEF q, r
    <3>7. q.thought = R \o r.thought /\ q.answer = r.answer /\ q.style = r.style
      BY <3>1
    <3>8. f.thought \o q.thought = T \o r.thought
      <4> DEFINE c == f.thought
                 u == r.thought
      <4>1. c \in Text /\ R \in Text /\ u \in Text /\ T = c \o R /\ q.thought = R \o u
        BY <1>1, <1>3, <3>6, <3>7 DEF T
      <4> HIDE DEF c, u
      <4>2. (c \o R) \o u = c \o (R \o u)
        BY <4>1, JoinedTwice
      <4>3. c \o q.thought = T \o u
        BY <4>1, <4>2
      <4> QED BY <4>3 DEF c, u
    <3> QED BY <3>2, <3>5, <3>7, <3>8
  <2> QED BY <1>1, <2>4, <2>5
<1> HIDE DEF T, H, R, K
<1>8. g \in Work /\ Shape(g) /\ Settled(g)
  <2>1. /\ g \in Work /\ g.state = f.state /\ g.buffer = K /\ g.thought = T
        /\ g.held = H /\ g.open = f.open /\ g.close = f.close /\ g.strip = f.strip
        /\ g.answer = f.answer
    BY <1>3, <1>4 DEF Work
  <2> HIDE DEF g
  <2>2. Shape(g)
    BY <1>1, <1>6, <2>1 DEF Shape
  <2>3. Settled(g)
    BY <1>1, <1>3, <2>1 DEF Settled
  <2> QED BY <2>1, <2>2, <2>3
<1>9. ASSUME NEW kind PROVE Tally(g, kind) = Tally(f, kind)
  <2>1. Count(b, kind) = Count(R, kind) + Count(K, kind)
    BY <1>3, CountJoined
  <2>2. Count(T, kind) = Count(f.thought, kind) + Count(R, kind)
    BY <1>1, <1>3, CountJoined DEF T
  <2>3. /\ Count(R, kind) \in Nat /\ Count(K, kind) \in Nat
        /\ Count(f.thought, kind) \in Nat /\ Count(f.answer, kind) \in Nat
    <3>1. f.answer \in Text
      BY DEF Work
    <3> QED BY <1>1, <1>3, <3>1, PlacesFinite
  <2>4. g.thought = T /\ g.answer = f.answer /\ g.buffer = K
    BY <1>3, <1>4 DEF Work
  <2> HIDE DEF g
  <2>5. Tally(g, kind) = Count(T, kind) + Count(f.answer, kind) + Count(K, kind)
    BY <2>4 DEF Tally
  <2>6. Tally(f, kind) = Count(f.thought, kind) + Count(f.answer, kind) + Count(b, kind)
    BY DEF Tally, b
  <2> QED BY <2>1, <2>2, <2>3, <2>5, <2>6
<1>10. Grown(f.answer, g.answer)
  <2>1. f.answer \in Text /\ g.answer = f.answer
    BY DEF Work
  <2> HIDE DEF g
  <2> QED BY <2>1, GrownSame
<1> QED BY <1>1, <1>5, <1>7, <1>8, <1>9, <1>10 DEF Onward

\* The answer with a text at its end, and whether it still has not begun.
Extended(f, s) == f.answer \o Shown(f.strip, s)
Unbegun(f, s) == f.strip /\ Shown(f.strip, s) = <<>>

LEMMA ShownAfter ==
  ASSUME NEW f \in Work, NEW s \in Text, NEW u \in Text
  PROVE  Extended(f, s \o u) = Extended(f, s) \o Shown(Unbegun(f, s), u)
<1> DEFINE c == f.answer
           k == f.strip
           t == Shown(k, s)
           l == k /\ t = <<>>
           v == Shown(l, u)
<1>1. c \in Text /\ k \in BOOLEAN
  BY DEF Work
<1>2. l \in BOOLEAN
  BY <1>1
<1> HIDE DEF c, k
<1>3. t \in Text /\ Shown(k, s \o u) = t \o v
  BY <1>1, ShownJoined
<1> HIDE DEF l, t
<1>4. v \in Text
  BY <1>2, ShownJoined
<1> HIDE DEF v
<1>5. (c \o t) \o v = c \o (t \o v)
  BY <1>1, <1>3, <1>4, JoinedTwice, SMTT(60)
<1>6. c \o Shown(k, s \o u) = (c \o t) \o v
  BY <1>3, <1>5
<1> QED BY <1>6 DEF Extended, Unbegun, c, k, l, t, v

With(f, a, k) == [f EXCEPT !.answer = a, !.strip = k]

LEMMA AnswerIs ==
  ASSUME NEW f \in Work, NEW s \in Text
  PROVE  /\ Extended(f, s) \in Text /\ Unbegun(f, s) \in BOOLEAN
         /\ Grown(f.answer, Extended(f, s))
         /\ Answer(f, s) = With(f, Extended(f, s), Unbegun(f, s))
<1> DEFINE t == Shown(f.strip, s)
<1>1. f.answer \in Text /\ f.strip \in BOOLEAN
  BY DEF Work
<1>2. t \in Text
  <2> DEFINE k == f.strip
  <2>1. k \in BOOLEAN
    BY <1>1
  <2> HIDE DEF k
  <2>2. Shown(k, s) \in Text
    BY <2>1, ShownJoined
  <2> QED BY <2>2 DEF k
<1>3. Answer(f, s) = [f EXCEPT !.answer = @ \o t, !.strip = @ /\ t = <<>>]
  BY DEF Answer, Shown
<1> HIDE DEF t
<1>4. Answer(f, s) = [f EXCEPT !.answer = f.answer \o t, !.strip = f.strip /\ t = <<>>]
  BY <1>3 DEF Work
<1>5. f.answer \o t \in Text /\ (f.strip /\ t = <<>>) \in BOOLEAN
  BY <1>1, <1>2, Joined
<1>6. Grown(f.answer, f.answer \o t)
  BY <1>2 DEF Grown
<1> QED BY <1>4, <1>5, <1>6 DEF Extended, Unbegun, With, t

LEMMA CountExtended ==
  ASSUME NEW f \in Work, NEW s \in Text, NEW kind, Space \notin kind
  PROVE  /\ Count(Extended(f, s), kind) = Count(f.answer, kind) + Count(s, kind)
         /\ Count(f.thought, kind) \in Nat /\ Count(f.answer, kind) \in Nat
<1> DEFINE c == f.answer
           k == f.strip
           t == Shown(k, s)
<1>1. c \in Text /\ k \in BOOLEAN /\ f.thought \in Text
  BY DEF Work
<1>2. Count(t, kind) = Count(s, kind)
  BY CountStripped DEF Shown
<1> HIDE DEF c, k
<1>3. t \in Text
  BY <1>1, ShownJoined
<1> HIDE DEF t
<1>4. Count(c \o t, kind) = Count(c, kind) + Count(t, kind)
  BY <1>1, <1>3, CountJoined
<1>5. Count(c, kind) \in Nat
  BY <1>1, PlacesFinite
<1>6. Count(f.thought, kind) \in Nat
  BY <1>1, PlacesFinite
<1> QED BY <1>2, <1>4, <1>5, <1>6 DEF Extended, c, k, t

\* A closing tag in the answer is dropped.
LEMMA TurnDrops ==
  ASSUME NEW f \in Work, Shape(f), f.state = "answer", Find(f.buffer, CloseTag) # 0
  PROVE  Onward(f, Turn(f))
<1> DEFINE b == f.buffer
           B == SubSeq(b, 1, Find(b, CloseTag) - 1)
           A == Drop(b, Behind(Find(b, CloseTag)))
           S == Unbegun(f, B)
           N == Extended(f, B)
           g == [f EXCEPT !.answer = N, !.strip = S, !.close = TRUE, !.buffer = A]
<1>1. b \in Text /\ f.thought \in Text /\ f.answer \in Text /\ f.strip \in BOOLEAN
  BY DEF Work
<1>2. /\ B \in Text /\ A \in Text /\ Len(A) < Len(b) /\ Len(A) \in Nat /\ Len(b) \in Nat
      /\ Find(b, CloseTag) > 0
  <2>1. B \in Text /\ A \in Text /\ Len(A) < Len(b) /\ Find(b, CloseTag) \in Nat \ {0}
    BY <1>1, AroundTag
  <2> QED BY <1>1, <2>1, Lengths
<1> HIDE DEF B, A
<1>3. /\ N \in Text /\ S \in BOOLEAN
      /\ Answer(f, B) = With(f, N, S) /\ Grown(f.answer, N)
  BY <1>1, <1>2, AnswerIs
<1> HIDE DEF N, S
<1>4. Turn(f) = g
  <2>1. Before(f) = B /\ After(f) = A /\ Find(f.buffer, CloseTag) > 0
    BY <1>2 DEF Before, After, Behind, A, B
  <2>2. Turn(f) = [Answer(f, B) EXCEPT !.close = TRUE, !.buffer = A]
    BY <2>1 DEF Turn
  <2> QED BY <1>3, <2>2 DEF Work, With
<1>5. /\ g \in Work /\ g.state = "answer" /\ g.buffer = A /\ g.thought = f.thought
      /\ g.answer = N /\ g.strip = S /\ g.close = TRUE /\ g.open = f.open
  BY <1>2, <1>3 DEF Work
<1>6. Shape(g)
  BY <1>5 DEF Shape
<1> HIDE DEF g
<1>7. ASSUME NEW x \in Text PROVE Outcome(g, x, style) = Outcome(f, x, style)
  <2> DEFINE u == Untagged(A \o x)
             V == Extended(f, Untagged(b \o x))
             W == N \o Shown(S, u)
             Y == IF f.open THEN "tags"
                  ELSE IF f.close \/ Find(b \o x, CloseTag) > 0 THEN "closing" ELSE "none"
             Z == IF g.open THEN "tags"
                  ELSE IF g.close \/ Find(g.buffer \o x, CloseTag) > 0
                  THEN "closing" ELSE "none"
  <2>1. Outcome(f, x, style) = [thought |-> f.thought, answer |-> V, style |-> Y]
    BY OutcomeAnswer DEF Extended
  <2>2. Outcome(g, x, style) = [thought |-> g.thought, answer |-> W, style |-> Z]
    BY <1>5, OutcomeAnswer
  <2>3. u \in Text
    <3> DEFINE e == A \o x
    <3>1. e \in Text
      BY <1>2, Joined
    <3> HIDE DEF e
    <3>2. Untagged(e) \in Text
      BY <3>1, UntaggedText
    <3> QED BY <3>2 DEF e
  <2>4. Untagged(b \o x) = B \o u
    BY <1>1, <1>2, UntaggedFound DEF A, B
  <2> HIDE DEF u
  <2>5. V = W
    BY <1>2, <2>3, <2>4, ShownAfter DEF N, S
  <2>6. Y = Z
    <3>1. Find(b \o x, CloseTag) = Find(b, CloseTag)
      BY <1>1, <1>2, FoundStays
    <3> QED BY <1>2, <1>5, <3>1
  <2> HIDE DEF V, W, Y, Z
  <2> QED BY <1>5, <2>1, <2>2, <2>5, <2>6
<1>8. Size(g) < Size(f)
  <2>1. Size(g) = Len(A) /\ Size(f) = Len(b)
    BY <1>5 DEF Size
  <2> QED BY <1>2, <2>1
<1>9. ~Settled(f)
  <2>1. ASSUME PartialTag(b, CloseTag) = Len(b) PROVE FALSE
    BY <1>1, <1>2, <2>1, Tags, NoTagInPartial
  <2> QED BY <2>1 DEF Settled
<1>10. ASSUME NEW kind, Plain(kind) PROVE Tally(g, kind) = Tally(f, kind)
  <2>1. Count(b, kind) = Count(B, kind) + Count(A, kind)
    BY <1>1, <1>2, <1>10, CountAroundTag DEF A, B
  <2>2. /\ Count(N, kind) = Count(f.answer, kind) + Count(B, kind)
        /\ Count(f.thought, kind) \in Nat /\ Count(f.answer, kind) \in Nat
    BY <1>2, <1>10, CountExtended DEF N, Plain
  <2>3. Count(A, kind) \in Nat /\ Count(B, kind) \in Nat
    BY <1>2, PlacesFinite
  <2>4. Tally(g, kind) = Count(f.thought, kind) + Count(N, kind) + Count(A, kind)
    BY <1>5 DEF Tally
  <2>5. Tally(f, kind) = Count(f.thought, kind) + Count(f.answer, kind) + Count(b, kind)
    BY DEF Tally
  <2> HIDE DEF b
  <2> QED BY <2>1, <2>2, <2>3, <2>4, <2>5
<1> QED BY <1>3, <1>4, <1>5, <1>6, <1>7, <1>8, <1>9, <1>10 DEF Onward

\* All of an answer but what may become a closing tag is given out.
LEMMA TurnSpeaks ==
  ASSUME NEW f \in Work, Shape(f), f.state = "answer", Find(f.buffer, CloseTag) = 0
  PROVE  Onward(f, Turn(f))
<1> DEFINE b == f.buffer
           m == Len(b) - PartialTag(b, CloseTag)
           R == SubSeq(b, 1, m)
           K == Drop(b, m)
           S == Unbegun(f, R)
           N == Extended(f, R)
           g == [f EXCEPT !.answer = N, !.strip = S, !.buffer = K]
<1>1. b \in Text /\ f.thought \in Text /\ f.answer \in Text /\ f.strip \in BOOLEAN
  BY DEF Work
<1>2. m \in Nat /\ m <= Len(b)
  <2>1. /\ Len(b) \in Nat /\ PartialTag(b, CloseTag) \in Nat
        /\ PartialTag(b, CloseTag) <= Len(b)
    BY <1>1, Tags, Partial, Lengths
  <2> QED BY <2>1
<1> HIDE DEF b
<1>3. /\ R \in Text /\ K \in Text /\ Len(R) = m /\ b = R \o K
      /\ PartialTag(K, CloseTag) = Len(K)
  <2>1. Find(b, CloseTag) = 0 /\ m = Len(b) - PartialTag(b, CloseTag)
    BY DEF b
  <2> HIDE DEF m
  <2>2. PartialTag(Drop(b, m), CloseTag) = Len(Drop(b, m))
    BY <1>1, <1>2, <2>1, Tags, KeptIsPartial
  <2> QED BY <1>1, <1>2, <2>2, Begun, Dropped, BeginningAndRest
<1>4. Ready(f) = R
  BY DEF Ready, b
<1>5. Keep(f) = K
  BY <1>3, <1>4 DEF Keep, b
<1> HIDE DEF R, K
<1>6. /\ N \in Text /\ S \in BOOLEAN
      /\ Answer(f, R) = With(f, N, S) /\ Grown(f.answer, N)
  BY <1>1, <1>3, AnswerIs
<1> HIDE DEF N, S
<1>7. Turn(f) = g
  <2>1. Find(f.buffer, CloseTag) > 0 <=> FALSE
    OBVIOUS
  <2>2. Turn(f) = [Answer(f, R) EXCEPT !.buffer = K]
    BY <1>4, <1>5, <2>1 DEF Turn
  <2> QED BY <1>6, <2>2 DEF Work, With
<1>8. /\ g \in Work /\ g.state = "answer" /\ g.buffer = K /\ g.thought = f.thought
      /\ g.answer = N /\ g.strip = S /\ g.close = f.close /\ g.open = f.open
  BY <1>3, <1>6 DEF Work
<1>9. Shape(g) /\ Settled(g)
  BY <1>3, <1>8 DEF Shape, Settled
<1> HIDE DEF g
<1>10. ASSUME NEW x \in Text PROVE Outcome(g, x, style) = Outcome(f, x, style)
  <2> DEFINE u == Untagged(K \o x)
             V == Extended(f, Untagged(b \o x))
             W == N \o Shown(S, u)
             Y == IF f.open THEN "tags"
                  ELSE IF f.close \/ Find(b \o x, CloseTag) > 0 THEN "closing" ELSE "none"
             Z == IF g.open THEN "tags"
                  ELSE IF g.close \/ Find(g.buffer \o x, CloseTag) > 0
                  THEN "closing" ELSE "none"
  <2>0. Find(b, CloseTag) = 0 /\ m = Len(b) - PartialTag(b, CloseTag)
    BY DEF b
  <2>1. Outcome(f, x, style) = [thought |-> f.thought, answer |-> V, style |-> Y]
    BY OutcomeAnswer DEF Extended, b
  <2>2. Outcome(g, x, style) = [thought |-> g.thought, answer |-> W, style |-> Z]
    BY <1>8, OutcomeAnswer
  <2> HIDE DEF m
  <2>3. u \in Text
    <3> DEFINE e == K \o x
    <3>1. e \in Text
      BY <1>3, Joined
    <3> HIDE DEF e
    <3>2. Untagged(e) \in Text
      BY <3>1, UntaggedText
    <3> QED BY <3>2 DEF e
  <2>4. Untagged(b \o x) = R \o u
    BY <1>1, <1>2, <2>0, UntaggedHeldBack, ZenonT(60) DEF R, K
  <2>5. V = W
    <3> HIDE DEF u
    <3> QED BY <1>3, <2>3, <2>4, ShownAfter, ZenonT(60) DEF N, S
  <2>6. Find(b \o x, CloseTag) > 0 <=> Find(K \o x, CloseTag) > 0
    <3>1. /\ m <= Len(b)
          /\ IF Find(b \o x, CloseTag) = 0 THEN Find(Drop(b, m) \o x, CloseTag) = 0
             ELSE /\ Find(b \o x, CloseTag) - m \in Nat \ {0}
                  /\ Find(Drop(b, m) \o x, CloseTag) = Find(b \o x, CloseTag) - m
      BY <1>1, <1>2, <2>0, Tags, HeldBack
    <3> DEFINE i == Find(b \o x, CloseTag)
               j == Find(Drop(b, m) \o x, CloseTag)
    <3>2. i \in Nat
      <4> DEFINE w == b \o x
      <4>1. w \in Text
        BY <1>1, Joined
      <4> HIDE DEF w
      <4>2. Find(w, CloseTag) \in Nat
        BY <4>1, Tags, Found
      <4> QED BY <4>2 DEF w
    <3>3. i = 0 => j = 0
      BY <3>1
    <3>4. i # 0 => j \in Nat \ {0}
      BY <3>1
    <3> HIDE DEF i, j
    <3>5. i > 0 <=> j > 0
      BY <3>2, <3>3, <3>4
    <3> QED BY <3>5 DEF i, j, K
  <2>7. Y = Z
    BY <1>8, <2>6
  <2> HIDE DEF V, W, Y, Z
  <2> QED BY <1>8, <2>1, <2>2, <2>5, <2>7
<1>11. ASSUME NEW kind, Plain(kind) PROVE Tally(g, kind) = Tally(f, kind)
  <2>1. Count(b, kind) = Count(R, kind) + Count(K, kind)
    BY <1>3, CountJoined
  <2>2. /\ Count(N, kind) = Count(f.answer, kind) + Count(R, kind)
        /\ Count(f.thought, kind) \in Nat /\ Count(f.answer, kind) \in Nat
    BY <1>3, <1>11, CountExtended DEF N, Plain
  <2>3. Count(R, kind) \in Nat /\ Count(K, kind) \in Nat
    BY <1>3, PlacesFinite
  <2>4. Tally(g, kind) = Count(f.thought, kind) + Count(N, kind) + Count(K, kind)
    BY <1>8 DEF Tally
  <2>5. Tally(f, kind) = Count(f.thought, kind) + Count(f.answer, kind) + Count(b, kind)
    BY DEF Tally, b
  <2> QED BY <2>1, <2>2, <2>3, <2>4, <2>5
<1> QED BY <1>6, <1>7, <1>8, <1>9, <1>10, <1>11 DEF Onward

\* Whatever the fields are, a turn of the loop is one of these.
LEMMA EveryTurn ==
  ASSUME NEW f \in Work, Shape(f)
  PROVE  Onward(f, Turn(f))
<1>1. f.state \in {"start", "thinking", "undecided", "answer"}
  BY DEF Work
<1>2. CASE f.state = "start"
  BY <1>2, TurnOpens, TurnWaits, TurnDecides
<1>3. CASE f.state \in {"thinking", "undecided"}
  BY <1>3, TurnCloses, TurnHolds
<1>4. CASE f.state = "answer"
  BY <1>4, TurnDrops, TurnSpeaks
<1> QED BY <1>1, <1>2, <1>3, <1>4

-----------------------------------------------------------------------------
(* The loop of feed() ends, and then nothing is held back without need.    *)

Turnable == {f \in Work : Shape(f)}

\* g is f after some turns.
Same(f, g) ==
  /\ g \in Turnable
  /\ Grown(f.answer, g.answer) /\ (f.state = "answer" => g.state = "answer")
  /\ \A kind : Plain(kind) => Tally(g, kind) = Tally(f, kind)
  /\ \A x \in Text : Outcome(g, x, style) = Outcome(f, x, style)

\* The recursion of Loop.
Turning(t, f) ==
  /\ t \in [0..Len(f.buffer) + 1 -> Turnable]
  /\ t[0] = f /\ \A i \in 1..Len(f.buffer) + 1 : t[i] = Turn(t[i - 1])

LEMMA TurnTurnable == ASSUME NEW f \in Turnable PROVE Turn(f) \in Turnable
BY EveryTurn DEF Turnable, Onward

LEMMA LoopByTurning ==
  ASSUME NEW f \in Turnable
  PROVE  \E t : Turning(t, f) /\ Loop(f) = t[Len(f.buffer) + 1]
<1> DEFINE n == Len(f.buffer) + 1
           step == [i \in 1..n |-> [g \in Turnable |-> Turn(g)]]
           Rec(t) == t = [i \in 0..n |-> IF i = 0 THEN f ELSE Turn(t[i - 1])]
           turns == CHOOSE t : Rec(t)
<1>0. n \in Nat
  <2>1. f.buffer \in Text
    BY DEF Turnable, Work
  <2>2. Len(f.buffer) \in Nat
    BY <2>1, Lengths
  <2> QED BY <2>2
<1>1. step \in [1..n -> [Turnable -> Turnable]]
  <2> HIDE DEF n
  <2> QED BY TurnTurnable
<1>2. PICK t \in [0..n -> Turnable] : Stepwise(t, n, f, step)
  <2> HIDE DEF step, n
  <2> QED BY <1>0, <1>1, StepByStep, Zenon
<1>3. Rec(t)
  <2> HIDE DEF n
  <2>1. ASSUME NEW i \in 0..n, i # 0 PROVE t[i] = Turn(t[i - 1])
    <3>1. i \in 1..n /\ i - 1 \in 0..n
      BY <1>0, <2>1
    <3>2. t[i - 1] \in Turnable
      BY <1>2, <3>1
    <3> QED BY <1>2, <3>1, <3>2 DEF Stepwise
  <2>2. t = [i \in 0..n |-> t[i]]
    BY <1>2
  <2> HIDE DEF step
  <2>3. \A i \in 0..n : t[i] = IF i = 0 THEN f ELSE Turn(t[i - 1])
    BY <1>2, <2>1 DEF Stepwise
  <2> QED BY <2>2, <2>3
<1>4. Rec(turns)
  <2> HIDE DEF Rec
  <2> QED BY <1>3
<1>5. \A i \in 0..n : turns[i] = IF i = 0 THEN f ELSE Turn(turns[i - 1])
  <2> HIDE DEF turns, n
  <2> QED BY <1>4
<1>6. turns \in [0..n -> Turnable]
  <2> DEFINE S == {i \in 0..n : turns[i] \in Turnable}
  <2> HIDE DEF n
  <2>1. 0 \in S
    BY <1>0, <1>5
  <2>2. ASSUME NEW i \in 1..n, i - 1 \in S PROVE i \in S
    <3>1. i \in 0..n /\ i # 0
      BY <1>0
    <3>2. turns[i] = Turn(turns[i - 1])
      <4> HIDE DEF turns
      <4> QED BY <1>5, <3>1
    <3> HIDE DEF turns
    <3> QED BY <2>2, <3>1, <3>2, TurnTurnable
  <2>3. 0..n \subseteq S
    <3> HIDE DEF S
    <3> QED BY <1>0, <2>1, <2>2, UpTheNumbers
  <2>4. turns = [i \in 0..n |-> turns[i]]
    <3> HIDE DEF turns
    <3> QED BY <1>4
  <2> HIDE DEF turns
  <2> QED BY <2>3, <2>4
<1>7. Loop(f) = turns[n]
  BY DEF Loop
<1> HIDE DEF turns
<1>8. turns[0] = f /\ \A i \in 1..n : turns[i] = Turn(turns[i - 1])
  <2> HIDE DEF n
  <2>1. 0 \in 0..n /\ \A i \in 1..n : i \in 0..n /\ i # 0
    BY <1>0
  <2> QED BY <1>5, <2>1
<1>9. Turning(turns, f)
  BY <1>6, <1>8 DEF Turning
<1> QED BY <1>7, <1>9

LEMMA Sizes ==
  ASSUME NEW f \in Turnable
  PROVE  /\ Size(f) \in Nat /\ Size(f) <= Len(f.buffer) + 1 /\ Len(f.buffer) \in Nat
         /\ Size(f) = 0 => Settled(f)
<1>1. f.buffer \in Text
  BY DEF Turnable, Work
<1>2. Len(f.buffer) \in Nat
  BY <1>1, Lengths
<1>3. Size(f) \in Nat /\ Size(f) <= Len(f.buffer) + 1
  BY <1>2 DEF Size
<1>4. ASSUME Size(f) = 0 PROVE Settled(f)
  <2>1. f.state # "start" /\ Len(f.buffer) = 0
    BY <1>2, <1>4 DEF Size
  <2>2. /\ PartialTag(f.buffer, CloseTag) \in Nat
        /\ PartialTag(f.buffer, CloseTag) <= Len(f.buffer)
    BY <1>1, Tags, Partial
  <2>3. PartialTag(f.buffer, CloseTag) = Len(f.buffer)
    BY <2>1, <2>2
  <2> QED BY <2>1, <2>3 DEF Settled
<1> QED BY <1>2, <1>3, <1>4

LEMMA LoopOnward ==
  ASSUME NEW f \in Turnable
  PROVE  Same(f, Loop(f)) /\ Settled(Loop(f))
<1> DEFINE n == Len(f.buffer) + 1
<1>1. n \in Nat /\ Size(f) \in Nat /\ Size(f) <= n
  <2>1. Len(f.buffer) \in Nat /\ Size(f) \in Nat /\ Size(f) <= Len(f.buffer) + 1
    BY Sizes
  <2> QED BY <2>1
<1>2. PICK t : Turning(t, f) /\ Loop(f) = t[n]
  BY LoopByTurning
<1>3. /\ t \in [0..n -> Turnable] /\ t[0] = f
      /\ \A i \in 1..n : t[i] = Turn(t[i - 1])
  BY <1>2 DEF Turning
<1> HIDE DEF n
<1> DEFINE Near(i) == Settled(t[i]) \/ Size(t[i]) + i <= Size(f)
           S == {i \in 0..n : Same(f, t[i]) /\ Near(i)}
<1>4. 0 \in S
  <2>1. Size(t[0]) + 0 <= Size(f) /\ 0 \in 0..n
    BY <1>1, <1>3
  <2>2. Same(f, t[0])
    <3>1. Grown(f.answer, f.answer)
      BY GrownSame DEF Turnable, Work
    <3> QED BY <1>3, <3>1 DEF Same
  <2> QED BY <2>1, <2>2
<1>5. ASSUME NEW i \in 1..n, i - 1 \in S PROVE i \in S
  <2>1. i \in 0..n /\ i - 1 \in 0..n /\ i \in Nat
    BY <1>1
  <2> DEFINE g == t[i - 1]
             h == t[i]
  <2>2. h = Turn(g) /\ Same(f, g) /\ Near(i - 1) /\ g \in Turnable
    BY <1>5, <1>3 DEF Same
  <2> HIDE DEF g, h
  <2>3. Onward(g, h)
    BY <2>2, EveryTurn DEF Turnable
  <2>4. h \in Turnable
    BY <2>2, TurnTurnable
  <2>5. Same(f, h)
    <3>1. Grown(f.answer, h.answer)
      <4>1. f.answer \in Text /\ Grown(f.answer, g.answer) /\ Grown(g.answer, h.answer)
        BY <2>2, <2>3 DEF Same, Onward, Turnable, Work
      <4> QED BY <4>1, GrownTwice
    <3> QED BY <2>2, <2>3, <2>4, <3>1 DEF Same, Onward
  <2>6. Settled(g) \/ Size(g) + (i - 1) <= Size(f)
    BY <2>2 DEF g
  <2>7. Size(g) \in Nat /\ Size(h) \in Nat
    BY <2>2, <2>4, Sizes
  <2>8. Settled(h) \/ Size(h) < Size(g)
    BY <2>3 DEF Onward
  <2>9. Settled(g) => Settled(h)
    BY <2>3 DEF Onward
  <2>10. Settled(h) \/ Size(h) + i <= Size(f)
    BY <1>1, <2>1, <2>6, <2>7, <2>8, <2>9
  <2> QED BY <2>1, <2>5, <2>10 DEF h
<1>6. n \in S
  <2>1. 0..n \subseteq S
    <3> HIDE DEF S
    <3> QED BY <1>1, <1>4, <1>5, UpTheNumbers
  <2>2. n \in 0..n
    BY <1>1
  <2> QED BY <2>1, <2>2
<1>7. Settled(t[n])
  <2> DEFINE g == t[n]
  <2>1. g \in Turnable /\ (Settled(g) \/ Size(g) + n <= Size(f))
    BY <1>6 DEF Same
  <2> HIDE DEF g
  <2>2. Size(g) \in Nat /\ (Size(g) = 0 => Settled(g))
    BY <2>1, Sizes
  <2>3. Settled(g)
    BY <1>1, <2>1, <2>2
  <2> QED BY <2>3 DEF g
<1>8. Same(f, t[n])
  BY <1>6
<1> QED BY <1>2, <1>7, <1>8

-----------------------------------------------------------------------------
(* The end of the reply: what is held back becomes answer or nothing.      *)

\* What finish() still gives out, and learned_style().
Remaining(f) ==
  CASE f.state = "undecided" -> f.held \o f.buffer
    [] f.state = "thinking" -> <<>>
    [] OTHER -> f.buffer

LearnedBy(f) ==
  IF f.close /\ ~f.open THEN "closing" ELSE IF f.open THEN "tags" ELSE "none"

LEMMA TailIsText ==
  ASSUME NEW f \in Turnable
  PROVE  Remaining(f) \in Text
<1>1. f.held \in Text /\ f.buffer \in Text
  BY DEF Turnable, Work
<1>2. f.held \o f.buffer \in Text
  BY <1>1, Joined
<1> QED BY <1>1, <1>2, NoText DEF Remaining

\* Nothing comes but what may become a closing tag.
LEMMA SplitOfPartial ==
  ASSUME NEW s \in Text, PartialTag(s, CloseTag) = Len(s), NEW kept
  PROVE  SplitAtClose(s, kept) = [thought |-> <<>>, answer |-> kept, style |-> "none"]
<1>1. Find(s, CloseTag) = 0 /\ Len(s) \in Nat
  BY Tags, Lengths, NoTagInPartial
<1> DEFINE m == Len(s) - PartialTag(s, CloseTag)
           e == SubSeq(s, 1, m)
<1>2. m \in Nat /\ m <= Len(s) /\ m = 0
  BY <1>1
<1>3. SplitAtClose(s, kept) = [thought |-> e, answer |-> kept, style |-> "none"]
  BY <1>1 DEF SplitAtClose
<1> HIDE DEF m
<1>4. e \in Text /\ Len(e) = 0
  BY <1>2, Begun
<1>5. e = <<>>
  BY <1>4, NoText
<1> HIDE DEF e
<1> QED BY <1>3, <1>5

LEMMA FinishGives ==
  ASSUME NEW f \in Turnable, Settled(f), NEW st
  PROVE  Outcome(f, <<>>, st) =
           [thought |-> f.thought, answer |-> Extended(f, Remaining(f)),
            style |-> LearnedBy(f)]
<1> DEFINE b == f.buffer
           z == <<>>
           E == Extended(f, Remaining(f))
<1>1. /\ f \in Work /\ Shape(f) /\ b \in Text /\ f.thought \in Text /\ f.held \in Text
      /\ f.answer \in Text /\ f.strip \in BOOLEAN
      /\ f.state \in {"start", "thinking", "undecided", "answer"}
  BY DEF Turnable, Work
<1>2. b \o z = b /\ z \in Text
  BY <1>1, JoinedWithNone, NoText
<1> HIDE DEF z
<1>3. ASSUME f.state # "answer" PROVE E = Remaining(f) /\ ~f.close
  <2>1. f.answer = <<>> /\ ~f.strip /\ ~f.close
    BY <1>1, <1>3 DEF Shape
  <2> DEFINE t == Remaining(f)
  <2>2. t \in Text
    BY TailIsText
  <2> HIDE DEF t
  <2>3. <<>> \o Shown(f.strip, t) = t
    BY <2>1, <2>2, JoinedWithNone DEF Shown
  <2> QED BY <2>1, <2>3 DEF Extended, t
<1>4. CASE f.state = "start"
  <2>1. StartsWith(OpenTag, LStrip(b)) /\ LStrip(b) # OpenTag
    BY <1>4 DEF Settled
  <2>2. ~StartsWith(LStrip(b), OpenTag)
    <3> DEFINE l == LStrip(b)
    <3>1. l \in Text /\ Len(l) \in Nat
      BY <1>1, StripJoined, Lengths
    <3>2. ASSUME StartsWith(l, OpenTag) PROVE l = OpenTag
      <4>1. Len(OpenTag) <= Len(l) /\ \A i \in 1..Len(OpenTag) : l[i] = OpenTag[i]
        BY <3>1, <3>2, Tags, StartsIs
      <4>2. Len(l) <= Len(OpenTag) /\ Len(OpenTag) \in Nat
        BY <2>1, Tags DEF StartsWith
      <4>3. Len(l) = Len(OpenTag)
        BY <3>1, <4>1, <4>2
      <4> HIDE DEF l
      <4> QED BY <3>1, <4>1, <4>3, Tags, SameText
    <3> QED BY <2>1, <3>2
  <2>3. Expected(b, st) = [thought |-> <<>>, answer |-> b, style |-> "none"]
    BY <2>1, <2>2 DEF Expected
  <2>4. Outcome(f, z, st) = Expected(b, st)
    BY <1>2, <1>4 DEF Outcome
  <2>5. E = b /\ f.thought = <<>> /\ LearnedBy(f) = "none"
    BY <1>1, <1>3, <1>4 DEF Remaining, LearnedBy, Shape
  <2> HIDE DEF E, b
  <2> QED BY <2>3, <2>4, <2>5 DEF E, z
<1>5. CASE f.state \in {"thinking", "undecided"}
  <2>1. PartialTag(b, CloseTag) = Len(b)
    BY <1>5 DEF Settled
  <2>2. ASSUME NEW kept
        PROVE  SplitAtClose(b \o z, kept) =
                 [thought |-> <<>>, answer |-> kept, style |-> "none"]
    BY <1>1, <1>2, <2>1, SplitOfPartial
  <2>3. f.thought \o <<>> = f.thought
    BY <1>1, JoinedWithNone
  <2>4. CASE f.state = "thinking"
    <3>1. Outcome(f, z, st) = [thought |-> f.thought \o <<>>, answer |-> <<>>,
                               style |-> "tags"]
      <4> DEFINE r == SplitAtClose(b \o z, <<>>)
      <4>1. r = [thought |-> <<>>, answer |-> <<>>, style |-> "none"]
        BY <2>2
      <4>2. Outcome(f, z, st) = [thought |-> f.thought \o r.thought,
                                 answer |-> r.answer, style |-> "tags"]
        BY <1>1, <1>2, <2>4, OutcomeThinking
      <4> HIDE DEF r
      <4>3. r.thought = <<>> /\ r.answer = <<>>
        BY <4>1
      <4> QED BY <4>2, <4>3
    <3>2. E = <<>> /\ LearnedBy(f) = "tags"
      BY <1>1, <1>3, <2>4 DEF Remaining, LearnedBy, Shape
    <3> HIDE DEF E
    <3>3. Outcome(f, z, st) = [thought |-> f.thought, answer |-> E,
                               style |-> LearnedBy(f)]
      BY <2>3, <3>1, <3>2
    <3> QED BY <3>3 DEF E, z
  <2>5. CASE f.state = "undecided"
    <3> DEFINE k == f.held \o (b \o z)
    <3>1. Outcome(f, z, st) = [thought |-> f.thought \o <<>>, answer |-> k,
                               style |-> "none"]
      <4> DEFINE r == SplitAtClose(b \o z, k)
      <4>1. r = [thought |-> <<>>, answer |-> k, style |-> "none"]
        BY <2>2
      <4>2. Outcome(f, z, st) = [thought |-> f.thought \o r.thought,
                                 answer |-> r.answer, style |-> r.style]
        BY <1>1, <1>2, <2>5, OutcomeUndecided
      <4> HIDE DEF r, k
      <4>3. r.thought = <<>> /\ r.answer = k /\ r.style = "none"
        BY <4>1
      <4> QED BY <4>2, <4>3
    <3>2. E = k /\ LearnedBy(f) = "none"
      BY <1>1, <1>2, <1>3, <2>5 DEF Remaining, LearnedBy, Shape
    <3> HIDE DEF E, k
    <3>3. Outcome(f, z, st) = [thought |-> f.thought, answer |-> E,
                               style |-> LearnedBy(f)]
      BY <2>3, <3>1, <3>2
    <3> QED BY <3>3 DEF E, z
  <2> QED BY <1>5, <2>4, <2>5
<1>6. CASE f.state = "answer"
  <2>1. PartialTag(b, CloseTag) = Len(b)
    BY <1>6 DEF Settled
  <2>2. Find(b, CloseTag) = 0
    BY <1>1, <2>1, Tags, NoTagInPartial
  <2>3. Untagged(b) = b
    BY <1>1, <2>2, UntaggedSame
  <2> DEFINE V == f.answer \o Shown(f.strip, Untagged(b \o z))
             Y == IF f.open THEN "tags"
                  ELSE IF f.close \/ Find(b \o z, CloseTag) > 0
                  THEN "closing" ELSE "none"
  <2>4. Outcome(f, z, st) = [thought |-> f.thought, answer |-> V, style |-> Y]
    BY <1>1, <1>2, <1>6, OutcomeAnswer
  <2>5. V = E
    BY <1>2, <1>6, <2>3 DEF Remaining, Extended
  <2>6. Y = LearnedBy(f)
    BY <1>2, <2>2 DEF LearnedBy
  <2> HIDE DEF V, Y, E
  <2>7. Outcome(f, z, st) = [thought |-> f.thought, answer |-> E,
                             style |-> LearnedBy(f)]
    BY <2>4, <2>5, <2>6
  <2> QED BY <2>7 DEF E, z
<1> QED BY <1>1, <1>4, <1>5, <1>6

-----------------------------------------------------------------------------
(* The splitter's invariant: what has been given out and what is held back *)
(* make up the reply so far, whatever still comes.                         *)

\* Before the end of the reply.
Going(f, inp, st, used) ==
  /\ f \in Turnable /\ inp \in Text
  /\ used => f.state = "answer"
  /\ ~used => Settled(f) /\ \A x \in Text : Outcome(f, x, st) = Expected(inp \o x, st)
  /\ \A kind : Plain(kind) => Tally(f, kind) = Count(inp, kind)

\* Where the plain characters of the reply are, after its end (NoWordLost).
Kept(hidden, spoken, inp) ==
  \A kind : Plain(kind) =>
    Count(spoken, kind) + Count(hidden, kind) = Count(inp, kind)

SplitterInv ==
  /\ answer \in Text
  /\ fieldUsed \in BOOLEAN
  /\ state # "finished" => Going(Fields, input, style, fieldUsed)
  /\ state = "finished" => PiecesDoNotMatter /\ Kept(Hidden, answer, input)

LEMMA SplitterInit == Init => SplitterInv
<1> SUFFICES ASSUME Init PROVE SplitterInv
  OBVIOUS
<1> DEFINE f == Fields
           z == <<>>
<1>1. z \in Text /\ Len(z) = 0
  BY NoText
<1>2. /\ f.state = "start" /\ f.buffer = z /\ f.held = z /\ f.thought = z /\ f.answer = z
      /\ f.close = FALSE /\ f.open = FALSE /\ f.strip = FALSE /\ input = z
      /\ answer = z /\ state = "start" /\ fieldUsed = FALSE
  BY DEF Init, Fields
<1>3. f \in Turnable
  BY <1>1, <1>2 DEF Turnable, Work, Shape, Fields
<1>4. ASSUME NEW x \in Text PROVE Outcome(f, x, style) = Expected(input \o x, style)
  BY <1>2 DEF Outcome
<1>5. ASSUME NEW kind PROVE Tally(f, kind) = Count(input, kind)
  <2>1. Count(z, kind) = 0
    BY CountNothing
  <2> HIDE DEF z, f
  <2> QED BY <1>2, <2>1 DEF Tally
<1> HIDE DEF z, f
<1>6. LStrip(z) = z
  BY <1>1, NothingToStrip
<1>7. Settled(f)
  <2>1. StartsWith(OpenTag, z) /\ z # OpenTag
    BY <1>1, Tags, StartsIs
  <2> QED BY <1>2, <1>6, <2>1 DEF Settled
<1>8. Going(f, input, style, fieldUsed)
  BY <1>1, <1>2, <1>3, <1>4, <1>5, <1>7 DEF Going
<1> QED BY <1>1, <1>2, <1>8 DEF SplitterInv, f

\* What feed() puts into the loop.
Fed(f, piece) == [f EXCEPT !.buffer = @ \o piece]

LEMMA FeedOnward ==
  ASSUME NEW f, NEW inp, NEW used \in BOOLEAN, NEW piece \in Text,
         Going(f, inp, style, used)
  PROVE  LET g == Loop(Fed(f, piece))
         IN /\ Going(g, inp \o piece, style, used)
            /\ g \in Work /\ Grown(f.answer, g.answer) /\ f.answer \in Text
<1> DEFINE b == f.buffer
           d == b \o piece
           h == [f EXCEPT !.buffer = d]
           g == Loop(h)
<1>1. f \in Work /\ Shape(f) /\ inp \in Text /\ b \in Text
  BY DEF Going, Turnable, Work
<1>2. Fed(f, piece) = h
  BY DEF Fed
<1>3. d \in Text
  BY <1>1, Joined
<1> HIDE DEF d
<1>4. /\ h \in Turnable /\ h.state = f.state /\ h.buffer = d /\ h.held = f.held
      /\ h.thought = f.thought /\ h.answer = f.answer /\ h.open = f.open
      /\ h.close = f.close /\ h.strip = f.strip
  BY <1>1, <1>3 DEF Turnable, Work, Shape
<1> HIDE DEF h
<1>5. Same(h, g) /\ Settled(g)
  BY <1>4, LoopOnward
<1> HIDE DEF g
<1>6. /\ g \in Turnable /\ Grown(f.answer, g.answer)
      /\ f.state = "answer" => g.state = "answer"
  BY <1>4, <1>5 DEF Same
<1>7. ASSUME ~used, NEW x \in Text
      PROVE  Outcome(g, x, style) = Expected((inp \o piece) \o x, style)
  <2> DEFINE y == piece \o x
  <2>1. y \in Text
    BY Joined
  <2>2. d \o x = b \o y
    BY <1>1, JoinedTwice DEF d
  <2>3. (inp \o piece) \o x = inp \o y
    BY <1>1, JoinedTwice, SMTT(60)
  <2> HIDE DEF y
  <2>4. Outcome(f, y, style) = Expected(inp \o y, style)
    BY <1>7, <2>1 DEF Going
  <2>5. Outcome(h, x, style) = Outcome(f, y, style)
    BY <1>4, <2>2 DEF Outcome, b
  <2>6. Outcome(g, x, style) = Outcome(h, x, style)
    BY <1>5 DEF Same
  <2> QED BY <2>3, <2>4, <2>5, <2>6
<1>8. ASSUME NEW kind, Plain(kind) PROVE Tally(g, kind) = Count(inp \o piece, kind)
  <2>1. Tally(g, kind) = Tally(h, kind)
    BY <1>5, <1>8 DEF Same
  <2>2. Tally(f, kind) = Count(inp, kind)
    BY <1>8 DEF Going
  <2>3. Count(d, kind) = Count(b, kind) + Count(piece, kind)
    BY <1>1, CountJoined DEF d
  <2>4. Count(inp \o piece, kind) = Count(inp, kind) + Count(piece, kind)
    BY <1>1, CountJoined
  <2>5. /\ Count(f.thought, kind) \in Nat /\ Count(f.answer, kind) \in Nat
        /\ Count(b, kind) \in Nat /\ Count(piece, kind) \in Nat
    <3>1. f.thought \in Text /\ f.answer \in Text
      BY <1>1 DEF Work
    <3> QED BY <1>1, <3>1, PlacesFinite
  <2>6. Tally(h, kind) = Count(f.thought, kind) + Count(f.answer, kind) + Count(d, kind)
    BY <1>4 DEF Tally
  <2>7. Tally(f, kind) = Count(f.thought, kind) + Count(f.answer, kind) + Count(b, kind)
    BY DEF Tally
  <2> HIDE DEF b
  <2> QED BY <2>1, <2>2, <2>3, <2>4, <2>5, <2>6, <2>7
<1>9. inp \o piece \in Text
  BY <1>1, Joined
<1>10. used => g.state = "answer"
  BY <1>6 DEF Going
<1>11. Going(g, inp \o piece, style, used)
  BY <1>5, <1>6, <1>7, <1>8, <1>9, <1>10 DEF Going
<1>12. g \in Work /\ f.answer \in Text
  BY <1>1, <1>6 DEF Turnable, Work
<1> QED BY <1>2, <1>6, <1>11, <1>12 DEF g

LEMMA BecomeFields ==
  ASSUME NEW g \in Work, Become(g)
  PROVE  Fields' = g
BY DEF Become, Fields, Work

LEMMA PieceIsText == ASSUME NEW piece \in Pieces PROVE piece \in Text
<1>1. PICK n \in 1..MaxPiece : piece \in [1..n -> Chars]
  BY DEF Pieces
<1>2. n \in Nat
  BY TagAssumption
<1> QED BY <1>1, <1>2 DEF Text

LEMMA SplitterFeeds ==
  ASSUME SplitterInv, NEW piece \in Pieces, Feed(piece)
  PROVE  SplitterInv' /\ Grown(answer, answer')
<1> DEFINE f == Fields
           g == Loop(Fed(f, piece))
<1>1. /\ state # "finished" /\ input' = input \o piece /\ Become(g)
      /\ style' = style /\ fieldUsed' = fieldUsed
  BY DEF Feed, Fed
<1>2. piece \in Text /\ Going(f, input, style, fieldUsed) /\ fieldUsed \in BOOLEAN
  BY <1>1, PieceIsText DEF SplitterInv
<1> HIDE DEF f
<1>3. /\ Going(g, input \o piece, style, fieldUsed)
      /\ g \in Work /\ Grown(f.answer, g.answer) /\ f.answer \in Text
  BY <1>2, FeedOnward
<1> HIDE DEF g
<1>4. Fields' = g
  BY <1>1, <1>3, BecomeFields
<1>5. /\ state' = g.state /\ answer' = g.answer /\ g.state # "finished"
      /\ g.answer \in Text /\ f.answer = answer
  BY <1>1, <1>3 DEF Become, Work, f, Fields
<1>6. Going(Fields', input', style', fieldUsed')
  BY <1>1, <1>3, <1>4
<1> QED BY <1>1, <1>2, <1>3, <1>5, <1>6 DEF SplitterInv

LEMMA SplitterUsesField ==
  ASSUME SplitterInv, UseReasoningField
  PROVE  SplitterInv' /\ answer' = answer
<1> DEFINE f == Fields
           g == [state |-> "answer", buffer |-> buffer, held |-> held,
                 close |-> sawClose, open |-> sawOpen, strip |-> TRUE,
                 thought |-> thought, answer |-> answer]
<1>1. /\ state \in {"start", "undecided"} /\ state' = "answer" /\ strip' = TRUE
      /\ fieldUsed' = TRUE /\ style' = style /\ buffer' = buffer /\ held' = held
      /\ sawClose' = sawClose /\ sawOpen' = sawOpen /\ input' = input
      /\ thought' = thought /\ answer' = answer
  BY DEF UseReasoningField
<1>2. Going(f, input, style, fieldUsed) /\ answer \in Text
  BY <1>1 DEF SplitterInv
<1>3. Fields' = g
  BY <1>1 DEF Fields
<1>4. f \in Work /\ input \in Text
  BY <1>2 DEF Going, Turnable
<1>5. /\ buffer \in Text /\ held \in Text /\ sawClose \in BOOLEAN
      /\ sawOpen \in BOOLEAN /\ thought \in Text /\ answer \in Text
  BY <1>4 DEF Work, Fields
<1>6. g \in Work /\ g.state = "answer"
  BY <1>5 DEF Work
<1>7. g.thought = f.thought /\ g.answer = f.answer /\ g.buffer = f.buffer
  BY DEF Fields
<1> HIDE DEF f, g
<1>8. g \in Turnable
  BY <1>6 DEF Turnable, Shape
<1>9. ASSUME NEW kind, Plain(kind) PROVE Tally(g, kind) = Count(input, kind)
  BY <1>2, <1>7, <1>9 DEF Going, Tally
<1>10. Going(g, input, style, fieldUsed')
  BY <1>1, <1>4, <1>6, <1>8, <1>9 DEF Going
<1>11. Going(Fields', input', style', fieldUsed')
  BY <1>1, <1>3, <1>10
<1> QED BY <1>1, <1>2, <1>11 DEF SplitterInv

\* A whole reply from which nothing is learned is its own answer.
LEMMA WithoutTags ==
  ASSUME NEW s \in Text, NEW st, Expected(s, st).style = "none"
  PROVE  Expected(s, st).answer = s
<1> DEFINE begun == LStrip(s)
           i == Find(s, CloseTag)
<1>1. i \in Nat /\ (i = 0 => Untagged(s) = s)
  BY Tags, Found, UntaggedSame
<1>2. SplitAtClose(s, s).style = "none" => SplitAtClose(s, s).answer = s
  BY DEF SplitAtClose
<1>3. ~StartsWith(begun, OpenTag)
  <2> SUFFICES ASSUME StartsWith(begun, OpenTag) PROVE FALSE
    OBVIOUS
  <2> DEFINE d == Drop(begun, Len(OpenTag))
             z == <<>>
             q == SplitAtClose(d, z)
  <2>1. d \in Text /\ z \in Text
    <3>1. begun \in Text /\ Len(OpenTag) \in Nat /\ Len(OpenTag) <= Len(begun)
      BY StripJoined, Tags DEF StartsWith
    <3> HIDE DEF begun
    <3> QED BY <3>1, Dropped, NoText
  <2> HIDE DEF d, z
  <2>2. q = [thought |-> q.thought, answer |-> q.answer, style |-> q.style]
    BY <2>1, SplitIs
  <2>3. Expected(s, st) = [q EXCEPT !.style = "tags"]
    BY DEF Expected, d, z
  <2> HIDE DEF q
  <2>4. [q EXCEPT !.style = "tags"].style = "tags"
    BY <2>2
  <2> QED BY <2>3, <2>4
<1> HIDE DEF begun
<1>4. CASE StartsWith(OpenTag, begun)
  BY <1>3, <1>4 DEF Expected, begun
<1>5. CASE ~StartsWith(OpenTag, begun) /\ st = "none"
  <2>1. Expected(s, st) = [thought |-> <<>>, answer |-> Untagged(s),
                           style |-> IF i > 0 THEN "closing" ELSE "none"]
    BY <1>3, <1>5 DEF Expected, begun
  <2> HIDE DEF i
  <2>2. i = 0
    BY <1>1, <2>1
  <2> QED BY <1>1, <2>1, <2>2
<1>6. CASE ~StartsWith(OpenTag, begun) /\ st # "none"
  <2>1. Expected(s, st) = SplitAtClose(s, s)
    BY <1>3, <1>6 DEF Expected, begun
  <2> QED BY <1>2, <2>1
<1> QED BY <1>4, <1>5, <1>6

\* Where the plain characters are when the tail has been given out.
HiddenBy(f, used) == IF f.open \/ f.close \/ used THEN f.thought ELSE <<>>

LEMMA TailKept ==
  ASSUME NEW f, NEW inp, NEW st, NEW used \in BOOLEAN, Going(f, inp, st, used),
         ~f.open /\ ~f.close /\ ~used => Extended(f, Remaining(f)) = inp
  PROVE  Kept(HiddenBy(f, used), Extended(f, Remaining(f)), inp)
<1>1. /\ f \in Work /\ f \in Turnable /\ Shape(f) /\ f.buffer \in Text /\ f.held \in Text
      /\ f.state \in {"start", "thinking", "undecided", "answer"} /\ inp \in Text
  BY DEF Going, Turnable, Work
<1> SUFFICES ASSUME NEW kind, Plain(kind)
             PROVE  Count(Extended(f, Remaining(f)), kind)
                      + Count(HiddenBy(f, used), kind) = Count(inp, kind)
  BY DEF Kept
<1> DEFINE a == Count(Extended(f, Remaining(f)), kind)
           b == Count(f.thought, kind)
           c == Count(inp, kind)
           d == Count(f.answer, kind)
           e == Count(f.buffer, kind)
           t == Count(Remaining(f), kind)
<1>2. a = d + t /\ b \in Nat /\ d \in Nat /\ c \in Nat
  BY <1>1, TailIsText, CountExtended, PlacesFinite DEF Plain
<1>3. e \in Nat /\ t \in Nat
  BY <1>1, TailIsText, PlacesFinite
<1>4. c = b + d + e
  BY DEF Going, Tally
\* No tag and no reasoning field: the answer is the reply.
<1>5. CASE ~f.open /\ ~f.close /\ ~used
  <2>1. HiddenBy(f, used) = <<>> /\ a = c
    BY <1>5 DEF HiddenBy
  <2>2. Count(HiddenBy(f, used), kind) = 0
    BY <2>1, CountNothing
  <2> HIDE DEF a, c
  <2>3. a + Count(HiddenBy(f, used), kind) = c
    BY <1>2, <2>1, <2>2
  <2> QED BY <2>3 DEF a, c
\* The thinking was never closed.
<1>6. CASE f.state = "thinking"
  <2>1. Remaining(f) = <<>> /\ f.answer = <<>> /\ used = FALSE /\ f.open
    BY <1>1, <1>6 DEF Remaining, Shape, Going
  <2>2. PartialTag(f.buffer, CloseTag) = Len(f.buffer)
    BY <1>6, <2>1 DEF Going, Settled
  <2>3. t = 0 /\ d = 0 /\ e = 0
    BY <1>1, <2>1, <2>2, CountNothing, CountPartial
  <2>4. Count(HiddenBy(f, used), kind) = b
    BY <2>1 DEF HiddenBy
  <2> HIDE DEF a, b, c, d, e, t
  <2>5. a + b = c
    BY <1>2, <1>3, <1>4, <2>3
  <2> QED BY <2>4, <2>5 DEF a, c
\* What was thinking stays hidden, and the rest of the answer is given out.
<1>7. CASE f.state = "answer" /\ (f.open \/ f.close \/ used)
  <2>1. t = e
    BY <1>7 DEF Remaining
  <2>2. Count(HiddenBy(f, used), kind) = b
    BY <1>7 DEF HiddenBy
  <2> HIDE DEF a, b, c, d, e, t
  <2>3. a + b = c
    BY <1>2, <1>3, <1>4, <2>1
  <2> QED BY <2>2, <2>3 DEF a, c
<1>8. f.state \in {"start", "undecided"} => ~f.open /\ ~f.close /\ ~used
  BY <1>1 DEF Shape, Going
<1> QED BY <1>1, <1>5, <1>6, <1>7, <1>8

LEMMA SplitterFinishes ==
  ASSUME SplitterInv, Finish
  PROVE  SplitterInv' /\ Grown(answer, answer') /\ state' = "finished"
<1> DEFINE f == Fields
           E == Extended(f, Remaining(f))
           g == [Answer(f, Remaining(f)) EXCEPT !.state = "finished"]
<1>1. /\ state # "finished" /\ Become(g) /\ learned' = LearnedStyle
      /\ style' = style /\ input' = input /\ fieldUsed' = fieldUsed
  BY DEF Finish, Remaining, Fields
<1>2. Going(f, input, style, fieldUsed) /\ fieldUsed \in BOOLEAN
  BY <1>1 DEF SplitterInv
<1>3. /\ f \in Work /\ f \in Turnable /\ input \in Text
      /\ f.answer = answer /\ f.thought = thought
  BY <1>2 DEF Going, Turnable, Fields
<1>4. LearnedStyle = LearnedBy(f)
  BY DEF LearnedStyle, LearnedBy, Fields
<1> HIDE DEF f
<1>5. /\ E \in Text /\ Grown(f.answer, E)
      /\ Answer(f, Remaining(f)) = With(f, E, Unbegun(f, Remaining(f)))
  BY <1>3, TailIsText, AnswerIs
<1> HIDE DEF E
<1>6. /\ g.state = "finished" /\ g.thought = f.thought /\ g.answer = E
      /\ g.open = f.open /\ g.close = f.close
  BY <1>3, <1>5 DEF With, Work
<1>7. /\ state' = "finished" /\ thought' = f.thought /\ answer' = E
      /\ sawOpen' = f.open /\ sawClose' = f.close
  BY <1>1, <1>6 DEF Become
<1>8. ASSUME ~fieldUsed
      PROVE  [thought |-> f.thought, answer |-> E, style |-> LearnedBy(f)]
               = Expected(input, style)
  <2> DEFINE z == <<>>
  <2>1. z \in Text /\ input \o z = input
    BY <1>3, NoText, JoinedWithNone
  <2> HIDE DEF z
  <2>2. Settled(f) /\ Outcome(f, z, style) = Expected(input \o z, style)
    BY <1>2, <1>8, <2>1 DEF Going
  <2>3. Outcome(f, z, style) = [thought |-> f.thought, answer |-> E,
                                style |-> LearnedBy(f)]
    BY <1>3, <2>2, FinishGives DEF E, z
  <2> QED BY <2>1, <2>2, <2>3
<1>9. PiecesDoNotMatter'
  <2>1. Given' = [thought |-> f.thought, answer |-> E, style |-> LearnedBy(f)]
    BY <1>1, <1>4, <1>7 DEF Given
  <2> QED BY <1>1, <1>8, <2>1 DEF PiecesDoNotMatter
<1>10. ASSUME ~f.open, ~f.close, ~fieldUsed PROVE E = input
  <2>1. LearnedBy(f) = "none"
    BY <1>10 DEF LearnedBy
  <2>2. Expected(input, style).style = "none" /\ Expected(input, style).answer = E
    BY <1>8, <1>10, <2>1
  <2> QED BY <1>3, <2>2, WithoutTags
<1>11. Kept(HiddenBy(f, fieldUsed), E, input)
  BY <1>2, <1>10, TailKept DEF E
<1>12. Hidden' = HiddenBy(f, fieldUsed)
  BY <1>1, <1>7 DEF Hidden, HiddenBy
<1>13. Kept(Hidden, answer, input)'
  BY <1>1, <1>7, <1>11, <1>12 DEF Kept
<1> QED BY <1>1, <1>2, <1>3, <1>5, <1>7, <1>9, <1>13 DEF SplitterInv

\* What the invariant says of the three promises of the splitter.
LEMMA SplitterPromises ==
  ASSUME SplitterInv
  PROVE  PiecesDoNotMatter /\ OnlyPartialTagsHeld /\ NoWordLost
<1>1. PiecesDoNotMatter
  BY DEF SplitterInv, PiecesDoNotMatter
<1>2. OnlyPartialTagsHeld
  <2>1. ASSUME state \in {"thinking", "undecided", "answer"}, ~fieldUsed
        PROVE  PartialTag(buffer, CloseTag) = Len(buffer)
    <3>1. Settled(Fields)
      BY <2>1 DEF SplitterInv, Going
    <3> QED BY <2>1, <3>1 DEF Settled, Fields
  <2>2. ASSUME state = "start"
        PROVE  StartsWith(OpenTag, LStrip(buffer)) /\ LStrip(buffer) # OpenTag
    <3>1. Going(Fields, input, style, fieldUsed) /\ Fields.state = "start"
      BY <2>2 DEF SplitterInv, Fields
    <3>2. Settled(Fields)
      BY <3>1 DEF SplitterInv, Going
    <3> QED BY <2>2, <3>2 DEF Settled, Fields
  <2> QED BY <2>1, <2>2 DEF OnlyPartialTagsHeld
<1>3. NoWordLost
  <2> SUFFICES ASSUME state = "finished", NEW ch \in WordChars
               PROVE  Occurrences(answer, ch) + Occurrences(Hidden, ch)
                        = Occurrences(input, ch)
    BY DEF NoWordLost
  <2>1. Plain({ch})
    <3>1. DOMAIN OpenTag = 1..Len(OpenTag) /\ DOMAIN CloseTag = 1..Len(CloseTag)
      BY Tags, Lengths
    <3> QED BY <3>1 DEF Plain, WordChars
  <2>2. ASSUME NEW s PROVE Occurrences(s, ch) = Count(s, {ch})
    <3>1. {i \in DOMAIN s : s[i] = ch} = Places(s, {ch})
      BY DEF Places
    <3> QED BY <3>1 DEF Count, Occurrences
  <2>3. Kept(Hidden, answer, input)
    BY DEF SplitterInv
  <2> QED BY <2>1, <2>2, <2>3 DEF Kept
<1> QED BY <1>1, <1>2, <1>3

-----------------------------------------------------------------------------
(* take_sentences: where a text is cut.                                    *)

Cuts == [start : Nat, found : Seq(Text)]

\* Any piece of a text is text.
LEMMA AnyPart ==
  ASSUME NEW s \in Text, NEW a \in Nat, NEW b \in Nat, b <= Len(s)
  PROVE  SubSeq(s, a + 1, b) \in Text
<1>1. Len(s) \in Nat /\ \A i \in a + 1..b : s[i] \in Chars
  BY Lengths
<1>2. a + 1 \in Int /\ b \in Int
  OBVIOUS
<1> QED BY <1>1, <1>2, SubSeqProperties DEF Text

\* str.strip leaves what lies between the first and the last solid character.
Solid(s, a, b) ==
  /\ a \in 1..Len(s) /\ b \in 1..Len(s) /\ a <= b
  /\ s[a] # Space /\ s[b] # Space
  /\ \A j \in 1..Len(s) : j < a \/ j > b => s[j] = Space

LEMMA StripIs ==
  ASSUME NEW s \in Text
  PROVE  \/ Cutter!Strip(s) = <<>> /\ \A i \in 1..Len(s) : s[i] = Space
         \/ \E a, b \in Nat : Solid(s, a, b) /\ Cutter!Strip(s) = SubSeq(s, a, b)
<1> DEFINE S == {i \in DOMAIN s : s[i] \notin {Space}}
<1>1. Len(s) \in Nat /\ DOMAIN s = 1..Len(s) /\ S \in SUBSET (0..Len(s)) /\ S \in SUBSET Nat
  BY Lengths
<1>2. CASE S = {}
  BY <1>1, <1>2 DEF Cutter!Strip
<1>3. CASE S # {}
  <2>1. PICK a \in S : \A y \in S : a <= y
    <3> HIDE DEF S
    <3> QED BY <1>1, <1>3, LeastNumber
  <2>2. PICK b \in S : \A y \in S : b >= y
    <3> HIDE DEF S
    <3> QED BY <1>1, <1>3, GreatestNumber
  <2>3. Cutter!Min(S) = a
    <3> HIDE DEF S
    <3>1. Cutter!Min(S) \in S /\ \A y \in S : Cutter!Min(S) <= y
      BY <2>1 DEF Cutter!Min
    <3>2. Cutter!Min(S) <= a /\ a <= Cutter!Min(S) /\ a \in Nat /\ Cutter!Min(S) \in Nat
      BY <1>1, <2>1, <3>1
    <3> QED BY <3>2
  <2>4. Cutter!Max(S) = b
    <3> HIDE DEF S
    <3>1. Cutter!Max(S) \in S /\ \A y \in S : Cutter!Max(S) >= y
      BY <2>2 DEF Cutter!Max
    <3>2. Cutter!Max(S) <= b /\ b <= Cutter!Max(S) /\ b \in Nat /\ Cutter!Max(S) \in Nat
      BY <1>1, <2>2, <3>1
    <3> QED BY <3>2
  <2>5. Cutter!Strip(s) = SubSeq(s, a, b)
    BY <1>3, <2>3, <2>4 DEF Cutter!Strip
  <2>6. Solid(s, a, b)
    <3>1. a \in 1..Len(s) /\ b \in 1..Len(s) /\ s[a] # Space /\ s[b] # Space /\ a <= b
      BY <1>1, <2>1, <2>2
    <3>2. ASSUME NEW j \in 1..Len(s), j < a \/ j > b PROVE s[j] = Space
      BY <1>1, <2>1, <2>2, <3>1, <3>2
    <3> QED BY <3>1, <3>2 DEF Solid
  <2> QED BY <1>1, <2>5, <2>6
<1> QED BY <1>2, <1>3

LEMMA SolidPart ==
  ASSUME NEW s \in Text, NEW a \in Nat, NEW b \in Nat, Solid(s, a, b)
  PROVE  /\ SubSeq(s, a, b) \in Text /\ Len(SubSeq(s, a, b)) = b - a + 1
         /\ \A i \in 1..b - a + 1 : SubSeq(s, a, b)[i] = s[a - 1 + i]
<1> DEFINE c == a - 1
<1>1. c \in Nat /\ c <= b /\ b <= Len(s) /\ c + 1 = a /\ b - c = b - a + 1
  BY Lengths DEF Solid
<1> HIDE DEF c
<1>2. /\ SubSeq(s, c + 1, b) \in Text /\ Len(SubSeq(s, c + 1, b)) = b - c
      /\ \A i \in 1..b - c : SubSeq(s, c + 1, b)[i] = s[c + i]
  BY <1>1, Part
<1>3. /\ SubSeq(s, a, b) \in Text /\ Len(SubSeq(s, a, b)) = b - a + 1
      /\ \A i \in 1..b - a + 1 : SubSeq(s, a, b)[i] = s[c + i]
  BY <1>1, <1>2
<1> QED BY <1>3 DEF c

LEMMA StripText == ASSUME NEW s \in Text PROVE Cutter!Strip(s) \in Text
BY StripIs, SolidPart, NoText

LEMMA SpokenText == ASSUME NEW s \in Text PROVE Cutter!Spoken(s) \in Seq(Text)
<1> DEFINE t == Cutter!Strip(s)
<1>1. t \in Text
  BY StripText
<1> HIDE DEF t
<1>2. <<t>> \in Seq(Text) /\ <<>> \in Seq(Text)
  BY <1>1
<1> QED BY <1>2 DEF Cutter!Spoken, t

\* A turn of take_sentences: a piece of the text ends here, or none does.
Cut(s, f, i, j) ==
  [start |-> i, found |-> f.found \o Cutter!Spoken(SubSeq(s, f.start + 1, j))]

LEMMA ScanIs ==
  ASSUME NEW s, NEW f, NEW i
  PROVE  \/ /\ s[i] \in Breaks /\ Cutter!Scan(s, f, i) = Cut(s, f, i, i)
         \/ /\ s[i] \notin Breaks /\ s[i] = Space /\ Cutter!TooLong(f.start, i - 1)
            /\ Cutter!Scan(s, f, i) = Cut(s, f, i, i - 1)
         \/ /\ s[i] \notin Breaks /\ ~(s[i] = Space /\ Cutter!TooLong(f.start, i - 1))
            /\ Cutter!Scan(s, f, i) = f
BY DEF Cutter!Scan, Cut

LEMMA CutIsCuts ==
  ASSUME NEW s \in Text, NEW f \in Cuts, NEW i \in Nat, NEW j \in Nat, j <= Len(s)
  PROVE  Cut(s, f, i, j) \in Cuts
<1> DEFINE q == Cutter!Spoken(SubSeq(s, f.start + 1, j))
           p == f.found
<1>1. f.start \in Nat /\ p \in Seq(Text)
  BY DEF Cuts
<1>2. SubSeq(s, f.start + 1, j) \in Text
  BY <1>1, AnyPart
<1>3. q \in Seq(Text)
  BY <1>2, SpokenText
<1> HIDE DEF p, q
<1>4. p \o q \in Seq(Text)
  BY <1>1, <1>3
<1> DEFINE r == p \o q
<1> HIDE DEF r
<1>5. [start |-> i, found |-> r] \in Cuts
  BY <1>4 DEF r, Cuts
<1> QED BY <1>5 DEF r, p, q, Cut

LEMMA ScanCuts ==
  ASSUME NEW s \in Text, NEW f \in Cuts, NEW i \in 1..Len(s)
  PROVE  Cutter!Scan(s, f, i) \in Cuts
<1>1. Len(s) \in Nat /\ i \in Nat /\ i - 1 \in Nat /\ i <= Len(s) /\ i - 1 <= Len(s)
  BY Lengths
<1>2. Cut(s, f, i, i) \in Cuts
  BY <1>1, CutIsCuts
<1> DEFINE j == i - 1
<1>3. j \in Nat /\ j <= Len(s)
  BY <1>1
<1> HIDE DEF j
<1>4. Cut(s, f, i, j) \in Cuts
  BY <1>1, <1>3, CutIsCuts
<1> QED BY <1>2, <1>4, ScanIs DEF j

\* The recursion of take_sentences.
Scanning(t, s) ==
  /\ t \in [0..Len(s) -> Cuts]
  /\ t[0] = [start |-> 0, found |-> <<>>]
  /\ \A i \in 1..Len(s) : t[i] = Cutter!Scan(s, t[i - 1], i)

Taken(t, s) == [ready |-> t[Len(s)].found,
                rest |-> SubSeq(s, t[Len(s)].start + 1, Len(s))]

LEMMA TakeByScanning ==
  ASSUME NEW s \in Text
  PROVE  \E t : Scanning(t, s) /\ Cutter!TakeSentences(s) = Taken(t, s)
<1> DEFINE n == Len(s)
           base == [start |-> 0, found |-> <<>>]
           step == [i \in 1..n |-> [g \in Cuts |-> Cutter!Scan(s, g, i)]]
           Rec(t) == t = [i \in 0..n |->
                           IF i = 0 THEN base ELSE Cutter!Scan(s, t[i - 1], i)]
           scanned == CHOOSE t : Rec(t)
<1>0. n \in Nat
  BY Lengths
<1>1. base \in Cuts
  BY DEF Cuts
<1>2. step \in [1..n -> [Cuts -> Cuts]]
  BY ScanCuts
<1>3. PICK t \in [0..n -> Cuts] : Stepwise(t, n, base, step)
  <2> HIDE DEF base, step, n
  <2> QED BY <1>0, <1>1, <1>2, StepByStep, Zenon
<1>4. Rec(t)
  <2> HIDE DEF n, base
  <2>1. ASSUME NEW i \in 0..n, i # 0 PROVE t[i] = Cutter!Scan(s, t[i - 1], i)
    <3>1. i \in 1..n /\ i - 1 \in 0..n
      BY <1>0, <2>1
    <3>2. t[i - 1] \in Cuts
      BY <1>3, <3>1
    <3> QED BY <1>3, <3>1, <3>2 DEF Stepwise
  <2>2. t = [i \in 0..n |-> t[i]]
    BY <1>3
  <2> HIDE DEF step
  <2>3. \A i \in 0..n : t[i] = IF i = 0 THEN base ELSE Cutter!Scan(s, t[i - 1], i)
    BY <1>3, <2>1 DEF Stepwise
  <2> QED BY <2>2, <2>3
<1>5. Rec(scanned)
  <2> HIDE DEF Rec
  <2> QED BY <1>4
<1>6. \A i \in 0..n :
        scanned[i] = IF i = 0 THEN base ELSE Cutter!Scan(s, scanned[i - 1], i)
  <2> HIDE DEF scanned, base, n
  <2> QED BY <1>5
<1>7. scanned \in [0..n -> Cuts]
  <2> DEFINE S == {i \in 0..n : scanned[i] \in Cuts}
  <2>0. n = Len(s)
    OBVIOUS
  <2> HIDE DEF n
  <2>1. 0 \in S
    <3> HIDE DEF scanned, base
    <3> QED BY <1>0, <1>1, <1>6
  <2>2. ASSUME NEW i \in 1..n, i - 1 \in S PROVE i \in S
    <3>1. i \in 0..n /\ i # 0 /\ i \in 1..Len(s)
      BY <1>0, <2>0
    <3>2. scanned[i] = Cutter!Scan(s, scanned[i - 1], i)
      <4> HIDE DEF scanned, base
      <4> QED BY <1>6, <3>1
    <3> HIDE DEF scanned
    <3> QED BY <2>2, <3>1, <3>2, ScanCuts
  <2>3. 0..n \subseteq S
    <3> HIDE DEF S
    <3> QED BY <1>0, <2>1, <2>2, UpTheNumbers
  <2>4. scanned = [i \in 0..n |-> scanned[i]]
    <3> HIDE DEF scanned, base
    <3> QED BY <1>5
  <2> HIDE DEF scanned
  <2> QED BY <2>3, <2>4
<1>8. Cutter!TakeSentences(s) = [ready |-> scanned[n].found,
                                 rest |-> SubSeq(s, scanned[n].start + 1, n)]
  BY DEF Cutter!TakeSentences
<1> HIDE DEF scanned
<1>9. /\ scanned[0] = base
      /\ \A i \in 1..n : scanned[i] = Cutter!Scan(s, scanned[i - 1], i)
  <2>1. 0 \in 0..n /\ \A i \in 1..n : i \in 0..n /\ i # 0
    BY <1>0
  <2> HIDE DEF base, n
  <2> QED BY <1>6, <2>1
<1>10. Scanning(scanned, s)
  BY <1>7, <1>9 DEF Scanning
<1> QED BY <1>8, <1>10 DEF Taken

\* A sentence does not wait for more than its end: it has no break before its
\* last character and no space behind the first Flush.
Prompt(x) ==
  \A i \in 1..Len(x) : /\ x[i] \in Breaks => i = Len(x)
                       /\ x[i] = Space => i <= Flush

\* From a to b nothing ends a sentence that begins behind a.
Quiet(s, a, b) ==
  \A j \in a + 1..b : s[j] \notin Breaks /\ (s[j] = Space => j - a <= Flush)

\* Where a scan has cut is where it went on from, and it left out nothing.
LEMMA CutsAre ==
  ASSUME NEW s \in Text, NEW t, Scanning(t, s), NEW i \in 0..Len(s)
  PROVE  /\ t[i].start \in 0..i /\ t[i].found \in Seq(Text)
         /\ t[t[i].start] = t[i]
         /\ Quiet(s, t[i].start, i)
<1> DEFINE n == Len(s)
           S == {k \in 0..n : /\ t[k].start \in 0..k /\ t[t[k].start] = t[k]
                              /\ Quiet(s, t[k].start, k)}
<1>0. n \in Nat
  BY Lengths
<1>1. 0 \in S
  BY <1>0 DEF Scanning, Quiet
<1>2. ASSUME NEW k \in 1..n, k - 1 \in S PROVE k \in S
  <2>1. /\ k \in 0..n /\ k - 1 \in 0..n /\ t[k] = Cutter!Scan(s, t[k - 1], k)
        /\ t[k - 1].start \in 0..k - 1 /\ t[t[k - 1].start] = t[k - 1]
        /\ Quiet(s, t[k - 1].start, k - 1)
    BY <1>0, <1>2 DEF Scanning
  <2>2. ASSUME NEW j, t[k] = Cut(s, t[k - 1], k, j) PROVE k \in S
    <3>1. t[k].start = k
      BY <2>2 DEF Cut
    <3>2. Quiet(s, k, k)
      BY DEF Quiet
    <3> QED BY <2>1, <3>1, <3>2
  <2>3. ASSUME t[k] = t[k - 1],
               s[k] \notin Breaks,
               ~(s[k] = Space /\ Cutter!TooLong(t[k - 1].start, k - 1))
        PROVE  k \in S
    <3> DEFINE a == t[k - 1].start
    <3>1. a \in Nat /\ a < k /\ Flush \in Nat
      BY <2>1, LettersAssumption
    <3> HIDE DEF a
    <3>2. s[k] = Space => k - a <= Flush
      <4>1. s[k] = Space => ~(k - 1 - a >= Flush)
        BY <2>3 DEF Cutter!TooLong, a
      <4> QED BY <3>1, <4>1
    <3>3. ASSUME NEW j \in a + 1..k
          PROVE  s[j] \notin Breaks /\ (s[j] = Space => j - a <= Flush)
      <4>1. j = k \/ j \in a + 1..k - 1
        BY <3>1
      <4> QED BY <2>1, <2>3, <3>2, <4>1 DEF Quiet, a
    <3>4. Quiet(s, a, k)
      BY <3>3 DEF Quiet
    <3>5. t[k].start = a /\ a \in 0..k
      BY <2>3, <3>1 DEF a
    <3> QED BY <2>1, <2>3, <3>4, <3>5
  <2> QED BY <2>1, <2>2, <2>3, ScanIs
<1>3. 0..n \subseteq S
  <2> HIDE DEF S, n
  <2> QED BY <1>0, <1>1, <1>2, UpTheNumbers
<1>4. t[i].found \in Seq(Text)
  BY DEF Scanning, Cuts
<1> QED BY <1>3, <1>4

-----------------------------------------------------------------------------
(* take_sentences goes on where it stopped, whatever comes behind.         *)

\* What comes behind changes no turn before it.
LEMMA ScanJoined ==
  ASSUME NEW s \in Text, NEW x \in Text, NEW g \in Cuts, NEW i \in 1..Len(s),
         g.start < i
  PROVE  Cutter!Scan(s \o x, g, i) = Cutter!Scan(s, g, i)
<1> DEFINE a == g.start
           w == s \o x
           j == i - 1
<1>1. /\ Len(s) \in Nat /\ a \in Nat /\ i \in Nat /\ j \in Nat
      /\ a <= i /\ a <= j /\ i <= Len(s) /\ j <= Len(s)
  BY Lengths DEF Cuts
<1>2. w[i] = s[i]
  BY Joined
<1>3. SubSeq(w, a + 1, i) = SubSeq(s, a + 1, i)
  BY <1>1, PartOfJoined
<1> HIDE DEF j
<1>4. SubSeq(w, a + 1, j) = SubSeq(s, a + 1, j)
  BY <1>1, PartOfJoined
<1> HIDE DEF w
<1>5. Cut(w, g, i, i) = Cut(s, g, i, i) /\ Cut(w, g, i, j) = Cut(s, g, i, j)
  BY <1>3, <1>4 DEF Cut
<1>6. Cutter!Scan(w, g, i) = Cutter!Scan(s, g, i)
  <2>1. \/ w[i] \in Breaks /\ Cutter!Scan(w, g, i) = Cut(w, g, i, i)
        \/ /\ w[i] \notin Breaks /\ w[i] = Space /\ Cutter!TooLong(a, j)
           /\ Cutter!Scan(w, g, i) = Cut(w, g, i, j)
        \/ /\ w[i] \notin Breaks /\ ~(w[i] = Space /\ Cutter!TooLong(a, j))
           /\ Cutter!Scan(w, g, i) = g
    BY ScanIs DEF j
  <2>2. \/ s[i] \in Breaks /\ Cutter!Scan(s, g, i) = Cut(s, g, i, i)
        \/ /\ s[i] \notin Breaks /\ s[i] = Space /\ Cutter!TooLong(a, j)
           /\ Cutter!Scan(s, g, i) = Cut(s, g, i, j)
        \/ /\ s[i] \notin Breaks /\ ~(s[i] = Space /\ Cutter!TooLong(a, j))
           /\ Cutter!Scan(s, g, i) = g
    BY ScanIs DEF j
  <2> QED BY <1>2, <1>5, <2>1, <2>2
<1> QED BY <1>6 DEF w

\* The same cuts, k characters and the sentences F further on.
Shift(k, F, g) == [start |-> k + g.start, found |-> F \o g.found]

LEMMA ListsJoinedTwice ==
  ASSUME NEW p \in Seq(Text), NEW q \in Seq(Text), NEW r \in Seq(Text)
  PROVE  (p \o q) \o r = p \o (q \o r) /\ p \o q \in Seq(Text)
BY ConcatAssociative, ConcatProperties

LEMMA CutShifted ==
  ASSUME NEW w \in Text, NEW k \in Nat, NEW F \in Seq(Text), NEW g \in Cuts,
         NEW i \in Nat, NEW j \in Nat, k + j <= Len(w), g.start <= j
  PROVE  Cut(w, Shift(k, F, g), k + i, k + j) = Shift(k, F, Cut(Drop(w, k), g, i, j))
<1> DEFINE a == g.start
           p == g.found
           e == k + a
           b == k + j
           u == SubSeq(w, k + a + 1, k + j)
           v == SubSeq(Drop(w, k), a + 1, j)
           q == Cutter!Spoken(u)
           h == Shift(k, F, g)
           c == Cut(Drop(w, k), g, i, j)
<1>1. a \in Nat /\ p \in Seq(Text) /\ a <= j /\ e \in Nat /\ b <= Len(w) /\ b \in Nat
  BY DEF Cuts
<1>2. u = v
  <2>1. a \in Nat /\ a <= j
    BY <1>1
  <2> HIDE DEF a
  <2>2. SubSeq(Drop(w, k), a + 1, j) = SubSeq(w, k + a + 1, k + j)
    BY <2>1, PartOfDropped
  <2> QED BY <2>2
<1>3. u = SubSeq(w, e + 1, b)
  OBVIOUS
<1>4. u \in Text
  <2> HIDE DEF e, b, u
  <2> QED BY <1>1, <1>3, AnyPart
<1>5. h.start = e /\ h.found = F \o p
  BY DEF Shift
<1>6. c.start = i /\ c.found = p \o Cutter!Spoken(v)
  BY DEF Cut
<1> HIDE DEF u, v, p, h, c
<1>7. q \in Seq(Text)
  BY <1>4, SpokenText
<1>8. c.found = p \o q
  BY <1>2, <1>6
<1>9. Cut(w, h, k + i, k + j) = [start |-> k + i, found |-> (F \o p) \o q]
  BY <1>3, <1>5 DEF Cut
<1> HIDE DEF q
<1>10. (F \o p) \o q = F \o (p \o q)
  BY <1>1, <1>7, ListsJoinedTwice
<1>11. Shift(k, F, c) = [start |-> k + i, found |-> F \o (p \o q)]
  BY <1>6, <1>8 DEF Shift
<1> QED BY <1>9, <1>10, <1>11 DEF h, c

LEMMA ScanShifted ==
  ASSUME NEW w \in Text, NEW k \in Nat, NEW F \in Seq(Text), NEW g \in Cuts,
         NEW i \in 1..Len(w) - k, k <= Len(w), g.start < i
  PROVE  Cutter!Scan(w, Shift(k, F, g), k + i) = Shift(k, F, Cutter!Scan(Drop(w, k), g, i))
<1> DEFINE d == Drop(w, k)
           h == Shift(k, F, g)
           j == i - 1
           m == k + i
<1>1. /\ Len(w) \in Nat /\ g.start \in Nat /\ i \in Nat /\ j \in Nat
      /\ g.start <= i /\ g.start <= j /\ k + i <= Len(w) /\ k + j <= Len(w)
      /\ m - 1 = k + j
  BY Lengths DEF Cuts
<1>2. d[i] = w[m]
  BY Dropped
<1>3. Cut(w, h, k + i, k + i) = Shift(k, F, Cut(d, g, i, i))
  BY <1>1, CutShifted
<1> HIDE DEF j
<1>4. Cut(w, h, k + i, k + j) = Shift(k, F, Cut(d, g, i, j))
  BY <1>1, CutShifted
<1>5. h.start = k + g.start
  BY DEF Shift
<1>6. Cutter!TooLong(h.start, m - 1) <=> Cutter!TooLong(g.start, j)
  <2> DEFINE x == g.start
             y == h.start
             l == m - 1
  <2>1. x \in Nat /\ Flush \in Nat /\ l = k + j /\ y = k + x
    BY <1>1, <1>5, LettersAssumption
  <2> HIDE DEF x, y, l
  <2>2. l - y >= Flush <=> j - x >= Flush
    BY <1>1, <2>1
  <2>3. Cutter!TooLong(y, l) <=> Cutter!TooLong(x, j)
    BY <2>2 DEF Cutter!TooLong
  <2> QED BY <2>3 DEF x, y, l
<1> HIDE DEF d, h
<1>7. \/ w[m] \in Breaks /\ Cutter!Scan(w, h, m) = Cut(w, h, m, m)
      \/ /\ w[m] \notin Breaks /\ w[m] = Space /\ Cutter!TooLong(h.start, m - 1)
         /\ Cutter!Scan(w, h, m) = Cut(w, h, m, m - 1)
      \/ /\ w[m] \notin Breaks /\ ~(w[m] = Space /\ Cutter!TooLong(h.start, m - 1))
         /\ Cutter!Scan(w, h, m) = h
  BY ScanIs
<1>8. \/ d[i] \in Breaks /\ Cutter!Scan(d, g, i) = Cut(d, g, i, i)
      \/ /\ d[i] \notin Breaks /\ d[i] = Space /\ Cutter!TooLong(g.start, j)
         /\ Cutter!Scan(d, g, i) = Cut(d, g, i, j)
      \/ /\ d[i] \notin Breaks /\ ~(d[i] = Space /\ Cutter!TooLong(g.start, j))
         /\ Cutter!Scan(d, g, i) = g
  BY ScanIs DEF j
<1>9. Cut(w, h, m, m) = Cut(w, h, k + i, k + i) /\ Cut(w, h, m, m - 1) = Cut(w, h, k + i, k + j)
  BY <1>1
<1>10. h = Shift(k, F, g)
  BY DEF h
<1> HIDE DEF m
<1>11. Cutter!Scan(w, h, m) = Shift(k, F, Cutter!Scan(d, g, i))
  <2>1. CASE w[m] \in Breaks
    BY <1>2, <1>3, <1>7, <1>8, <1>9, <2>1
  <2>2. CASE w[m] \notin Breaks /\ w[m] = Space /\ Cutter!TooLong(g.start, j)
    BY <1>2, <1>4, <1>6, <1>7, <1>8, <1>9, <2>2
  <2>3. CASE w[m] \notin Breaks /\ ~(w[m] = Space /\ Cutter!TooLong(g.start, j))
    BY <1>2, <1>6, <1>7, <1>8, <1>10, <2>3
  <2> QED BY <2>1, <2>2, <2>3
<1> QED BY <1>11 DEF m, d, h

\* A scan of more text begins like the scan of its beginning.
LEMMA ScanBegins ==
  ASSUME NEW s \in Text, NEW x \in Text, NEW t, Scanning(t, s),
         NEW u, Scanning(u, s \o x), NEW i \in 0..Len(s)
  PROVE  u[i] = t[i]
<1> DEFINE n == Len(s)
           S == {k \in 0..n : u[k] = t[k]}
<1>0. n \in Nat /\ Len(x) \in Nat /\ Len(s \o x) = n + Len(x)
  BY Lengths, Joined
<1>1. 0 \in S
  BY <1>0 DEF Scanning
<1>2. ASSUME NEW k \in 1..n, k - 1 \in S PROVE k \in S
  <2>1. k \in 0..n /\ k - 1 \in 0..n /\ k \in 1..Len(s \o x) /\ u[k - 1] = t[k - 1]
    BY <1>0, <1>2
  <2>2. u[k] = Cutter!Scan(s \o x, t[k - 1], k) /\ t[k] = Cutter!Scan(s, t[k - 1], k)
    BY <2>1 DEF Scanning
  <2>3. t[k - 1] \in Cuts
    BY <2>1 DEF Scanning
  <2>4. t[k - 1].start < k
    <3> DEFINE l == k - 1
    <3>1. l \in 0..Len(s) /\ l < k /\ l \in Nat
      BY <2>1
    <3> HIDE DEF l
    <3>2. t[l].start \in 0..l
      BY <3>1, CutsAre
    <3>3. t[l].start < k
      BY <3>1, <3>2
    <3> QED BY <3>3 DEF l
  <2>5. u[k] = t[k]
    BY <2>2, <2>3, <2>4, ScanJoined
  <2> QED BY <2>1, <2>5
<1>3. 0..n \subseteq S
  <2> HIDE DEF S, n
  <2> QED BY <1>0, <1>1, <1>2, UpTheNumbers
<1> QED BY <1>3

\* Behind a cut it goes on like the scan of what is left there.
LEMMA ScanGoesOn ==
  ASSUME NEW w \in Text, NEW u, Scanning(u, w), NEW k \in 0..Len(w), u[k].start = k,
         NEW v, Scanning(v, Drop(w, k)), NEW i \in 0..Len(w) - k
  PROVE  u[k + i] = Shift(k, u[k].found, v[i])
<1> DEFINE F == u[k].found
           d == Drop(w, k)
           n == Len(w) - k
           S == {m \in 0..n : u[k + m] = Shift(k, F, v[m])}
<1>0. /\ Len(w) \in Nat /\ k \in Nat /\ k <= Len(w) /\ n \in Nat
      /\ d \in Text /\ Len(d) = n
  BY Lengths, Dropped
<1>1. u[k] \in Cuts /\ F \in Seq(Text)
  BY DEF Scanning, Cuts
<1>2. 0 \in S
  <2> DEFINE z == <<>>
  <2>1. v[0] = [start |-> 0, found |-> z]
    BY DEF Scanning
  <2>2. F \o z = F
    BY <1>1, ConcatEmptySeq
  <2>3. k + 0 = k
    BY <1>0
  <2> HIDE DEF z
  <2>4. v[0].start = 0 /\ v[0].found = z
    BY <2>1
  <2>5. Shift(k, F, v[0]) = [start |-> k, found |-> F]
    BY <2>2, <2>3, <2>4 DEF Shift
  <2>6. u[k] = [start |-> k, found |-> F]
    BY <1>1 DEF Cuts
  <2> QED BY <1>0, <2>3, <2>5, <2>6
<1>3. ASSUME NEW m \in 1..n, m - 1 \in S PROVE m \in S
  <2> DEFINE l == m - 1
  <2>1. /\ m \in 0..n /\ l \in 0..n /\ l < m /\ l \in Nat /\ k + m \in 1..Len(w)
        /\ k + m - 1 = k + l
    BY <1>0
  <2>2. u[k + l] = Shift(k, F, v[l])
    BY <1>3
  <2>3. u[k + m] = Cutter!Scan(w, u[k + m - 1], k + m)
    BY <2>1 DEF Scanning
  <2>4. v[m] = Cutter!Scan(d, v[l], m) /\ v[l] \in Cuts
    <3> HIDE DEF d, l
    <3>1. v[m] = Cutter!Scan(d, v[m - 1], m)
      BY <1>0 DEF Scanning, d
    <3>2. v[l] \in Cuts
      BY <1>0, <2>1 DEF Scanning, d
    <3> QED BY <3>1, <3>2 DEF l
  <2> HIDE DEF d, l, F, n
  <2>5. v[l].start < m
    <3> DEFINE y == v[l].start
    <3>1. y \in 0..l
      BY <1>0, <2>1, CutsAre DEF d
    <3> HIDE DEF y
    <3>2. y < m
      BY <1>0, <2>1, <3>1
    <3> QED BY <3>2 DEF y
  <2>6. Cutter!Scan(w, Shift(k, F, v[l]), k + m) = Shift(k, F, Cutter!Scan(d, v[l], m))
    BY <1>0, <1>1, <2>4, <2>5, ScanShifted DEF d, n
  <2>7. u[k + m] = Shift(k, F, v[m])
    BY <2>1, <2>2, <2>3, <2>4, <2>6
  <2> QED BY <2>1, <2>7
<1>4. 0..n \subseteq S
  <2> HIDE DEF S, n
  <2> QED BY <1>0, <1>2, <1>3, UpTheNumbers
<1> QED BY <1>4

LEMMA TakenIsText ==
  ASSUME NEW s \in Text, NEW t, Scanning(t, s)
  PROVE  /\ t[Len(s)].start \in 0..Len(s)
         /\ Taken(t, s).ready = t[Len(s)].found /\ Taken(t, s).ready \in Seq(Text)
         /\ Taken(t, s).rest = Drop(s, t[Len(s)].start) /\ Taken(t, s).rest \in Text
<1> DEFINE n == Len(s)
           k == t[n].start
<1>1. n \in Nat /\ n \in 0..Len(s)
  BY Lengths
<1> HIDE DEF n
<1>2. k \in 0..n /\ t[n].found \in Seq(Text)
  BY <1>1, CutsAre
<1>3. n = Len(s)
  BY DEF n
<1> HIDE DEF k
<1>4. k \in Nat /\ k <= Len(s)
  BY <1>1, <1>2, <1>3
<1>5. Drop(s, k) \in Text
  BY <1>4, Dropped
<1>6. Taken(t, s).ready = t[n].found /\ Taken(t, s).rest = Drop(s, k)
  BY DEF Taken, Drop, n, k
<1> QED BY <1>2, <1>3, <1>5, <1>6 DEF k

LEMMA TakeIsText ==
  ASSUME NEW s \in Text
  PROVE  /\ Cutter!TakeSentences(s).ready \in Seq(Text)
         /\ Cutter!TakeSentences(s).rest \in Text
BY TakeByScanning, TakenIsText

\* What a text with more behind it gives is what the text gave before, and what
\* the rest gives with the more behind it.
Resumed(a, b, c) == c.ready = a.ready \o b.ready /\ c.rest = b.rest

LEMMA TakeResumed ==
  ASSUME NEW s \in Text, NEW x \in Text
  PROVE  Resumed(Cutter!TakeSentences(s),
                 Cutter!TakeSentences(Cutter!TakeSentences(s).rest \o x),
                 Cutter!TakeSentences(s \o x))
<1> DEFINE a == Cutter!TakeSentences(s)
           b == Cutter!TakeSentences(a.rest \o x)
           c == Cutter!TakeSentences(s \o x)
<1>a. a = Cutter!TakeSentences(s) /\ b = Cutter!TakeSentences(a.rest \o x)
  OBVIOUS
<1>c. c = Cutter!TakeSentences(s \o x)
  OBVIOUS
<1> HIDE DEF a, b, c
<1>1. PICK t : Scanning(t, s) /\ a = Taken(t, s)
  BY <1>a, TakeByScanning
<1> DEFINE n == Len(s)
           k == t[n].start
           F == t[n].found
           w == s \o x
           d == Drop(w, k)
<1>2. /\ n = Len(s) /\ n \in Nat /\ n \in 0..Len(s) /\ Len(x) \in Nat
      /\ w \in Text /\ Len(w) = n + Len(x)
  BY Joined, Lengths
<1> HIDE DEF n
<1>3. k \in 0..n /\ F \in Seq(Text) /\ a.ready = F /\ a.rest = Drop(s, k) /\ t[k] = t[n]
  BY <1>1, <1>2, TakenIsText, CutsAre
<1> HIDE DEF k
<1>4. k \in Nat /\ k <= Len(s) /\ k \in 0..Len(s) /\ k \in 0..Len(w) /\ k <= Len(w)
  BY <1>2, <1>3
<1>5. a.rest \o x = d
  BY <1>3, <1>4, DropOfJoined
<1>6. d \in Text /\ Len(d) = Len(w) - k
  <2> HIDE DEF w
  <2> QED BY <1>2, <1>4, Dropped
<1> HIDE DEF w
<1>7. PICK u : Scanning(u, w) /\ c = Taken(u, w)
  BY <1>2, <1>c, TakeByScanning DEF w
<1> HIDE DEF d
<1>8. PICK v : Scanning(v, d) /\ b = Taken(v, d)
  BY <1>5, <1>6, <1>a, TakeByScanning
<1>9. u[k] = t[k]
  BY <1>1, <1>4, <1>7, ScanBegins DEF w
<1>10. u[k].start = k /\ u[k].found = F
  BY <1>3, <1>9 DEF k, F
<1> HIDE DEF F
<1> DEFINE m == Len(w) - k
           e == v[m].start
<1>11. m \in 0..Len(w) - k /\ k + m = Len(w) /\ Len(w) \in Nat /\ m \in Nat
  BY <1>2, <1>4
<1>12. u[k + m] = Shift(k, F, v[m])
  <2> HIDE DEF m
  <2> QED BY <1>2, <1>4, <1>7, <1>8, <1>10, <1>11, ScanGoesOn DEF d
<1>13. m = Len(d)
  BY <1>6
<1> HIDE DEF m
<1>14. e \in 0..m /\ b.ready = v[m].found /\ b.rest = Drop(d, e)
  BY <1>6, <1>8, <1>13, TakenIsText
<1>15. c.ready = u[Len(w)].found /\ c.rest = Drop(w, u[Len(w)].start)
  BY <1>2, <1>7, TakenIsText
<1> HIDE DEF e
<1>16. c.ready = F \o v[m].found /\ c.rest = Drop(w, k + e)
  <2> DEFINE g == v[m]
             G == F \o g.found
  <2>1. u[Len(w)] = Shift(k, F, g)
    BY <1>11, <1>12
  <2> HIDE DEF g
  <2>2. Shift(k, F, g).start = k + g.start /\ Shift(k, F, g).found = G
    BY DEF Shift
  <2>3. c.ready = G /\ c.rest = Drop(w, k + g.start)
    BY <1>15, <2>1, <2>2
  <2> QED BY <2>3 DEF g, e
<1>17. e \in Nat /\ k + e <= Len(w)
  BY <1>4, <1>11, <1>14
<1>18. Drop(d, e) = Drop(w, k + e)
  BY <1>2, <1>4, <1>17, DropTwice DEF d
<1> QED BY <1>3, <1>14, <1>16, <1>18 DEF Resumed, a, b, c

-----------------------------------------------------------------------------
(* Sentences: every letter is in one, and none waits for more than its end.*)

\* The recursion of FlattenSeq.
Joining(f, q) ==
  /\ f \in [0..Len(q) -> Text]
  /\ f[0] = <<>> /\ \A i \in 1..Len(q) : f[i] = f[i - 1] \o q[i]

LEMMA ListLengths == ASSUME NEW q \in Seq(Text)
  PROVE Len(q) \in Nat /\ DOMAIN q = 1..Len(q) /\ \A i \in 1..Len(q) : q[i] \in Text
OBVIOUS

LEMMA FlattenByJoining ==
  ASSUME NEW q \in Seq(Text)
  PROVE  \E f : Joining(f, q) /\ Cutter!FlattenSeq(q) = f[Len(q)]
<1> DEFINE n == Len(q)
           z == <<>>
           step == [i \in 1..n |-> [x \in Text |-> x \o q[i]]]
           Rec(f) == f = [i \in 1..n |-> IF i = 1 THEN q[i] ELSE f[i - 1] \o q[i]]
           flat == CHOOSE f : Rec(f)
<1>0. n \in Nat /\ z \in Text /\ \A i \in 1..n : q[i] \in Text
  BY NoText, ListLengths
<1>1. step \in [1..n -> [Text -> Text]]
  <2>1. ASSUME NEW i \in 1..n, NEW x \in Text PROVE x \o q[i] \in Text
    BY <1>0, Joined
  <2> HIDE DEF n
  <2> QED BY <2>1
<1>2. PICK f \in [0..n -> Text] : Stepwise(f, n, z, step)
  <2> HIDE DEF step, n, z
  <2> QED BY <1>0, <1>1, StepByStep, Zenon
<1>3. f[0] = z /\ \A i \in 1..n : f[i] = f[i - 1] \o q[i]
  <2>1. ASSUME NEW i \in 1..n PROVE f[i] = f[i - 1] \o q[i]
    <3>1. i - 1 \in 0..n
      BY <1>0
    <3>2. f[i - 1] \in Text
      BY <1>2, <3>1
    <3> QED BY <1>2, <3>2 DEF Stepwise
  <2> QED BY <1>2, <2>1 DEF Stepwise
<1>4. Joining(f, q)
  BY <1>2, <1>3 DEF Joining
<1>5. CASE n = 0
  <2>1. q = z
    BY <1>5
  <2>2. Cutter!FlattenSeq(q) = q
    BY <1>5 DEF Cutter!FlattenSeq
  <2> QED BY <1>3, <1>4, <1>5, <2>1, <2>2
<1>6. CASE n # 0
  <2> HIDE DEF z
  <2>1. Rec([i \in 1..n |-> f[i]])
    <3> DEFINE g == [i \in 1..n |-> f[i]]
    <3>1. ASSUME NEW i \in 1..n
          PROVE  g[i] = IF i = 1 THEN q[i] ELSE g[i - 1] \o q[i]
      <4>1. CASE i = 1
        <5>1. f[i] = z \o q[i]
          BY <1>3, <4>1
        <5>2. z \o q[i] = q[i]
          BY <1>0, JoinedWithNone DEF z
        <5> QED BY <4>1, <5>1, <5>2
      <4>2. CASE i # 1
        <5>1. i - 1 \in 1..n
          BY <1>0, <4>2
        <5> QED BY <1>3, <4>2, <5>1
      <4> QED BY <4>1, <4>2
    <3>2. g = [i \in 1..n |-> g[i]]
      OBVIOUS
    <3> HIDE DEF g, n
    <3>3. g = [i \in 1..n |-> IF i = 1 THEN q[i] ELSE g[i - 1] \o q[i]]
      BY <3>1, <3>2
    <3> QED BY <3>3 DEF g
  <2>2. Rec(flat)
    <3> HIDE DEF Rec
    <3> QED BY <2>1
  <2>3. \A i \in 1..n : flat[i] = IF i = 1 THEN q[i] ELSE flat[i - 1] \o q[i]
    <3> HIDE DEF flat, n
    <3> QED BY <2>2
  <2>4. Cutter!FlattenSeq(q) = flat[n]
    BY <1>6 DEF Cutter!FlattenSeq
  <2> HIDE DEF flat
  <2> DEFINE S == {0} \cup {i \in 1..n : flat[i] = f[i]}
  <2> HIDE DEF n
  <2>5. ASSUME NEW i \in 1..n, i - 1 \in S PROVE i \in S
    <3>1. CASE i = 1
      <4>0. i - 1 = 0
        BY <3>1
      <4>1. f[i] = z \o q[i] /\ flat[i] = q[i]
        <5>1. f[i] = f[i - 1] \o q[i]
          BY <1>3
        <5>2. flat[i] = q[i]
          BY <2>3, <3>1
        <5> QED BY <1>3, <4>0, <5>1, <5>2
      <4>2. z \o q[i] = q[i]
        BY <1>0, JoinedWithNone DEF z
      <4> QED BY <4>1, <4>2
    <3>2. CASE i # 1
      <4>1. i - 1 \in 1..n /\ i - 1 # 0
        BY <1>0, <3>2
      <4>2. flat[i - 1] = f[i - 1]
        BY <2>5, <4>1
      <4> QED BY <1>3, <2>3, <3>2, <4>2
    <3> QED BY <3>1, <3>2
  <2>6. 0..n \subseteq S
    <3>1. 0 \in S
      OBVIOUS
    <3> HIDE DEF S
    <3> QED BY <1>0, <2>5, <3>1, UpTheNumbers
  <2>7. flat[n] = f[n]
    <3>1. n \in 0..n
      BY <1>0
    <3>2. n \in S
      BY <2>6, <3>1
    <3> QED BY <1>6, <3>2
  <2> QED BY <1>4, <2>4, <2>7 DEF n
<1> QED BY <1>5, <1>6

LEMMA FlattenText ==
  ASSUME NEW q \in Seq(Text)
  PROVE  Cutter!FlattenSeq(q) \in Text
<1>1. PICK f : Joining(f, q) /\ Cutter!FlattenSeq(q) = f[Len(q)]
  BY FlattenByJoining
<1>2. Len(q) \in 0..Len(q)
  BY ListLengths
<1> QED BY <1>1, <1>2 DEF Joining

\* One more text at the end.
LEMMA FlattenOneMore ==
  ASSUME NEW q \in Seq(Text), NEW t \in Text
  PROVE  Cutter!FlattenSeq(q \o <<t>>) = Cutter!FlattenSeq(q) \o t
<1> DEFINE r == q \o <<t>>
           n == Len(q)
<1>1. /\ r \in Seq(Text) /\ Len(r) = n + 1 /\ n \in Nat
      /\ (\A i \in 1..n : r[i] = q[i]) /\ r[n + 1] = t
  OBVIOUS
<1> HIDE DEF r
<1>2. PICK f : Joining(f, q) /\ Cutter!FlattenSeq(q) = f[n]
  BY FlattenByJoining
<1>3. PICK g : Joining(g, r) /\ Cutter!FlattenSeq(r) = g[n + 1]
  BY <1>1, FlattenByJoining
<1> DEFINE S == {i \in 0..n : f[i] = g[i]}
<1>4. 0 \in S
  BY <1>1, <1>2, <1>3 DEF Joining
<1>5. ASSUME NEW i \in 1..n, i - 1 \in S PROVE i \in S
  <2>1. i \in 1..Len(r) /\ i \in 0..n
    BY <1>1
  <2>2. f[i] = f[i - 1] \o q[i] /\ g[i] = g[i - 1] \o r[i]
    BY <1>2, <1>3, <2>1 DEF Joining
  <2> QED BY <1>1, <1>5, <2>1, <2>2
<1>6. 0..n \subseteq S
  <2> HIDE DEF S, n
  <2> QED BY <1>1, <1>4, <1>5, UpTheNumbers
<1>7. f[n] = g[n]
  BY <1>1, <1>6
<1>8. g[n + 1] = g[n] \o t
  <2> DEFINE m == n + 1
  <2>1. m \in 1..Len(r) /\ m - 1 = n
    BY <1>1
  <2>2. g[m] = g[m - 1] \o r[m]
    <3> HIDE DEF m
    <3> QED BY <1>3, <2>1 DEF Joining
  <2> QED BY <1>1, <2>1, <2>2
<1> QED BY <1>2, <1>3, <1>7, <1>8 DEF r

\* A part of the beginning of a text is a part of the text.
LEMMA PartOfBegun ==
  ASSUME NEW s \in Text, NEW a \in Nat, NEW b \in Nat, a <= b, b <= Len(s)
  PROVE  /\ SubSeq(s, 1, a) \in Text /\ SubSeq(s, a + 1, b) \in Text
         /\ SubSeq(s, 1, b) = SubSeq(s, 1, a) \o SubSeq(s, a + 1, b)
<1> DEFINE u == SubSeq(s, 1, a)
           v == SubSeq(s, a + 1, b)
           w == SubSeq(s, 1, b)
           y == u \o v
<1>1. Len(s) \in Nat /\ a <= Len(s)
  BY Lengths
<1>2. u \in Text /\ Len(u) = a /\ \A i \in 1..a : u[i] = s[i]
  BY <1>1, Begun
<1>3. w \in Text /\ Len(w) = b /\ \A i \in 1..b : w[i] = s[i]
  BY <1>1, Begun
<1>4. v \in Text /\ Len(v) = b - a /\ \A i \in 1..b - a : v[i] = s[a + i]
  BY <1>1, Part
<1> HIDE DEF u, v, w
<1>5. /\ y \in Text /\ Len(y) = Len(u) + Len(v)
      /\ \A i \in 1..Len(u) : y[i] = u[i]
      /\ \A i \in 1..Len(v) : y[Len(u) + i] = v[i]
  BY <1>2, <1>4, Joined
<1> HIDE DEF y
<1>6. ASSUME NEW i \in 1..b PROVE w[i] = y[i]
  <2>1. CASE i <= a
    <3>1. i \in 1..a
      BY <2>1
    <3> QED BY <1>2, <1>3, <1>5, <3>1
  <2>2. CASE ~(i <= a)
    <3> DEFINE j == i - a
    <3>1. j \in 1..b - a /\ i = a + j
      BY <2>2
    <3> HIDE DEF j
    <3> QED BY <1>2, <1>3, <1>4, <1>5, <3>1
  <2> QED BY <2>1, <2>2
<1>7. Len(y) = b
  BY <1>2, <1>4, <1>5
<1>8. w = y
  BY <1>3, <1>5, <1>6, <1>7, SameText
<1> QED BY <1>2, <1>4, <1>8 DEF u, v, w, y

LEMMA CountPart ==
  ASSUME NEW s \in Text, NEW kind, NEW a \in Nat, NEW b \in Nat, a <= b, b <= Len(s)
  PROVE  /\ Count(SubSeq(s, 1, b), kind)
              = Count(SubSeq(s, 1, a), kind) + Count(SubSeq(s, a + 1, b), kind)
         /\ Count(SubSeq(s, 1, a), kind) \in Nat
         /\ Count(SubSeq(s, a + 1, b), kind) \in Nat
<1> DEFINE u == SubSeq(s, 1, a)
           v == SubSeq(s, a + 1, b)
<1>1. u \in Text /\ v \in Text /\ SubSeq(s, 1, b) = u \o v
  BY PartOfBegun
<1> HIDE DEF u, v
<1>2. Count(u \o v, kind) = Count(u, kind) + Count(v, kind)
  BY <1>1, CountJoined
<1>3. Count(u, kind) \in Nat /\ Count(v, kind) \in Nat
  BY <1>1, PlacesFinite
<1> QED BY <1>1, <1>2, <1>3 DEF u, v

\* str.strip drops no letter.
LEMMA CountStrip ==
  ASSUME NEW s \in Text, NEW kind, Space \notin kind
  PROVE  Count(Cutter!Strip(s), kind) = Count(s, kind)
<1>1. CASE Cutter!Strip(s) = <<>> /\ \A i \in 1..Len(s) : s[i] = Space
  <2>1. Count(s, kind) = 0
    BY <1>1, CountNone
  <2> QED BY <1>1, <2>1, CountNothing
<1>2. ASSUME NEW a \in Nat, NEW b \in Nat, Solid(s, a, b),
             Cutter!Strip(s) = SubSeq(s, a, b)
      PROVE  Count(Cutter!Strip(s), kind) = Count(s, kind)
  <2> DEFINE c == a - 1
             n == Len(s)
             u == SubSeq(s, 1, c)
             v == SubSeq(s, c + 1, b)
             w == SubSeq(s, b + 1, n)
  <2>1. /\ n \in Nat /\ c \in Nat /\ c <= b /\ b <= n /\ c <= n /\ c + 1 = a
        /\ n <= Len(s)
    BY <1>2, Lengths DEF Solid
  <2>2. \A i \in 1..n : i <= c \/ i > b => s[i] = Space
    <3>1. \A i \in 1..n : i <= c => i < a
      BY <2>1
    <3> QED BY <1>2, <3>1 DEF Solid
  <2> HIDE DEF c, n
  <2>3. Count(SubSeq(s, 1, b), kind) = Count(u, kind) + Count(v, kind)
        /\ Count(v, kind) \in Nat
    <3>1. b <= Len(s) /\ c \in Nat /\ c <= b
      BY <2>1 DEF n
    <3> QED BY <3>1, CountPart
  <2>4. Count(SubSeq(s, 1, n), kind) = Count(SubSeq(s, 1, b), kind) + Count(w, kind)
    BY <2>1, CountPart
  <2>5. SubSeq(s, 1, n) = s
    BY SubSeqFull DEF Text, n
  <2>6. Count(u, kind) = 0
    <3>1. u \in Text /\ Len(u) = c /\ \A i \in 1..c : u[i] = s[i]
      BY <2>1, Begun DEF n
    <3>2. \A i \in 1..c : i \in 1..n
      BY <2>1
    <3> HIDE DEF u
    <3>3. \A i \in 1..Len(u) : u[i] \notin kind
      BY <2>2, <3>1, <3>2
    <3> QED BY <3>1, <3>3, CountNone
  <2>7. Count(w, kind) = 0
    <3>1. w \in Text /\ Len(w) = n - b /\ \A i \in 1..n - b : w[i] = s[b + i]
      BY <2>1, Part DEF n
    <3>2. \A i \in 1..n - b : b + i \in 1..n /\ b + i > b
      BY <2>1
    <3> HIDE DEF w
    <3>3. \A i \in 1..Len(w) : w[i] \notin kind
      BY <2>2, <3>1, <3>2
    <3> QED BY <3>1, <3>3, CountNone
  <2> HIDE DEF u, v, w
  <2>8. Count(v, kind) = Count(s, kind)
    <3> DEFINE m == Count(v, kind)
    <3>1. Count(SubSeq(s, 1, b), kind) = 0 + m /\ m \in Nat
      BY <2>3, <2>6
    <3>2. Count(s, kind) = Count(SubSeq(s, 1, b), kind) + 0
      BY <2>4, <2>5, <2>7
    <3> HIDE DEF m
    <3>3. 0 + m = m /\ m + 0 = m
      BY <3>1
    <3>4. Count(s, kind) = m
      BY <3>1, <3>2, <3>3
    <3> QED BY <3>4 DEF m
  <2> QED BY <1>2, <2>1, <2>8 DEF v
<1> QED BY <1>1, <1>2, StripIs

\* What is spoken of a piece has its letters.
LEMMA CountSpoken ==
  ASSUME NEW q \in Seq(Text), NEW x \in Text
  PROVE  /\ Count(Cutter!FlattenSeq(q \o Cutter!Spoken(x)), Letters)
              = Count(Cutter!FlattenSeq(q), Letters) + Count(x, Letters)
         /\ Count(Cutter!FlattenSeq(q), Letters) \in Nat
         /\ Count(x, Letters) \in Nat
<1> DEFINE f == Cutter!FlattenSeq(q)
           y == Cutter!Strip(x)
<1>1. /\ f \in Text /\ y \in Text /\ Count(f, Letters) \in Nat /\ Count(x, Letters) \in Nat
  BY FlattenText, StripText, PlacesFinite
<1>2. CASE Cutter!HasLetter(x)
  <2>1. Cutter!Spoken(x) = <<y>>
    BY <1>2 DEF Cutter!Spoken
  <2>2. Count(y, Letters) = Count(x, Letters)
    BY CountStrip, LettersAssumption
  <2> HIDE DEF y
  <2>3. Cutter!FlattenSeq(q \o <<y>>) = f \o y
    BY <1>1, FlattenOneMore
  <2> HIDE DEF f
  <2>4. Count(f \o y, Letters) = Count(f, Letters) + Count(y, Letters)
    BY <1>1, CountJoined
  <2> QED BY <1>1, <2>1, <2>2, <2>3, <2>4 DEF f
<1>3. CASE ~Cutter!HasLetter(x)
  <2> DEFINE z == <<>>
  <2>1. Cutter!Spoken(x) = z /\ q \o z = q
    BY <1>3, ConcatEmptySeq DEF Cutter!Spoken
  <2>2. \A i \in 1..Len(x) : x[i] \notin Letters
    BY <1>3, Lengths DEF Cutter!HasLetter
  <2>3. Count(x, Letters) = 0
    BY <2>2, CountNone
  <2> HIDE DEF z, f
  <2>4. Cutter!FlattenSeq(q \o Cutter!Spoken(x)) = f
    BY <2>1 DEF f
  <2> QED BY <1>1, <2>3, <2>4 DEF f
<1> QED BY <1>2, <1>3

\* Only the end of a piece may end a sentence.
Calm(x) ==
  \A i \in 1..Len(x) - 1 : x[i] \notin Breaks /\ (x[i] = Space => i <= Flush)

LEMMA PromptSpoken ==
  ASSUME NEW x \in Text, Calm(x), NEW k \in 1..Len(Cutter!Spoken(x))
  PROVE  Prompt(Cutter!Spoken(x)[k])
<1> DEFINE y == Cutter!Strip(x)
<1>1. Len(Cutter!Spoken(x)) = 1 /\ Cutter!Spoken(x) = <<y>>
  BY DEF Cutter!Spoken
<1>2. Cutter!Spoken(x)[k] = y
  BY <1>1
<1>3. CASE y = <<>>
  BY <1>2, <1>3 DEF Prompt
<1>4. ASSUME NEW a \in Nat, NEW b \in Nat, Solid(x, a, b), y = SubSeq(x, a, b)
      PROVE  Prompt(y)
  <2> HIDE DEF y
  <2> DEFINE c == a - 1
             m == b - a + 1
             n == Len(x)
  <2>1. n \in Nat /\ c \in Nat /\ m \in Nat /\ c + m = b /\ b <= n
    BY <1>4, Lengths DEF Solid
  <2>2. Len(y) = m /\ \A i \in 1..m : y[i] = x[c + i]
    BY <1>4, SolidPart
  <2>3. x[b] # Space
    BY <1>4 DEF Solid
  <2> HIDE DEF c, m, n
  <2>4. ASSUME NEW i \in 1..m
        PROVE  (y[i] \in Breaks => i = m) /\ (y[i] = Space => i <= Flush)
    <3>1. y[i] = x[c + i]
      BY <2>2
    <3>2. CASE i = m
      BY <2>1, <2>3, <3>1, <3>2
    <3>3. CASE i # m
      <4> DEFINE j == c + i
      <4>1. j \in 1..n - 1 /\ j \in Nat /\ i <= j /\ Flush \in Nat
        BY <2>1, <3>3, LettersAssumption
      <4>2. x[j] \notin Breaks /\ (x[j] = Space => j <= Flush)
        <5> HIDE DEF j
        <5> QED BY <4>1 DEF Calm, n
      <4> HIDE DEF j
      <4>3. j <= Flush => i <= Flush
        BY <4>1
      <4> QED BY <3>1, <4>2, <4>3 DEF j
    <3> QED BY <3>2, <3>3
  <2> QED BY <2>2, <2>4 DEF Prompt
<1> QED BY <1>2, <1>3, <1>4, StripIs

LEMMA PieceCalm ==
  ASSUME NEW s \in Text, NEW a \in Nat, NEW m \in Nat, a <= m, Quiet(s, a, m),
         NEW j \in Nat, j = m \/ j = m + 1, j <= Len(s)
  PROVE  Calm(SubSeq(s, a + 1, j))
<1> DEFINE x == SubSeq(s, a + 1, j)
<1>1. a <= j
  OBVIOUS
<1>2. Len(x) = j - a /\ \A i \in 1..j - a : x[i] = s[a + i]
  BY <1>1, Part
<1> HIDE DEF x
<1>3. ASSUME NEW i \in 1..Len(x) - 1
      PROVE  x[i] \notin Breaks /\ (x[i] = Space => i <= Flush)
  <2> DEFINE k == a + i
  <2>1. i \in 1..j - a /\ k \in a + 1..m /\ k - a = i
    BY <1>2
  <2>2. x[i] = s[k]
    BY <1>2, <2>1
  <2> HIDE DEF k
  <2>3. s[k] \notin Breaks /\ (s[k] = Space => k - a <= Flush)
    BY <2>1 DEF Quiet
  <2> QED BY <2>1, <2>2, <2>3
<1>4. Calm(x)
  BY <1>3 DEF Calm
<1> QED BY <1>4 DEF x

\* The sentences found keep no one waiting and have the letters so far.
Speech(q, s, n) ==
  /\ \A k \in 1..Len(q) : Prompt(q[k])
  /\ Count(Cutter!FlattenSeq(q), Letters) = Count(SubSeq(s, 1, n), Letters)

LEMMA SpeechOneMore ==
  ASSUME NEW s \in Text, NEW q \in Seq(Text), NEW a \in Nat, Speech(q, s, a),
         NEW m \in Nat, a <= m, Quiet(s, a, m),
         NEW j \in Nat, j = m \/ j = m + 1, j <= Len(s)
  PROVE  Speech(q \o Cutter!Spoken(SubSeq(s, a + 1, j)), s, j)
<1> DEFINE x == SubSeq(s, a + 1, j)
           p == Cutter!Spoken(x)
           r == q \o p
<1>1. x \in Text /\ Calm(x)
  BY AnyPart, PieceCalm
<1>2. Count(SubSeq(s, 1, j), Letters) = Count(SubSeq(s, 1, a), Letters) + Count(x, Letters)
  <2>1. a <= j
    OBVIOUS
  <2> QED BY <2>1, CountPart
<1> HIDE DEF x
<1>3. p \in Seq(Text) /\ \A k \in 1..Len(p) : Prompt(p[k])
  BY <1>1, SpokenText, PromptSpoken
<1>4. Count(Cutter!FlattenSeq(r), Letters)
        = Count(Cutter!FlattenSeq(q), Letters) + Count(x, Letters)
  BY <1>1, CountSpoken
<1> HIDE DEF p
<1>5. /\ Len(r) = Len(q) + Len(p) /\ Len(q) \in Nat /\ Len(p) \in Nat
      /\ \A k \in 1..Len(q) + Len(p) : r[k] = IF k <= Len(q) THEN q[k] ELSE p[k - Len(q)]
  BY <1>3, ConcatProperties
<1> HIDE DEF r
<1>6. ASSUME NEW k \in 1..Len(r) PROVE Prompt(r[k])
  <2>1. CASE k <= Len(q)
    <3>1. k \in 1..Len(q) /\ r[k] = q[k]
      BY <1>5, <2>1
    <3> QED BY <3>1 DEF Speech
  <2>2. CASE ~(k <= Len(q))
    <3>1. k - Len(q) \in 1..Len(p) /\ r[k] = p[k - Len(q)]
      BY <1>5, <2>2
    <3> QED BY <1>3, <3>1
  <2> QED BY <2>1, <2>2
<1>7. Count(Cutter!FlattenSeq(r), Letters) = Count(SubSeq(s, 1, j), Letters)
  BY <1>2, <1>4 DEF Speech
<1> QED BY <1>6, <1>7 DEF Speech, r, p, x

LEMMA ScanSpeech ==
  ASSUME NEW s \in Text, NEW t, Scanning(t, s), NEW i \in 0..Len(s)
  PROVE  Speech(t[i].found, s, t[i].start)
<1> DEFINE n == Len(s)
           S == {m \in 0..n : Speech(t[m].found, s, t[m].start)}
<1>0. n \in Nat
  BY Lengths
<1>1. 0 \in S
  <2> DEFINE z == <<>>
  <2>1. t[0].found = z /\ t[0].start = 0
    BY DEF Scanning
  <2>2. Len(z) = 0 /\ Cutter!FlattenSeq(z) = z
    BY DEF Cutter!FlattenSeq
  <2>3. SubSeq(s, 1, 0) = z
    OBVIOUS
  <2> HIDE DEF z
  <2>4. \A k \in 1..Len(z) : Prompt(z[k])
    BY <2>2
  <2>5. Speech(z, s, 0)
    BY <2>2, <2>3, <2>4 DEF Speech
  <2> QED BY <1>0, <2>1, <2>5
<1>2. ASSUME NEW k \in 1..n, k - 1 \in S PROVE k \in S
  <2> DEFINE l == k - 1
             f == t[l]
             a == f.start
             q == f.found
  <2>1. /\ k \in 0..n /\ l \in 0..Len(s) /\ l \in Nat /\ l + 1 = k /\ k \in Nat
        /\ k <= Len(s) /\ l <= Len(s) /\ k \in 1..Len(s)
    BY <1>0
  <2>2. Speech(q, s, a) /\ t[k] = Cutter!Scan(s, t[k - 1], k)
    BY <1>2 DEF Scanning
  <2> HIDE DEF l
  <2>3. /\ a \in 0..l /\ q \in Seq(Text) /\ Quiet(s, a, l)
    BY <2>1, CutsAre
  <2>4. a \in Nat /\ a <= l
    BY <2>1, <2>3
  <2>5. t[k] = Cutter!Scan(s, f, k)
    BY <2>2 DEF l
  <2>6. ASSUME NEW j \in {l, k}, t[k] = Cut(s, f, k, j), j = k \/ s[k] = Space
        PROVE  k \in S
    <3>1. t[k].start = k /\ t[k].found = q \o Cutter!Spoken(SubSeq(s, a + 1, j))
      <4> DEFINE G == q \o Cutter!Spoken(SubSeq(s, a + 1, j))
      <4> HIDE DEF f
      <4>1. Cut(s, f, k, j) = [start |-> k, found |-> G]
        BY DEF Cut
      <4> HIDE DEF G
      <4>2. t[k].start = k /\ t[k].found = G
        BY <2>6, <4>1
      <4> QED BY <4>2 DEF G
    <3> HIDE DEF a, q
    <3>2. j \in Nat /\ (j = l \/ j = l + 1) /\ j <= Len(s) /\ a <= j
      BY <2>1, <2>4
    <3>3. Speech(q \o Cutter!Spoken(SubSeq(s, a + 1, j)), s, j)
      BY <2>1, <2>2, <2>3, <2>4, <3>2, SpeechOneMore
    <3>4. Count(SubSeq(s, 1, j), Letters) = Count(SubSeq(s, 1, k), Letters)
      <4>1. CASE j = k
        BY <4>1
      <4>2. CASE j = l /\ s[k] = Space
        <5> DEFINE v == SubSeq(s, l + 1, k)
        <5>1. Count(SubSeq(s, 1, k), Letters) = Count(SubSeq(s, 1, l), Letters) + Count(v, Letters)
              /\ Count(SubSeq(s, 1, l), Letters) \in Nat
          <6>1. l <= k
            BY <2>1
          <6> QED BY <2>1, <6>1, CountPart
        <5>2. v \in Text /\ Len(v) = k - l /\ \A m \in 1..k - l : v[m] = s[l + m]
          <6>1. l <= k
            BY <2>1
          <6> QED BY <2>1, <6>1, Part
        <5> HIDE DEF v
        <5>3. k - l = 1 /\ \A m \in 1..1 : l + m = k
          BY <2>1
        <5>4. \A m \in 1..Len(v) : v[m] \notin Letters
          BY <4>2, <5>2, <5>3, LettersAssumption
        <5>5. Count(v, Letters) = 0
          BY <5>2, <5>4, CountNone
        <5> QED BY <4>2, <5>1, <5>5
      <4> QED BY <2>6, <4>1, <4>2
    <3>5. Speech(t[k].found, s, t[k].start)
      BY <3>1, <3>3, <3>4 DEF Speech
    <3> QED BY <2>1, <3>5
  <2>7. CASE t[k] = f
    BY <2>1, <2>2, <2>7
  <2>8. \/ t[k] = Cut(s, f, k, k)
        \/ s[k] = Space /\ t[k] = Cut(s, f, k, k - 1)
        \/ t[k] = f
    <3> HIDE DEF f
    <3> QED BY <2>5, ScanIs
  <2>9. k - 1 = l
    BY DEF l
  <2> HIDE DEF f, a, q
  <2> QED BY <2>6, <2>7, <2>8, <2>9
<1>3. 0..n \subseteq S
  <2> HIDE DEF S, n
  <2> QED BY <1>0, <1>1, <1>2, UpTheNumbers
<1> QED BY <1>3

\* What take_sentences gives: prompt sentences, and a rest that no sentence ends
\* in; together they have every letter.
LEMMA TakeSpeech ==
  ASSUME NEW s \in Text
  PROVE  LET a == Cutter!TakeSentences(s)
         IN /\ \A k \in 1..Len(a.ready) : Prompt(a.ready[k])
            /\ \A i \in 1..Len(a.rest) :
                 a.rest[i] \notin Breaks /\ (a.rest[i] = Space => i <= Flush)
            /\ Count(Cutter!FlattenSeq(a.ready), Letters) + Count(a.rest, Letters)
                 = Count(s, Letters)
            /\ \A k \in 1..Len(Cutter!Sentences(s)) : Prompt(Cutter!Sentences(s)[k])
            /\ Count(Cutter!FlattenSeq(Cutter!Sentences(s)), Letters) = Count(s, Letters)
<1> DEFINE A == Cutter!TakeSentences(s)
           n == Len(s)
<1>1. PICK t : Scanning(t, s) /\ A = Taken(t, s)
  BY TakeByScanning
<1> DEFINE k == t[n].start
           q == t[n].found
           r == SubSeq(s, k + 1, n)
<1>2. n \in Nat /\ n \in 0..Len(s) /\ n <= Len(s)
  BY Lengths
<1>3. k \in 0..n /\ q \in Seq(Text) /\ A.ready = q /\ A.rest = r /\ r \in Text
  BY <1>1, <1>2, TakenIsText DEF Drop
<1>4. Cutter!Sentences(s) = A.ready \o Cutter!Spoken(A.rest)
  BY DEF Cutter!Sentences
<1> HIDE DEF A
<1>5. SubSeq(s, 1, n) = s
  BY SubSeqFull DEF Text
<1> HIDE DEF n
<1>6. Speech(q, s, k) /\ Quiet(s, k, n)
  BY <1>1, <1>2, ScanSpeech, CutsAre
<1> HIDE DEF k, q
<1>7. k \in Nat /\ k <= n
  BY <1>2, <1>3
<1>8. Len(r) = n - k /\ \A i \in 1..n - k : r[i] = s[k + i]
  BY <1>2, <1>7, Part
<1>9. Count(SubSeq(s, 1, n), Letters) = Count(SubSeq(s, 1, k), Letters) + Count(r, Letters)
  BY <1>2, <1>7, CountPart
<1>10. Speech(q \o Cutter!Spoken(r), s, n)
  <2>1. n = n \/ n = n + 1
    OBVIOUS
  <2> QED BY <1>2, <1>3, <1>6, <1>7, <2>1, SpeechOneMore
<1> HIDE DEF r
<1>11. ASSUME NEW i \in 1..Len(r)
       PROVE  r[i] \notin Breaks /\ (r[i] = Space => i <= Flush)
  <2> DEFINE j == k + i
  <2>1. j \in k + 1..n /\ j - k = i /\ r[i] = s[j]
    BY <1>2, <1>7, <1>8
  <2> HIDE DEF j
  <2> QED BY <1>6, <2>1 DEF Quiet
<1>12. /\ \A m \in 1..Len(q) : Prompt(q[m])
       /\ Count(Cutter!FlattenSeq(q), Letters) + Count(r, Letters) = Count(s, Letters)
  BY <1>5, <1>6, <1>9 DEF Speech
<1>13. /\ \A m \in 1..Len(Cutter!Sentences(s)) : Prompt(Cutter!Sentences(s)[m])
       /\ Count(Cutter!FlattenSeq(Cutter!Sentences(s)), Letters) = Count(s, Letters)
  <2>1. Cutter!Sentences(s) = q \o Cutter!Spoken(r)
    BY <1>3, <1>4
  <2> QED BY <1>5, <1>10, <2>1 DEF Speech
<1> QED BY <1>3, <1>11, <1>12, <1>13 DEF A

-----------------------------------------------------------------------------
(* The invariant of splitter and cutter together.                          *)

\* The sentences and the rest are those of the answer so far.
CutterInv ==
  /\ ended \in BOOLEAN
  /\ toSay = Cutter!TakeSentences(answer).rest
  /\ said = IF ended THEN Cutter!Sentences(answer)
            ELSE Cutter!TakeSentences(answer).ready

ReplyInv == SplitterInv /\ CutterInv /\ (ended => state = "finished")

\* The cutter counts as the other modules do.
LEMMA SameCardinality == ASSUME NEW S PROVE Cutter!Cardinality(S) = Cardinality(S)
BY DEF Cutter!Cardinality, Cardinality

\* What it says of the three promises of the cutter.
LEMMA CutterPromises ==
  ASSUME CutterInv, answer \in Text
  PROVE  Cutter!PiecesDoNotMatter /\ Cutter!EveryLetterSpokenOnce /\ Cutter!NoSentenceWaits
<1> DEFINE A == Cutter!TakeSentences(answer)
           Z == Cutter!Sentences(answer)
<1>1. ended \in BOOLEAN /\ toSay = A.rest /\ said = IF ended THEN Z ELSE A.ready
  BY DEF CutterInv
<1>2. Cutter!PiecesDoNotMatter
  BY <1>1 DEF Cutter!PiecesDoNotMatter
<1>3. /\ \A k \in 1..Len(A.ready) : Prompt(A.ready[k])
      /\ \A i \in 1..Len(A.rest) :
           A.rest[i] \notin Breaks /\ (A.rest[i] = Space => i <= Flush)
      /\ Count(Cutter!FlattenSeq(A.ready), Letters) + Count(A.rest, Letters)
           = Count(answer, Letters)
      /\ \A k \in 1..Len(Z) : Prompt(Z[k])
      /\ Count(Cutter!FlattenSeq(Z), Letters) = Count(answer, Letters)
  BY TakeSpeech
<1>4. A.ready \in Seq(Text) /\ A.rest \in Text /\ Z \in Seq(Text)
  <2>1. A.ready \in Seq(Text) /\ A.rest \in Text
    BY TakeIsText
  <2>2. Cutter!Spoken(A.rest) \in Seq(Text)
    BY <2>1, SpokenText
  <2>3. Z = A.ready \o Cutter!Spoken(A.rest)
    BY DEF Cutter!Sentences
  <2> HIDE DEF A, Z
  <2> QED BY <2>1, <2>2, <2>3, ListsJoinedTwice
<1> HIDE DEF A, Z
<1>5. Cutter!EveryLetterSpokenOnce
  <2> DEFINE N(s) == Cutter!Cardinality({i \in DOMAIN s : s[i] \in Letters})
  <2>1. N(Cutter!FlattenSeq(said)) + (IF ended THEN 0 ELSE N(toSay)) = N(answer)
    <3>1. ASSUME NEW s PROVE N(s) = Count(s, Letters)
      BY SameCardinality DEF Count, Places
    <3> HIDE DEF N
    <3>2. CASE ended
      <4>1. Cutter!FlattenSeq(Z) \in Text
        BY <1>4, FlattenText
      <4>2. Count(Cutter!FlattenSeq(Z), Letters) \in Nat
        BY <4>1, PlacesFinite
      <4>3. Count(Cutter!FlattenSeq(said), Letters) = Count(answer, Letters)
        BY <1>1, <1>3, <3>2
      <4>4. Count(answer, Letters) + 0 = Count(answer, Letters)
        BY <1>3, <4>2
      <4> QED BY <3>1, <3>2, <4>3, <4>4
    <3>3. CASE ~ended
      BY <1>1, <1>3, <3>1, <3>3
    <3> QED BY <3>2, <3>3
  <2> QED BY <2>1 DEF Cutter!EveryLetterSpokenOnce
<1>6. Cutter!NoSentenceWaits
  <2>1. said \in Seq(Text) /\ \A k \in 1..Len(said) : Prompt(said[k])
    BY <1>1, <1>3, <1>4
  <2>2. ASSUME NEW k \in DOMAIN said, NEW i \in DOMAIN said[k]
        PROVE  /\ said[k][i] \in Breaks => i = Len(said[k])
               /\ said[k][i] \in {Space} => i <= Flush
    <3>1. k \in 1..Len(said) /\ said[k] \in Text
      BY <2>1, ListLengths
    <3> DEFINE x == said[k]
    <3> HIDE DEF x
    <3>2. Prompt(x) /\ i \in 1..Len(x)
      BY <2>1, <3>1, Lengths DEF x
    <3>3. (x[i] \in Breaks => i = Len(x)) /\ (x[i] = Space => i <= Flush)
      BY <3>2 DEF Prompt
    <3> QED BY <3>3 DEF x
  <2>3. ASSUME NEW i \in DOMAIN toSay
        PROVE  toSay[i] \notin Breaks /\ (toSay[i] \in {Space} => i <= Flush)
    <3>1. i \in 1..Len(A.rest)
      BY <1>1, <1>4, Lengths
    <3> QED BY <1>1, <1>3, <3>1
  <2> QED BY <2>2, <2>3 DEF Cutter!NoSentenceWaits
<1> QED BY <1>2, <1>5, <1>6

LEMMA CutterInit == ReplyInit => CutterInv /\ ended = FALSE
<1> SUFFICES ASSUME ReplyInit PROVE CutterInv /\ ended = FALSE
  OBVIOUS
<1> DEFINE z == <<>>
<1>1. z \in Text /\ Len(z) = 0 /\ SubSeq(z, 1, 0) = z
  BY NoText
<1>2. answer = z /\ toSay = z /\ said = z /\ ended = FALSE
  BY DEF ReplyInit, Cutter!Init
<1> HIDE DEF z
<1>3. PICK t : Scanning(t, z) /\ Cutter!TakeSentences(z) = Taken(t, z)
  BY <1>1, TakeByScanning
<1>4. t[0] = [start |-> 0, found |-> z]
  BY <1>3 DEF Scanning, z
<1>5. t[Len(z)].start = 0 /\ t[Len(z)].found = z
  BY <1>1, <1>4
<1>6. 0 + 1 = 1
  OBVIOUS
<1>7. Cutter!TakeSentences(z).ready = z /\ Cutter!TakeSentences(z).rest = z
  BY <1>1, <1>3, <1>5, <1>6 DEF Taken
<1> QED BY <1>2, <1>7 DEF CutterInv

\* What the splitter has just given out is cut.
LEMMA CutterEmits ==
  ASSUME CutterInv, answer \in Text, Grown(answer, answer'), Cutter!Emit(Added)
  PROVE  CutterInv' /\ ended = FALSE /\ ended' = FALSE
<1>1. PICK u \in Text : answer' = answer \o u
  BY DEF Grown
<1>2. Added = u
  <2> DEFINE n == Len(answer)
             d == Drop(answer, n)
  <2>1. n \in Nat /\ n <= Len(answer)
    BY Lengths
  <2> HIDE DEF n
  <2>2. d \in Text /\ Len(d) = Len(answer) - n
    BY <2>1, Dropped
  <2>3. Drop(answer \o u, n) = d \o u
    BY <1>1, <2>1, DropOfJoined
  <2> HIDE DEF d
  <2>4. d = <<>>
    <3>1. Len(d) = 0
      BY <2>1, <2>2 DEF n
    <3> QED BY <2>2, <3>1, NoText
  <2>5. d \o u = u
    BY <1>1, <2>4, JoinedWithNone
  <2> QED BY <1>1, <2>3, <2>5 DEF Added, n
<1> DEFINE A == Cutter!TakeSentences(answer)
           B == Cutter!TakeSentences(toSay \o u)
           C == Cutter!TakeSentences(answer \o u)
<1>3. /\ ~ended /\ ended' = ended
      /\ said' = said \o B.ready /\ toSay' = B.rest
  BY <1>2 DEF Cutter!Emit
<1>4. toSay = A.rest /\ said = A.ready /\ ended \in BOOLEAN
  BY <1>3 DEF CutterInv
<1>5. C.ready = A.ready \o B.ready /\ C.rest = B.rest
  <2>1. Resumed(A, Cutter!TakeSentences(A.rest \o u), C)
    BY <1>1, TakeResumed
  <2>2. B = Cutter!TakeSentences(A.rest \o u)
    BY <1>4
  <2> HIDE DEF A, B, C
  <2> QED BY <2>1, <2>2 DEF Resumed
<1>6. said' = C.ready /\ toSay' = C.rest
  BY <1>3, <1>4, <1>5
<1>7. ended = FALSE /\ ended' = FALSE
  BY <1>3, <1>4
<1> HIDE DEF A, B
<1>8. CutterInv'
  BY <1>1, <1>6, <1>7 DEF CutterInv
<1> QED BY <1>7, <1>8

-----------------------------------------------------------------------------
(* The theorems.                                                           *)

LEMMA ReplyInvInitially == ReplyInit => ReplyInv
BY SplitterInit, CutterInit DEF ReplyInit, ReplyInv

LEMMA SplitterUnchanged ==
  ASSUME SplitterInv,
         style' = style, state' = state, buffer' = buffer, held' = held,
         sawClose' = sawClose, sawOpen' = sawOpen, strip' = strip, input' = input,
         thought' = thought, answer' = answer, learned' = learned,
         fieldUsed' = fieldUsed
  PROVE  SplitterInv'
<1>1. Fields' = Fields
  BY DEF Fields
<1> DEFINE f == Fields
<1> HIDE DEF f
<1>2. Going(Fields, input, style, fieldUsed)'
        <=> Going(Fields', input', style', fieldUsed')
  OBVIOUS
<1>3. Going(Fields', input', style', fieldUsed')
        <=> Going(Fields, input, style, fieldUsed)
  BY <1>1
<1>4. PiecesDoNotMatter' <=> PiecesDoNotMatter
  BY DEF PiecesDoNotMatter, Given
<1>5. Kept(Hidden, answer, input)' <=> Kept(Hidden, answer, input)
  BY DEF Kept, Hidden
<1> QED BY <1>2, <1>3, <1>4, <1>5 DEF SplitterInv

LEMMA ReplyInvStays == ReplyInv /\ [ReplyNext]_replyVars => ReplyInv'
<1> SUFFICES ASSUME ReplyInv, [ReplyNext]_replyVars PROVE ReplyInv'
  OBVIOUS
<1>1. SplitterInv /\ CutterInv /\ (ended => state = "finished") /\ answer \in Text
  BY DEF ReplyInv, SplitterInv
<1>2. ASSUME NEW piece \in Pieces, Receive(piece) PROVE ReplyInv'
  <2>1. SplitterInv' /\ Grown(answer, answer')
    BY <1>1, <1>2, SplitterFeeds DEF Receive
  <2>2. CutterInv' /\ ended' = FALSE
    BY <1>1, <1>2, <2>1, CutterEmits DEF Receive
  <2> QED BY <2>1, <2>2 DEF ReplyInv
<1>3. ASSUME ReceiveReasoning PROVE ReplyInv'
  <2>1. UseReasoningField /\ toSay' = toSay /\ said' = said /\ ended' = ended
    BY <1>3 DEF ReceiveReasoning
  <2>2. SplitterInv' /\ answer' = answer
    BY <1>1, <2>1, SplitterUsesField
  <2>3. CutterInv'
    BY <1>1, <2>1, <2>2 DEF CutterInv
  <2>4. ~ended
    BY <1>1, <2>1 DEF UseReasoningField
  <2> QED BY <2>1, <2>2, <2>3, <2>4 DEF ReplyInv
<1>4. ASSUME ReceiveEnd PROVE ReplyInv'
  <2>1. SplitterInv' /\ Grown(answer, answer')
    BY <1>1, <1>4, SplitterFinishes DEF ReceiveEnd
  <2>2. CutterInv' /\ ended' = FALSE
    BY <1>1, <1>4, <2>1, CutterEmits DEF ReceiveEnd
  <2> QED BY <2>1, <2>2 DEF ReplyInv
<1>5. ASSUME SpeakTail PROVE ReplyInv'
  <2>1. /\ state = "finished" /\ ~ended /\ ended' = TRUE /\ toSay' = toSay
        /\ said' = said \o Cutter!Spoken(toSay) /\ vars' = vars
    BY <1>5 DEF SpeakTail, Cutter!EndReply
  <2>2. SplitterInv' /\ answer' = answer /\ state' = state
    <3>1. /\ style' = style /\ state' = state /\ buffer' = buffer /\ held' = held
          /\ sawClose' = sawClose /\ sawOpen' = sawOpen /\ strip' = strip
          /\ input' = input /\ thought' = thought /\ answer' = answer
          /\ learned' = learned /\ fieldUsed' = fieldUsed
      BY <2>1 DEF vars
    <3> QED BY <1>1, <3>1, SplitterUnchanged
  <2>3. CutterInv'
    BY <1>1, <2>1, <2>2 DEF CutterInv, Cutter!Sentences
  <2> QED BY <2>1, <2>2, <2>3 DEF ReplyInv
<1>6. ASSUME UNCHANGED replyVars PROVE ReplyInv'
  <2>1. /\ style' = style /\ state' = state /\ buffer' = buffer /\ held' = held
        /\ sawClose' = sawClose /\ sawOpen' = sawOpen /\ strip' = strip
        /\ input' = input /\ thought' = thought /\ answer' = answer
        /\ learned' = learned /\ fieldUsed' = fieldUsed
        /\ toSay' = toSay /\ said' = said /\ ended' = ended
    BY <1>6 DEF replyVars, vars
  <2>2. SplitterInv'
    BY <1>1, <2>1, SplitterUnchanged
  <2>3. CutterInv'
    BY <1>1, <2>1 DEF CutterInv
  <2> QED BY <1>1, <2>1, <2>2, <2>3 DEF ReplyInv
<1> QED BY <1>2, <1>3, <1>4, <1>5, <1>6 DEF ReplyNext, ReplyOver

LEMMA ReplyInvHolds == ReplySpec => []ReplyInv
BY ReplyInvInitially, ReplyInvStays, PTL DEF ReplySpec

\* Where the stream was cut does not matter to what is heard, whatever the
\* tags, the reply, its pieces and what is remembered of the deployment are
\* (feed, finish, take_sentences).
THEOREM PiecesNeverMatter == ReplySpec => []SpeechIgnoresPieces
<1>1. ReplyInv => SpeechIgnoresPieces
  <2> SUFFICES ASSUME ReplyInv PROVE SpeechIgnoresPieces
    OBVIOUS
  <2>1. SplitterInv /\ CutterInv /\ (ended => state = "finished") /\ answer \in Text
    BY DEF ReplyInv, SplitterInv
  <2>2. PiecesDoNotMatter /\ Cutter!PiecesDoNotMatter
    BY <2>1, SplitterPromises, CutterPromises
  <2>3. ASSUME ended, ~fieldUsed
        PROVE  said = Cutter!Sentences(Expected(input, style).answer)
    <3>1. Given = Expected(input, style)
      BY <2>1, <2>2, <2>3 DEF PiecesDoNotMatter
    <3>2. Given.answer = answer
      BY DEF Given
    <3>3. said = Cutter!Sentences(answer)
      BY <2>1, <2>3 DEF CutterInv
    <3> QED BY <3>1, <3>2, <3>3
  <2> QED BY <2>2, <2>3 DEF SpeechIgnoresPieces
<1> QED BY <1>1, ReplyInvHolds, PTL

\* Every word of a reply is spoken exactly once unless it was hidden as thinking:
\* before a closing tag, after an opening one, or held when the runtime switched
\* to its reasoning field (feed, use_reasoning_field, finish, read_llm).
THEOREM NoWordIsLost == ReplySpec => []EveryWordReachesTheListener
<1>1. ReplyInv => EveryWordReachesTheListener
  <2> SUFFICES ASSUME ReplyInv PROVE EveryWordReachesTheListener
    OBVIOUS
  <2>1. SplitterInv /\ CutterInv /\ answer \in Text
    BY DEF ReplyInv, SplitterInv
  <2> QED BY <2>1, SplitterPromises, CutterPromises DEF EveryWordReachesTheListener
<1> QED BY <1>1, ReplyInvHolds, PTL

\* The buffers of splitter and cutter keep nothing but what may become a tag or
\* a sentence (_partial_tag, take_sentences); text held as possible thinking is
\* in neither.
THEOREM NothingIsHeldUp == ReplySpec => []NothingWaitsInVain
<1>1. ReplyInv => NothingWaitsInVain
  <2> SUFFICES ASSUME ReplyInv PROVE NothingWaitsInVain
    OBVIOUS
  <2>1. SplitterInv /\ CutterInv /\ answer \in Text
    BY DEF ReplyInv, SplitterInv
  <2> QED BY <2>1, SplitterPromises, CutterPromises DEF NothingWaitsInVain
<1> QED BY <1>1, ReplyInvHolds, PTL

-----------------------------------------------------------------------------
(* The remembered styles, for any deployments, replies and number of       *)
(* tagless replies required.  The counter of a deployment is the length of *)
(* a tagless end of what its replies have told, and speaking directly      *)
(* means that the counter has come to the number required.                 *)

\* runs counts tagless replies at the end of told, and "none" stands on them.
RunsAreTagless ==
  \A d \in Deployments :
    /\ TaglessRun(d, runs[d])
    /\ styles[d] = "none" => RunsBeforeNone <= runs[d]

StyleInv == StyleTypeOK /\ RunsAreTagless

\* Of a tagless run, a shorter end is tagless as well (_tagless_runs).
LEMMA ShorterRun ==
  ASSUME StyleTypeOK, NEW d \in Deployments, NEW n \in Nat, NEW m \in Nat,
         m <= n, TaglessRun(d, n)
  PROVE  TaglessRun(d, m)
<1>1. Len(told[d]) \in Nat /\ DOMAIN told[d] = 1..Len(told[d])
  BY DEF StyleTypeOK
<1> QED
  BY <1>1 DEF TaglessRun

\* Nothing is known of a deployment at first.
LEMMA StyleInitInv == StyleInit => StyleInv
BY DEF StyleInit, StyleInv, StyleTypeOK, RunsAreTagless, TaglessRun, Learned

\* A reply that ends with the style it tells.
LEMMA StyleEndStep ==
  ASSUME StyleInv, NEW r \in Replies, NEW st \in Learned, End(r, st)
  PROVE  StyleInv'
<1> DEFINE d == DeploymentOf[r]
<1> USE DEF StyleInv, StyleTypeOK
<1>0. d \in Deployments /\ RunsBeforeNone \in Nat
  BY StyleAssumption
<1> HIDE DEF d
<1>1. /\ told' = [told EXCEPT ![d] = Append(told[d], st)]
      /\ over' = over \cup {r} /\ readAs' = readAs
      /\ RememberTags(d, st) \/ RememberNone(d, st)
  BY DEF End, d
<1>2. /\ told'[d] = Append(told[d], st) /\ told'[d] \in Seq(Learned)
      /\ Len(told'[d]) = Len(told[d]) + 1 /\ Len(told[d]) \in Nat
      /\ \A i \in 1..Len(told[d]) : told'[d][i] = told[d][i]
      /\ told'[d][Len(told[d]) + 1] = st
      /\ DOMAIN told[d] = 1..Len(told[d])
      /\ DOMAIN told'[d] = 1..Len(told[d]) + 1
  BY <1>0, <1>1
<1>3. StyleTypeOK'
  <2>1. told' \in [Deployments -> Seq(Learned)]
    BY <1>0, <1>1, <1>2
  <2>2. /\ styles' \in [Deployments -> Learned \cup {"unknown"}]
        /\ runs' \in [Deployments -> Nat]
    <3>1. CASE RememberTags(d, st)
      BY <1>0, <3>1 DEF RememberTags
    <3>2. CASE RememberNone(d, st)
      BY <1>0, <3>2 DEF RememberNone, Learned
    <3> QED
      BY <1>1, <3>1, <3>2
  <2> QED
    BY <1>1, <2>1, <2>2
<1>4. ASSUME NEW e \in Deployments \ {d}
      PROVE  /\ told'[e] = told[e] /\ runs'[e] = runs[e] /\ styles'[e] = styles[e]
  BY <1>0, <1>1, <1>4 DEF RememberTags, RememberNone
<1>5. TaglessRun(d, runs[d]) /\ (styles[d] = "none" => RunsBeforeNone <= runs[d])
  BY <1>0 DEF RunsAreTagless
<1>6. ASSUME StyleTypeOK', TaglessRun(d, runs[d])',
             styles'[d] = "none" => RunsBeforeNone <= runs'[d]
      PROVE  StyleInv'
  <2>1. ASSUME NEW e \in Deployments \ {d}
        PROVE  /\ TaglessRun(e, runs[e])'
               /\ styles'[e] = "none" => RunsBeforeNone <= runs'[e]
    BY <1>4 DEF RunsAreTagless, TaglessRun
  <2> QED
    BY <1>6, <2>1 DEF RunsAreTagless
<1>7. CASE RememberTags(d, st)
  <2>1. runs'[d] = 0 /\ styles'[d] # "none"
    BY <1>0, <1>7 DEF RememberTags
  <2>2. TaglessRun(d, runs[d])'
    BY <1>2, <2>1 DEF TaglessRun
  <2> QED
    BY <1>3, <1>6, <2>1, <2>2
<1>8. CASE RememberNone(d, st)
  <2>1. /\ runs'[d] = runs[d] + 1 /\ runs[d] \in Nat /\ st = "none"
        /\ styles'[d] = "none" => RunsBeforeNone <= runs'[d]
    BY <1>0, <1>5, <1>8 DEF RememberNone
  <2>2. TaglessRun(d, runs[d])'
    <3>1. runs'[d] <= Len(told'[d])
      BY <1>2, <1>5, <2>1 DEF TaglessRun
    <3>2. ASSUME NEW i \in 1..Len(told[d]) + 1, i > Len(told'[d]) - runs'[d]
          PROVE  told'[d][i] = "none"
      <4>1. CASE i = Len(told[d]) + 1
        BY <1>2, <2>1, <4>1
      <4>2. CASE i \in 1..Len(told[d])
        <5>1. i > Len(told[d]) - runs[d]
          BY <1>2, <2>1, <3>2
        <5> QED
          BY <1>2, <1>5, <4>2, <5>1 DEF TaglessRun
      <4> QED
        BY <1>2, <4>1, <4>2
    <3> QED
      BY <1>2, <3>1, <3>2 DEF TaglessRun
  <2> QED
    BY <1>3, <1>6, <2>1, <2>2
<1> QED
  BY <1>1, <1>7, <1>8

\* Every step keeps the invariant.
LEMMA StyleNextStep == ASSUME StyleInv, [StyleNext]_styleVars PROVE StyleInv'
<1>1. ASSUME NEW r \in Replies, NEW st \in Learned, End(r, st) PROVE StyleInv'
  BY <1>1, StyleEndStep
<1>2. ASSUME NEW r \in Replies, Begin(r) \/ Fail(r) PROVE StyleInv'
  <2>1. DeploymentOf[r] \in Deployments
    BY StyleAssumption
  <2>2. UNCHANGED <<styles, runs, told>>
    BY <1>2 DEF Begin, Fail
  <2>3. StyleTypeOK'
    BY <1>2, <2>1, <2>2 DEF Begin, Fail, StyleInv, StyleTypeOK
  <2>4. RunsAreTagless'
    BY <2>2 DEF StyleInv, RunsAreTagless, TaglessRun
  <2> QED
    BY <2>3, <2>4 DEF StyleInv
<1>3. CASE UNCHANGED styleVars
  BY <1>3 DEF styleVars, StyleInv, StyleTypeOK, RunsAreTagless, TaglessRun
<1> QED
  BY <1>1, <1>2, <1>3 DEF StyleNext, AllOver

\* Speaking directly stands on enough tagless replies at the end of told.
LEMMA DirectStands == ASSUME StyleInv PROVE DirectOnlyAfterTaglessRun
<1> SUFFICES ASSUME NEW d \in Deployments, styles[d] = "none"
             PROVE  TaglessRun(d, RunsBeforeNone)
  BY DEF DirectOnlyAfterTaglessRun
<1>1. runs[d] \in Nat /\ RunsBeforeNone \in Nat /\ RunsBeforeNone <= runs[d]
  BY StyleAssumption DEF StyleInv, StyleTypeOK, RunsAreTagless
<1> QED
  BY <1>1, ShorterRun DEF StyleInv, RunsAreTagless

\* The invariant holds in every behaviour of remember_reasoning_style.
THEOREM StyleInvariance == StyleSpec => []StyleInv
BY StyleInitInv, StyleNextStep, PTL DEF StyleSpec

\* The style, the counter and the history of every deployment have their types.
THEOREM StyleTypeCorrect == StyleSpec => []StyleTypeOK
<1>1. StyleInv => StyleTypeOK
  BY DEF StyleInv
<1> QED
  BY StyleInvariance, <1>1, PTL

\* Text is spoken unheld only while the latest replies had no tags.
THEOREM DirectOnlyAfterTaglessRunHolds == StyleSpec => []DirectOnlyAfterTaglessRun
BY StyleInvariance, DirectStands, PTL

=============================================================================
