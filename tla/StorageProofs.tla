------------------------------ MODULE StorageProofs ------------------------------
(***************************************************************************)
(* What a sketch is stored in: what the list of a sparse one keeps of the  *)
(* hashes (SparseList), and what the packed registers, the running sum and *)
(* the zero counter of a dense one keep of the Sets (PackedRegisters).     *)
(*                                                                         *)
(* Merged lists come before the sparse sketches; bits, sums and zeros      *)
(* before the registers.                                                   *)
(***************************************************************************)
EXTENDS ComponentProofs

------------------------------------------------------------------------------
(* Merging lists of codes *)

\* What the members of s are from place i on.
From(s, i) == {s[a] : a \in i .. Len(s)}

\* No two of a list have the same index, and they are in its order.
Ordered(s) == \A i, j \in DOMAIN s : i < j => List!IndexOf(s[i]) < List!IndexOf(s[j])

\* One code in front.
LEMMA Prepended ==
  ASSUME NEW C, NEW c \in C, NEW s \in Seq(C)
  PROVE  /\ <<c>> \o s \in Seq(C)
         /\ Range(<<c>> \o s) = {c} \cup Range(s)
<1> DEFINE t == <<c>> \o s
<1>1. /\ t \in Seq(C) /\ Len(t) = Len(s) + 1 /\ Len(s) \in Nat
      /\ t[1] = c
      /\ \A i \in 1 .. Len(s) : t[i + 1] = s[i]
  OBVIOUS
<1>2. DOMAIN t = 1 .. Len(s) + 1 /\ DOMAIN s = 1 .. Len(s)
  BY <1>1
<1> HIDE DEF t
<1>3. ASSUME NEW i \in DOMAIN t
      PROVE  t[i] \in {c} \cup Range(s)
  <2>1. CASE i = 1
    BY <1>1, <2>1
  <2>2. CASE i # 1
    <3> DEFINE k == i - 1
    <3>1. k \in 1 .. Len(s) /\ i = k + 1
      BY <1>1, <1>2, <2>2
    <3> HIDE DEF k
    <3>2. t[i] = s[k]
      BY <1>1, <3>1
    <3>3. QED
      BY <1>2, <3>1, <3>2 DEF Range
  <2>3. QED
    BY <2>1, <2>2
<1>4. c \in Range(t)
  <2>1. 1 \in DOMAIN t
    BY <1>1, <1>2
  <2>2. QED
    BY <1>1, <2>1 DEF Range
<1>5. ASSUME NEW i \in DOMAIN s
      PROVE  s[i] \in Range(t)
  <2>1. i + 1 \in DOMAIN t /\ t[i + 1] = s[i]
    BY <1>1, <1>2
  <2>2. QED
    BY <2>1 DEF Range
<1>6. Range(t) = {c} \cup Range(s)
  BY <1>3, <1>4, <1>5 DEF Range
<1>. QED
  BY <1>1, <1>6 DEF t

LEMMA PrependedOrdered ==
  ASSUME NEW C, NEW c \in C, NEW s \in Seq(C), Ordered(s),
         \A e \in Range(s) : List!IndexOf(c) < List!IndexOf(e)
  PROVE  Ordered(<<c>> \o s)
<1> DEFINE t == <<c>> \o s
<1>1. /\ Len(t) = Len(s) + 1 /\ Len(s) \in Nat
      /\ t[1] = c
      /\ \A i \in 1 .. Len(s) : t[i + 1] = s[i]
      /\ DOMAIN t = 1 .. Len(t) /\ DOMAIN s = 1 .. Len(s)
  OBVIOUS
<1> HIDE DEF t
<1>2. ASSUME NEW i \in DOMAIN t, NEW j \in DOMAIN t, i < j
      PROVE  List!IndexOf(t[i]) < List!IndexOf(t[j])
  <2> DEFINE k == i - 1
             l == j - 1
  <2>1. l \in 1 .. Len(s) /\ j = l + 1 /\ (i = 1 \/ (k \in 1 .. Len(s) /\ i = k + 1 /\ k < l))
    BY <1>1, <1>2
  <2> HIDE DEF k, l
  <2>2. t[j] = s[l] /\ l \in DOMAIN s
    BY <1>1, <2>1
  <2>3. CASE i = 1
    <3>1. t[i] = c /\ s[l] \in Range(s)
      BY <1>1, <2>2, <2>3 DEF Range
    <3>2. QED
      BY <2>2, <3>1
  <2>4. CASE i # 1
    <3>1. t[i] = s[k] /\ k \in DOMAIN s /\ k < l
      BY <1>1, <2>1, <2>4
    <3>2. QED
      BY <2>2, <3>1 DEF Ordered
  <2>5. QED
    BY <2>3, <2>4
<1>3. Ordered(t)
  BY <1>2 DEF Ordered
<1>. QED
  BY <1>3 DEF t

\* The rest of a list.
LEMMA RestOf ==
  ASSUME NEW C, NEW s \in Seq(C), NEW i \in 1 .. Len(s) + 1
  PROVE  /\ SubSeq(s, i, Len(s)) \in Seq(C)
         /\ Range(SubSeq(s, i, Len(s))) = From(s, i)
         /\ Ordered(s) => Ordered(SubSeq(s, i, Len(s)))
<1> DEFINE t == SubSeq(s, i, Len(s))
           n == Len(s) + 1 - i
<1>1. Len(s) \in Nat /\ n \in Nat /\ DOMAIN s = 1 .. Len(s)
  OBVIOUS
<1>2. /\ t \in Seq(C) /\ Len(t) = n
      /\ \A k \in 1 .. n : t[k] = s[i + k - 1]
  OBVIOUS
<1>3. DOMAIN t = 1 .. n
  BY <1>2
<1> HIDE DEF t
<1>4. \A k \in 1 .. n : i + k - 1 \in i .. Len(s) /\ i + k - 1 \in 1 .. Len(s)
  BY <1>1
<1>5. Range(t) \subseteq From(s, i)
  BY <1>2, <1>3, <1>4 DEF Range, From
<1>6. ASSUME NEW a \in i .. Len(s)
      PROVE  s[a] \in Range(t)
  <2> DEFINE k == a - i + 1
  <2>1. k \in 1 .. n /\ i + k - 1 = a
    BY <1>1
  <2> HIDE DEF k
  <2>2. t[k] = s[a]
    BY <1>2, <2>1
  <2>3. QED
    BY <1>3, <2>1, <2>2 DEF Range
<1>7. Range(t) = From(s, i)
  BY <1>5, <1>6 DEF From
<1>8. ASSUME Ordered(s), NEW k \in DOMAIN t, NEW l \in DOMAIN t, k < l
      PROVE  List!IndexOf(t[k]) < List!IndexOf(t[l])
  <2> DEFINE a == i + k - 1
             b == i + l - 1
  <2>1. t[k] = s[a] /\ t[l] = s[b] /\ a \in DOMAIN s /\ b \in DOMAIN s
    BY <1>1, <1>2, <1>3, <1>4
  <2>2. a < b
    BY <1>3, <1>8
  <2> HIDE DEF a, b
  <2>3. QED
    BY <1>8, <2>1, <2>2 DEF Ordered
<1>9. Ordered(s) => Ordered(t)
  BY <1>8 DEF Ordered
<1>. QED
  BY <1>2, <1>7, <1>9 DEF t

\* What follows a place, and the member there.
LEMMA FromNext ==
  ASSUME NEW C, NEW s \in Seq(C), NEW i \in 1 .. Len(s)
  PROVE  /\ s[i] \in C /\ i + 1 \in 1 .. Len(s) + 1
         /\ From(s, i) = {s[i]} \cup From(s, i + 1)
         /\ Ordered(s) => \A e \in From(s, i + 1) : List!IndexOf(s[i]) < List!IndexOf(e)
<1>1. Len(s) \in Nat /\ DOMAIN s = 1 .. Len(s) /\ s[i] \in C
  OBVIOUS
<1>2. i + 1 \in 1 .. Len(s) + 1
  BY <1>1
<1>3. \A a \in i .. Len(s) : a = i \/ a \in i + 1 .. Len(s)
  BY <1>1
<1>4. i \in i .. Len(s) /\ \A a \in i + 1 .. Len(s) : a \in i .. Len(s) /\ a \in 1 .. Len(s) /\ i < a
  BY <1>1
<1>5. From(s, i) = {s[i]} \cup From(s, i + 1)
  BY <1>3, <1>4 DEF From
<1>6. ASSUME Ordered(s), NEW a \in i + 1 .. Len(s)
      PROVE  List!IndexOf(s[i]) < List!IndexOf(s[a])
  BY <1>1, <1>4, <1>6 DEF Ordered
<1>7. Ordered(s) => \A e \in From(s, i + 1) : List!IndexOf(s[i]) < List!IndexOf(e)
  BY <1>6 DEF From
<1>. QED
  BY <1>1, <1>2, <1>5, <1>7

LEMMA FromEnds ==
  ASSUME NEW C, NEW s \in Seq(C)
  PROVE  From(s, Len(s) + 1) = {} /\ From(s, 1) = Range(s)
<1>1. Len(s) \in Nat /\ DOMAIN s = 1 .. Len(s) /\ Len(s) + 1 .. Len(s) = {}
  OBVIOUS
<1>. QED
  BY <1>1 DEF From, Range

\* The step of the merge loop at two places, f being what it does from others on.
MergedAt(f, i, j, had, new) ==
  IF i > Len(had) \/ j > Len(new)
  THEN SubSeq(had, i, Len(had)) \o SubSeq(new, j, Len(new))
  ELSE IF List!IndexOf(had[i]) < List!IndexOf(new[j]) THEN <<had[i]>> \o f[<<i + 1, j>>]
  ELSE IF List!IndexOf(new[j]) < List!IndexOf(had[i]) THEN <<new[j]>> \o f[<<i, j + 1>>]
  ELSE List!Larger(had[i], new[j]) \o f[<<i + 1, j + 1>>]

MergePlaces(had, new) == (1 .. Len(had) + 1) \X (1 .. Len(new) + 1)

Merging(f, D, had, new) == f = [at \in D |-> MergedAt(f, at[1], at[2], had, new)]

\* The places from which no more than k steps are left.
Near(k, had, new) ==
  {at \in MergePlaces(had, new) : (Len(had) + 1 - at[1]) + (Len(new) + 1 - at[2]) <= k}

LEMMA NearPlaces ==
  ASSUME NEW C, NEW had \in Seq(C), NEW new \in Seq(C), NEW k \in Nat,
         NEW at \in Near(k + 1, had, new), at[1] <= Len(had), at[2] <= Len(new)
  PROVE  /\ <<at[1] + 1, at[2]>> \in Near(k, had, new)
         /\ <<at[1], at[2] + 1>> \in Near(k, had, new)
         /\ <<at[1] + 1, at[2] + 1>> \in Near(k, had, new)
<1> DEFINE i == at[1]
           j == at[2]
           m == Len(had)
           n == Len(new)
<1>1. m \in Nat /\ n \in Nat /\ i \in 1 .. m /\ j \in 1 .. n /\ (m + 1 - i) + (n + 1 - j) <= k + 1
  <2>1. at \in MergePlaces(had, new)
    BY DEF Near
  <2>2. at[1] \in 1 .. Len(had) + 1 /\ at[2] \in 1 .. Len(new) + 1
    BY <2>1 DEF MergePlaces
  <2>3. m \in Nat /\ n \in Nat
    OBVIOUS
  <2>4. (m + 1 - i) + (n + 1 - j) <= k + 1
    BY DEF Near
  <2>5. QED
    BY <2>2, <2>3, <2>4
<1> HIDE DEF i, j, m, n
<1>2. /\ i + 1 \in 1 .. m + 1 /\ i \in 1 .. m + 1 /\ j + 1 \in 1 .. n + 1 /\ j \in 1 .. n + 1
      /\ (m + 1 - (i + 1)) + (n + 1 - j) <= k
      /\ (m + 1 - i) + (n + 1 - (j + 1)) <= k
      /\ (m + 1 - (i + 1)) + (n + 1 - (j + 1)) <= k
  BY <1>1
<1>3. /\ <<i + 1, j>> \in (1 .. m + 1) \X (1 .. n + 1)
      /\ <<i, j + 1>> \in (1 .. m + 1) \X (1 .. n + 1)
      /\ <<i + 1, j + 1>> \in (1 .. m + 1) \X (1 .. n + 1)
  BY <1>2
<1>4. \A a, b : <<a, b>>[1] = a /\ <<a, b>>[2] = b
  OBVIOUS
<1>. QED
  BY <1>2, <1>3, <1>4 DEF Near, MergePlaces, i, j, m, n

LEMMA AllNear ==
  ASSUME NEW C, NEW had \in Seq(C), NEW new \in Seq(C)
  PROVE  /\ Len(had) + Len(new) \in Nat
         /\ Near(Len(had) + Len(new), had, new) = MergePlaces(had, new)
         /\ \A at \in Near(0, had, new) : at[1] > Len(had) /\ at[2] > Len(new)
         /\ \A at \in MergePlaces(had, new) :
              /\ at[1] \in 1 .. Len(had) + 1 /\ at[2] \in 1 .. Len(new) + 1
              /\ at = <<at[1], at[2]>>
<1> DEFINE m == Len(had)
           n == Len(new)
<1>1. m \in Nat /\ n \in Nat
  OBVIOUS
<1>2. \A at \in MergePlaces(had, new) :
        at[1] \in 1 .. m + 1 /\ at[2] \in 1 .. n + 1 /\ at = <<at[1], at[2]>>
  BY DEF MergePlaces
<1>3. \A i \in 1 .. m + 1, j \in 1 .. n + 1 :
        /\ (m + 1 - i) + (n + 1 - j) <= m + n
        /\ (m + 1 - i) + (n + 1 - j) <= 0 => i > m /\ j > n
  BY <1>1
<1>. QED
  BY <1>1, <1>2, <1>3 DEF Near

LEMMA MergingExists ==
  ASSUME NEW C, NEW had \in Seq(C), NEW new \in Seq(C)
  PROVE  \E f : Merging(f, MergePlaces(had, new), had, new)
<1> DEFINE Fine == {k \in Nat : \E f : Merging(f, Near(k, had, new), had, new)}
<1>1. 0 \in Fine
  <2> DEFINE rest(at) == SubSeq(had, at[1], Len(had)) \o SubSeq(new, at[2], Len(new))
             f == [at \in Near(0, had, new) |-> rest(at)]
  <2>1. \A at \in Near(0, had, new) : rest(at) = MergedAt(f, at[1], at[2], had, new)
    <3>1. \A at \in Near(0, had, new) : at[1] > Len(had) \/ at[2] > Len(new)
      BY AllNear
    <3> HIDE DEF f
    <3>2. QED
      BY <3>1 DEF MergedAt
  <2>2. f = [at \in Near(0, had, new) |-> rest(at)]
    OBVIOUS
  <2> HIDE DEF f, rest
  <2>3. Merging(f, Near(0, had, new), had, new)
    BY <2>1, <2>2 DEF Merging
  <2>4. QED
    BY <2>3
<1>2. ASSUME NEW k \in Fine
      PROVE  k + 1 \in Fine
  <2> DEFINE D == Near(k, had, new)
             E == Near(k + 1, had, new)
  <2>1. PICK f : Merging(f, D, had, new)
    OBVIOUS
  <2> DEFINE h == [at \in E |-> MergedAt(f, at[1], at[2], had, new)]
  <2>2. D \subseteq E
    <3>1. \A at \in D : at \in MergePlaces(had, new)
            /\ (Len(had) + 1 - at[1]) + (Len(new) + 1 - at[2]) <= k
      BY DEF Near
    <3>2. \A at \in D : at[1] \in Int /\ at[2] \in Int /\ Len(had) \in Int /\ Len(new) \in Int
      BY <3>1, AllNear
    <3>3. \A at \in D : (Len(had) + 1 - at[1]) + (Len(new) + 1 - at[2]) <= k + 1
      BY <3>1, <3>2
    <3>4. QED
      BY <3>1, <3>3 DEF Near
  <2>3. ASSUME NEW at \in D
        PROVE  h[at] = f[at]
    BY <2>1, <2>2 DEF Merging
  <2>4. ASSUME NEW at \in E
        PROVE  MergedAt(f, at[1], at[2], had, new) = MergedAt(h, at[1], at[2], had, new)
    <3> HIDE DEF h
    <3>1. CASE at[1] > Len(had) \/ at[2] > Len(new)
      BY <3>1 DEF MergedAt
    <3>2. CASE ~(at[1] > Len(had) \/ at[2] > Len(new))
      <4>1. at[1] <= Len(had) /\ at[2] <= Len(new)
        <5>1. at[1] \in Int /\ at[2] \in Int /\ Len(had) \in Int /\ Len(new) \in Int
          BY AllNear DEF Near
        <5>2. QED
          BY <3>2, <5>1
      <4>2. /\ <<at[1] + 1, at[2]>> \in D /\ <<at[1], at[2] + 1>> \in D
            /\ <<at[1] + 1, at[2] + 1>> \in D
        BY <4>1, NearPlaces
      <4>3. /\ h[<<at[1] + 1, at[2]>>] = f[<<at[1] + 1, at[2]>>]
            /\ h[<<at[1], at[2] + 1>>] = f[<<at[1], at[2] + 1>>]
            /\ h[<<at[1] + 1, at[2] + 1>>] = f[<<at[1] + 1, at[2] + 1>>]
        BY <2>3, <4>2
      <4>4. QED
        BY <4>3 DEF MergedAt
    <3>3. QED
      BY <3>1, <3>2
  <2>5. h = [at \in E |-> MergedAt(f, at[1], at[2], had, new)]
    OBVIOUS
  <2> HIDE DEF h, E
  <2>6. Merging(h, E, had, new)
    BY <2>4, <2>5 DEF Merging
  <2>7. QED
    BY <2>6 DEF E
<1>3. Fine \in SUBSET Nat
  OBVIOUS
<1>4. Fine = Nat
  <2> HIDE DEF Fine
  <2>1. QED
    BY <1>1, <1>2, <1>3, Induction
<1>. QED
  BY <1>4, AllNear

\* A code that stands for another in a list without loss.
Covers(c, d) == List!IndexOf(c) = List!IndexOf(d) /\ List!RhoPrime(c) >= List!RhoPrime(d)

CodesAreNumbers == \A c \in List!Codes : List!IndexOf(c) \in Nat /\ List!RhoPrime(c) \in Nat

\* s has nothing but members of T, and lacks none of them but for better ones.
StandsFor(s, T) ==
  /\ s \in Seq(List!Codes)
  /\ Range(s) \subseteq T
  /\ \A d \in T : \E e \in Range(s) : Covers(e, d)

LEMMA OneMoreStands ==
  ASSUME NEW s, NEW T, StandsFor(s, T), NEW U, T \subseteq U, NEW c \in List!Codes, c \in U,
         \A d \in U : d \in T \/ Covers(c, d)
  PROVE  StandsFor(<<c>> \o s, U)
<1>1. /\ <<c>> \o s \in Seq(List!Codes)
      /\ Range(<<c>> \o s) = {c} \cup Range(s)
  BY Prepended DEF StandsFor
<1> DEFINE t == <<c>> \o s
<1> HIDE DEF t
<1>2. t \in Seq(List!Codes) /\ Range(t) = {c} \cup Range(s)
  BY <1>1 DEF t
<1>3. \A d \in U : \E e \in Range(t) : Covers(e, d)
  BY <1>2 DEF StandsFor
<1>4. StandsFor(t, U)
  BY <1>2, <1>3 DEF StandsFor
<1>. QED
  BY <1>4 DEF t

\* What the merge of the lists had and new from places i and j on should be.
MergedRight(s, i, j, had, new) ==
  /\ StandsFor(s, From(had, i) \cup From(new, j))
  /\ Ordered(had) /\ Ordered(new) => Ordered(s)

LEMMA MergeEnds ==
  ASSUME CodesAreNumbers, NEW had \in Seq(List!Codes), NEW new \in Seq(List!Codes),
         NEW i \in 1 .. Len(had) + 1, NEW j \in 1 .. Len(new) + 1,
         i > Len(had) \/ j > Len(new)
  PROVE  MergedRight(SubSeq(had, i, Len(had)) \o SubSeq(new, j, Len(new)), i, j, had, new)
<1> DEFINE C == List!Codes
           s == SubSeq(had, i, Len(had))
           t == SubSeq(new, j, Len(new))
           u == s \o t
<1>1. /\ s \in Seq(C) /\ Range(s) = From(had, i) /\ (Ordered(had) => Ordered(s))
      /\ t \in Seq(C) /\ Range(t) = From(new, j) /\ (Ordered(new) => Ordered(t))
  BY RestOf
<1>2. CASE i > Len(had)
  <2>1. i = Len(had) + 1 /\ s = << >>
    BY <1>2
  <2>2. From(had, i) = {}
    BY <2>1, FromEnds
  <2>3. u = t
    BY <1>1, <2>1
  <2>4. Range(u) = From(had, i) \cup From(new, j) /\ u \in Seq(C) /\ (Ordered(new) => Ordered(u))
    BY <1>1, <2>2, <2>3
  <2> HIDE DEF u
  <2>5. \A e \in Range(u) : Covers(e, e)
    <3>1. \A e \in Range(u) : e \in C
      BY <2>4 DEF Range
    <3>2. \A e \in Range(u) : List!RhoPrime(e) \in Nat
      BY <3>1 DEF CodesAreNumbers
    <3>3. QED
      BY <3>2 DEF Covers
  <2>6. StandsFor(u, From(had, i) \cup From(new, j))
    BY <2>4, <2>5 DEF StandsFor
  <2>7. QED
    BY <2>4, <2>6 DEF MergedRight, u
<1>3. CASE j > Len(new)
  <2>1. j = Len(new) + 1 /\ t = << >>
    BY <1>3
  <2>2. From(new, j) = {}
    BY <2>1, FromEnds
  <2>3. u = s
    BY <1>1, <2>1
  <2>4. Range(u) = From(had, i) \cup From(new, j) /\ u \in Seq(C) /\ (Ordered(had) => Ordered(u))
    BY <1>1, <2>2, <2>3
  <2> HIDE DEF u
  <2>5. \A e \in Range(u) : Covers(e, e)
    <3>1. \A e \in Range(u) : e \in C
      BY <2>4 DEF Range
    <3>2. \A e \in Range(u) : List!RhoPrime(e) \in Nat
      BY <3>1 DEF CodesAreNumbers
    <3>3. QED
      BY <3>2 DEF Covers
  <2>6. StandsFor(u, From(had, i) \cup From(new, j))
    BY <2>4, <2>5 DEF StandsFor
  <2>7. QED
    BY <2>4, <2>6 DEF MergedRight, u
<1>. QED
  BY <1>2, <1>3

LEMMA MergeGoesOn ==
  ASSUME CodesAreNumbers, NEW had \in Seq(List!Codes), NEW new \in Seq(List!Codes),
         NEW i \in 1 .. Len(had), NEW j \in 1 .. Len(new), NEW f,
         MergedRight(f[<<i + 1, j>>], i + 1, j, had, new),
         MergedRight(f[<<i, j + 1>>], i, j + 1, had, new),
         MergedRight(f[<<i + 1, j + 1>>], i + 1, j + 1, had, new)
  PROVE  MergedRight(MergedAt(f, i, j, had, new), i, j, had, new)
<1> DEFINE C == List!Codes
           T == From(had, i) \cup From(new, j)
           c == had[i]
           d == new[j]
<1>1. /\ c \in C /\ From(had, i) = {c} \cup From(had, i + 1)
      /\ Ordered(had) => \A e \in From(had, i + 1) : List!IndexOf(c) < List!IndexOf(e)
  BY FromNext
<1>2. /\ d \in C /\ From(new, j) = {d} \cup From(new, j + 1)
      /\ Ordered(new) => \A e \in From(new, j + 1) : List!IndexOf(d) < List!IndexOf(e)
  BY FromNext
<1>3. ~(i > Len(had) \/ j > Len(new))
  OBVIOUS
<1>4. /\ List!IndexOf(c) \in Nat /\ List!RhoPrime(c) \in Nat /\ List!IndexOf(d) \in Nat
      /\ List!RhoPrime(d) \in Nat
  BY <1>1, <1>2 DEF CodesAreNumbers
<1>5. \A s \in {f[<<i + 1, j>>], f[<<i, j + 1>>], f[<<i + 1, j + 1>>]} : s \in Seq(C)
  BY DEF MergedRight, StandsFor
<1>6. \A s : s \in Seq(C) => \A e \in Range(s) : List!IndexOf(e) \in Nat
  <2>1. \A s : s \in Seq(C) => \A e \in Range(s) : e \in C
    BY DEF Range
  <2>2. QED
    BY <2>1 DEF CodesAreNumbers
<1> DEFINE m == MergedAt(f, i, j, had, new)
<1>7. CASE List!IndexOf(c) < List!IndexOf(d)
  <2> DEFINE s == f[<<i + 1, j>>]
             R == From(had, i + 1) \cup From(new, j)
  <2>1. m = <<c>> \o s
    <3> DEFINE t == <<c>> \o s
    <3>1. m = t
      BY <1>3, <1>7 DEF MergedAt
    <3> HIDE DEF t, m
    <3>. QED
      BY <3>1 DEF t
  <2>2. StandsFor(s, R) /\ (Ordered(had) /\ Ordered(new) => Ordered(s)) /\ s \in Seq(C)
    BY <1>5 DEF MergedRight
  <2>3. R \subseteq T /\ c \in T /\ \A e \in T : e \in R \/ Covers(c, e)
    BY <1>1, <1>4 DEF Covers
  <2> HIDE DEF s, R, T, m, c, d
  <2>4. StandsFor(<<c>> \o s, T)
    BY <1>1, <2>2, <2>3, OneMoreStands
  <2>5. ASSUME Ordered(had), Ordered(new)
        PROVE  Ordered(<<c>> \o s)
    <3>1. \A e \in From(new, j) : e = d \/ List!IndexOf(d) < List!IndexOf(e)
      BY <1>2, <2>5
    <3>2. \A e \in Range(s) : List!IndexOf(e) \in Nat
      BY <1>6, <2>2
    <3>3. \A e \in Range(s) : e \in From(had, i + 1) \/ e \in From(new, j)
      BY <2>2 DEF StandsFor, R
    <3>4. \A e \in Range(s) : List!IndexOf(c) < List!IndexOf(e)
      BY <1>1, <1>4, <1>7, <2>5, <3>1, <3>2, <3>3
    <3>5. QED
      BY <1>1, <2>2, <2>5, <3>4, PrependedOrdered
  <2>6. QED
    BY <2>1, <2>4, <2>5 DEF MergedRight, T, m
<1>8. CASE List!IndexOf(d) < List!IndexOf(c)
  <2> DEFINE s == f[<<i, j + 1>>]
             R == From(had, i) \cup From(new, j + 1)
  <2>1. m = <<d>> \o s
    <3>1. ~(List!IndexOf(c) < List!IndexOf(d))
      <4> DEFINE x == List!IndexOf(c)
                 y == List!IndexOf(d)
      <4>1. x \in Nat /\ y \in Nat /\ y < x
        BY <1>4, <1>8
      <4> HIDE DEF x, y
      <4>2. ~(x < y)
        BY <4>1
      <4>3. QED
        BY <4>2 DEF x, y
    <3> DEFINE t == <<d>> \o s
    <3>2. m = t
      BY <1>3, <1>8, <3>1 DEF MergedAt
    <3> HIDE DEF t, m
    <3>. QED
      BY <3>2 DEF t
  <2>2. StandsFor(s, R) /\ (Ordered(had) /\ Ordered(new) => Ordered(s)) /\ s \in Seq(C)
    BY <1>5 DEF MergedRight
  <2>3. R \subseteq T /\ d \in T /\ \A e \in T : e \in R \/ Covers(d, e)
    BY <1>2, <1>4 DEF Covers
  <2> HIDE DEF s, R, T, m, c, d
  <2>4. StandsFor(<<d>> \o s, T)
    BY <1>2, <2>2, <2>3, OneMoreStands
  <2>5. ASSUME Ordered(had), Ordered(new)
        PROVE  Ordered(<<d>> \o s)
    <3>1. \A e \in From(had, i) : e = c \/ List!IndexOf(c) < List!IndexOf(e)
      BY <1>1, <2>5
    <3>2. \A e \in Range(s) : List!IndexOf(e) \in Nat
      BY <1>6, <2>2
    <3>3. \A e \in Range(s) : e \in From(had, i) \/ e \in From(new, j + 1)
      BY <2>2 DEF StandsFor, R
    <3>4. \A e \in Range(s) : List!IndexOf(d) < List!IndexOf(e)
      BY <1>2, <1>4, <1>8, <2>5, <3>1, <3>2, <3>3
    <3>5. QED
      BY <1>2, <2>2, <2>5, <3>4, PrependedOrdered
  <2>6. QED
    BY <2>1, <2>4, <2>5 DEF MergedRight, T, m
<1>9. CASE List!IndexOf(c) = List!IndexOf(d)
  <2> DEFINE s == f[<<i + 1, j + 1>>]
             R == From(had, i + 1) \cup From(new, j + 1)
             b == IF List!RhoPrime(d) >= List!RhoPrime(c) THEN d ELSE c
  <2>1. m = <<b>> \o s
    <3>1. List!Larger(c, d) = <<b>>
      BY DEF List!Larger
    <3>2. ~(List!IndexOf(c) < List!IndexOf(d)) /\ ~(List!IndexOf(d) < List!IndexOf(c))
      <4> DEFINE x == List!IndexOf(c)
                 y == List!IndexOf(d)
      <4>1. x \in Nat /\ x = y
        BY <1>4, <1>9
      <4> HIDE DEF x, y
      <4>2. ~(x < y) /\ ~(y < x)
        BY <4>1
      <4>3. QED
        BY <4>2 DEF x, y
    <3>3. m = List!Larger(c, d) \o s
      BY <1>3, <3>2 DEF MergedAt
    <3> HIDE DEF m, s, b
    <3>4. QED
      BY <3>1, <3>3
  <2>2. StandsFor(s, R) /\ (Ordered(had) /\ Ordered(new) => Ordered(s)) /\ s \in Seq(C)
    BY <1>5 DEF MergedRight
  <2>3. b \in C /\ b \in {c, d} /\ Covers(b, c) /\ Covers(b, d)
    BY <1>1, <1>2, <1>4, <1>9 DEF Covers
  <2>4. R \subseteq T /\ b \in T /\ \A e \in T : e \in R \/ Covers(b, e)
    BY <1>1, <1>2, <2>3
  <2> HIDE DEF s, R, T, m, c, d, b
  <2>5. StandsFor(<<b>> \o s, T)
    BY <2>2, <2>3, <2>4, OneMoreStands
  <2>6. ASSUME Ordered(had), Ordered(new)
        PROVE  Ordered(<<b>> \o s)
    <3>1. \A e \in Range(s) : e \in From(had, i + 1) \/ e \in From(new, j + 1)
      BY <2>2 DEF StandsFor, R
    <3>2. List!IndexOf(b) = List!IndexOf(c)
      BY <2>3 DEF Covers
    <3>3. \A e \in Range(s) : List!IndexOf(b) < List!IndexOf(e)
      BY <1>1, <1>2, <1>9, <2>6, <3>1, <3>2
    <3>4. QED
      BY <2>2, <2>3, <2>6, <3>3, PrependedOrdered
  <2>7. QED
    BY <2>1, <2>5, <2>6 DEF MergedRight, T, m
<1>. QED
  BY <1>4, <1>7, <1>8, <1>9

\* The merge of two lists of codes stands for both, in order if they were.
LEMMA MergeIs ==
  ASSUME CodesAreNumbers, NEW had \in Seq(List!Codes), NEW new \in Seq(List!Codes)
  PROVE  /\ StandsFor(List!Merge(had, new), Range(had) \cup Range(new))
         /\ Ordered(had) /\ Ordered(new) => Ordered(List!Merge(had, new))
<1> DEFINE f == CHOOSE g : Merging(g, MergePlaces(had, new), had, new)
           Right(at) == MergedRight(f[at], at[1], at[2], had, new)
           Fine == {k \in Nat : \A at \in Near(k, had, new) : Right(at)}
<1>1. Merging(f, MergePlaces(had, new), had, new)
  BY MergingExists
<1>2. List!Merge(had, new) = f[<<1, 1>>]
  BY DEF List!Merge, Merging, MergedAt, MergePlaces
<1> HIDE DEF f
<1>3. \A at \in MergePlaces(had, new) :
        /\ f[at] = MergedAt(f, at[1], at[2], had, new)
        /\ at[1] \in 1 .. Len(had) + 1 /\ at[2] \in 1 .. Len(new) + 1
  BY <1>1, AllNear DEF Merging
<1>4. ASSUME NEW at \in MergePlaces(had, new), at[1] > Len(had) \/ at[2] > Len(new)
      PROVE  Right(at)
  <2>1. MergedRight(SubSeq(had, at[1], Len(had)) \o SubSeq(new, at[2], Len(new)), at[1], at[2], had, new)
    BY <1>3, <1>4, MergeEnds
  <2>2. f[at] = SubSeq(had, at[1], Len(had)) \o SubSeq(new, at[2], Len(new))
    BY <1>3, <1>4 DEF MergedAt
  <2>3. QED
    BY <2>1, <2>2
<1>5. 0 \in Fine
  <2>1. \A at \in Near(0, had, new) : at \in MergePlaces(had, new) /\ at[1] > Len(had)
    BY AllNear DEF Near
  <2> HIDE DEF Right
  <2>2. QED
    BY <1>4, <2>1
<1>6. ASSUME NEW k \in Fine
      PROVE  k + 1 \in Fine
  <2> SUFFICES ASSUME NEW at \in Near(k + 1, had, new)
               PROVE  Right(at)
    OBVIOUS
  <2>1. at \in MergePlaces(had, new)
    BY DEF Near
  <2>2. CASE at[1] > Len(had) \/ at[2] > Len(new)
    BY <1>4, <2>1, <2>2
  <2>3. CASE ~(at[1] > Len(had) \/ at[2] > Len(new))
    <3> DEFINE i == at[1]
               j == at[2]
    <3>1. i \in 1 .. Len(had) /\ j \in 1 .. Len(new)
      <4>1. i \in 1 .. Len(had) + 1 /\ j \in 1 .. Len(new) + 1 /\ Len(had) \in Nat /\ Len(new) \in Nat
        BY <1>3, <2>1
      <4>2. QED
        BY <2>3, <4>1
    <3>2. /\ <<i + 1, j>> \in Near(k, had, new) /\ <<i, j + 1>> \in Near(k, had, new)
          /\ <<i + 1, j + 1>> \in Near(k, had, new)
      BY <3>1, NearPlaces
    <3>3. \A p \in Near(k, had, new) : Right(p)
      OBVIOUS
    <3>4. /\ MergedRight(f[<<i + 1, j>>], i + 1, j, had, new)
          /\ MergedRight(f[<<i, j + 1>>], i, j + 1, had, new)
          /\ MergedRight(f[<<i + 1, j + 1>>], i + 1, j + 1, had, new)
      <4>1. \A a, b : <<a, b>>[1] = a /\ <<a, b>>[2] = b
        OBVIOUS
      <4>2. \A a, b : <<a, b>> \in Near(k, had, new) => MergedRight(f[<<a, b>>], a, b, had, new)
        BY <3>3, <4>1
      <4> HIDE DEF i, j
      <4>3. QED
        BY <3>2, <4>2
    <3>5. f[at] = MergedAt(f, i, j, had, new)
      BY <1>3, <2>1
    <3> HIDE DEF i, j
    <3>6. MergedRight(MergedAt(f, i, j, had, new), i, j, had, new)
      BY <3>1, <3>4, MergeGoesOn
    <3>7. QED
      BY <3>5, <3>6 DEF i, j
  <2>4. QED
    BY <2>2, <2>3
<1>7. Fine \in SUBSET Nat
  OBVIOUS
<1>8. Fine = Nat
  <2> HIDE DEF Fine
  <2>1. QED
    BY <1>5, <1>6, <1>7, Induction
<1>9. \A at \in MergePlaces(had, new) : Right(at)
  <2> HIDE DEF Right
  <2>1. QED
    BY <1>8, AllNear
<1>10. MergedRight(f[<<1, 1>>], 1, 1, had, new)
  <2>1. Len(had) \in Nat /\ Len(new) \in Nat
    OBVIOUS
  <2>2. <<1, 1>> \in MergePlaces(had, new)
    BY <2>1 DEF MergePlaces
  <2>3. Right(<<1, 1>>)
    BY <1>9, <2>2
  <2>4. <<1, 1>>[1] = 1 /\ <<1, 1>>[2] = 1
    OBVIOUS
  <2>5. QED
    BY <2>3, <2>4
<1>11. From(had, 1) = Range(had) /\ From(new, 1) = Range(new)
  BY FromEnds
<1>. QED
  BY <1>2, <1>10, <1>11 DEF MergedRight

------------------------------------------------------------------------------
(* The temporary set *)

Sorts(q, S) ==
  q \in [1 .. Cardinality(S) -> S] /\ \A i, j \in DOMAIN q : i < j => q[i] < q[j]

LEMMA SortsExist ==
  ASSUME NEW S \in SUBSET Nat, IsFiniteSet(S)
  PROVE  \E q : Sorts(q, S)
<1> DEFINE Small(n) == {T \in SUBSET Nat : IsFiniteSet(T) /\ Cardinality(T) = n}
           Fine == {n \in Nat : \A T \in Small(n) : \E q : Sorts(q, T)}
<1>1. 0 \in Fine
  <2> SUFFICES ASSUME NEW T \in Small(0)
               PROVE  \E q : Sorts(q, T)
    OBVIOUS
  <2>1. T = {} /\ Cardinality(T) = 0
    BY FS_EmptySet
  <2> DEFINE q == [i \in 1 .. 0 |-> 0]
  <2>2. Sorts(q, T)
    BY <2>1 DEF Sorts
  <2>3. QED
    BY <2>2
<1>2. ASSUME NEW n \in Fine
      PROVE  n + 1 \in Fine
  <2> SUFFICES ASSUME NEW T \in Small(n + 1)
               PROVE  \E q : Sorts(q, T)
    OBVIOUS
  <2>1. T \in SUBSET Nat /\ IsFiniteSet(T) /\ Cardinality(T) = n + 1 /\ T # {} /\ n \in Nat
    <3>1. Cardinality({}) = 0
      BY FS_EmptySet
    <3>2. QED
      BY <3>1
  <2>2. PICK m \in T : \A x \in T : m <= x
    BY <2>1, LeastOf
  <2> DEFINE R == T \ {m}
  <2>3. IsFiniteSet(R) /\ Cardinality(R) = n
    <3>1. IsFiniteSet(R) /\ Cardinality(R) = Cardinality(T) - 1
      BY <2>1, <2>2, FS_RemoveElement
    <3>2. QED
      BY <2>1, <3>1
  <2>4. PICK q : Sorts(q, R)
    BY <2>1, <2>3
  <2>5. q \in [1 .. n -> R] /\ \A i, j \in 1 .. n : i < j => q[i] < q[j]
    BY <2>3, <2>4 DEF Sorts
  <2> DEFINE r == [i \in 1 .. n + 1 |-> IF i = 1 THEN m ELSE q[i - 1]]
  <2>6. ASSUME NEW i \in 1 .. n + 1
        PROVE  r[i] \in T /\ (i # 1 => i - 1 \in 1 .. n /\ r[i] = q[i - 1] /\ r[i] \in R)
    <3>1. i # 1 => i - 1 \in 1 .. n
      BY <2>1
    <3>2. QED
      BY <2>5, <3>1
  <2>7. r \in [1 .. n + 1 -> T]
    BY <2>6
  <2>8. ASSUME NEW i \in 1 .. n + 1, NEW j \in 1 .. n + 1, i < j
        PROVE  r[i] < r[j]
    <3>1. j # 1 /\ j - 1 \in 1 .. n /\ r[j] = q[j - 1] /\ r[j] \in R
      <4>1. j # 1
        BY <2>1, <2>8
      <4>2. QED
        BY <2>6, <4>1
    <3>2. CASE i = 1
      <4>1. r[i] = m
        BY <3>2
      <4>2. m <= r[j] /\ r[j] # m /\ m \in Nat /\ r[j] \in Nat
        BY <2>1, <2>2, <3>1
      <4>3. QED
        BY <4>1, <4>2
    <3>3. CASE i # 1
      <4>1. i - 1 \in 1 .. n /\ r[i] = q[i - 1] /\ i - 1 < j - 1
        BY <2>1, <2>6, <2>8, <3>3
      <4>2. QED
        BY <2>5, <3>1, <4>1
    <3>4. QED
      BY <3>2, <3>3
  <2> HIDE DEF r
  <2>9. DOMAIN r = 1 .. n + 1
    BY <2>7
  <2>10. Sorts(r, T)
    BY <2>1, <2>7, <2>8, <2>9 DEF Sorts
  <2>11. QED
    BY <2>10
<1>3. Fine \in SUBSET Nat
  OBVIOUS
<1>4. Fine = Nat
  <2> HIDE DEF Fine
  <2>1. QED
    BY <1>1, <1>2, <1>3, Induction
<1>5. Cardinality(S) \in Nat
  BY FS_CardinalityType
<1>. QED
  BY <1>4, <1>5

LEMMA SameSizes == \A S : List!Cardinality(S) = Cardinality(S)
BY DEF List!Cardinality, Cardinality

\* The slice has the codes of the set, each once.
LEMMA SliceIs ==
  ASSUME NEW temp \in SUBSET List!Codes, IsFiniteSet(temp), List!Codes \subseteq Nat
  PROVE  List!TempSlice(temp) \in Seq(List!Codes) /\ Range(List!TempSlice(temp)) = temp
<1> DEFINE n == Cardinality(temp)
           q == List!TempSlice(temp)
<1>1. n \in Nat
  BY FS_CardinalityType
<1>2. Sorts(q, temp)
  <2>1. \E r : Sorts(r, temp)
    BY SortsExist
  <2>2. q = CHOOSE r \in [1 .. Cardinality(temp) -> temp] : \A i, j \in DOMAIN r : i < j => r[i] < r[j]
    <3>1. List!Cardinality(temp) = Cardinality(temp)
      BY SameSizes
    <3>2. QED
      BY <3>1 DEF List!TempSlice
  <2> HIDE DEF q
  <2>3. QED
    BY <2>1, <2>2 DEF Sorts
<1> HIDE DEF q
<1>3. q \in [1 .. n -> temp] /\ \A i, j \in 1 .. n : i < j => q[i] < q[j]
  BY <1>2 DEF Sorts
<1>5. \A i, j \in 1 .. n : q[i] = q[j] => i = j
  <2> SUFFICES ASSUME NEW i \in 1 .. n, NEW j \in 1 .. n, q[i] = q[j], i # j
               PROVE  FALSE
    OBVIOUS
  <2>1. i < j \/ j < i
    BY <1>1
  <2>2. q[i] \in Nat /\ q[j] \in Nat
    BY <1>3
  <2>3. q[i] < q[j] \/ q[j] < q[i]
    BY <1>3, <2>1
  <2>4. QED
    BY <2>2, <2>3
<1>6. q \in Injection(1 .. n, temp)
  BY <1>3, <1>5 DEF Injection, IsInjective
<1>7. Cardinality(1 .. n) = Cardinality(temp)
  <2>1. Cardinality(1 .. n) = n
    BY <1>1, FS_Interval
  <2>2. QED
    BY <2>1
<1>8. q \in Surjection(1 .. n, temp)
  BY <1>6, <1>7, FS_Injection
<1>9. Range(q) = temp
  <2>1. \A t \in temp : \E i \in 1 .. n : q[i] = t
    BY <1>8 DEF Surjection
  <2>2. DOMAIN q = 1 .. n
    BY <1>3
  <2>3. QED
    BY <1>3, <2>1, <2>2 DEF Range
<1>10. q \in Seq(List!Codes)
  <2>1. temp \subseteq List!Codes
    OBVIOUS
  <2>2. q \in [1 .. n -> List!Codes]
    BY <1>3, <2>1
  <2>3. QED
    BY <1>1, <2>2
<1>. QED
  BY <1>9, <1>10 DEF q

------------------------------------------------------------------------------
(* Codes *)

\* What List!Rho finds.
RhoIs(w, len) ==
  /\ w % 2^len = 0 => List!Rho(w, len) = len + 1
  /\ \A r : TopAt(w % 2^len, r, len) => List!Rho(w, len) = r
  /\ List!Rho(w, len) \in 1 .. len + 1

LEMMA RhoFinds ==
  ASSUME NEW w \in Nat, NEW len \in Nat
  PROVE  RhoIs(w, len)
<1> DEFINE p == 2^len
           x == w % p
<1>1. p \in Nat \ {0}
  BY PowersDouble DEF Doubled
<1>2. x \in 0 .. p - 1
  <2> HIDE DEF p
  <2>1. QED
    BY <1>1, RemainderIs
<1>3. x \in Nat
  <2> HIDE DEF x, p
  <2>1. QED
    BY <1>1, <1>2
<1>4. List!Rho(w, len) = IF x = 0 THEN len + 1 ELSE CHOOSE r \in 1 .. len : x \div 2^(len - r) = 1
  BY DEF List!Rho
<1> HIDE DEF x
<1>5. ASSUME NEW r \in 1 .. len
      PROVE  x \div 2^(len - r) = 1 <=> TopAt(x, r, len)
  <2> DEFINE q == 2^(len - r)
  <2>1. len - r \in Nat
    OBVIOUS
  <2>2. q \in Nat \ {0}
    BY <2>1, PowersDouble DEF Doubled
  <2>3. TopAt(x, r, len) <=> q <= x /\ x < 2 * q
    BY DEF TopAt
  <2> HIDE DEF q
  <2>4. x \div q = 1 <=> q <= x /\ x < 2 * q
    BY <1>3, <2>2, OneIn
  <2>5. QED
    BY <2>3, <2>4 DEF q
<1>6. CASE x = 0
  <2>1. ~ \E r : TopAt(x, r, len)
    <3> SUFFICES ASSUME NEW r, TopAt(x, r, len) PROVE FALSE
      OBVIOUS
    <3>1. len - r \in Nat /\ 2^(len - r) <= 0
      BY <1>6 DEF TopAt
    <3> DEFINE q == 2^(len - r)
    <3>2. q \in Nat \ {0}
      BY <3>1, PowersDouble DEF Doubled
    <3>3. q <= 0
      BY <3>1
    <3> HIDE DEF q
    <3>4. QED
      BY <3>2, <3>3
  <2>2. List!Rho(w, len) = len + 1
    BY <1>4, <1>6
  <2>3. QED
    BY <1>6, <2>1, <2>2 DEF RhoIs, x
<1>7. CASE x # 0
  <2>1. x \in 1 .. 2^len - 1
    <3> HIDE DEF p
    <3>1. x \in 1 .. p - 1
      BY <1>1, <1>2, <1>7
    <3>2. QED
      BY <3>1 DEF p
  <2>2. PICK r : TopAt(x, r, len)
    BY <2>1, TopExists
  <2>3. r \in 1 .. len
    BY <2>2 DEF TopAt
  <2>4. \A s \in 1 .. len : x \div 2^(len - s) = 1 <=> s = r
    BY <1>3, <1>5, <2>2, <2>3, TopUnique
  <2>5. List!Rho(w, len) = CHOOSE s \in 1 .. len : x \div 2^(len - s) = 1
    BY <1>4, <1>7
  <2>6. List!Rho(w, len) = r
    BY <2>3, <2>4, <2>5
  <2>7. \A s : TopAt(x, s, len) => s = r
    BY <1>3, <2>2, TopUnique
  <2>8. r \in 1 .. len + 1
    BY <2>3
  <2>9. QED
    BY <1>7, <2>6, <2>7, <2>8 DEF RhoIs, x
<1>. QED
  BY <1>6, <1>7

LEMMA FlaggedIs ==
  ASSUME NEW i \in Nat, NEW r \in 0 .. 63
  PROVE  /\ List!Flagged(i, r) \in Nat /\ List!Flagged(i, r) % 2 = 1
         /\ List!IndexOf(List!Flagged(i, r)) = i
         /\ List!RhoPrime(List!Flagged(i, r)) = r
<1> DEFINE c == i * 128 + r * 2 + 1
<1>1. c \in Nat /\ c % 2 = 1 /\ c \div 128 = i /\ (c \div 2) % 64 = r
  OBVIOUS
<1>2. List!Flagged(i, r) = c
  BY DEF List!Flagged
<1> HIDE DEF c
<1>. QED
  BY <1>1, <1>2 DEF List!IndexOf, List!RhoPrime

LEMMA UnflaggedIs ==
  ASSUME NEW i \in Nat
  PROVE  /\ i * 2 \in Nat /\ (i * 2) % 2 = 0
         /\ List!IndexOf(i * 2) = i /\ List!RhoPrime(i * 2) = 0
<1>1. i * 2 \in Nat /\ (i * 2) % 2 = 0 /\ (i * 2) \div 2 = i
  OBVIOUS
<1>. QED
  BY <1>1 DEF List!IndexOf, List!RhoPrime

\* A code is of an index with a rank and the flag, or of an index alone.
LEMMA CodeKinds ==
  ASSUME List!SparseListAssumption, NEW c \in List!Codes
  PROVE  \E i \in Nat :
           /\ List!IndexOf(c) = i
           /\ \/ List!Zone(i) # 0 /\ c = i * 2 /\ c % 2 = 0 /\ List!RhoPrime(c) = 0
              \/ /\ List!Zone(i) = 0 /\ c % 2 = 1
                 /\ List!RhoPrime(c) \in 1 .. W - PP + 1 /\ List!RhoPrime(c) <= 63
<1>1. W \in Nat /\ PP \in Nat /\ PP < W /\ W - PP < 63
  BY DEF List!SparseListAssumption
<1>2. CASE \E i \in 0 .. 2^PP - 1 : List!Zone(i) # 0 /\ c = i * 2
  <2>1. PICK i \in 0 .. 2^PP - 1 : List!Zone(i) # 0 /\ c = i * 2
    BY <1>2
  <2>2. i \in Nat
    OBVIOUS
  <2>3. QED
    BY <2>1, <2>2, UnflaggedIs
<1>3. CASE \E i \in 0 .. 2^PP - 1, r \in 1 .. W - PP + 1 : List!Zone(i) = 0 /\ c = List!Flagged(i, r)
  <2>1. PICK i \in 0 .. 2^PP - 1, r \in 1 .. W - PP + 1 : List!Zone(i) = 0 /\ c = List!Flagged(i, r)
    BY <1>3
  <2>2. i \in Nat /\ r \in 0 .. 63 /\ r <= 63
    BY <1>1
  <2>3. List!IndexOf(c) = i /\ List!RhoPrime(c) = r /\ c % 2 = 1
    BY <2>1, <2>2, FlaggedIs
  <2>4. QED
    BY <2>1, <2>2, <2>3
<1>. QED
  BY <1>2, <1>3 DEF List!Codes

LEMMA CodeNumbers ==
  ASSUME List!SparseListAssumption
  PROVE  CodesAreNumbers /\ List!Codes \subseteq Nat
<1>1. \A c \in List!Codes : List!IndexOf(c) \in Nat /\ List!RhoPrime(c) \in Nat
  <2> SUFFICES ASSUME NEW c \in List!Codes
               PROVE  List!IndexOf(c) \in Nat /\ List!RhoPrime(c) \in Nat
    OBVIOUS
  <2>1. W - PP + 1 \in Nat
    BY DEF List!SparseListAssumption
  <2>2. \A r \in 1 .. W - PP + 1 : r \in Nat
    OBVIOUS
  <2>3. QED
    BY <2>2, CodeKinds
<1>2. ASSUME NEW c \in List!Codes
      PROVE  c \in Nat
  <2>1. W - PP < 63 /\ W \in Nat /\ PP \in Nat
    BY DEF List!SparseListAssumption
  <2>2. \A i \in 0 .. 2^PP - 1 : i * 2 \in Nat
    OBVIOUS
  <2>3. \A i \in 0 .. 2^PP - 1, r \in 1 .. W - PP + 1 : List!Flagged(i, r) \in Nat
    <3> SUFFICES ASSUME NEW i \in 0 .. 2^PP - 1, NEW r \in 1 .. W - PP + 1
                 PROVE  List!Flagged(i, r) \in Nat
      OBVIOUS
    <3>1. i \in Nat /\ r \in 0 .. 63
      BY <2>1
    <3>2. QED
      BY <3>1, FlaggedIs
  <2>4. QED
    BY <2>2, <2>3 DEF List!Codes
<1>. QED
  BY <1>1, <1>2 DEF CodesAreNumbers

\* A larger rank in a code is a larger rank of the register.
LEMMA CoversDecoded ==
  ASSUME List!SparseListAssumption, NEW c \in List!Codes, NEW d \in List!Codes, Covers(c, d)
  PROVE  /\ List!DecodeHash(c).index = List!DecodeHash(d).index
         /\ List!DecodeHash(c).rho >= List!DecodeHash(d).rho
<1>1. P \in Nat /\ PP \in Nat /\ W \in Nat /\ P < PP /\ PP < W
  BY DEF List!SparseListAssumption
<1>2. List!IndexOf(c) = List!IndexOf(d) /\ List!RhoPrime(c) >= List!RhoPrime(d)
  BY DEF Covers
<1>3. PICK i \in Nat :
        /\ List!IndexOf(c) = i
        /\ \/ List!Zone(i) # 0 /\ c = i * 2 /\ c % 2 = 0 /\ List!RhoPrime(c) = 0
           \/ /\ List!Zone(i) = 0 /\ c % 2 = 1
              /\ List!RhoPrime(c) \in 1 .. W - PP + 1 /\ List!RhoPrime(c) <= 63
  BY CodeKinds
<1>4. PICK j \in Nat :
        /\ List!IndexOf(d) = j
        /\ \/ List!Zone(j) # 0 /\ d = j * 2 /\ d % 2 = 0 /\ List!RhoPrime(d) = 0
           \/ /\ List!Zone(j) = 0 /\ d % 2 = 1
              /\ List!RhoPrime(d) \in 1 .. W - PP + 1 /\ List!RhoPrime(d) <= 63
  BY CodeKinds
<1>5. i = j
  BY <1>2, <1>3, <1>4
<1>6. CASE List!Zone(i) # 0
  <2>1. c = d
    BY <1>3, <1>4, <1>5, <1>6
  <2>2. c = i * 2 /\ c % 2 = 0 /\ c \div 2 = i
    BY <1>3, <1>6
  <2>3. List!DecodeHash(c).rho = List!Rho(i, PP - P)
    BY <2>2 DEF List!DecodeHash
  <2>4. PP - P \in Nat
    BY <1>1
  <2>5. RhoIs(i, PP - P)
    BY <2>4, RhoFinds
  <2>6. List!Rho(i, PP - P) \in Int
    BY <2>4, <2>5 DEF RhoIs
  <2>7. QED
    BY <2>1, <2>3, <2>6
<1>7. CASE List!Zone(i) = 0
  <2>1. c % 2 = 1 /\ d % 2 = 1 /\ List!RhoPrime(c) \in Int /\ List!RhoPrime(d) \in Int
    BY <1>3, <1>4, <1>5, <1>7
  <2>2. /\ List!DecodeHash(c).rho = List!RhoPrime(c) + PP - P
        /\ List!DecodeHash(d).rho = List!RhoPrime(d) + PP - P
        /\ List!DecodeHash(c).index = List!DecodeHash(d).index
    BY <1>2, <2>1 DEF List!DecodeHash
  <2>3. QED
    BY <1>1, <1>2, <2>1, <2>2
<1>. QED
  BY <1>6, <1>7

\* A code has all that the register of its hash needs.
LEMMA EncodingKeeps ==
  ASSUME List!SparseListAssumption, NEW x \in 0 .. 2^W - 1
  PROVE  /\ List!EncodeHash(x) \in List!Codes
         /\ List!DecodeHash(List!EncodeHash(x)) = List!DensePlace(x)
<1> DEFINE l == W - PP
           q == PP - P
           a == 2^l
           b == 2^q
           i == x \div a
           c == List!EncodeHash(x)
<1>1. /\ W \in Nat /\ P \in Nat /\ PP \in Nat /\ P < PP /\ PP < W /\ l \in Nat /\ q \in Nat
      /\ l < 63 /\ l + q = W - P /\ W = PP + l
  BY DEF List!SparseListAssumption
<1>2. x \in Nat
  OBVIOUS
<1>3. a \in Nat \ {0} /\ b \in Nat \ {0}
  <2> HIDE DEF l, q
  <2>1. QED
    BY <1>1, PowersDouble DEF Doubled
<1>4. 2^(W - P) = a * b
  BY <1>1, PowersAdd
<1>5. i \in 0 .. 2^PP - 1
  <2> DEFINE p == 2^PP
             w == 2^W
  <2>1. w = p * a
    BY <1>1, PowersAdd
  <2>2. p \in Nat \ {0}
    BY <1>1, PowersDouble DEF Doubled
  <2>3. x <= w - 1
    OBVIOUS
  <2> HIDE DEF p, w, a
  <2>4. i \in Nat /\ i * a <= x
    <3>1. i \in Nat /\ x % a \in 0 .. a - 1 /\ x = i * a + (x % a)
      BY <1>2, <1>3, RemainderIs
    <3>2. i * a \in Nat /\ x % a >= 0
      BY <1>3, <3>1
    <3> HIDE DEF i
    <3>3. QED
      BY <1>3, <3>1, <3>2
  <2> HIDE DEF i
  <2>5. ~(p <= i)
    <3> SUFFICES ASSUME p <= i PROVE FALSE
      OBVIOUS
    <3>1. p * a <= i * a /\ p * a \in Nat /\ i * a \in Nat
      BY <1>3, <2>2, <2>4, ProductsGrow
    <3>2. QED
      BY <1>2, <2>1, <2>3, <2>4, <3>1
  <2>6. i \in 0 .. p - 1
    BY <2>2, <2>4, <2>5
  <2>7. QED
    BY <2>6 DEF p
<1>6. PICK k, t, z : Split(x, a, b, k, t, z)
  <2> HIDE DEF a, b
  <2>1. QED
    BY <1>2, <1>3, SplitExists
<1>7. /\ k \in Nat /\ t \in 0 .. b - 1 /\ z \in 0 .. a - 1 /\ x % a = z
      /\ i \div b = k /\ i % b = t
      /\ x \div 2^(W - P) = k /\ x % 2^(W - P) = t * a + z
  BY <1>4, <1>6 DEF Split
<1>8. List!Zone(i) = t /\ i \in Nat
  BY <1>5, <1>7 DEF List!Zone
<1>9. List!DensePlace(x) = [index |-> k, rho |-> List!Rho(x, W - P)]
  BY <1>7 DEF List!DensePlace
<1>10. W - P \in Nat
  BY <1>1
<1>11. RhoIs(x, l) /\ RhoIs(x, W - P) /\ RhoIs(i, q)
  <2> HIDE DEF l, q, i
  <2>1. QED
    BY <1>1, <1>2, <1>8, <1>10, RhoFinds
<1>12. c = IF t = 0 THEN List!Flagged(i, List!Rho(x, l)) ELSE i * 2
  BY <1>8 DEF List!EncodeHash
<1>13. CASE t = 0
  <2> DEFINE r == List!Rho(x, l)
  <2>1. r \in 1 .. l + 1 /\ r \in 0 .. 63
    <3>1. r \in 1 .. l + 1
      BY <1>11 DEF RhoIs
    <3> HIDE DEF r, l
    <3>2. QED
      BY <1>1, <3>1
  <2>2. c = List!Flagged(i, r)
    BY <1>12, <1>13
  <2>3. c \in List!Codes
    <3>1. i \in {j \in 0 .. 2^PP - 1 : List!Zone(j) = 0}
      BY <1>5, <1>8, <1>13
    <3>2. r \in 1 .. W - PP + 1
      BY <2>1
    <3> HIDE DEF r, i, c
    <3>3. QED
      BY <2>2, <3>1, <3>2 DEF List!Codes
  <2>4. c % 2 = 1 /\ List!IndexOf(c) = i /\ List!RhoPrime(c) = r
    <3> HIDE DEF r, i, c
    <3>1. QED
      BY <1>8, <2>1, <2>2, FlaggedIs
  <2>5. List!DecodeHash(c) = [index |-> k, rho |-> r + PP - P]
    <3>1. List!IndexOf(c) \div 2^(PP - P) = k
      BY <1>7, <2>4
    <3> HIDE DEF c, r
    <3>2. QED
      BY <2>4, <3>1 DEF List!DecodeHash
  <2>6. x % 2^(W - P) = z /\ z \in Nat
    <3> HIDE DEF a
    <3>1. z \in Nat /\ 0 * a + z = z
      BY <1>3, <1>7
    <3>2. QED
      BY <1>7, <1>13, <3>1
  <2>7. List!Rho(x, W - P) = r + PP - P
    <3>1. CASE z = 0
      <4>1. r = l + 1
        BY <1>7, <1>11, <3>1 DEF RhoIs
      <4>2. List!Rho(x, W - P) = W - P + 1
        BY <1>11, <2>6, <3>1 DEF RhoIs
      <4> HIDE DEF r
      <4>3. QED
        BY <1>1, <4>1, <4>2
    <3>2. CASE z # 0
      <4>1. z \in 1 .. 2^l - 1
        <5>1. z \in 1 .. a - 1
          <6> HIDE DEF a
          <6>1. QED
            BY <1>3, <1>7, <3>2
        <5>2. QED
          BY <5>1
      <4>2. PICK s : TopAt(z, s, l)
        <5> HIDE DEF l
        <5>1. QED
          BY <1>1, <4>1, TopExists
      <4>3. r = s
        <5>1. TopAt(x % 2^l, s, l)
          BY <1>7, <4>2
        <5>2. QED
          BY <1>11, <5>1 DEF RhoIs
      <4>4. TopAt(z, s + q, l + q)
        <5> HIDE DEF l, q
        <5>1. QED
          BY <1>1, <4>2, TopBelow
      <4>5. TopAt(z, s + q, W - P)
        BY <1>1, <4>4
      <4>6. List!Rho(x, W - P) = s + q
        BY <1>11, <2>6, <4>5 DEF RhoIs
      <4>7. s \in Int
        BY <4>2 DEF TopAt
      <4> HIDE DEF r
      <4>8. QED
        BY <1>1, <4>3, <4>6, <4>7
    <3>3. QED
      BY <3>1, <3>2
  <2>8. QED
    BY <1>9, <2>3, <2>5, <2>7
<1>14. CASE t # 0
  <2>1. c = i * 2
    BY <1>12, <1>14
  <2>2. c \in List!Codes
    <3>1. i \in {j \in 0 .. 2^PP - 1 : List!Zone(j) # 0}
      BY <1>5, <1>8, <1>14
    <3> HIDE DEF i, c
    <3>2. QED
      BY <2>1, <3>1 DEF List!Codes
  <2>3. c % 2 = 0 /\ List!IndexOf(c) = i /\ c \div 2 = i
    <3> HIDE DEF i, c
    <3>1. c % 2 = 0 /\ c \div 2 = i
      BY <1>8, <2>1
    <3>2. QED
      BY <3>1 DEF List!IndexOf
  <2>4. List!DecodeHash(c) = [index |-> k, rho |-> List!Rho(i, q)]
    <3>1. List!IndexOf(c) \div 2^(PP - P) = k
      BY <1>7, <2>3
    <3> HIDE DEF c
    <3>2. QED
      BY <2>3, <3>1 DEF List!DecodeHash
  <2>5. t \in 1 .. 2^q - 1
    <3>1. t \in 1 .. b - 1
      <4> HIDE DEF b
      <4>1. QED
        BY <1>3, <1>7, <1>14
    <3>2. QED
      BY <3>1
  <2>6. PICK r : TopAt(t, r, q)
    <3> HIDE DEF q
    <3>1. QED
      BY <1>1, <2>5, TopExists
  <2>7. List!Rho(i, q) = r
    <3>1. TopAt(i % 2^q, r, q)
      BY <1>7, <2>6
    <3>2. QED
      BY <1>11, <3>1 DEF RhoIs
  <2>8. List!Rho(x, W - P) = r
    <3>1. t \in Nat /\ z \in 0 .. 2^l - 1
      BY <1>7
    <3>2. TopAt(t * 2^l + z, r, l + q)
      <4> HIDE DEF l, q
      <4>1. QED
        BY <1>1, <2>6, <3>1, TopAbove
    <3>3. TopAt(x % 2^(W - P), r, W - P)
      BY <1>1, <1>7, <3>2
    <3>4. QED
      BY <1>11, <3>3 DEF RhoIs
  <2>9. QED
    BY <1>9, <2>2, <2>4, <2>7, <2>8
<1>. QED
  BY <1>13, <1>14

------------------------------------------------------------------------------
(* A sparse sketch *)

LEMMA DecodedRank ==
  ASSUME List!SparseListAssumption, NEW c \in List!Codes
  PROVE  List!DecodeHash(c).rho \in 0 .. W + 1
<1>1. P \in Nat /\ PP \in Nat /\ W \in Nat /\ P < PP /\ PP < W
  BY DEF List!SparseListAssumption
<1>2. PICK i \in Nat :
        /\ List!IndexOf(c) = i
        /\ \/ List!Zone(i) # 0 /\ c = i * 2 /\ c % 2 = 0 /\ List!RhoPrime(c) = 0
           \/ /\ List!Zone(i) = 0 /\ c % 2 = 1
              /\ List!RhoPrime(c) \in 1 .. W - PP + 1 /\ List!RhoPrime(c) <= 63
  BY CodeKinds
<1>3. CASE c = i * 2 /\ c % 2 = 0
  <2>1. c % 2 # 1 /\ c \div 2 = i
    BY <1>3
  <2>2. List!DecodeHash(c).rho = List!Rho(i, PP - P)
    BY <2>1 DEF List!DecodeHash
  <2>3. PP - P \in Nat
    BY <1>1
  <2>4. List!Rho(i, PP - P) \in 1 .. (PP - P) + 1
    BY <2>3, RhoFinds DEF RhoIs
  <2>5. QED
    BY <1>1, <2>2, <2>4
<1>4. CASE c % 2 = 1 /\ List!RhoPrime(c) \in 1 .. W - PP + 1
  <2>1. List!DecodeHash(c).rho = List!RhoPrime(c) + PP - P
    BY <1>4 DEF List!DecodeHash
  <2>2. QED
    BY <1>1, <1>4, <2>1
<1>. QED
  BY <1>2, <1>3, <1>4

\* Places that outdo one another have the same registers.
Outdone(S, T) == \A p \in S : \E r \in T : r.index = p.index /\ r.rho >= p.rho

LEMMA RegistersSame ==
  ASSUME NEW n \in Nat, NEW S, NEW T, \A p \in S : p.rho \in 0 .. n, \A p \in T : p.rho \in 0 .. n,
         Outdone(S, T), Outdone(T, S)
  PROVE  List!Registers(S) = List!Registers(T)
<1> DEFINE at(Q, i) == {0} \cup {p.rho : p \in {r \in Q : r.index = i}}
<1>1. ASSUME NEW i
      PROVE  Max(at(S, i)) = Max(at(T, i))
  <2>1. at(S, i) \in SUBSET (0 .. n) /\ at(T, i) \in SUBSET (0 .. n) /\ at(S, i) # {} /\ at(T, i) # {}
    OBVIOUS
  <2>2. \A a \in at(S, i) : \E b \in at(T, i) : b >= a
    <3>1. \A p \in S : p.index = i => \E b \in at(T, i) : b >= p.rho
      BY DEF Outdone
    <3>2. 0 \in at(T, i) /\ 0 >= 0
      OBVIOUS
    <3>3. QED
      BY <3>1, <3>2
  <2>3. \A b \in at(T, i) : \E a \in at(S, i) : a >= b
    <3>1. \A p \in T : p.index = i => \E a \in at(S, i) : a >= p.rho
      BY DEF Outdone
    <3>2. 0 \in at(S, i) /\ 0 >= 0
      OBVIOUS
    <3>3. QED
      BY <3>1, <3>2
  <2> DEFINE A == at(S, i)
             B == at(T, i)
  <2> HIDE DEF A, B
  <2>4. A \in SUBSET (0 .. n) /\ B \in SUBSET (0 .. n) /\ A # {} /\ B # {}
    BY <2>1 DEF A, B
  <2>5. Max(A) \in A /\ \A x \in A : x <= Max(A)
    BY <2>4, LargestOf
  <2>6. Max(B) \in B /\ \A x \in B : x <= Max(B)
    BY <2>4, LargestOf
  <2>7. (\E b \in B : b >= Max(A)) /\ (\E a \in A : a >= Max(B))
    BY <2>2, <2>3, <2>5, <2>6 DEF A, B
  <2>8. Max(A) \in Int /\ Max(B) \in Int
    <3>1. A \subseteq Int /\ B \subseteq Int
      BY <2>4
    <3>2. QED
      BY <2>5, <2>6, <3>1
  <2>9. Max(A) <= Max(B)
    <3>1. PICK b \in B : b >= Max(A)
      BY <2>7
    <3>2. b <= Max(B) /\ b \in Int
      BY <2>4, <2>6
    <3>3. QED
      BY <2>8, <3>1, <3>2
  <2>11. Max(B) <= Max(A)
    <3>1. PICK a \in A : a >= Max(B)
      BY <2>7
    <3>2. a <= Max(A) /\ a \in Int
      BY <2>4, <2>5
    <3>3. QED
      BY <2>8, <3>1, <3>2
  <2>10. QED
    BY <2>8, <2>9, <2>11 DEF A, B
<1>2. \A Q : List!Max(Q) = Max(Q)
  BY DEF List!Max, Max
<1>3. \A Q : List!Registers(Q) = [i \in 0 .. 2^P - 1 |-> Max(at(Q, i))]
  <2> SUFFICES ASSUME NEW Q
               PROVE  List!Registers(Q) = [i \in 0 .. 2^P - 1 |-> Max(at(Q, i))]
    OBVIOUS
  <2>1. List!Registers(Q) = [i \in 0 .. 2^P - 1 |-> List!Max(at(Q, i))]
    BY DEF List!Registers
  <2> HIDE DEF at
  <2>2. QED
    BY <1>2, <2>1
<1> HIDE DEF at
<1>. QED
  BY <1>1, <1>3

\* The codes of K stand for the hashes of H: none is of another hash, and each
\* hash has one as good as its own.
Represents(K, H) ==
  /\ \A c \in K : \E x \in H : c = List!EncodeHash(x)
  /\ \A x \in H : \E c \in K : Covers(c, List!EncodeHash(x))

Hashes == 0 .. 2^W - 1

LEMMA RegistersOf ==
  ASSUME List!SparseListAssumption, NEW H \in SUBSET Hashes, NEW K \in SUBSET List!Codes, Represents(K, H)
  PROVE  List!Registers({List!DecodeHash(c) : c \in K}) = List!Registers({List!DensePlace(x) : x \in H})
<1> DEFINE S == {List!DecodeHash(c) : c \in K}
           T == {List!DensePlace(x) : x \in H}
<1>1. \A x \in H : /\ List!EncodeHash(x) \in List!Codes
                   /\ List!DecodeHash(List!EncodeHash(x)) = List!DensePlace(x)
  BY EncodingKeeps DEF Hashes
<1>2. \A c \in K : c \in List!Codes
  OBVIOUS
<1>3. \A c \in List!Codes : List!DecodeHash(c).rho \in 0 .. W + 1
  BY DecodedRank
<1>4. \A p \in S : p.rho \in 0 .. W + 1
  BY <1>2, <1>3
<1>5. \A p \in T : p.rho \in 0 .. W + 1
  BY <1>1, <1>3
<1>6. Outdone(S, T)
  <2> SUFFICES ASSUME NEW c \in K
               PROVE  \E r \in T : r.index = List!DecodeHash(c).index /\ r.rho >= List!DecodeHash(c).rho
    BY DEF Outdone
  <2>1. PICK x \in H : c = List!EncodeHash(x)
    BY DEF Represents
  <2>2. List!DecodeHash(c) = List!DensePlace(x)
    BY <1>1, <2>1
  <2>3. List!DecodeHash(c).rho \in Int
    BY <1>2, <1>3
  <2>4. QED
    BY <2>2, <2>3
<1>7. Outdone(T, S)
  <2> SUFFICES ASSUME NEW x \in H
               PROVE  \E r \in S : r.index = List!DensePlace(x).index /\ r.rho >= List!DensePlace(x).rho
    BY DEF Outdone
  <2>1. PICK c \in K : Covers(c, List!EncodeHash(x))
    BY DEF Represents
  <2>2. /\ List!DecodeHash(c).index = List!DecodeHash(List!EncodeHash(x)).index
        /\ List!DecodeHash(c).rho >= List!DecodeHash(List!EncodeHash(x)).rho
    BY <1>1, <1>2, <2>1, CoversDecoded
  <2>3. QED
    BY <1>1, <2>2
<1>8. W + 1 \in Nat
  BY DEF List!SparseListAssumption
<1> HIDE DEF S, T
<1>9. List!Registers(S) = List!Registers(T)
  BY <1>4, <1>5, <1>6, <1>7, <1>8, RegistersSame
<1>. QED
  BY <1>9 DEF S, T

\* Neighbours in order put the whole list in order.
LEMMA AscendingOrdered ==
  ASSUME CodesAreNumbers, NEW s \in Seq(List!Codes)
  PROVE  List!Ascending(s) <=> Ordered(s)
<1> DEFINE n == Len(s)
           ix(i) == List!IndexOf(s[i])
<1>1. n \in Nat /\ DOMAIN s = 1 .. n /\ \A i \in 1 .. n : s[i] \in List!Codes
  OBVIOUS
<1>2. \A i \in 1 .. n : ix(i) \in Nat
  BY <1>1 DEF CodesAreNumbers
<1>3. ASSUME Ordered(s), NEW i \in 1 .. n - 1
      PROVE  ix(i) < ix(i + 1)
  <2>1. i \in 1 .. n /\ i + 1 \in 1 .. n /\ i < i + 1
    BY <1>1
  <2>2. QED
    BY <1>1, <1>3, <2>1 DEF Ordered
<1>4. ASSUME List!Ascending(s), NEW i \in 1 .. n
      PROVE  \A d \in Nat : d # 0 /\ i + d <= n => ix(i) < ix(i + d)
  <2> DEFINE Fine == {d \in Nat : d # 0 /\ i + d <= n => ix(i) < ix(i + d)}
  <2>1. 0 \in Fine
    OBVIOUS
  <2>2. ASSUME NEW d \in Fine
        PROVE  d + 1 \in Fine
    <3> SUFFICES ASSUME i + (d + 1) <= n
                 PROVE  ix(i) < ix(i + (d + 1))
      OBVIOUS
    <3>1. d \in Nat /\ i + d \in 1 .. n - 1 /\ i + d \in 1 .. n /\ (i + d) + 1 = i + (d + 1) /\ (i + d) + 1 \in 1 .. n
      BY <1>1
    <3>2. ix(i + d) < ix((i + d) + 1)
      BY <1>4, <3>1 DEF List!Ascending
    <3>3. d # 0 => ix(i) < ix(i + d)
      BY <3>1
    <3>4. d = 0 => i + d = i
      BY <1>1
    <3>5. ix(i) \in Nat /\ ix(i + d) \in Nat /\ ix((i + d) + 1) \in Nat
      BY <1>2, <3>1
    <3> HIDE DEF ix
    <3>6. QED
      BY <3>1, <3>2, <3>3, <3>4, <3>5
  <2>3. Fine \in SUBSET Nat
    OBVIOUS
  <2>4. Fine = Nat
    <3> HIDE DEF Fine
    <3>1. QED
      BY <2>1, <2>2, <2>3, Induction
  <2> HIDE DEF ix
  <2>5. QED
    BY <2>4
<1>5. ASSUME List!Ascending(s), NEW i \in 1 .. n, NEW j \in 1 .. n, i < j
      PROVE  ix(i) < ix(j)
  <2> DEFINE d == j - i
  <2>1. d \in Nat /\ d # 0 /\ i + d = j /\ i + d <= n
    BY <1>1, <1>5
  <2> HIDE DEF d, ix
  <2>2. QED
    BY <1>4, <1>5, <2>1
<1>6. List!Ascending(s) => Ordered(s)
  BY <1>1, <1>5 DEF Ordered
<1>7. Ordered(s) => List!Ascending(s)
  BY <1>3 DEF List!Ascending
<1>. QED
  BY <1>6, <1>7

------------------------------------------------------------------------------
(* What a list and a temporary set stand for, as the operations change them *)

\* The list l and the set temp of a sketch that stands for the hashes of H; d
\* says that a merge had codes out of order.
Stands(l, temp, H, d) ==
  /\ l \in Seq(List!Codes)
  /\ temp \in SUBSET List!Codes /\ IsFiniteSet(temp)
  /\ H \in SUBSET Hashes
  /\ d \in BOOLEAN
  /\ ~d => Ordered(l)
  /\ Represents(Range(l) \cup temp, H)

LEMMA StandingStands ==
  ASSUME CodesAreNumbers, NEW T \in SUBSET List!Codes, NEW s, NEW H \in SUBSET Hashes,
         \A x \in H : List!EncodeHash(x) \in List!Codes,
         StandsFor(s, T), Represents(T, H)
  PROVE  Represents(Range(s), H)
<1>1. Range(s) \subseteq T
  BY DEF StandsFor
<1>2. \A c \in Range(s) : \E x \in H : c = List!EncodeHash(x)
  BY <1>1 DEF Represents
<1>3. ASSUME NEW x \in H
      PROVE  \E c \in Range(s) : Covers(c, List!EncodeHash(x))
  <2> DEFINE e == List!EncodeHash(x)
  <2>1. PICK t \in T : Covers(t, e)
    BY DEF Represents
  <2>2. PICK c \in Range(s) : Covers(c, t)
    BY DEF StandsFor
  <2>3. c \in List!Codes /\ t \in List!Codes /\ e \in List!Codes
    BY <1>1
  <2> HIDE DEF e
  <2>4. /\ List!RhoPrime(c) \in Nat /\ List!RhoPrime(t) \in Nat /\ List!RhoPrime(e) \in Nat
        /\ List!IndexOf(c) = List!IndexOf(t) /\ List!RhoPrime(c) >= List!RhoPrime(t)
        /\ List!IndexOf(t) = List!IndexOf(e) /\ List!RhoPrime(t) >= List!RhoPrime(e)
    BY <2>1, <2>2, <2>3 DEF CodesAreNumbers, Covers
  <2>5. Covers(c, e)
    BY <2>4 DEF Covers
  <2>6. QED
    BY <2>5 DEF e
<1>. QED
  BY <1>2, <1>3 DEF Represents

\* What the hashes of a sketch encode to.
LEMMA HashesEncode ==
  ASSUME List!SparseListAssumption, NEW H \in SUBSET Hashes
  PROVE  \A x \in H : List!EncodeHash(x) \in List!Codes
BY EncodingKeeps DEF Hashes

\* The temporary set merged into the list.
LEMMA MergedStands ==
  ASSUME List!SparseListAssumption, NEW l, NEW temp, NEW H, NEW d, Stands(l, temp, H, d)
  PROVE  Stands(List!Merge(l, List!TempSlice(temp)), {}, H,
                d \/ ~List!Ascending(List!TempSlice(temp)))
<1> DEFINE t == List!TempSlice(temp)
           m == List!Merge(l, t)
<1>1. CodesAreNumbers /\ List!Codes \subseteq Nat
  BY CodeNumbers
<1>2. /\ l \in Seq(List!Codes) /\ temp \in SUBSET List!Codes /\ IsFiniteSet(temp)
      /\ H \in SUBSET Hashes /\ d \in BOOLEAN /\ (~d => Ordered(l)) /\ Represents(Range(l) \cup temp, H)
  BY DEF Stands
<1>3. t \in Seq(List!Codes) /\ Range(t) = temp
  BY <1>1, <1>2, SliceIs
<1>4. List!Ascending(t) <=> Ordered(t)
  BY <1>1, <1>3, AscendingOrdered
<1> HIDE DEF t
<1>5. StandsFor(m, Range(l) \cup Range(t)) /\ (Ordered(l) /\ Ordered(t) => Ordered(m))
  BY <1>1, <1>2, <1>3, MergeIs
<1> HIDE DEF m
<1>6. m \in Seq(List!Codes) /\ Range(m) \subseteq Range(l) \cup Range(t)
  BY <1>5 DEF StandsFor
<1>7. Represents(Range(m), H)
  <2>1. Range(l) \cup temp \in SUBSET List!Codes
    BY <1>2 DEF Range
  <2>2. \A x \in H : List!EncodeHash(x) \in List!Codes
    BY <1>2, HashesEncode
  <2>3. QED
    BY <1>1, <1>2, <1>3, <1>5, <2>1, <2>2, StandingStands
<1>8. IsFiniteSet({}) /\ Range(m) \cup {} = Range(m)
  BY FS_EmptySet
<1>9. ~(d \/ ~List!Ascending(t)) => Ordered(m)
  BY <1>2, <1>4, <1>5
<1>10. (d \/ ~List!Ascending(t)) \in BOOLEAN
  OBVIOUS
<1>11. {} \in SUBSET List!Codes
  OBVIOUS
<1>12. Stands(m, {}, H, d \/ ~List!Ascending(t))
  BY <1>2, <1>6, <1>7, <1>8, <1>9, <1>10, <1>11 DEF Stands
<1>. QED
  BY <1>12 DEF m, t

\* Two lists merged.
LEMMA BothStand ==
  ASSUME List!SparseListAssumption, NEW l, NEW H, NEW d, Stands(l, {}, H, d),
         NEW k, NEW G, NEW e, Stands(k, {}, G, e),
         NEW f \in BOOLEAN, ~f => ~d /\ ~e
  PROVE  Stands(List!Merge(l, k), {}, H \cup G, f)
<1> DEFINE m == List!Merge(l, k)
<1>1. CodesAreNumbers
  BY CodeNumbers
<1>2. /\ l \in Seq(List!Codes) /\ H \in SUBSET Hashes /\ d \in BOOLEAN /\ (~d => Ordered(l))
      /\ k \in Seq(List!Codes) /\ G \in SUBSET Hashes /\ e \in BOOLEAN /\ (~e => Ordered(k))
      /\ Represents(Range(l) \cup {}, H) /\ Represents(Range(k) \cup {}, G)
      /\ IsFiniteSet({}) /\ {} \in SUBSET List!Codes
  BY DEF Stands
<1>3. StandsFor(m, Range(l) \cup Range(k)) /\ (Ordered(l) /\ Ordered(k) => Ordered(m))
  BY <1>1, <1>2, MergeIs
<1> HIDE DEF m
<1>4. Represents(Range(l) \cup Range(k), H \cup G)
  <2>1. Range(l) \cup {} = Range(l) /\ Range(k) \cup {} = Range(k)
    OBVIOUS
  <2>2. Represents(Range(l), H) /\ Represents(Range(k), G)
    BY <1>2, <2>1
  <2>3. QED
    BY <2>2 DEF Represents
<1>5. Represents(Range(m), H \cup G)
  <2>1. Range(l) \cup Range(k) \in SUBSET List!Codes
    BY <1>2 DEF Range
  <2>2. H \cup G \in SUBSET Hashes
    BY <1>2
  <2>3. \A x \in H \cup G : List!EncodeHash(x) \in List!Codes
    BY <2>2, HashesEncode
  <2>4. QED
    BY <1>1, <1>3, <1>4, <2>1, <2>2, <2>3, StandingStands
<1>6. m \in Seq(List!Codes)
  BY <1>3 DEF StandsFor
<1>7. Range(m) \cup {} = Range(m) /\ H \cup G \in SUBSET Hashes
  BY <1>2
<1>8. ~f => Ordered(m)
  BY <1>2, <1>3
<1>9. Stands(m, {}, H \cup G, f)
  BY <1>2, <1>5, <1>6, <1>7, <1>8 DEF Stands
<1>. QED
  BY <1>9 DEF m

\* One hash more in the temporary set.
LEMMA OneHashMore ==
  ASSUME List!SparseListAssumption, NEW l, NEW temp, NEW H, NEW d, Stands(l, temp, H, d),
         NEW x \in Hashes
  PROVE  Stands(l, temp \cup {List!EncodeHash(x)}, H \cup {x}, d)
<1> DEFINE e == List!EncodeHash(x)
<1>1. e \in List!Codes
  BY EncodingKeeps DEF Hashes
<1>2. /\ l \in Seq(List!Codes) /\ temp \in SUBSET List!Codes /\ IsFiniteSet(temp)
      /\ H \in SUBSET Hashes /\ d \in BOOLEAN /\ (~d => Ordered(l)) /\ Represents(Range(l) \cup temp, H)
  BY DEF Stands
<1>3. IsFiniteSet(temp \cup {e}) /\ temp \cup {e} \in SUBSET List!Codes /\ H \cup {x} \in SUBSET Hashes
  BY <1>1, <1>2, FS_AddElement
<1>4. Covers(e, e)
  <2>1. List!RhoPrime(e) \in Nat
    BY <1>1, CodeNumbers DEF CodesAreNumbers
  <2>2. QED
    BY <2>1 DEF Covers
<1>5. Represents(Range(l) \cup (temp \cup {e}), H \cup {x})
  <2>1. \A c \in Range(l) \cup (temp \cup {e}) : \E y \in H \cup {x} : c = List!EncodeHash(y)
    BY <1>2 DEF Represents
  <2>2. \A y \in H \cup {x} : \E c \in Range(l) \cup (temp \cup {e}) : Covers(c, List!EncodeHash(y))
    BY <1>2, <1>4 DEF Represents
  <2>3. QED
    BY <2>1, <2>2 DEF Represents
<1>. QED
  BY <1>2, <1>3, <1>5 DEF Stands

\* Nothing stands for no hash.
LEMMA NothingStands == Stands(<<>>, {}, {}, FALSE)
<1>1. <<>> \in Seq(List!Codes) /\ Range(<<>>) = {} /\ DOMAIN <<>> = {}
  BY DEF Range
<1>2. IsFiniteSet({})
  BY FS_EmptySet
<1>3. Ordered(<<>>)
  BY <1>1 DEF Ordered
<1>4. Represents(Range(<<>>) \cup {}, {})
  BY <1>1 DEF Represents
<1>. QED
  BY <1>1, <1>2, <1>3, <1>4 DEF Stands

------------------------------------------------------------------------------
(* The sketches *)

\* The inductive invariant of SparseList: every sketch stands for its hashes.
Listed ==
  /\ stream \in SUBSET Hashes
  /\ DOMAIN sorted_list = Sketches /\ DOMAIN temp_set = Sketches
  /\ DOMAIN absorbed = Sketches /\ DOMAIN disordered = Sketches
  /\ sorted_list = [s \in Sketches |-> sorted_list[s]] /\ temp_set = [s \in Sketches |-> temp_set[s]]
  /\ absorbed = [s \in Sketches |-> absorbed[s]] /\ disordered = [s \in Sketches |-> disordered[s]]
  /\ \A s \in Sketches : Stands(sorted_list[s], temp_set[s], absorbed[s], disordered[s])

LEMMA ListedInit ==
  ASSUME List!SparseListAssumption, List!Init
  PROVE  Listed
<1>1. stream \in SUBSET Hashes
  BY DEF List!SparseListAssumption, List!Init, Hashes
<1>2. ASSUME NEW s \in Sketches
      PROVE  Stands(sorted_list[s], temp_set[s], absorbed[s], disordered[s])
  <2>1. sorted_list[s] = <<>> /\ temp_set[s] = {} /\ absorbed[s] = {} /\ disordered[s] = FALSE
    BY DEF List!Init
  <2>2. QED
    BY <2>1, NothingStands
<1>. QED
  BY <1>1, <1>2 DEF List!Init, Listed

LEMMA ListedInsert ==
  ASSUME List!SparseListAssumption, Listed, NEW s \in Sketches, NEW x \in stream, List!Insert(s, x),
         UNCHANGED stream
  PROVE  Listed'
<1> DEFINE temp == temp_set[s] \cup {List!EncodeHash(x)}
           t == List!TempSlice(temp)
<1>1. Stands(sorted_list[s], temp, absorbed[s] \cup {x}, disordered[s])
  BY OneHashMore DEF Listed
<1>2. Stands(List!Merge(sorted_list[s], t), {}, absorbed[s] \cup {x}, disordered[s] \/ ~List!Ascending(t))
  BY <1>1, MergedStands
<1>3. /\ absorbed' = [absorbed EXCEPT ![s] = @ \cup {x}]
      /\ \/ /\ sorted_list' = [sorted_list EXCEPT ![s] = List!Merge(@, t)]
            /\ temp_set' = [temp_set EXCEPT ![s] = {}]
            /\ disordered' = [disordered EXCEPT ![s] = @ \/ ~List!Ascending(t)]
         \/ temp_set' = [temp_set EXCEPT ![s] = temp] /\ UNCHANGED <<sorted_list, disordered>>
  BY DEF List!Insert
<1> HIDE DEF t, temp
<1>4. CASE /\ sorted_list' = [sorted_list EXCEPT ![s] = List!Merge(@, t)]
           /\ temp_set' = [temp_set EXCEPT ![s] = {}]
           /\ disordered' = [disordered EXCEPT ![s] = @ \/ ~List!Ascending(t)]
  <2> DEFINE m == List!Merge(sorted_list[s], t)
             b == disordered[s] \/ ~List!Ascending(t)
  <2>1. /\ sorted_list' = [sorted_list EXCEPT ![s] = m]
        /\ disordered' = [disordered EXCEPT ![s] = b]
    BY <1>4
  <2>2. Stands(m, {}, absorbed[s] \cup {x}, b)
    BY <1>2
  <2> HIDE DEF m, b
  <2>3. QED
    BY <1>3, <1>4, <2>1, <2>2 DEF Listed
<1>5. CASE temp_set' = [temp_set EXCEPT ![s] = temp] /\ UNCHANGED <<sorted_list, disordered>>
  BY <1>1, <1>3, <1>5 DEF Listed
<1>. QED
  BY <1>3, <1>4, <1>5

LEMMA ListedMerge ==
  ASSUME List!SparseListAssumption, Listed, NEW s \in Sketches, List!MergeTempSet(s), UNCHANGED stream
  PROVE  Listed'
<1> DEFINE m == List!Merged(s)
           b == disordered[s] \/ ~List!Ascending(List!TempSlice(temp_set[s]))
<1>1. Stands(m, {}, absorbed[s], b)
  BY MergedStands DEF Listed, List!Merged
<1>2. /\ sorted_list' = [sorted_list EXCEPT ![s] = m]
      /\ temp_set' = [temp_set EXCEPT ![s] = {}]
      /\ disordered' = [disordered EXCEPT ![s] = b]
      /\ UNCHANGED absorbed
  BY DEF List!MergeTempSet
<1> HIDE DEF m, b
<1>. QED
  BY <1>1, <1>2 DEF Listed

LEMMA ListedMergeSparse ==
  ASSUME List!SparseListAssumption, Listed, NEW s \in Sketches, NEW other \in Sketches,
         List!MergeSparse(s, other), UNCHANGED stream
  PROVE  Listed'
<1> DEFINE mixed(t) == disordered[t] \/ ~List!Ascending(List!TempSlice(temp_set[t]))
           m == List!Merged(s)
           n == List!Merged(other)
           both == List!Merge(m, n)
           b == mixed(s)
           d == mixed(other)
<1>1. Stands(m, {}, absorbed[s], b) /\ Stands(n, {}, absorbed[other], d)
  BY MergedStands DEF Listed, List!Merged
<1>2. /\ s # other
      /\ sorted_list' = [sorted_list EXCEPT ![s] = both, ![other] = n]
      /\ temp_set' = [temp_set EXCEPT ![s] = {}, ![other] = {}]
      /\ disordered' = [disordered EXCEPT ![s] = b \/ d, ![other] = d]
      /\ absorbed' = [absorbed EXCEPT ![s] = absorbed[s] \cup absorbed[other]]
  BY DEF List!MergeSparse
<1> HIDE DEF m, n, b, d
<1> DEFINE e == b \/ d
<1>3. e \in BOOLEAN /\ (~e => ~b /\ ~d)
  OBVIOUS
<1>4. disordered' = [disordered EXCEPT ![s] = e, ![other] = d]
  BY <1>2
<1> HIDE DEF e
<1>5. Stands(both, {}, absorbed[s] \cup absorbed[other], e)
  BY <1>1, <1>3, BothStand
<1> HIDE DEF both
<1>. QED
  BY <1>1, <1>2, <1>4, <1>5 DEF Listed

LEMMA ListedStep ==
  ASSUME List!SparseListAssumption, Listed, [List!Next]_List!vars
  PROVE  Listed'
<1>1. ASSUME NEW s \in Sketches, NEW other \in Sketches, List!SetSortedList(s, other), UNCHANGED stream
      PROVE  Listed'
  <2>1. Stands(sorted_list[other], {}, absorbed[other], disordered[other])
    BY <1>1 DEF Listed, List!SetSortedList
  <2>2. QED
    BY <1>1, <2>1 DEF Listed, List!SetSortedList
<1>2. ASSUME NEW s \in Sketches, List!Reset(s), UNCHANGED stream
      PROVE  Listed'
  BY <1>2, NothingStands DEF Listed, List!Reset
<1>3. CASE UNCHANGED List!vars
  BY <1>3 DEF Listed, List!vars
<1>. QED
  BY <1>1, <1>2, <1>3, ListedInsert, ListedMerge, ListedMergeSparse DEF List!Next

LEMMA ListedRanks ==
  ASSUME List!SparseListAssumption, Listed
  PROVE  List!NoRankLost
<1> SUFFICES ASSUME NEW s \in Sketches
             PROVE  List!Registers({List!DecodeHash(c) : c \in List!Entries(s) \cup temp_set[s]})
                      = List!Registers({List!DensePlace(x) : x \in absorbed[s]})
  BY DEF List!NoRankLost
<1>1. /\ sorted_list[s] \in Seq(List!Codes) /\ temp_set[s] \in SUBSET List!Codes
      /\ absorbed[s] \in SUBSET Hashes /\ Represents(Range(sorted_list[s]) \cup temp_set[s], absorbed[s])
  BY DEF Listed, Stands
<1> DEFINE K == List!Entries(s) \cup temp_set[s]
<1>2. List!Entries(s) = Range(sorted_list[s])
  BY DEF List!Entries, Range
<1>3. Range(sorted_list[s]) \subseteq List!Codes
  BY <1>1 DEF Range
<1>4. K \in SUBSET List!Codes /\ Represents(K, absorbed[s])
  BY <1>1, <1>2, <1>3
<1> HIDE DEF K
<1>5. List!Registers({List!DecodeHash(c) : c \in K}) = List!Registers({List!DensePlace(x) : x \in absorbed[s]})
  BY <1>1, <1>4, RegistersOf
<1>. QED
  BY <1>5 DEF K

LEMMA ListedOrder ==
  ASSUME List!SparseListAssumption, Listed
  PROVE  List!ExactInOrder
<1> SUFFICES ASSUME NEW s \in Sketches, ~disordered[s]
             PROVE  List!Ascending(sorted_list[s])
  BY DEF List!ExactInOrder
<1>1. sorted_list[s] \in Seq(List!Codes) /\ Ordered(sorted_list[s])
  BY DEF Listed, Stands
<1>. QED
  BY <1>1, CodeNumbers, AscendingOrdered

LEMMA ListedAlways == AnySpec => [](part = "list" => Listed)
<1> DEFINE Inv == part = "list" => Listed
<1> USE ComponentsAssumption DEF ComponentsAssumption
<1>1. AnyInit => Inv
  BY ListedInit DEF AnyInit
<1>2. Inv /\ [AnyNext]_anyVars => Inv'
  BY StepOfPart, ListedStep
<1>. QED
  BY <1>1, <1>2, PTL DEF AnySpec

\* Whatever the widths and the order in which sketches insert, merge, import and
\* reset: the list and the temporary set yield the registers of all hashes.
THEOREM RanksKept == AnySpec => []NoRankLost
<1>1. (part = "list" => Listed) => NoRankLost
  BY ComponentsAssumption, ListedRanks DEF ComponentsAssumption, NoRankLost
<1>. QED
  BY <1>1, ListedAlways, PTL

\* As long as no batch was out of index order, the list of a sketch is in order
\* and has no index twice, whatever is merged into it.
THEOREM OrderKept == AnySpec => []ExactInOrder
<1>1. (part = "list" => Listed) => ExactInOrder
  BY ComponentsAssumption, ListedOrder DEF ComponentsAssumption, ExactInOrder
<1>. QED
  BY <1>1, ListedAlways, PTL

------------------------------------------------------------------------------
(* Bits and bytes *)

LEMMA SmallPowers ==
  2^0 = 1 /\ 2^1 = 2 /\ 2^2 = 4 /\ 2^3 = 8 /\ 2^4 = 16 /\ 2^5 = 32
<1>1. \A n \in Nat : 2^(n + 1) = 2 * 2^n
  BY PowersDouble DEF Doubled
<1>2. 2^0 = 1
  BY PowerOfZero
<1>3. 2^(0 + 1) = 2 * 2^0 /\ 2^(1 + 1) = 2 * 2^1 /\ 2^(2 + 1) = 2 * 2^2 /\ 2^(3 + 1) = 2 * 2^3
      /\ 2^(4 + 1) = 2 * 2^4
  BY <1>1
<1>4. 0 + 1 = 1 /\ 1 + 1 = 2 /\ 2 + 1 = 3 /\ 3 + 1 = 4 /\ 4 + 1 = 5
  OBVIOUS
<1>. QED
  BY <1>2, <1>3, <1>4

LEMMA BitsOfValue ==
  ASSUME NEW v \in 0 .. 63
  PROVE  /\ \A k \in 0 .. 5 : Registers!BitOf(v, k) \in {0, 1}
         /\ Registers!BitOf(v, 0) + Registers!BitOf(v, 1) * 2 + Registers!BitOf(v, 2) * 4
              + Registers!BitOf(v, 3) * 8 + Registers!BitOf(v, 4) * 16 + Registers!BitOf(v, 5) * 32 = v
<1>1. /\ Registers!BitOf(v, 0) = (v \div 1) % 2 /\ Registers!BitOf(v, 1) = (v \div 2) % 2
      /\ Registers!BitOf(v, 2) = (v \div 4) % 2 /\ Registers!BitOf(v, 3) = (v \div 8) % 2
      /\ Registers!BitOf(v, 4) = (v \div 16) % 2 /\ Registers!BitOf(v, 5) = (v \div 32) % 2
  BY SmallPowers DEF Registers!BitOf
<1>2. \A x \in Int : x % 2 \in {0, 1}
  OBVIOUS
<1>3. \A k \in 0 .. 5 : k = 0 \/ k = 1 \/ k = 2 \/ k = 3 \/ k = 4 \/ k = 5
  OBVIOUS
<1>4. /\ v \div 1 \in Int /\ v \div 2 \in Int /\ v \div 4 \in Int
      /\ v \div 8 \in Int /\ v \div 16 \in Int /\ v \div 32 \in Int
  OBVIOUS
<1>5. \A k \in 0 .. 5 : Registers!BitOf(v, k) \in {0, 1}
  BY <1>1, <1>2, <1>3, <1>4
<1>6. ((v \div 1) % 2) + ((v \div 2) % 2) * 2 + ((v \div 4) % 2) * 4
        + ((v \div 8) % 2) * 8 + ((v \div 16) % 2) * 16 + ((v \div 32) % 2) * 32 = v
  OBVIOUS
<1>. QED
  BY <1>1, <1>5, <1>6

\* Six bits of a value are the value.
LEMMA ValueIs ==
  ASSUME NEW bits, NEW i, NEW v \in 0 .. 63,
         \A k \in 0 .. 5 : bits[6 * i + k] = Registers!BitOf(v, k)
  PROVE  Registers!Value(bits, i) = v
<1> DEFINE b(k) == bits[6 * i + k]
<1>1. Registers!Value(bits, i)
        = b(0) * 2^0 + b(1) * 2^1 + b(2) * 2^2 + b(3) * 2^3 + b(4) * 2^4 + b(5) * 2^5
  BY DEF Registers!Value
<1>2. /\ b(0) = Registers!BitOf(v, 0) /\ b(1) = Registers!BitOf(v, 1)
      /\ b(2) = Registers!BitOf(v, 2) /\ b(3) = Registers!BitOf(v, 3)
      /\ b(4) = Registers!BitOf(v, 4) /\ b(5) = Registers!BitOf(v, 5)
  <2>1. \A k \in 0 .. 5 : b(k) = Registers!BitOf(v, k)
    OBVIOUS
  <2> HIDE DEF b
  <2>2. 0 \in 0 .. 5 /\ 1 \in 0 .. 5 /\ 2 \in 0 .. 5 /\ 3 \in 0 .. 5 /\ 4 \in 0 .. 5 /\ 5 \in 0 .. 5
    OBVIOUS
  <2>3. QED
    BY <2>1, <2>2
<1>3. Registers!BitOf(v, 0) \in {0, 1}
  BY BitsOfValue
<1> HIDE DEF b
<1>. QED
  BY <1>1, <1>2, <1>3, SmallPowers, BitsOfValue

\* Where a register is: in one byte or two.
LEMMA PlacesOfRegister ==
  ASSUME NEW i \in Registers!Reg, N \in Nat
  PROVE  /\ i \in Nat /\ i < N
         /\ Registers!FirstByte(i) \in 0 .. Registers!NumBytes - 1
         /\ Registers!FirstByte(i) \in Registers!BytesOf(i)
         /\ \A k \in 0 .. 5 :
              /\ 6 * i + k \in Registers!Bits
              /\ (6 * i + k) \div 8 \in Registers!BytesOf(i)
              /\ \/ (6 * i + k) \div 8 = Registers!FirstByte(i)
                 \/ (6 * i + k) \div 8 = Registers!FirstByte(i) + 1
              /\ 6 * i + k \in 6 * i .. 6 * i + 5 /\ 6 * i + k - 6 * i = k
<1> DEFINE n == Registers!NumBytes
           f == Registers!FirstByte(i)
<1>1. i \in Nat /\ i < N
  BY DEF Registers!Reg
<1>2. n \in Nat /\ 6 * N <= 8 * n
  BY DEF Registers!NumBytes
<1>3. f \in Nat /\ 8 * f <= 6 * i /\ 6 * i <= 8 * f + 7
  BY <1>1 DEF Registers!FirstByte
<1>4. f < n
  <2> HIDE DEF f, n
  <2>1. QED
    BY <1>1, <1>2, <1>3
<1>5. Registers!BytesOf(i) = {f, f + 1} \cap (0 .. n - 1)
  BY DEF Registers!BytesOf
<1>6. Registers!Bits = 0 .. 8 * n - 1
  BY DEF Registers!Bits
<1>7. ASSUME NEW k \in 0 .. 5
      PROVE  /\ 6 * i + k \in 0 .. 8 * n - 1
             /\ (6 * i + k) \div 8 \in {f, f + 1} \cap (0 .. n - 1)
             /\ 6 * i + k \in 6 * i .. 6 * i + 5 /\ 6 * i + k - 6 * i = k
  <2> DEFINE p == 6 * i + k
             q == p \div 8
  <2>1. p \in Nat /\ p \in 6 * i .. 6 * i + 5 /\ p - 6 * i = k
    BY <1>1
  <2>2. p < 8 * n
    BY <1>1, <1>2
  <2> HIDE DEF p
  <2>3. q \in Nat /\ 8 * q <= p /\ p <= 8 * q + 7
    BY <2>1
  <2> HIDE DEF q, n, f
  <2>4. q \in {f, f + 1} /\ q \in 0 .. n - 1
    BY <1>1, <1>2, <1>3, <2>1, <2>2, <2>3
  <2>5. p \in 0 .. 8 * n - 1
    BY <1>2, <2>1, <2>2
  <2>6. /\ p \in 0 .. 8 * n - 1 /\ q \in {f, f + 1} \cap (0 .. n - 1)
        /\ p \in 6 * i .. 6 * i + 5 /\ p - 6 * i = k
    BY <2>1, <2>4, <2>5
  <2>7. QED
    BY <1>1, <2>1, <2>6 DEF p, q
<1> HIDE DEF f, n
<1>8. f \in 0 .. n - 1
  BY <1>2, <1>3, <1>4
<1>9. \A k \in 0 .. 5 :
        /\ 6 * i + k \in Registers!Bits
        /\ (6 * i + k) \div 8 \in Registers!BytesOf(i)
        /\ (6 * i + k) \div 8 = f \/ (6 * i + k) \div 8 = f + 1
        /\ 6 * i + k \in 6 * i .. 6 * i + 5 /\ 6 * i + k - 6 * i = k
  BY <1>5, <1>6, <1>7
<1>10. f \in Registers!BytesOf(i)
  BY <1>5, <1>8
<1>. QED
  BY <1>1, <1>8, <1>9, <1>10 DEF f, n

\* A bit is in the byte of an eighth of its place.
LEMMA ByteOfBit ==
  ASSUME NEW p \in Nat, NEW b \in Nat
  PROVE  p \in Registers!BitsOf(b) <=> p \div 8 = b
<1> DEFINE q == p \div 8
<1>1. q \in Nat /\ 8 * q <= p /\ p <= 8 * q + 7
  OBVIOUS
<1> HIDE DEF q
<1>2. p \in 8 * b .. 8 * b + 7 <=> q = b
  BY <1>1
<1>. QED
  BY <1>2 DEF q, Registers!BitsOf

\* Different registers have different places.
LEMMA PlacesApart ==
  ASSUME NEW i \in Nat, NEW j \in Nat, i # j, NEW k \in 0 .. 5
  PROVE  6 * j + k \notin 6 * i .. 6 * i + 5
OBVIOUS

------------------------------------------------------------------------------
(* Sum and zeros *)

LEMMA AddingIs ==
  ASSUME NEW num \in Nat, NEW a, \A i \in 1 .. num : a[i] \in Int, NEW f, Adding(f, num, a)
  PROVE  /\ f[0] = 0
         /\ \A i \in 1 .. num : f[i] = f[i - 1] + a[i]
         /\ \A i \in 0 .. num : f[i] \in Int
<1>1. /\ f[0] = 0
      /\ \A i \in 1 .. num : f[i] = f[i - 1] + a[i]
  <2>1. f = [i \in 0 .. num |-> IF i = 0 THEN 0 ELSE f[i - 1] + a[i]]
    BY DEF Adding
  <2>2. \A i \in 0 .. num : f[i] = IF i = 0 THEN 0 ELSE f[i - 1] + a[i]
    BY <2>1
  <2>3. 0 \in 0 .. num /\ \A i \in 1 .. num : i \in 0 .. num /\ i # 0
    OBVIOUS
  <2>4. QED
    BY <2>2, <2>3
<1>2. \A i \in 0 .. num : f[i] \in Int
  <2> DEFINE Fine == {i \in Nat : i <= num => f[i] \in Int}
  <2>1. 0 \in Fine
    BY <1>1
  <2>2. ASSUME NEW i \in Fine
        PROVE  i + 1 \in Fine
    <3>1. CASE i + 1 <= num
      <4>1. i + 1 \in 1 .. num /\ (i + 1) - 1 = i /\ i \in Nat /\ f[i] \in Int
        BY <3>1
      <4>2. f[i + 1] = f[i] + a[i + 1]
        BY <1>1, <4>1
      <4>3. QED
        BY <4>1, <4>2
    <3>2. QED
      BY <3>1
  <2>3. Fine \in SUBSET Nat
    OBVIOUS
  <2>4. Fine = Nat
    <3> HIDE DEF Fine
    <3>1. QED
      BY <2>1, <2>2, <2>3, Induction
  <2>5. QED
    BY <2>4
<1>. QED
  BY <1>1, <1>2

Values == 0 .. MaxRank

LEMMA WeightIs ==
  ASSUME MaxRank \in Nat, NEW v \in Values
  PROVE  Registers!Weight(v) \in Nat
<1>1. MaxRank - v \in Nat
  BY DEF Values
<1>. QED
  BY <1>1, PowersDouble DEF Doubled, Registers!Weight

\* g adds the weights of m, register after register.
Weighing(g, m) ==
  /\ g[0] = 0
  /\ \A i \in Registers!Reg : g[i + 1] = g[i] + Registers!Weight(m[i])
  /\ \A i \in 0 .. N : g[i] \in Int
  /\ Registers!SumOf(m) = g[N]

LEMMA WeighingExists ==
  ASSUME N \in Nat, MaxRank \in Nat, NEW m \in [Registers!Reg -> Values]
  PROVE  \E g : Weighing(g, m)
<1> DEFINE a == [n \in 1 .. N |-> Registers!Weight(m[n - 1])]
           f == CHOOSE g : Adding(g, N, a)
<1>1. \A n \in 1 .. N : a[n] \in Int /\ a[n] = Registers!Weight(m[n - 1])
  <2>1. \A n \in 1 .. N : n - 1 \in Registers!Reg
    BY DEF Registers!Reg
  <2>2. \A n \in 1 .. N : m[n - 1] \in Values
    BY <2>1
  <2>3. QED
    BY <2>2, WeightIs
<1>2. Adding(f, N, a)
  <2> HIDE DEF a
  <2>1. QED
    BY AddingExists
<1>3. Registers!SumOf(m) = f[N]
  <2>1. ASSUME NEW g
        PROVE  Adding(g, N, a)
                 <=> g = [n \in 0 .. N |-> IF n = 0 THEN 0 ELSE g[n - 1] + Registers!Weight(m[n - 1])]
    <3>1. \A n \in 0 .. N : n # 0 => n \in 1 .. N
      OBVIOUS
    <3>2. [n \in 0 .. N |-> IF n = 0 THEN 0 ELSE g[n - 1] + a[n]]
            = [n \in 0 .. N |-> IF n = 0 THEN 0 ELSE g[n - 1] + Registers!Weight(m[n - 1])]
      BY <3>1
    <3>3. QED
      BY <3>2 DEF Adding
  <2>2. f = CHOOSE g : g = [n \in 0 .. N |-> IF n = 0 THEN 0 ELSE g[n - 1] + Registers!Weight(m[n - 1])]
    BY <2>1
  <2>3. QED
    BY <2>2 DEF Registers!SumOf
<1> HIDE DEF a, f
<1>4. /\ f[0] = 0
      /\ \A i \in 1 .. N : f[i] = f[i - 1] + a[i]
      /\ \A i \in 0 .. N : f[i] \in Int
  BY <1>1, <1>2, AddingIs
<1>5. ASSUME NEW i \in Registers!Reg
      PROVE  f[i + 1] = f[i] + Registers!Weight(m[i])
  <2>1. i + 1 \in 1 .. N /\ (i + 1) - 1 = i
    BY DEF Registers!Reg
  <2>2. QED
    BY <1>1, <1>4, <2>1
<1>. QED
  BY <1>3, <1>4, <1>5 DEF Weighing

\* One register changes the sum by its own weight.
LEMMA SumChanges ==
  ASSUME N \in Nat, MaxRank \in Nat, NEW m \in [Registers!Reg -> Values],
         NEW i \in Registers!Reg, NEW v \in Values
  PROVE  /\ Registers!SumOf(m) \in Int
         /\ Registers!SumOf([m EXCEPT ![i] = v])
              = Registers!SumOf(m) - Registers!Weight(m[i]) + Registers!Weight(v)
<1> DEFINE l == [m EXCEPT ![i] = v]
           x == Registers!Weight(m[i])
           y == Registers!Weight(v)
<1>1. l \in [Registers!Reg -> Values] /\ l[i] = v /\ \A j \in Registers!Reg : j # i => l[j] = m[j]
  OBVIOUS
<1>2. PICK g : Weighing(g, m)
  BY WeighingExists
<1> HIDE DEF l
<1>3. PICK h : Weighing(h, l)
  BY <1>1, WeighingExists
<1>4. x \in Int /\ y \in Int /\ i \in Nat /\ i < N
  <2>1. m[i] \in Values
    OBVIOUS
  <2>2. QED
    BY <2>1, WeightIs DEF Registers!Reg
<1>5. h[i + 1] = h[i] + y /\ g[i + 1] = g[i] + x
  BY <1>1, <1>2, <1>3 DEF Weighing
<1> HIDE DEF x, y
<1> DEFINE Shifted(n) == h[n] = IF n <= i THEN g[n] ELSE g[n] - x + y
           Fine == {n \in Nat : n <= N => Shifted(n)}
<1>6. 0 \in Fine
  BY <1>2, <1>3, <1>4 DEF Weighing
<1>7. ASSUME NEW n \in Fine
      PROVE  n + 1 \in Fine
  <2> SUFFICES ASSUME n + 1 <= N
               PROVE  Shifted(n + 1)
    OBVIOUS
  <2>1. n \in Nat /\ n <= N /\ Shifted(n)
    OBVIOUS
  <2>2. n \in Registers!Reg /\ n + 1 \in 0 .. N /\ n \in 0 .. N
    BY <2>1 DEF Registers!Reg
  <2>3. g[n] \in Int /\ h[n] \in Int /\ g[n + 1] \in Int /\ h[n + 1] \in Int
    BY <1>2, <1>3, <2>2 DEF Weighing
  <2>4. CASE n = i
    BY <1>4, <1>5, <2>1, <2>3, <2>4
  <2>5. CASE n # i
    <3> DEFINE w == Registers!Weight(m[n])
    <3>1. m[n] \in Values
      BY <2>2
    <3>2. w \in Int
      BY <3>1, WeightIs
    <3>3. g[n + 1] = g[n] + w /\ h[n + 1] = h[n] + w
      BY <1>1, <1>2, <1>3, <2>2, <2>5 DEF Weighing
    <3> HIDE DEF w
    <3>4. QED
      BY <1>4, <2>1, <2>3, <2>5, <3>2, <3>3
  <2>6. QED
    BY <2>4, <2>5
<1>8. Fine \in SUBSET Nat
  OBVIOUS
<1>9. Fine = Nat
  <2> HIDE DEF Fine
  <2>1. QED
    BY <1>6, <1>7, <1>8, Induction
<1>10. h[N] = g[N] - x + y
  <2>1. Shifted(N)
    BY <1>9
  <2>2. QED
    BY <1>4, <2>1
<1>11. g[N] \in Int /\ Registers!SumOf(m) = g[N] /\ Registers!SumOf(l) = h[N]
  BY <1>2, <1>3 DEF Weighing
<1>. QED
  BY <1>10, <1>11 DEF l, x, y

\* The number of registers of m that are zero.
ZerosIn(m) == Cardinality({i \in Registers!Reg : m[i] = 0})

\* The largest value of the zero counter and one more.
Wrap == 2^16

LEMMA ZerosAre ==
  ASSUME N \in Nat, NEW m
  PROVE  /\ Wrap \in Nat \ {0}
         /\ ZerosIn(m) \in Nat
         /\ Registers!ZerosOf(m) = ZerosIn(m) % Wrap
<1>1. Wrap \in Nat \ {0}
  <2>1. 16 \in Nat
    OBVIOUS
  <2>2. QED
    BY <2>1, PowersDouble DEF Doubled, Wrap
<1>2. IsFiniteSet(Registers!Reg)
  BY FS_Interval DEF Registers!Reg
<1>3. ZerosIn(m) \in Nat
  <2> DEFINE Z == {i \in Registers!Reg : m[i] = 0}
  <2>1. Z \subseteq Registers!Reg
    OBVIOUS
  <2> HIDE DEF Z
  <2>2. Cardinality(Z) \in Nat
    BY <1>2, <2>1, FS_Subset, FS_CardinalityType
  <2>3. QED
    BY <2>2 DEF Z, ZerosIn
<1>4. Registers!ZerosOf(m) = ZerosIn(m) % Wrap
  <2>1. \A S : Registers!Cardinality(S) = Cardinality(S)
    BY DEF Registers!Cardinality, Cardinality
  <2>2. QED
    BY <2>1 DEF Registers!ZerosOf, ZerosIn, Wrap
<1>. QED
  BY <1>1, <1>3, <1>4

\* A remainder one smaller, and back from nothing.
LEMMA OneBelow ==
  ASSUME NEW c \in Nat, NEW p \in Nat \ {0}, c # 0
  PROVE  (c - 1) % p = ((c % p) - 1) % p
<1> DEFINE q == c \div p
           r == c % p
<1>1. q \in Nat /\ r \in 0 .. p - 1 /\ c = q * p + r
  BY RemainderIs
<1> HIDE DEF q, r
<1>2. CASE r # 0
  <2>1. r - 1 \in 0 .. p - 1 /\ c - 1 = q * p + (r - 1) /\ c - 1 \in Nat
    BY <1>1, <1>2
  <2>2. (c - 1) % p = r - 1
    BY <1>1, <2>1, DividedOnce
  <2>3. (r - 1) % p = r - 1
    <3>1. r - 1 = 0 * p + (r - 1) /\ r - 1 \in Nat
      BY <1>1, <2>1
    <3>2. QED
      BY <2>1, <3>1, DividedOnce
  <2>4. QED
    BY <2>2, <2>3 DEF r
<1>3. CASE r = 0
  <2>1. q # 0
    BY <1>1, <1>3
  <2> DEFINE k == q - 1
  <2>2. k \in Nat /\ q = k + 1
    BY <1>1, <2>1
  <2> HIDE DEF k
  <2>3. c - 1 = k * p + (p - 1) /\ p - 1 \in 0 .. p - 1 /\ c - 1 \in Nat
    BY <1>1, <1>3, <2>2
  <2>4. (c - 1) % p = p - 1
    BY <2>2, <2>3, DividedOnce
  <2>5. (0 - 1) % p = p - 1
    OBVIOUS
  <2>6. QED
    BY <1>3, <2>4, <2>5 DEF r
<1>. QED
  BY <1>2, <1>3

\* One register that gets its first value, or one that had a value before.
LEMMA ZerosChange ==
  ASSUME N \in Nat, NEW m \in [Registers!Reg -> Values],
         NEW i \in Registers!Reg, NEW v \in Values, v # 0
  PROVE  Registers!ZerosOf([m EXCEPT ![i] = v])
           = IF m[i] = 0 THEN (Registers!ZerosOf(m) - 1) % 2^16 ELSE Registers!ZerosOf(m)
<1> DEFINE l == [m EXCEPT ![i] = v]
           S == {j \in Registers!Reg : m[j] = 0}
           T == {j \in Registers!Reg : l[j] = 0}
<1>1. l[i] = v /\ \A j \in Registers!Reg : j # i => l[j] = m[j]
  OBVIOUS
<1>2. IsFiniteSet(Registers!Reg)
  BY FS_Interval DEF Registers!Reg
<1>3. IsFiniteSet(S)
  <2>1. S \subseteq Registers!Reg
    OBVIOUS
  <2> HIDE DEF S
  <2>2. QED
    BY <1>2, <2>1, FS_Subset
<1> HIDE DEF l
<1>4. CASE m[i] = 0
  <2>1. i \in S /\ T = S \ {i}
    BY <1>1, <1>4
  <2> HIDE DEF S, T
  <2>2. Cardinality(T) = Cardinality(S) - 1 /\ Cardinality(S) \in Nat /\ Cardinality(T) \in Nat
    BY <1>3, <2>1, FS_RemoveElement, FS_CardinalityType
  <2>3. ZerosIn(l) = ZerosIn(m) - 1 /\ ZerosIn(m) # 0
    BY <2>2 DEF S, T, ZerosIn
  <2>4. (ZerosIn(m) - 1) % Wrap = ((ZerosIn(m) % Wrap) - 1) % Wrap
    BY <2>3, ZerosAre, OneBelow
  <2>5. Registers!ZerosOf(l) = (Registers!ZerosOf(m) - 1) % Wrap
    BY <2>3, <2>4, ZerosAre
  <2>6. QED
    BY <1>4, <2>5 DEF l, Wrap
<1>5. CASE m[i] # 0
  <2>1. T = S
    BY <1>1, <1>5
  <2> HIDE DEF S, T
  <2>2. ZerosIn(l) = ZerosIn(m)
    BY <2>1 DEF S, T, ZerosIn
  <2>3. Registers!ZerosOf(l) = Registers!ZerosOf(m)
    BY <2>2, ZerosAre
  <2>4. QED
    BY <1>5, <2>3 DEF l
<1>. QED
  BY <1>4, <1>5

------------------------------------------------------------------------------
(* The registers as the Sets leave them *)

\* A Set that has changed the sum and not yet written its register; one that
\* has loaded its bytes and not yet stored both; one that has stored the first.
Summed(t) == regPc[t] \in {"load", "low", "high"}
Loaded(t) == regPc[t] \in {"low", "high"}
Halfway(t) == regPc[t] = "high"
Uncounted(t) == regPc[t] = "zeros"
Busy(t) == Summed(t) \/ Uncounted(t)

RegisterTypes ==
  /\ data \in [Registers!Bits -> {0, 1}]
  /\ regPc \in [Registers!Threads -> {"idle", "next", "copy", "value", "sum", "load", "low", "high", "zeros"}]
  /\ idx \in [Registers!Threads -> 0 .. N]
  /\ rank \in [Registers!Threads -> Values]
  /\ old \in [Registers!Threads -> Values]
  /\ word \in [Registers!Threads -> {<<>>} \cup [Registers!Bits -> {0, 1}]]
  /\ regs \in [Registers!Reg -> Values]
  /\ during \in [Registers!Reg -> SUBSET Values]

\* Who is inside a lock is at a register, with a rank, and at no other's.
OneToALock ==
  /\ \A t \in Registers!Threads : Registers!Locking(t) => idx[t] \in Registers!Reg /\ rank[t] # 0
  /\ \A s, t \in Registers!Threads :
       s # t /\ Registers!Locking(s) /\ Registers!Locking(t) =>
         Registers!LockOf(idx[s]) # Registers!LockOf(idx[t])

\* Sets that have loaded work on bytes of their own.
OneToAByte ==
  \A s, t \in Registers!Threads :
    s # t /\ Loaded(s) /\ Loaded(t) => Registers!BytesOf(idx[s]) \cap Registers!BytesOf(idx[t]) = {}

\* What a Set is about to store in byte b: the register it sets, and the rest as it is.
Fits(t, b) ==
  \A p \in Registers!BitsOf(b) :
    word[t][p] = IF p \in 6 * idx[t] .. 6 * idx[t] + 5 THEN Registers!BitOf(rank[t], p - 6 * idx[t]) ELSE data[p]

WordsFit ==
  \A t \in Registers!Threads : Loaded(t) =>
    /\ word[t] \in [Registers!Bits -> {0, 1}]
    /\ \A b \in Registers!BytesOf(idx[t]) : (Halfway(t) => b # Registers!FirstByte(idx[t])) => Fits(t, b)

\* The registers are there bit by bit, one that is halfway with the bits of both ranks.
BitsHold ==
  /\ \A i \in Registers!Reg :
       (\A t \in Registers!Threads : ~(Halfway(t) /\ idx[t] = i)) =>
         \A k \in 0 .. 5 : data[6 * i + k] = Registers!BitOf(regs[i], k)
  /\ \A t \in Registers!Threads : Halfway(t) =>
       \A k \in 0 .. 5 :
         data[6 * idx[t] + k]
           = Registers!BitOf(IF (6 * idx[t] + k) \div 8 = Registers!FirstByte(idx[t]) THEN rank[t] ELSE regs[idx[t]], k)

OldsKnown ==
  \A t \in Registers!Threads :
    /\ Summed(t) => old[t] = regs[idx[t]]
    /\ Uncounted(t) => rank[t] = regs[idx[t]]

\* m has what the sum counts: for a Set that has changed it, the new rank.
Summing(m) ==
  /\ m \in [Registers!Reg -> Values]
  /\ \A t \in Registers!Threads : Summed(t) => m[idx[t]] = rank[t]
  /\ \A i \in Registers!Reg :
       (\A t \in Registers!Threads : ~(Summed(t) /\ idx[t] = i)) => m[i] = regs[i]

SumHolds == \E m : Summing(m) /\ sum = Registers!SumOf(m)

\* m has what the zero counter counts: for a Set that has stored, the old value.
Zeroing(m) ==
  /\ m \in [Registers!Reg -> Values]
  /\ \A t \in Registers!Threads : Uncounted(t) => m[idx[t]] = old[t]
  /\ \A i \in Registers!Reg :
       (\A t \in Registers!Threads : ~(Uncounted(t) /\ idx[t] = i)) => m[i] = regs[i]

ZerosHold == \E m : Zeroing(m) /\ zeros = Registers!ZerosOf(m)

\* Each byte of a copied register has the bits of one rank.
CopyHolds ==
  /\ regPc[Holder] # "copy" => copied = <<>>
  /\ regPc[Holder] = "copy" =>
       /\ \A i \in Registers!Reg : regs[i] \in during[i]
       /\ \A t \in Registers!Threads : Halfway(t) => rank[t] \in during[idx[t]]
       /\ \A i \in Registers!Reg, b \in {0, 1} :
            \E v \in during[i] : \A k \in 0 .. 5 :
              6 * i + k \in DOMAIN copied /\ (6 * i + k) \div 8 = Registers!FirstByte(i) + b =>
                copied[6 * i + k] = Registers!BitOf(v, k)

\* The inductive invariant of PackedRegisters, until two Sets meet on a byte.
Packing ==
  /\ RegisterTypes /\ OneToALock /\ OneToAByte /\ WordsFit /\ BitsHold /\ OldsKnown
  /\ SumHolds /\ ZerosHold /\ CopyHolds

\* Steps of threads between Sets.
BetweenSets ==
  /\ UNCHANGED <<data, sum, zeros, regs>>
  /\ \A u \in Registers!Threads :
       Busy(u) \/ Busy(u)' => UNCHANGED <<regPc[u], idx[u], rank[u], old[u], word[u]>>

LEMMA Undisturbed ==
  ASSUME OneToAByte, WordsFit, BitsHold, OldsKnown, SumHolds, ZerosHold, BetweenSets
  PROVE  OneToAByte' /\ WordsFit' /\ BitsHold' /\ OldsKnown' /\ SumHolds' /\ ZerosHold'
<1> USE DEF Busy, Summed, Loaded, Halfway, Uncounted
<1>0. \A u \in Registers!Threads : Busy(u) \/ Busy(u)' =>
        regPc'[u] = regPc[u] /\ idx'[u] = idx[u] /\ rank'[u] = rank[u] /\ old'[u] = old[u] /\ word'[u] = word[u]
  BY DEF BetweenSets
<1>1. data' = data /\ sum' = sum /\ zeros' = zeros /\ regs' = regs
  BY DEF BetweenSets
<1>2. \A u \in Registers!Threads :
        /\ Loaded(u)' <=> Loaded(u)
        /\ Halfway(u)' <=> Halfway(u)
        /\ Summed(u)' <=> Summed(u)
        /\ Uncounted(u)' <=> Uncounted(u)
  BY <1>0
<1>3. \A u \in Registers!Threads : Loaded(u) \/ Halfway(u) \/ Summed(u) \/ Uncounted(u) =>
        idx'[u] = idx[u] /\ rank'[u] = rank[u] /\ old'[u] = old[u] /\ word'[u] = word[u]
  BY <1>0
<1> HIDE DEF Busy, Summed, Loaded, Halfway, Uncounted
<1>4. OneToAByte'
  BY <1>2, <1>3 DEF OneToAByte
<1>5. WordsFit'
  BY <1>1, <1>2, <1>3 DEF WordsFit, Fits
<1>6. BitsHold'
  BY <1>1, <1>2, <1>3 DEF BitsHold
<1>7. OldsKnown'
  BY <1>1, <1>2, <1>3 DEF OldsKnown
<1>8. SumHolds'
  <2>1. PICK m : Summing(m) /\ sum = Registers!SumOf(m)
    BY DEF SumHolds
  <2>2. Summing(m)'
    BY <1>1, <1>2, <1>3, <2>1 DEF Summing
  <2>3. QED
    BY <1>1, <2>1, <2>2 DEF SumHolds
<1>9. ZerosHold'
  <2>1. PICK m : Zeroing(m) /\ zeros = Registers!ZerosOf(m)
    BY DEF ZerosHold
  <2>2. Zeroing(m)'
    BY <1>1, <1>2, <1>3, <2>1 DEF Zeroing
  <2>3. QED
    BY <1>1, <2>1, <2>2 DEF ZerosHold
<1>. QED
  BY <1>4, <1>5, <1>6, <1>7, <1>8, <1>9

\* Steps that leave the copy alone.
NoCopying ==
  /\ UNCHANGED <<copied, during, regs>>
  /\ regPc'[Holder] = "copy" <=> regPc[Holder] = "copy"
  /\ \A u \in Registers!Threads :
       Halfway(u)' => Halfway(u) /\ UNCHANGED <<idx[u], rank[u]>>

LEMMA CopyUndisturbed ==
  ASSUME CopyHolds, NoCopying
  PROVE  CopyHolds'
<1>1. copied' = copied /\ during' = during /\ regs' = regs /\ (regPc'[Holder] = "copy" <=> regPc[Holder] = "copy")
  BY DEF NoCopying
<1>2. \A u \in Registers!Threads : Halfway(u)' => Halfway(u) /\ idx'[u] = idx[u] /\ rank'[u] = rank[u]
  BY DEF NoCopying
<1>. QED
  BY <1>1, <1>2 DEF CopyHolds

LEMMA Parameters ==
  ASSUME Registers!PackedRegistersAssumption
  PROVE  /\ N \in Nat \ {0} /\ MaxRank \in Nat /\ MaxRank <= 63
         /\ Ranks \subseteq Values \ {0} /\ Values \subseteq 0 .. 63 /\ 0 \in Values
         /\ Holder \in Registers!Threads /\ Inserters \subseteq Registers!Threads /\ Holder \notin Inserters
         /\ \A i \in Registers!Reg : Other[i] \in Values
         /\ Stored \subseteq [Registers!Reg -> Values]
<1>1. N \in Nat \ {0} /\ MaxRank \in Nat /\ MaxRank <= 63
  BY DEF Registers!PackedRegistersAssumption
<1>2. Ranks \subseteq Values \ {0} /\ Values \subseteq 0 .. 63 /\ 0 \in Values
  BY DEF Registers!PackedRegistersAssumption, Values
<1>3. {0} \cup Ranks \subseteq Values
  BY <1>2
<1>4. (\A i \in Registers!Reg : Other[i] \in {0} \cup Ranks) /\ Stored \subseteq [Registers!Reg -> {0} \cup Ranks]
  BY DEF Registers!PackedRegistersAssumption
<1>5. Holder \in Registers!Threads /\ Inserters \subseteq Registers!Threads /\ Holder \notin Inserters
  BY DEF Registers!PackedRegistersAssumption, Registers!Threads
<1>6. Stored \subseteq [Registers!Reg -> Values]
  BY <1>3, <1>4
<1>. QED
  BY <1>1, <1>2, <1>3, <1>4, <1>5, <1>6

LEMMA ApartByLock ==
  ASSUME OneToALock, NEW s \in Registers!Threads, NEW t \in Registers!Threads, s # t,
         Registers!Locking(s), Registers!Locking(t)
  PROVE  idx[s] # idx[t]
BY DEF OneToALock

\* A register that no Set is halfway through has its value.
LEMMA ValueHeld ==
  ASSUME Registers!PackedRegistersAssumption, RegisterTypes, BitsHold, NEW i \in Registers!Reg,
         \A t \in Registers!Threads : ~(Halfway(t) /\ idx[t] = i)
  PROVE  Registers!Value(data, i) = regs[i]
<1>1. regs[i] \in 0 .. 63
  BY Parameters DEF RegisterTypes
<1>2. \A k \in 0 .. 5 : data[6 * i + k] = Registers!BitOf(regs[i], k)
  BY DEF BitsHold
<1>. QED
  BY <1>1, <1>2, ValueIs

LEMMA PackingInit ==
  ASSUME Registers!PackedRegistersAssumption, Registers!Init
  PROVE  Packing
<1> USE Parameters
<1>1. regs \in [Registers!Reg -> Values] /\ \A i \in Registers!Reg : regs[i] \in 0 .. 63
  BY DEF Registers!Init
<1>2. \A t \in Registers!Threads : regPc[t] = "idle"
  BY DEF Registers!Init
<1>3. \A t \in Registers!Threads : ~Summed(t) /\ ~Loaded(t) /\ ~Halfway(t) /\ ~Uncounted(t) /\ ~Registers!Locking(t)
  BY <1>2 DEF Summed, Loaded, Halfway, Uncounted, Registers!Locking
<1>4. \A p \in Registers!Bits :
        data[p] = IF p \div 6 < N THEN Registers!BitOf(regs[p \div 6], p % 6) ELSE 0
  BY DEF Registers!Init, Registers!Image
<1>5. data \in [Registers!Bits -> {0, 1}]
  <2>1. ASSUME NEW p \in Registers!Bits
        PROVE  data[p] \in {0, 1}
    <3>1. p \in Nat
      BY DEF Registers!Bits
    <3>2. p % 6 \in 0 .. 5 /\ p \div 6 \in Nat
      BY <3>1
    <3>3. p \div 6 < N => p \div 6 \in Registers!Reg
      BY <3>2 DEF Registers!Reg
    <3>4. p \div 6 < N => Registers!BitOf(regs[p \div 6], p % 6) \in {0, 1}
      BY <1>1, <3>2, <3>3, BitsOfValue
    <3>5. QED
      BY <1>4, <3>4
  <2>2. data = [p \in Registers!Bits |-> data[p]]
    BY DEF Registers!Init, Registers!Image
  <2>3. QED
    BY <2>1, <2>2
<1>6. RegisterTypes
  <2>1. 0 \in 0 .. N
    OBVIOUS
  <2>2. QED
    BY <1>1, <1>5, <2>1 DEF Registers!Init, RegisterTypes
<1>7. OneToALock /\ OneToAByte /\ WordsFit /\ OldsKnown
  BY <1>3 DEF OneToALock, OneToAByte, WordsFit, OldsKnown
<1>8. BitsHold
  <2>1. ASSUME NEW i \in Registers!Reg, NEW k \in 0 .. 5
        PROVE  data[6 * i + k] = Registers!BitOf(regs[i], k)
    <3> DEFINE p == 6 * i + k
    <3>1. p \in Registers!Bits
      BY PlacesOfRegister
    <3>2. i \in Nat /\ i < N
      BY DEF Registers!Reg
    <3>3. p \in Nat /\ p = i * 6 + k /\ k \in 0 .. 6 - 1
      BY <3>2
    <3> HIDE DEF p
    <3>4. p \div 6 = i /\ p % 6 = k
      BY <3>2, <3>3, DividedOnce
    <3>5. data[p] = Registers!BitOf(regs[i], k)
      BY <1>4, <3>1, <3>2, <3>4
    <3>6. QED
      BY <3>5 DEF p
  <2>2. QED
    BY <1>3, <2>1 DEF BitsHold
<1>9. SumHolds
  <2>1. Summing(regs)
    BY <1>1, <1>3 DEF Summing
  <2>2. QED
    BY <2>1 DEF SumHolds, Registers!Init
<1>10. ZerosHold
  <2>1. Zeroing(regs)
    BY <1>1, <1>3 DEF Zeroing
  <2>2. QED
    BY <2>1 DEF ZerosHold, Registers!Init
<1>11. CopyHolds
  <2>1. regPc[Holder] # "copy" /\ copied = <<>>
    BY <1>2 DEF Registers!Init
  <2>2. QED
    BY <2>1 DEF CopyHolds
<1>. QED
  BY <1>6, <1>7, <1>8, <1>9, <1>10, <1>11 DEF Packing

------------------------------------------------------------------------------
(* Steps between Sets, and the copy *)

LEMMA KeptBetween ==
  ASSUME Packing, BetweenSets, RegisterTypes', OneToALock', CopyHolds'
  PROVE  Packing'
BY Undisturbed DEF Packing

\* A lock is taken for a register that no other has.
LEMMA LockTaken ==
  ASSUME OneToALock, RegisterTypes, NEW t \in Registers!Threads, NEW i \in Registers!Reg, Registers!LockFree(i),
         \A u \in Registers!Threads : u # t => regPc'[u] = regPc[u] /\ idx'[u] = idx[u] /\ rank'[u] = rank[u],
         idx'[t] = i, rank'[t] # 0
  PROVE  OneToALock'
<1>1. \A u \in Registers!Threads : u # t => (Registers!Locking(u)' <=> Registers!Locking(u))
  BY DEF Registers!Locking
<1>2. \A u \in Registers!Threads : Registers!Locking(u) => Registers!LockOf(idx[u]) # Registers!LockOf(i)
  BY DEF Registers!LockFree
<1>3. \A u \in Registers!Threads : Registers!Locking(u)' => idx'[u] \in Registers!Reg /\ rank'[u] # 0
  BY <1>1 DEF OneToALock
<1>4. ASSUME NEW s \in Registers!Threads, NEW u \in Registers!Threads, s # u,
             Registers!Locking(s)', Registers!Locking(u)'
      PROVE  Registers!LockOf(idx'[s]) # Registers!LockOf(idx'[u])
  <2>1. CASE s = t
    BY <1>1, <1>2, <1>4, <2>1
  <2>2. CASE u = t
    BY <1>1, <1>2, <1>4, <2>2
  <2>3. CASE s # t /\ u # t
    BY <1>1, <1>4, <2>3 DEF OneToALock
  <2>4. QED
    BY <2>1, <2>2, <2>3
<1>5. \A s, u \in Registers!Threads :
        s # u /\ Registers!Locking(s)' /\ Registers!Locking(u)' =>
          Registers!LockOf(idx'[s]) # Registers!LockOf(idx'[u])
  BY <1>4
<1>. QED
  BY <1>3, <1>5 DEF OneToALock

\* Who is in a lock stays in it or leaves it.
LEMMA LockKept ==
  ASSUME OneToALock,
         \A u \in Registers!Threads : Registers!Locking(u)' =>
           Registers!Locking(u) /\ idx'[u] = idx[u] /\ rank'[u] # 0
  PROVE  OneToALock'
BY DEF OneToALock

LEMMA PackingCallInsert ==
  ASSUME Registers!PackedRegistersAssumption, Packing,
         NEW t \in Inserters, NEW i \in Registers!Reg, NEW r \in Ranks, Registers!CallInsert(t, i, r)
  PROVE  Packing'
<1>1. /\ regPc[t] = "idle" /\ Registers!LockFree(i)
      /\ idx' = [idx EXCEPT ![t] = i] /\ rank' = [rank EXCEPT ![t] = r]
      /\ regPc' = [regPc EXCEPT ![t] = "value"]
      /\ UNCHANGED <<data, sum, zeros, old, word, regs, overlapped, copied, during>>
  BY DEF Registers!CallInsert, Registers!Goto, Registers!memory, Registers!export
<1>2. t \in Registers!Threads /\ t # Holder /\ r \in Values /\ r # 0 /\ i \in 0 .. N /\ Holder \in Registers!Threads
  BY Parameters DEF Registers!Reg
<1>3. RegisterTypes /\ OneToALock /\ CopyHolds
  BY DEF Packing
<1>4. RegisterTypes'
  BY <1>1, <1>2, <1>3 DEF RegisterTypes
<1>5. \A u \in Registers!Threads : u # t => regPc'[u] = regPc[u] /\ idx'[u] = idx[u] /\ rank'[u] = rank[u]
  BY <1>1, <1>2, <1>3 DEF RegisterTypes
<1>6. idx'[t] = i /\ rank'[t] = r /\ regPc'[t] = "value"
  BY <1>1, <1>2, <1>3 DEF RegisterTypes
<1>7. OneToALock'
  BY <1>1, <1>2, <1>3, <1>5, <1>6, LockTaken
<1>8. BetweenSets
  BY <1>1, <1>5, <1>6 DEF BetweenSets, Busy, Summed, Uncounted
<1>9. NoCopying
  BY <1>1, <1>2, <1>5, <1>6 DEF NoCopying, Halfway
<1>. QED
  BY <1>3, <1>4, <1>7, <1>8, <1>9, CopyUndisturbed, KeptBetween

LEMMA PackingCallMerge ==
  ASSUME Registers!PackedRegistersAssumption, Packing, Registers!CallMerge
  PROVE  Packing'
<1>1. /\ regPc[Holder] = "idle"
      /\ idx' = [idx EXCEPT ![Holder] = 0]
      /\ regPc' = [regPc EXCEPT ![Holder] = "next"]
      /\ UNCHANGED <<data, sum, zeros, rank, old, word, regs, overlapped, copied, during>>
  BY DEF Registers!CallMerge, Registers!Goto, Registers!memory, Registers!export
<1>2. Holder \in Registers!Threads /\ 0 \in 0 .. N
  BY Parameters
<1>3. RegisterTypes /\ OneToALock /\ CopyHolds
  BY DEF Packing
<1>4. RegisterTypes'
  BY <1>1, <1>2, <1>3 DEF RegisterTypes
<1>5. /\ \A u \in Registers!Threads : u # Holder => regPc'[u] = regPc[u] /\ idx'[u] = idx[u]
      /\ regPc'[Holder] = "next"
  BY <1>1, <1>2, <1>3 DEF RegisterTypes
<1>6. OneToALock'
  BY <1>1, <1>3, <1>5, LockKept DEF Registers!Locking, OneToALock
<1>7. BetweenSets
  BY <1>1, <1>5 DEF BetweenSets, Busy, Summed, Uncounted
<1>8. NoCopying
  BY <1>1, <1>2, <1>5 DEF NoCopying, Halfway
<1>. QED
  BY <1>3, <1>4, <1>6, <1>7, <1>8, CopyUndisturbed, KeptBetween

LEMMA PackingMergeNext ==
  ASSUME Registers!PackedRegistersAssumption, Packing, Registers!MergeNext
  PROVE  Packing'
<1> DEFINE i == idx[Holder]
<1>1. /\ regPc[Holder] = "next"
      /\ UNCHANGED <<data, sum, zeros, old, word, regs, overlapped, copied, during>>
      /\ \/ /\ idx' = [idx EXCEPT ![Holder] = 0]
            /\ regPc' = [regPc EXCEPT ![Holder] = "idle"] /\ rank' = rank
         \/ /\ i < N
            /\ idx' = [idx EXCEPT ![Holder] = i + 1]
            /\ regPc' = regPc /\ rank' = rank
         \/ /\ i < N /\ Other[i] > 0 /\ Registers!LockFree(i)
            /\ rank' = [rank EXCEPT ![Holder] = Other[i]]
            /\ regPc' = [regPc EXCEPT ![Holder] = "value"] /\ idx' = idx
  BY DEF Registers!MergeNext, Registers!Goto, Registers!memory, Registers!export
<1>2. Holder \in Registers!Threads /\ 0 \in 0 .. N /\ N \in Nat
  BY Parameters
<1>3. RegisterTypes /\ OneToALock /\ CopyHolds
  BY DEF Packing
<1>4. i \in 0 .. N
  BY <1>2, <1>3 DEF RegisterTypes
<1>5. i < N => i \in Registers!Reg /\ Other[i] \in Values /\ i + 1 \in 0 .. N
  BY <1>2, <1>4, Parameters DEF Registers!Reg
<1> HIDE DEF i
<1>6. RegisterTypes'
  BY <1>1, <1>2, <1>3, <1>5 DEF RegisterTypes
<1>7. /\ \A u \in Registers!Threads : u # Holder => regPc'[u] = regPc[u] /\ idx'[u] = idx[u] /\ rank'[u] = rank[u]
      /\ regPc'[Holder] \in {"idle", "next", "value"}
  BY <1>1, <1>2, <1>3 DEF RegisterTypes
<1>8. OneToALock'
  <2>1. CASE regPc'[Holder] # "value"
    BY <1>3, <1>7, <2>1, LockKept DEF Registers!Locking, OneToALock
  <2>2. CASE regPc'[Holder] = "value"
    <3>1. /\ i < N /\ Other[i] > 0 /\ Registers!LockFree(i)
          /\ rank' = [rank EXCEPT ![Holder] = Other[i]] /\ idx' = idx
      BY <1>1, <1>2, <1>3, <2>2 DEF RegisterTypes
    <3>2. rank'[Holder] = Other[i] /\ Other[i] # 0 /\ idx'[Holder] = i
      BY <1>2, <1>3, <3>1 DEF RegisterTypes, i
    <3>3. QED
      BY <1>2, <1>3, <1>5, <1>7, <3>1, <3>2, LockTaken
  <2>3. QED
    BY <2>1, <2>2
<1>9. BetweenSets
  BY <1>1, <1>7 DEF BetweenSets, Busy, Summed, Uncounted
<1>10. NoCopying
  BY <1>1, <1>2, <1>7 DEF NoCopying, Halfway
<1>. QED
  BY <1>3, <1>6, <1>8, <1>9, <1>10, CopyUndisturbed, KeptBetween

LEMMA PackingReadValue ==
  ASSUME Registers!PackedRegistersAssumption, Packing, NEW t \in Registers!Threads, Registers!ReadValue(t)
  PROVE  Packing'
<1> DEFINE v == Registers!Value(data, idx[t])
           w == IF v > rank[t] THEN v ELSE rank[t]
           n == IF t = Holder THEN "next" ELSE "idle"
           j == IF t = Holder THEN idx[t] + 1 ELSE 0
<1>1. /\ regPc[t] = "value"
      /\ UNCHANGED <<data, sum, zeros, word, regs, overlapped, copied, during>>
      /\ \/ /\ regPc' = [regPc EXCEPT ![t] = n] /\ idx' = [idx EXCEPT ![t] = j]
            /\ rank' = [rank EXCEPT ![t] = 0] /\ old' = [old EXCEPT ![t] = 0]
         \/ /\ rank' = [rank EXCEPT ![t] = w]
            /\ regPc' = [regPc EXCEPT ![t] = "sum"] /\ UNCHANGED <<idx, old>>
  BY DEF Registers!ReadValue, Registers!Unlocked, Registers!Goto, Registers!memory, Registers!export
<1>2. Holder \in Registers!Threads /\ 0 \in 0 .. N /\ N \in Nat /\ 0 \in Values /\ \A x \in Values : x \in Nat
  BY Parameters DEF Values
<1>3. RegisterTypes /\ OneToALock /\ CopyHolds /\ BitsHold
  BY DEF Packing
<1>4. Registers!Locking(t) /\ idx[t] \in Registers!Reg /\ rank[t] # 0
  BY <1>1, <1>3 DEF Registers!Locking, OneToALock
<1>5. \A u \in Registers!Threads : ~(Halfway(u) /\ idx[u] = idx[t])
  BY <1>1, <1>3, <1>4, ApartByLock DEF Halfway, Registers!Locking
<1>6. v \in Values
  <2>1. v = regs[idx[t]]
    BY <1>3, <1>4, <1>5, ValueHeld
  <2>2. QED
    BY <1>3, <1>4, <2>1 DEF RegisterTypes
<1>7. w \in Values /\ w # 0
  <2>1. rank[t] \in Values
    BY <1>3 DEF RegisterTypes
  <2> HIDE DEF v
  <2>2. v \in Nat /\ rank[t] \in Nat
    BY <1>2, <1>6, <2>1
  <2>3. QED
    BY <1>4, <1>6, <2>1, <2>2
<1>8. j \in 0 .. N
  BY <1>2, <1>4 DEF Registers!Reg
<1> DEFINE Steps == {"idle", "next", "copy", "value", "sum", "load", "low", "high", "zeros"}
<1>14. n \in {"idle", "next"} /\ n \in Steps
  OBVIOUS
<1> HIDE DEF v, w, j, n
<1>9. RegisterTypes'
  <2>1. "sum" \in Steps
    OBVIOUS
  <2>2. regPc \in [Registers!Threads -> Steps]
    BY <1>3 DEF RegisterTypes
  <2> HIDE DEF Steps
  <2>3. regPc' \in [Registers!Threads -> Steps]
    BY <1>1, <1>14, <2>1, <2>2
  <2>4. /\ idx \in [Registers!Threads -> 0 .. N]
        /\ rank \in [Registers!Threads -> Values]
        /\ old \in [Registers!Threads -> Values]
    BY <1>3 DEF RegisterTypes
  <2>6. idx' \in [Registers!Threads -> 0 .. N]
    BY <1>1, <1>8, <2>4
  <2>7. rank' \in [Registers!Threads -> Values]
    BY <1>1, <1>2, <1>7, <2>4
  <2>8. old' \in [Registers!Threads -> Values]
    BY <1>1, <1>2, <2>4
  <2>5. QED
    BY <1>1, <1>3, <2>3, <2>6, <2>7, <2>8 DEF RegisterTypes, Steps
<1>10. /\ \A u \in Registers!Threads : u # t =>
            regPc'[u] = regPc[u] /\ idx'[u] = idx[u] /\ rank'[u] = rank[u] /\ old'[u] = old[u] /\ word'[u] = word[u]
       /\ \/ regPc'[t] \in {"idle", "next"}
          \/ regPc'[t] = "sum" /\ idx'[t] = idx[t] /\ rank'[t] = w
  <2>1. /\ regPc \in [Registers!Threads -> Steps] /\ idx \in [Registers!Threads -> 0 .. N]
        /\ rank \in [Registers!Threads -> Values] /\ old \in [Registers!Threads -> Values]
    BY <1>3 DEF RegisterTypes, Steps
  <2>2. CASE /\ regPc' = [regPc EXCEPT ![t] = n] /\ idx' = [idx EXCEPT ![t] = j]
             /\ rank' = [rank EXCEPT ![t] = 0] /\ old' = [old EXCEPT ![t] = 0]
    BY <1>1, <1>14, <2>1, <2>2
  <2>3. CASE /\ rank' = [rank EXCEPT ![t] = w]
             /\ regPc' = [regPc EXCEPT ![t] = "sum"] /\ UNCHANGED <<idx, old>>
    BY <1>1, <2>1, <2>3
  <2>4. QED
    BY <1>1, <2>2, <2>3
<1>11. OneToALock'
  <2>1. \A u \in Registers!Threads : Registers!Locking(u)' =>
          Registers!Locking(u) /\ idx'[u] = idx[u] /\ rank'[u] # 0
    BY <1>3, <1>4, <1>7, <1>10 DEF Registers!Locking, OneToALock
  <2>2. QED
    BY <1>3, <2>1, LockKept
<1>12. BetweenSets
  BY <1>1, <1>10 DEF BetweenSets, Busy, Summed, Uncounted
<1>13. NoCopying
  BY <1>1, <1>2, <1>10 DEF NoCopying, Halfway
<1>. QED
  BY <1>3, <1>9, <1>11, <1>12, <1>13, CopyUndisturbed, KeptBetween

------------------------------------------------------------------------------
(* The steps of a Set *)

\* A step of t in a Set: from one of its places to the next, the others where they are.
SetStep(t, from, to) ==
  /\ regPc[t] = from /\ regPc'[t] = to
  /\ idx'[t] = idx[t] /\ rank'[t] = rank[t]
  /\ \A u \in Registers!Threads : u # t =>
       /\ regPc'[u] = regPc[u] /\ idx'[u] = idx[u] /\ rank'[u] = rank[u]
       /\ old'[u] = old[u] /\ word'[u] = word[u]

\* In a Set a thread has its lock, so no other Set is at its register.
LEMMA InSet ==
  ASSUME Registers!PackedRegistersAssumption, RegisterTypes, OneToALock, NEW t \in Registers!Threads,
         regPc[t] \in {"sum", "load", "low", "high", "zeros"}
  PROVE  /\ Registers!Locking(t)
         /\ idx[t] \in Registers!Reg /\ idx[t] \in Nat
         /\ rank[t] \in Values \ {0} /\ old[t] \in Values /\ regs[idx[t]] \in Values
         /\ \A u \in Registers!Threads :
              u # t /\ (Busy(u) \/ Loaded(u) \/ Halfway(u) \/ Registers!Locking(u)) => idx[u] # idx[t]
<1>1. Registers!Locking(t)
  BY DEF Registers!Locking
<1>2. idx[t] \in Registers!Reg /\ rank[t] # 0
  BY <1>1 DEF OneToALock
<1>3. idx[t] \in Nat
  BY <1>2, Parameters DEF Registers!Reg
<1>4. \A u \in Registers!Threads : Busy(u) \/ Loaded(u) \/ Halfway(u) => Registers!Locking(u)
  BY DEF Busy, Summed, Uncounted, Loaded, Halfway, Registers!Locking
<1>5. \A u \in Registers!Threads : u # t /\ Registers!Locking(u) => idx[u] # idx[t]
  BY <1>1, ApartByLock
<1>. QED
  BY <1>1, <1>2, <1>3, <1>4, <1>5 DEF RegisterTypes

LEMMA SetKeepsLock ==
  ASSUME OneToALock, NEW t \in Registers!Threads, NEW from, NEW to, SetStep(t, from, to),
         from \in {"sum", "load", "low", "high"}
  PROVE  OneToALock'
<1>1. \A u \in Registers!Threads : Registers!Locking(u)' =>
        Registers!Locking(u) /\ idx'[u] = idx[u] /\ rank'[u] # 0
  BY DEF SetStep, Registers!Locking, OneToALock
<1>. QED
  BY <1>1, LockKept

LEMMA PackingChangeSum ==
  ASSUME Registers!PackedRegistersAssumption, Packing, NEW t \in Registers!Threads, Registers!ChangeSum(t)
  PROVE  Packing'
<1> DEFINE i == idx[t]
           v == Registers!Value(data, i)
<1>1. /\ regPc[t] = "sum" /\ regPc' = [regPc EXCEPT ![t] = "load"]
      /\ old' = [old EXCEPT ![t] = v]
      /\ sum' = sum - Registers!Weight(old'[t]) + Registers!Weight(rank[t])
      /\ UNCHANGED <<data, zeros, idx, rank, word, regs, overlapped, copied, during>>
  BY DEF Registers!ChangeSum, Registers!Goto, Registers!export
<1>2. /\ RegisterTypes /\ OneToALock /\ OneToAByte /\ WordsFit /\ BitsHold /\ OldsKnown
      /\ SumHolds /\ ZerosHold /\ CopyHolds
  BY DEF Packing
<1>3. /\ i \in Registers!Reg /\ rank[t] \in Values \ {0} /\ regs[i] \in Values
      /\ \A u \in Registers!Threads : u # t /\ (Busy(u) \/ Loaded(u) \/ Halfway(u)) => idx[u] # i
  BY <1>1, <1>2, InSet
<1>4. v = regs[i]
  <2>1. \A u \in Registers!Threads : ~(Halfway(u) /\ idx[u] = i)
    BY <1>1, <1>3 DEF Halfway
  <2>2. QED
    BY <1>2, <1>3, <2>1, ValueHeld
<1> HIDE DEF i, v
<1>5. SetStep(t, "sum", "load") /\ old'[t] = v
  BY <1>1, <1>2 DEF RegisterTypes, SetStep
<1>6. RegisterTypes'
  BY <1>1, <1>2, <1>3, <1>4 DEF RegisterTypes
<1>7. OneToALock'
  BY <1>2, <1>5, SetKeepsLock
<1>8. \A u \in Registers!Threads : (Loaded(u)' <=> Loaded(u)) /\ (Halfway(u)' <=> Halfway(u))
  BY <1>5 DEF SetStep, Loaded, Halfway
<1>9. OneToAByte' /\ WordsFit' /\ BitsHold'
  <2>1. OneToAByte'
    BY <1>1, <1>2, <1>8 DEF OneToAByte
  <2>2. WordsFit'
    BY <1>1, <1>2, <1>8 DEF WordsFit, Fits
  <2>3. BitsHold'
    BY <1>1, <1>2, <1>8 DEF BitsHold
  <2>4. QED
    BY <2>1, <2>2, <2>3
<1>10. \A u \in Registers!Threads :
         /\ Summed(u)' <=> Summed(u) \/ u = t
         /\ Uncounted(u)' <=> Uncounted(u)
         /\ Uncounted(u) => u # t
         /\ ~Summed(t)
  BY <1>5 DEF SetStep, Summed, Uncounted
<1>11. OldsKnown'
  BY <1>1, <1>2, <1>4, <1>5, <1>10 DEF OldsKnown, SetStep, i
<1>12. SumHolds'
  <2>1. PICK m : Summing(m) /\ sum = Registers!SumOf(m)
    BY <1>2 DEF SumHolds
  <2>11. PICK l : l = [m EXCEPT ![i] = rank[t]]
    OBVIOUS
  <2>2. m \in [Registers!Reg -> Values]
    BY <2>1 DEF Summing
  <2>3. \A u \in Registers!Threads : ~(Summed(u) /\ idx[u] = i)
    BY <1>3, <1>10 DEF Busy
  <2>4. m[i] = regs[i]
    BY <1>3, <2>1, <2>3 DEF Summing
  <2>5. sum' = Registers!SumOf(l)
    <3>1. Registers!SumOf(l) = Registers!SumOf(m) - Registers!Weight(m[i]) + Registers!Weight(rank[t])
      BY <1>3, <2>2, <2>11, SumChanges, Parameters
    <3>2. QED
      BY <1>1, <1>4, <1>5, <2>1, <2>4, <3>1
  <2>6. /\ l \in [Registers!Reg -> Values] /\ l[i] = rank[t]
        /\ \A j \in Registers!Reg : j # i => l[j] = m[j]
    BY <1>3, <2>2, <2>11
  <2>7. \A u \in Registers!Threads : Summed(u)' => l[idx'[u]] = rank'[u]
    <3>1. ASSUME NEW u \in Registers!Threads, Summed(u), u # t
          PROVE  l[idx'[u]] = rank'[u]
      <4>1. idx[u] \in Registers!Reg /\ idx[u] # i
        BY <1>2, <1>3, <3>1 DEF Busy, OneToALock, Registers!Locking, Summed
      <4>2. m[idx[u]] = rank[u]
        BY <2>1, <3>1 DEF Summing
      <4>3. QED
        BY <1>1, <2>6, <4>1, <4>2
    <3>2. l[idx'[t]] = rank'[t]
      BY <1>1, <2>6 DEF i
    <3>3. QED
      BY <1>10, <3>1, <3>2
  <2>8. ASSUME NEW j \in Registers!Reg, \A u \in Registers!Threads : ~(Summed(u)' /\ idx'[u] = j)
        PROVE  l[j] = regs'[j]
    <3>1. \A u \in Registers!Threads : ~(Summed(u) /\ idx[u] = j)
      BY <1>1, <1>10, <2>8
    <3>2. j # i
      BY <1>1, <1>10, <2>8 DEF i
    <3>3. QED
      BY <1>1, <2>1, <2>6, <3>1, <3>2 DEF Summing
  <2>9. Summing(l)'
    BY <2>6, <2>7, <2>8 DEF Summing
  <2>10. QED
    BY <2>5, <2>9 DEF SumHolds
<1>13. ZerosHold'
  <2>1. PICK m : Zeroing(m) /\ zeros = Registers!ZerosOf(m)
    BY <1>2 DEF ZerosHold
  <2>2. Zeroing(m)'
    BY <1>1, <1>5, <1>10, <2>1 DEF Zeroing, SetStep
  <2>3. QED
    BY <1>1, <2>1, <2>2 DEF ZerosHold
<1>14. NoCopying
  BY <1>1, <1>5, <1>8, Parameters DEF NoCopying, SetStep
<1>. QED
  BY <1>2, <1>6, <1>7, <1>9, <1>11, <1>12, <1>13, <1>14, CopyUndisturbed DEF Packing

LEMMA BitsOfByte ==
  ASSUME NEW b \in 0 .. Registers!NumBytes - 1, NEW p \in Registers!BitsOf(b), N \in Nat
  PROVE  p \in Registers!Bits /\ p \in Nat /\ p \div 8 = b
<1> DEFINE n == Registers!NumBytes
<1>1. n \in Nat
  BY DEF Registers!NumBytes
<1> HIDE DEF n
<1>2. b \in Nat /\ b <= n - 1
  BY <1>1 DEF n
<1>3. p \in 8 * b .. 8 * b + 7
  BY DEF Registers!BitsOf
<1>4. p \in Nat /\ p \in 0 .. 8 * n - 1
  BY <1>1, <1>2, <1>3
<1>5. p \in Registers!Bits
  BY <1>4 DEF n, Registers!Bits
<1>. QED
  BY <1>2, <1>4, <1>5, ByteOfBit

LEMMA ByteOfPlace ==
  ASSUME NEW p \in Registers!Bits, N \in Nat
  PROVE  p \in Nat /\ p \div 8 \in 0 .. Registers!NumBytes - 1 /\ p \in Registers!BitsOf(p \div 8)
<1> DEFINE n == Registers!NumBytes
           q == p \div 8
<1>1. n \in Nat
  BY DEF Registers!NumBytes
<1>2. p \in Nat /\ p <= 8 * n - 1
  BY <1>1 DEF Registers!Bits
<1>3. q \in Nat /\ 8 * q <= p /\ p <= 8 * q + 7
  BY <1>2
<1>4. p \in Registers!BitsOf(q)
  BY <1>2, <1>3, ByteOfBit
<1> HIDE DEF n, q
<1>5. q \in 0 .. n - 1
  BY <1>1, <1>2, <1>3
<1>. QED
  BY <1>2, <1>4, <1>5 DEF n, q

\* A byte stored by a Set has changed at its own register only.
LEMMA ByteStored ==
  ASSUME Registers!PackedRegistersAssumption, RegisterTypes, NEW t \in Registers!Threads,
         idx[t] \in Registers!Reg, word[t] \in [Registers!Bits -> {0, 1}],
         NEW b \in Nat, b \in Registers!BytesOf(idx[t]) => Fits(t, b),
         b = Registers!FirstByte(idx[t]) \/ b = Registers!FirstByte(idx[t]) + 1,
         data' = Registers!StoreByte(data, b, word[t])
  PROVE  /\ data' \in [Registers!Bits -> {0, 1}]
         /\ \A p \in Registers!Bits :
              data'[p] = IF p \div 8 = b /\ p \in 6 * idx[t] .. 6 * idx[t] + 5
                         THEN Registers!BitOf(rank[t], p - 6 * idx[t])
                         ELSE data[p]
<1>1. data \in [Registers!Bits -> {0, 1}] /\ N \in Nat
  BY Parameters DEF RegisterTypes
<1>2. data' = [p \in Registers!Bits |-> IF p \in Registers!BitsOf(b) THEN word[t][p] ELSE data[p]]
  BY <1>1 DEF Registers!StoreByte
<1>3. data' \in [Registers!Bits -> {0, 1}]
  BY <1>1, <1>2
<1>4. ASSUME NEW p \in Registers!Bits
      PROVE  data'[p] = IF p \div 8 = b /\ p \in 6 * idx[t] .. 6 * idx[t] + 5
                        THEN Registers!BitOf(rank[t], p - 6 * idx[t])
                        ELSE data[p]
  <2>1. p \in Nat /\ p \div 8 \in 0 .. Registers!NumBytes - 1
    BY <1>1, ByteOfPlace
  <2>2. p \in Registers!BitsOf(b) <=> p \div 8 = b
    BY <2>1, ByteOfBit
  <2>3. CASE p \div 8 = b
    <3>1. b \in Registers!BytesOf(idx[t])
      BY <2>1, <2>3 DEF Registers!BytesOf
    <3>2. data'[p] = word[t][p]
      BY <1>2, <2>2, <2>3
    <3>3. QED
      BY <2>2, <2>3, <3>1, <3>2 DEF Fits
  <2>4. CASE p \div 8 # b
    BY <1>2, <2>2, <2>4
  <2>5. QED
    BY <2>3, <2>4
<1>. QED
  BY <1>3, <1>4

LEMMA PackingLoadWord ==
  ASSUME Registers!PackedRegistersAssumption, Packing, NEW t \in Registers!Threads,
         Registers!LoadWord(t), ~overlapped'
  PROVE  Packing'
<1> DEFINE i == idx[t]
           w == Registers!Packed(data, i, rank[t])
<1>1. /\ regPc[t] = "load" /\ regPc' = [regPc EXCEPT ![t] = "low"]
      /\ word' = [word EXCEPT ![t] = w]
      /\ ~Registers!Overlaps(t)
      /\ UNCHANGED <<data, sum, zeros, idx, rank, old, regs, copied, during>>
  BY DEF Registers!LoadWord, Registers!Goto, Registers!memory, Registers!export
<1>2. /\ RegisterTypes /\ OneToALock /\ OneToAByte /\ WordsFit /\ BitsHold /\ OldsKnown
      /\ SumHolds /\ ZerosHold /\ CopyHolds /\ N \in Nat
  BY Parameters DEF Packing
<1>3. i \in Registers!Reg /\ i \in Nat /\ rank[t] \in Values
  BY <1>1, <1>2, InSet
<1>4. data \in [Registers!Bits -> {0, 1}]
  BY <1>2 DEF RegisterTypes
<1>5. w = [p \in Registers!Bits |->
            IF p \in 6 * i .. 6 * i + 5 THEN Registers!BitOf(rank[t], p - 6 * i) ELSE data[p]]
  BY <1>4 DEF Registers!Packed
<1> HIDE DEF w
<1>6. w \in [Registers!Bits -> {0, 1}]
  <2>1. ASSUME NEW p \in 6 * i .. 6 * i + 5
        PROVE  Registers!BitOf(rank[t], p - 6 * i) \in {0, 1}
    <3>1. p - 6 * i \in 0 .. 5
      BY <1>3
    <3>2. QED
      BY <1>3, <3>1, BitsOfValue, Parameters
  <2>2. QED
    BY <1>4, <1>5, <2>1
<1>7. SetStep(t, "load", "low") /\ word'[t] = w
  BY <1>1, <1>2 DEF RegisterTypes, SetStep
<1>8. RegisterTypes'
  BY <1>1, <1>2, <1>6 DEF RegisterTypes
<1>9. OneToALock'
  BY <1>2, <1>7, SetKeepsLock
<1>10. \A u \in Registers!Threads :
         /\ Loaded(u)' <=> Loaded(u) \/ u = t
         /\ Halfway(u)' <=> Halfway(u)
         /\ Summed(u)' <=> Summed(u)
         /\ Uncounted(u)' <=> Uncounted(u)
         /\ Loaded(u) => u # t
         /\ Halfway(u) => u # t
  BY <1>7 DEF SetStep, Loaded, Halfway, Summed, Uncounted
<1>11. OneToAByte'
  <2>1. \A u \in Registers!Threads : u # t /\ Loaded(u) =>
          Registers!BytesOf(idx[u]) \cap Registers!BytesOf(i) = {}
    BY <1>1 DEF Registers!Overlaps, Loaded
  <2>2. QED
    BY <1>1, <1>2, <1>10, <2>1 DEF OneToAByte, i
<1>12. WordsFit'
  <2>1. ASSUME NEW u \in Registers!Threads, Loaded(u), u # t
        PROVE  /\ word'[u] \in [Registers!Bits -> {0, 1}]
               /\ \A b \in Registers!BytesOf(idx'[u]) :
                    (Halfway(u)' => b # Registers!FirstByte(idx'[u])) => Fits(u, b)'
    BY <1>1, <1>2, <1>7, <1>10, <2>1 DEF WordsFit, Fits, SetStep
  <2>2. ASSUME NEW b \in Registers!BytesOf(i)
        PROVE  Fits(t, b)'
    <3>1. b \in 0 .. Registers!NumBytes - 1
      BY DEF Registers!BytesOf
    <3>2. \A p \in Registers!BitsOf(b) : p \in Registers!Bits
      BY <1>2, <3>1, BitsOfByte
    <3>3. QED
      BY <1>1, <1>5, <1>7, <3>2 DEF Fits, i
  <2>3. QED
    BY <1>1, <1>6, <1>7, <1>10, <2>1, <2>2 DEF WordsFit, i
<1>13. BitsHold' /\ OldsKnown'
  BY <1>1, <1>2, <1>10 DEF BitsHold, OldsKnown
<1>14. SumHolds'
  <2>1. PICK m : Summing(m) /\ sum = Registers!SumOf(m)
    BY <1>2 DEF SumHolds
  <2>2. Summing(m)'
    BY <1>1, <1>10, <2>1 DEF Summing
  <2>3. QED
    BY <1>1, <2>1, <2>2 DEF SumHolds
<1>15. ZerosHold'
  <2>1. PICK m : Zeroing(m) /\ zeros = Registers!ZerosOf(m)
    BY <1>2 DEF ZerosHold
  <2>2. Zeroing(m)'
    BY <1>1, <1>10, <2>1 DEF Zeroing
  <2>3. QED
    BY <1>1, <2>1, <2>2 DEF ZerosHold
<1>16. NoCopying
  BY <1>1, <1>7, <1>10, Parameters DEF NoCopying, SetStep
<1>. QED
  BY <1>2, <1>8, <1>9, <1>11, <1>12, <1>13, <1>14, <1>15, <1>16, CopyUndisturbed DEF Packing

LEMMA PackingCountZeros ==
  ASSUME Registers!PackedRegistersAssumption, Packing, NEW t \in Registers!Threads, Registers!CountZeros(t)
  PROVE  Packing'
<1> DEFINE i == idx[t]
           n == IF t = Holder THEN "next" ELSE "idle"
           j == IF t = Holder THEN idx[t] + 1 ELSE 0
           Steps == {"idle", "next", "copy", "value", "sum", "load", "low", "high", "zeros"}
<1>1. /\ regPc[t] = "zeros"
      /\ zeros' = IF old[t] = 0 /\ rank[t] # 0 THEN (zeros - 1) % 2^16 ELSE zeros
      /\ regPc' = [regPc EXCEPT ![t] = n] /\ idx' = [idx EXCEPT ![t] = j]
      /\ rank' = [rank EXCEPT ![t] = 0] /\ old' = [old EXCEPT ![t] = 0]
      /\ UNCHANGED <<data, sum, word, regs, overlapped, copied, during>>
  BY DEF Registers!CountZeros, Registers!Unlocked, Registers!Goto, Registers!export
<1>2. /\ RegisterTypes /\ OneToALock /\ OneToAByte /\ WordsFit /\ BitsHold /\ OldsKnown
      /\ SumHolds /\ ZerosHold /\ CopyHolds /\ N \in Nat /\ 0 \in Values /\ MaxRank \in Nat
  BY Parameters DEF Packing
<1>3. /\ i \in Registers!Reg /\ i \in Nat /\ i < N /\ rank[t] \in Values \ {0} /\ old[t] \in Values
      /\ \A u \in Registers!Threads : u # t /\ (Busy(u) \/ Loaded(u) \/ Halfway(u)) => idx[u] # i
  BY <1>1, <1>2, InSet DEF Registers!Reg
<1>4. j \in 0 .. N
  BY <1>2, <1>3
<1>5. n \in {"idle", "next"} /\ n \in Steps
  OBVIOUS
<1> HIDE DEF i, n, j
<1>6. RegisterTypes'
  <2>1. regPc \in [Registers!Threads -> Steps]
    BY <1>2 DEF RegisterTypes
  <2> HIDE DEF Steps
  <2>2. regPc' \in [Registers!Threads -> Steps]
    BY <1>1, <1>5, <2>1
  <2>3. idx' \in [Registers!Threads -> 0 .. N]
    BY <1>1, <1>2, <1>4 DEF RegisterTypes
  <2>4. rank' \in [Registers!Threads -> Values] /\ old' \in [Registers!Threads -> Values]
    BY <1>1, <1>2 DEF RegisterTypes
  <2>5. QED
    BY <1>1, <1>2, <2>2, <2>3, <2>4 DEF RegisterTypes, Steps
<1>7. \A u \in Registers!Threads : u # t =>
        /\ regPc'[u] = regPc[u] /\ idx'[u] = idx[u] /\ rank'[u] = rank[u]
        /\ old'[u] = old[u] /\ word'[u] = word[u]
  BY <1>1, <1>2 DEF RegisterTypes
<1>8. regPc'[t] \in {"idle", "next"}
  BY <1>1, <1>2, <1>5 DEF RegisterTypes
<1>9. OneToALock'
  <2>1. \A u \in Registers!Threads : Registers!Locking(u)' =>
          Registers!Locking(u) /\ idx'[u] = idx[u] /\ rank'[u] # 0
    BY <1>2, <1>7, <1>8 DEF Registers!Locking, OneToALock
  <2>2. QED
    BY <1>2, <2>1, LockKept
<1>10. \A u \in Registers!Threads :
         /\ Loaded(u)' <=> Loaded(u)
         /\ Halfway(u)' <=> Halfway(u)
         /\ Summed(u)' <=> Summed(u)
         /\ Uncounted(u)' <=> Uncounted(u) /\ u # t
         /\ Loaded(u) \/ Halfway(u) \/ Summed(u) => u # t
         /\ Uncounted(t)
  BY <1>1, <1>7, <1>8 DEF Loaded, Halfway, Summed, Uncounted
<1>11. OneToAByte' /\ WordsFit' /\ BitsHold' /\ OldsKnown'
  <2>1. OneToAByte'
    BY <1>2, <1>7, <1>10 DEF OneToAByte
  <2>2. WordsFit'
    BY <1>1, <1>2, <1>7, <1>10 DEF WordsFit, Fits
  <2>3. BitsHold'
    BY <1>1, <1>2, <1>7, <1>10 DEF BitsHold
  <2>4. OldsKnown'
    BY <1>1, <1>2, <1>7, <1>10 DEF OldsKnown
  <2>5. QED
    BY <2>1, <2>2, <2>3, <2>4
<1>12. SumHolds'
  <2>1. PICK m : Summing(m) /\ sum = Registers!SumOf(m)
    BY <1>2 DEF SumHolds
  <2>2. Summing(m)'
    BY <1>1, <1>7, <1>10, <2>1 DEF Summing
  <2>3. QED
    BY <1>1, <2>1, <2>2 DEF SumHolds
<1>13. ZerosHold'
  <2>1. PICK m : Zeroing(m) /\ zeros = Registers!ZerosOf(m)
    BY <1>2 DEF ZerosHold
  <2>2. PICK l : l = [m EXCEPT ![i] = rank[t]]
    OBVIOUS
  <2>3. m \in [Registers!Reg -> Values] /\ m[i] = old[t]
    BY <1>10, <2>1 DEF Zeroing, i
  <2>4. zeros' = Registers!ZerosOf(l)
    <3>1. Registers!ZerosOf(l)
            = IF m[i] = 0 THEN (Registers!ZerosOf(m) - 1) % 2^16 ELSE Registers!ZerosOf(m)
      BY <1>2, <1>3, <2>2, <2>3, ZerosChange
    <3>2. QED
      BY <1>1, <1>3, <2>1, <2>3, <3>1
  <2>5. /\ l \in [Registers!Reg -> Values] /\ l[i] = rank[t]
        /\ \A k \in Registers!Reg : k # i => l[k] = m[k]
    BY <1>3, <2>2, <2>3
  <2>6. \A u \in Registers!Threads : Uncounted(u)' => l[idx'[u]] = old'[u]
    <3>1. ASSUME NEW u \in Registers!Threads, Uncounted(u), u # t
          PROVE  l[idx'[u]] = old'[u]
      <4>1. idx[u] \in Registers!Reg /\ idx[u] # i
        BY <1>2, <1>3, <3>1 DEF Busy, OneToALock, Registers!Locking, Uncounted
      <4>2. m[idx[u]] = old[u]
        BY <2>1, <3>1 DEF Zeroing
      <4>3. QED
        BY <1>7, <2>5, <3>1, <4>1, <4>2
    <3>2. QED
      BY <1>10, <3>1
  <2>7. ASSUME NEW k \in Registers!Reg, \A u \in Registers!Threads : ~(Uncounted(u)' /\ idx'[u] = k)
        PROVE  l[k] = regs'[k]
    <3>1. CASE k = i
      BY <1>1, <1>2, <1>10, <2>5, <3>1 DEF OldsKnown, i
    <3>2. CASE k # i
      <4>1. \A u \in Registers!Threads : ~(Uncounted(u) /\ idx[u] = k)
        BY <1>7, <1>10, <2>7, <3>2 DEF i
      <4>2. QED
        BY <1>1, <2>1, <2>5, <3>2, <4>1 DEF Zeroing
    <3>3. QED
      BY <3>1, <3>2
  <2>8. Zeroing(l)'
    BY <2>5, <2>6, <2>7 DEF Zeroing
  <2>9. QED
    BY <2>4, <2>8 DEF ZerosHold
<1>14. NoCopying
  BY <1>1, <1>7, <1>8, <1>10, Parameters DEF NoCopying
<1>. QED
  BY <1>2, <1>6, <1>9, <1>11, <1>12, <1>13, <1>14, CopyUndisturbed DEF Packing

LEMMA PackingStoreLow ==
  ASSUME Registers!PackedRegistersAssumption, Packing, NEW t \in Registers!Threads, Registers!StoreLow(t)
  PROVE  Packing'
<1> DEFINE i == idx[t]
           f == Registers!FirstByte(i)
<1>1. /\ regPc[t] = "low" /\ regPc' = [regPc EXCEPT ![t] = "high"]
      /\ data' = Registers!StoreByte(data, f, word[t])
      /\ during' = IF regPc[Holder] = "copy" THEN [during EXCEPT ![i] = @ \cup {rank[t]}] ELSE during
      /\ UNCHANGED <<sum, zeros, idx, rank, old, word, regs, copied>>
  BY DEF Registers!StoreLow, Registers!Goto, Registers!locals
<1>2. /\ RegisterTypes /\ OneToALock /\ OneToAByte /\ WordsFit /\ BitsHold /\ OldsKnown
      /\ SumHolds /\ ZerosHold /\ CopyHolds /\ N \in Nat /\ Holder \in Registers!Threads
  BY Parameters DEF Packing
<1>3. /\ i \in Registers!Reg /\ i \in Nat /\ rank[t] \in Values \ {0}
      /\ \A u \in Registers!Threads : u # t /\ (Busy(u) \/ Loaded(u) \/ Halfway(u)) => idx[u] # i
  BY <1>1, <1>2, InSet
<1>4. SetStep(t, "low", "high") /\ word'[t] = word[t]
  BY <1>1, <1>2 DEF RegisterTypes, SetStep
<1>5. \A u \in Registers!Threads :
        /\ Loaded(u)' <=> Loaded(u)
        /\ Halfway(u)' <=> Halfway(u) \/ u = t
        /\ Summed(u)' <=> Summed(u)
        /\ Uncounted(u)' <=> Uncounted(u)
        /\ Halfway(u) => u # t /\ Loaded(u)
        /\ Loaded(t)
  BY <1>4 DEF SetStep, Loaded, Halfway, Summed, Uncounted
<1>6. f \in Registers!BytesOf(i) /\ f \in Nat
  BY <1>2, <1>3, PlacesOfRegister DEF Registers!FirstByte
<1>7. word[t] \in [Registers!Bits -> {0, 1}] /\ \A b \in Registers!BytesOf(i) : Fits(t, b)
  BY <1>2, <1>5 DEF WordsFit
<1>8. /\ data' \in [Registers!Bits -> {0, 1}]
      /\ \A p \in Registers!Bits :
           data'[p] = IF p \div 8 = f /\ p \in 6 * i .. 6 * i + 5
                      THEN Registers!BitOf(rank[t], p - 6 * i)
                      ELSE data[p]
  BY <1>1, <1>2, <1>3, <1>6, <1>7, ByteStored
<1>9. \A p \in Registers!Bits : p \div 8 # f \/ p \notin 6 * i .. 6 * i + 5 => data'[p] = data[p]
  BY <1>8
<1>10. \A u \in Registers!Threads : u # t /\ Loaded(u) => f \notin Registers!BytesOf(idx[u])
  BY <1>2, <1>5, <1>6 DEF OneToAByte
<1>11. \A u \in Registers!Threads : Loaded(u) => idx[u] \in Registers!Reg
  BY <1>2 DEF OneToALock, Loaded, Registers!Locking
<1> HIDE DEF f
<1>12. RegisterTypes'
  <2>1. rank[t] \in Values /\ during \in [Registers!Reg -> SUBSET Values]
    BY <1>2, <1>3 DEF RegisterTypes
  <2>2. during' \in [Registers!Reg -> SUBSET Values]
    BY <1>1, <2>1
  <2>3. QED
    BY <1>1, <1>2, <1>8, <2>2 DEF RegisterTypes
<1>13. OneToALock'
  BY <1>2, <1>4, SetKeepsLock
<1>14. OneToAByte'
  BY <1>1, <1>2, <1>5 DEF OneToAByte
<1>15. WordsFit'
  <2>1. ASSUME NEW u \in Registers!Threads, Loaded(u), NEW b \in Registers!BytesOf(idx[u]),
               Fits(u, b), b # f
        PROVE  Fits(u, b)'
    <3>1. b \in 0 .. Registers!NumBytes - 1
      BY DEF Registers!BytesOf
    <3>2. \A p \in Registers!BitsOf(b) : p \in Registers!Bits /\ p \div 8 = b
      BY <1>2, <3>1, BitsOfByte
    <3>3. \A p \in Registers!BitsOf(b) : data'[p] = data[p]
      BY <1>9, <2>1, <3>2
    <3>4. QED
      BY <1>1, <2>1, <3>3 DEF Fits
  <2>2. ASSUME NEW u \in Registers!Threads, Loaded(u), NEW b \in Registers!BytesOf(idx[u]),
               Halfway(u)' => b # Registers!FirstByte(idx[u])
        PROVE  Fits(u, b)'
    <3>1. CASE u = t
      BY <1>5, <1>7, <2>1, <2>2, <3>1 DEF f, i
    <3>2. CASE u # t
      <4>1. Fits(u, b)
        BY <1>2, <1>5, <2>2, <3>2 DEF WordsFit
      <4>2. b # f
        BY <1>10, <2>2, <3>2
      <4>3. QED
        BY <2>1, <2>2, <4>1, <4>2
    <3>3. QED
      BY <3>1, <3>2
  <2>3. QED
    BY <1>1, <1>2, <1>5, <2>2 DEF WordsFit
<1>16. \A j \in Registers!Reg : j # i => \A k \in 0 .. 5 : data'[6 * j + k] = data[6 * j + k]
  <2>1. ASSUME NEW j \in Registers!Reg, j # i, NEW k \in 0 .. 5
        PROVE  data'[6 * j + k] = data[6 * j + k]
    <3>1. 6 * j + k \in Registers!Bits /\ j \in Nat
      BY <1>2, PlacesOfRegister
    <3>2. 6 * j + k \notin 6 * i .. 6 * i + 5
      BY <1>3, <2>1, <3>1, PlacesApart
    <3>3. QED
      BY <1>9, <3>1, <3>2
  <2>2. QED
    BY <2>1
<1>17. BitsHold'
  <2>1. ASSUME NEW j \in Registers!Reg, \A u \in Registers!Threads : ~(Halfway(u)' /\ idx[u] = j), NEW k \in 0 .. 5
        PROVE  data'[6 * j + k] = Registers!BitOf(regs[j], k)
    <3>1. j # i /\ \A u \in Registers!Threads : ~(Halfway(u) /\ idx[u] = j)
      BY <1>5, <2>1 DEF i
    <3>2. QED
      BY <1>2, <1>16, <3>1 DEF BitsHold
  <2>2. ASSUME NEW k \in 0 .. 5
        PROVE  data'[6 * i + k]
                 = Registers!BitOf(IF (6 * i + k) \div 8 = f THEN rank[t] ELSE regs[i], k)
    <3>1. /\ 6 * i + k \in Registers!Bits /\ 6 * i + k \in 6 * i .. 6 * i + 5
          /\ 6 * i + k - 6 * i = k
      BY <1>2, <1>3, PlacesOfRegister
    <3>2. \A u \in Registers!Threads : ~(Halfway(u) /\ idx[u] = i)
      BY <1>3, <1>5
    <3>3. data[6 * i + k] = Registers!BitOf(regs[i], k)
      BY <1>2, <1>3, <3>2 DEF BitsHold
    <3>4. CASE (6 * i + k) \div 8 = f
      <4> DEFINE p == 6 * i + k
      <4>1. p \in Registers!Bits /\ p \in 6 * i .. 6 * i + 5 /\ p - 6 * i = k /\ p \div 8 = f
        BY <1>3, <3>1, <3>4
      <4> HIDE DEF p
      <4>2. data'[p] = Registers!BitOf(rank[t], p - 6 * i)
        BY <1>8, <4>1
      <4>3. data'[p] = Registers!BitOf(rank[t], k)
        BY <4>1, <4>2
      <4>4. QED
        BY <3>4, <4>3 DEF p
    <3>5. CASE (6 * i + k) \div 8 # f
      BY <1>9, <3>1, <3>3, <3>5
    <3>6. QED
      BY <3>4, <3>5
  <2>3. ASSUME NEW u \in Registers!Threads, Halfway(u)', NEW k \in 0 .. 5
        PROVE  data'[6 * idx[u] + k]
                 = Registers!BitOf(IF (6 * idx[u] + k) \div 8 = Registers!FirstByte(idx[u])
                                   THEN rank[u] ELSE regs[idx[u]], k)
    <3>1. CASE u = t
      BY <2>2, <3>1 DEF f, i
    <3>2. CASE u # t
      <4>1. Halfway(u) /\ idx[u] # i /\ idx[u] \in Registers!Reg
        BY <1>3, <1>5, <1>11, <2>3, <3>2
      <4>2. data'[6 * idx[u] + k] = data[6 * idx[u] + k]
        BY <1>16, <4>1
      <4>3. QED
        BY <1>2, <4>1, <4>2 DEF BitsHold
    <3>3. QED
      BY <3>1, <3>2
  <2>4. QED
    BY <1>1, <2>1, <2>3 DEF BitsHold
<1>18. OldsKnown'
  BY <1>1, <1>2, <1>5 DEF OldsKnown
<1>19. SumHolds'
  <2>1. PICK m : Summing(m) /\ sum = Registers!SumOf(m)
    BY <1>2 DEF SumHolds
  <2>2. Summing(m)'
    BY <1>1, <1>5, <2>1 DEF Summing
  <2>3. QED
    BY <1>1, <2>1, <2>2 DEF SumHolds
<1>20. ZerosHold'
  <2>1. PICK m : Zeroing(m) /\ zeros = Registers!ZerosOf(m)
    BY <1>2 DEF ZerosHold
  <2>2. Zeroing(m)'
    BY <1>1, <1>5, <2>1 DEF Zeroing
  <2>3. QED
    BY <1>1, <2>1, <2>2 DEF ZerosHold
<1>21. CopyHolds'
  <2>1. regPc'[Holder] = "copy" <=> regPc[Holder] = "copy"
    BY <1>2, <1>4 DEF SetStep
  <2>2. CASE regPc[Holder] # "copy"
    BY <1>1, <1>2, <2>1, <2>2 DEF CopyHolds
  <2>3. CASE regPc[Holder] = "copy"
    <3>1. during \in [Registers!Reg -> SUBSET Values] /\ during' = [during EXCEPT ![i] = @ \cup {rank[t]}]
      BY <1>1, <1>2, <2>3 DEF RegisterTypes
    <3>2. rank[t] \in during'[i] /\ \A j \in Registers!Reg : during[j] \subseteq during'[j]
      BY <1>3, <3>1
    <3>3. \A j \in Registers!Reg : regs'[j] \in during'[j]
      BY <1>1, <1>2, <2>3, <3>2 DEF CopyHolds
    <3>4. \A u \in Registers!Threads : Halfway(u)' => rank'[u] \in during'[idx'[u]]
      <4>1. \A u \in Registers!Threads : Halfway(u) => rank[u] \in during[idx[u]]
        BY <1>2, <2>3 DEF CopyHolds
      <4>2. QED
        BY <1>1, <1>5, <1>11, <3>2, <4>1 DEF i
    <3>5. ASSUME NEW j \in Registers!Reg, NEW b \in {0, 1}
          PROVE  \E v \in during'[j] : \A k \in 0 .. 5 :
                   6 * j + k \in DOMAIN copied /\ (6 * j + k) \div 8 = Registers!FirstByte(j) + b =>
                     copied[6 * j + k] = Registers!BitOf(v, k)
      BY <1>2, <2>3, <3>2 DEF CopyHolds
    <3>6. QED
      BY <1>1, <2>1, <2>3, <3>3, <3>4, <3>5 DEF CopyHolds
  <2>4. QED
    BY <2>2, <2>3
<1>. QED
  BY <1>12, <1>13, <1>14, <1>15, <1>17, <1>18, <1>19, <1>20, <1>21 DEF Packing

LEMMA PackingStoreHigh ==
  ASSUME Registers!PackedRegistersAssumption, Packing, NEW t \in Registers!Threads, Registers!StoreHigh(t)
  PROVE  Packing'
<1> DEFINE i == idx[t]
           f == Registers!FirstByte(i)
<1>1. /\ regPc[t] = "high" /\ regPc' = [regPc EXCEPT ![t] = "zeros"]
      /\ data' = Registers!StoreByte(data, f + 1, word[t])
      /\ word' = [word EXCEPT ![t] = <<>>]
      /\ regs' = [regs EXCEPT ![i] = rank[t]]
      /\ UNCHANGED <<sum, zeros, idx, rank, old, copied, during>>
  BY DEF Registers!StoreHigh, Registers!Goto, Registers!export
<1>2. /\ RegisterTypes /\ OneToALock /\ OneToAByte /\ WordsFit /\ BitsHold /\ OldsKnown
      /\ SumHolds /\ ZerosHold /\ CopyHolds /\ N \in Nat /\ Holder \in Registers!Threads
  BY Parameters DEF Packing
<1>3. /\ i \in Registers!Reg /\ i \in Nat /\ rank[t] \in Values \ {0}
      /\ \A u \in Registers!Threads : u # t /\ (Busy(u) \/ Loaded(u) \/ Halfway(u)) => idx[u] # i
  BY <1>1, <1>2, InSet
<1>4. SetStep(t, "high", "zeros")
  BY <1>1, <1>2 DEF RegisterTypes, SetStep
<1>5. \A u \in Registers!Threads :
        /\ Loaded(u)' <=> Loaded(u) /\ u # t
        /\ Halfway(u)' <=> Halfway(u) /\ u # t
        /\ Summed(u)' <=> Summed(u) /\ u # t
        /\ Uncounted(u)' <=> Uncounted(u) \/ u = t
        /\ Uncounted(u) => u # t
        /\ Halfway(u) => Loaded(u)
        /\ Loaded(t) /\ Halfway(t) /\ Summed(t)
  BY <1>4 DEF SetStep, Loaded, Halfway, Summed, Uncounted
<1>6. f \in Nat /\ f + 1 \in Nat
  BY <1>3 DEF Registers!FirstByte
<1>7. word[t] \in [Registers!Bits -> {0, 1}] /\ \A b \in Registers!BytesOf(i) : b # f => Fits(t, b)
  BY <1>2, <1>5 DEF WordsFit
<1>8. /\ data' \in [Registers!Bits -> {0, 1}]
      /\ \A p \in Registers!Bits :
           data'[p] = IF p \div 8 = f + 1 /\ p \in 6 * i .. 6 * i + 5
                      THEN Registers!BitOf(rank[t], p - 6 * i)
                      ELSE data[p]
  <2> DEFINE c == f + 1
  <2>1. c \in Nat /\ c # f
    BY <1>6
  <2>2. c \in Registers!BytesOf(i) => Fits(t, c)
    BY <1>7, <2>1
  <2>3. data' = Registers!StoreByte(data, c, word[t]) /\ c = Registers!FirstByte(idx[t]) + 1
    BY <1>1
  <2> HIDE DEF c
  <2>4. /\ data' \in [Registers!Bits -> {0, 1}]
        /\ \A p \in Registers!Bits :
             data'[p] = IF p \div 8 = c /\ p \in 6 * i .. 6 * i + 5
                        THEN Registers!BitOf(rank[t], p - 6 * i)
                        ELSE data[p]
    BY <1>2, <1>3, <1>7, <2>1, <2>2, <2>3, ByteStored
  <2>5. QED
    BY <2>4 DEF c
<1>9. \A p \in Registers!Bits : p \div 8 # f + 1 \/ p \notin 6 * i .. 6 * i + 5 => data'[p] = data[p]
  BY <1>8
<1>10. \A u \in Registers!Threads : u # t /\ Loaded(u) =>
         Registers!BytesOf(idx[u]) \cap Registers!BytesOf(i) = {}
  BY <1>2, <1>5 DEF OneToAByte
<1>11. \A u \in Registers!Threads : Loaded(u) \/ Summed(u) \/ Uncounted(u) => idx[u] \in Registers!Reg
  BY <1>2 DEF OneToALock, Loaded, Summed, Uncounted, Registers!Locking
<1>12. /\ regs \in [Registers!Reg -> Values] /\ regs' \in [Registers!Reg -> Values]
       /\ regs'[i] = rank[t] /\ \A j \in Registers!Reg : j # i => regs'[j] = regs[j]
  BY <1>1, <1>2, <1>3 DEF RegisterTypes
<1>13. RegisterTypes'
  BY <1>1, <1>2, <1>8, <1>12 DEF RegisterTypes
<1>14. OneToALock'
  BY <1>2, <1>4, SetKeepsLock
<1>15. OneToAByte'
  BY <1>1, <1>2, <1>5 DEF OneToAByte
<1>16. WordsFit'
  <2>1. ASSUME NEW u \in Registers!Threads, Loaded(u), u # t, NEW b \in Registers!BytesOf(idx[u]), Fits(u, b)
        PROVE  Fits(u, b)'
    <3>1. b \in 0 .. Registers!NumBytes - 1 /\ b \notin Registers!BytesOf(i)
      BY <1>10, <2>1 DEF Registers!BytesOf
    <3>2. b # f + 1
      BY <3>1 DEF Registers!BytesOf
    <3>3. \A p \in Registers!BitsOf(b) : p \in Registers!Bits /\ p \div 8 = b
      BY <1>2, <3>1, BitsOfByte
    <3> HIDE DEF f
    <3>4. \A p \in Registers!BitsOf(b) : data'[p] = data[p]
      BY <1>9, <3>2, <3>3
    <3>5. QED
      BY <1>1, <1>4, <2>1, <3>4 DEF Fits, SetStep
  <2>2. QED
    BY <1>1, <1>2, <1>4, <1>5, <2>1 DEF WordsFit, SetStep
<1>17. \A j \in Registers!Reg : j # i => \A k \in 0 .. 5 : data'[6 * j + k] = data[6 * j + k]
  <2>1. ASSUME NEW j \in Registers!Reg, j # i, NEW k \in 0 .. 5
        PROVE  data'[6 * j + k] = data[6 * j + k]
    <3>1. 6 * j + k \in Registers!Bits /\ j \in Nat
      BY <1>2, PlacesOfRegister
    <3>2. 6 * j + k \notin 6 * i .. 6 * i + 5
      BY <1>3, <2>1, <3>1, PlacesApart
    <3>3. QED
      BY <1>9, <3>1, <3>2
  <2>2. QED
    BY <2>1
<1>18. BitsHold'
  <2>1. ASSUME NEW k \in 0 .. 5
        PROVE  data'[6 * i + k] = Registers!BitOf(rank[t], k)
    <3>1. /\ 6 * i + k \in Registers!Bits /\ 6 * i + k \in 6 * i .. 6 * i + 5
          /\ 6 * i + k - 6 * i = k
          /\ (6 * i + k) \div 8 = f \/ (6 * i + k) \div 8 = f + 1
      BY <1>2, <1>3, PlacesOfRegister
    <3>2. data[6 * i + k] = Registers!BitOf(IF (6 * i + k) \div 8 = f THEN rank[t] ELSE regs[i], k)
      BY <1>2, <1>5 DEF BitsHold
    <3> HIDE DEF f
    <3>3. CASE (6 * i + k) \div 8 = f + 1
      <4> DEFINE p == 6 * i + k
      <4>1. p \in Registers!Bits /\ p \in 6 * i .. 6 * i + 5 /\ p - 6 * i = k /\ p \div 8 = f + 1
        BY <1>3, <3>1, <3>3
      <4> HIDE DEF p
      <4>2. data'[p] = Registers!BitOf(rank[t], p - 6 * i)
        BY <1>8, <4>1
      <4>3. data'[p] = Registers!BitOf(rank[t], k)
        BY <4>1, <4>2
      <4>4. QED
        BY <4>3 DEF p
    <3>4. CASE (6 * i + k) \div 8 # f + 1
      BY <1>9, <3>1, <3>2, <3>4
    <3>5. QED
      BY <3>3, <3>4
  <2>2. ASSUME NEW j \in Registers!Reg, \A u \in Registers!Threads : ~(Halfway(u)' /\ idx'[u] = j), NEW k \in 0 .. 5
        PROVE  data'[6 * j + k] = Registers!BitOf(regs'[j], k)
    <3>1. CASE j = i
      BY <1>12, <2>1, <3>1
    <3>2. CASE j # i
      <4>1. \A u \in Registers!Threads : ~(Halfway(u) /\ idx[u] = j)
        BY <1>1, <1>5, <2>2, <3>2 DEF i
      <4>2. QED
        BY <1>2, <1>12, <1>17, <3>2, <4>1 DEF BitsHold
    <3>3. QED
      BY <3>1, <3>2
  <2>3. ASSUME NEW u \in Registers!Threads, Halfway(u)', NEW k \in 0 .. 5
        PROVE  data'[6 * idx[u] + k]
                 = Registers!BitOf(IF (6 * idx[u] + k) \div 8 = Registers!FirstByte(idx[u])
                                   THEN rank[u] ELSE regs'[idx[u]], k)
    <3>1. Halfway(u) /\ u # t /\ idx[u] # i /\ idx[u] \in Registers!Reg
      BY <1>3, <1>5, <1>11, <2>3
    <3>2. data'[6 * idx[u] + k] = data[6 * idx[u] + k] /\ regs'[idx[u]] = regs[idx[u]]
      BY <1>12, <1>17, <3>1
    <3>3. QED
      BY <1>2, <3>1, <3>2 DEF BitsHold
  <2>4. QED
    BY <1>1, <2>2, <2>3 DEF BitsHold
<1>19. \A u \in Registers!Threads : u # t /\ Busy(u) => regs'[idx[u]] = regs[idx[u]]
  BY <1>3, <1>11, <1>12 DEF Busy
<1>20. OldsKnown'
  <2>1. \A u \in Registers!Threads : Summed(u)' => old'[u] = regs'[idx'[u]]
    BY <1>1, <1>2, <1>5, <1>19 DEF OldsKnown, Busy
  <2>2. \A u \in Registers!Threads : Uncounted(u)' => rank'[u] = regs'[idx'[u]]
    BY <1>1, <1>2, <1>5, <1>12, <1>19 DEF OldsKnown, Busy, i
  <2>3. QED
    BY <2>1, <2>2 DEF OldsKnown
<1>21. SumHolds'
  <2>1. PICK m : Summing(m) /\ sum = Registers!SumOf(m)
    BY <1>2 DEF SumHolds
  <2>2. m[i] = rank[t] /\ m \in [Registers!Reg -> Values]
    BY <1>5, <2>1 DEF Summing
  <2>3. \A u \in Registers!Threads : Summed(u)' => m[idx'[u]] = rank'[u]
    BY <1>1, <1>5, <2>1 DEF Summing
  <2>4. ASSUME NEW j \in Registers!Reg, \A u \in Registers!Threads : ~(Summed(u)' /\ idx'[u] = j)
        PROVE  m[j] = regs'[j]
    <3>1. CASE j = i
      BY <1>12, <2>2, <3>1
    <3>2. CASE j # i
      <4>1. \A u \in Registers!Threads : ~(Summed(u) /\ idx[u] = j)
        BY <1>1, <1>5, <2>4, <3>2 DEF i
      <4>2. QED
        BY <1>12, <2>1, <3>2, <4>1 DEF Summing
    <3>3. QED
      BY <3>1, <3>2
  <2>5. Summing(m)'
    BY <2>2, <2>3, <2>4 DEF Summing
  <2>6. QED
    BY <1>1, <2>1, <2>5 DEF SumHolds
<1>22. ZerosHold'
  <2>1. PICK m : Zeroing(m) /\ zeros = Registers!ZerosOf(m)
    BY <1>2 DEF ZerosHold
  <2>2. m[i] = old[t] /\ m \in [Registers!Reg -> Values]
    <3>1. \A u \in Registers!Threads : ~(Uncounted(u) /\ idx[u] = i)
      BY <1>3, <1>5 DEF Busy
    <3>2. m[i] = regs[i] /\ old[t] = regs[i]
      BY <1>2, <1>3, <1>5, <2>1, <3>1 DEF Zeroing, OldsKnown
    <3>3. QED
      BY <2>1, <3>2 DEF Zeroing
  <2>3. \A u \in Registers!Threads : Uncounted(u)' => m[idx'[u]] = old'[u]
    BY <1>1, <1>5, <2>1, <2>2 DEF Zeroing, i
  <2>4. ASSUME NEW j \in Registers!Reg, \A u \in Registers!Threads : ~(Uncounted(u)' /\ idx'[u] = j)
        PROVE  m[j] = regs'[j]
    <3>1. j # i /\ \A u \in Registers!Threads : ~(Uncounted(u) /\ idx[u] = j)
      BY <1>1, <1>5, <2>4 DEF i
    <3>2. QED
      BY <1>12, <2>1, <3>1 DEF Zeroing
  <2>5. Zeroing(m)'
    BY <2>2, <2>3, <2>4 DEF Zeroing
  <2>6. QED
    BY <1>1, <2>1, <2>5 DEF ZerosHold
<1>23. CopyHolds'
  <2>1. regPc'[Holder] = "copy" <=> regPc[Holder] = "copy"
    BY <1>2, <1>4 DEF SetStep
  <2>2. CASE regPc[Holder] # "copy"
    BY <1>1, <1>2, <2>1, <2>2 DEF CopyHolds
  <2>3. CASE regPc[Holder] = "copy"
    <3>1. \A j \in Registers!Reg : regs'[j] \in during'[j]
      <4>1. rank[t] \in during[i] /\ \A j \in Registers!Reg : regs[j] \in during[j]
        BY <1>2, <1>5, <2>3 DEF CopyHolds
      <4>2. QED
        BY <1>1, <1>12, <4>1
    <3>2. \A u \in Registers!Threads : Halfway(u)' => rank'[u] \in during'[idx'[u]]
      BY <1>1, <1>2, <1>5, <2>3 DEF CopyHolds
    <3>3. QED
      BY <1>1, <1>2, <2>1, <2>3, <3>1, <3>2 DEF CopyHolds
  <2>4. QED
    BY <2>2, <2>3
<1>. QED
  BY <1>13, <1>14, <1>15, <1>16, <1>18, <1>20, <1>21, <1>22, <1>23 DEF Packing

LEMMA NoBits ==
  \A k \in 0 .. 5 : Registers!BitOf(0, k) = 0
<1>1. 0 \in 0 .. 63
  OBVIOUS
<1> DEFINE b(k) == Registers!BitOf(0, k)
<1>2. /\ \A k \in 0 .. 5 : b(k) \in {0, 1}
      /\ b(0) + b(1) * 2 + b(2) * 4 + b(3) * 8 + b(4) * 16 + b(5) * 32 = 0
  BY <1>1, BitsOfValue
<1> HIDE DEF b
<1>3. b(0) \in {0, 1} /\ b(1) \in {0, 1} /\ b(2) \in {0, 1} /\ b(3) \in {0, 1} /\ b(4) \in {0, 1} /\ b(5) \in {0, 1}
  BY <1>2
<1>4. b(0) = 0 /\ b(1) = 0 /\ b(2) = 0 /\ b(3) = 0 /\ b(4) = 0 /\ b(5) = 0
  BY <1>2, <1>3
<1>5. \A k \in 0 .. 5 : k = 0 \/ k = 1 \/ k = 2 \/ k = 3 \/ k = 4 \/ k = 5
  OBVIOUS
<1>6. \A k \in 0 .. 5 : b(k) = 0
  BY <1>4, <1>5
<1>. QED
  BY <1>6 DEF b

LEMMA PackingReset ==
  ASSUME Registers!PackedRegistersAssumption, Packing, Registers!Reset
  PROVE  Packing'
<1>1. /\ regPc[Holder] = "idle" /\ \A t \in Inserters : regPc[t] = "idle"
      /\ data' = [p \in Registers!Bits |-> 0]
      /\ regs' = [i \in Registers!Reg |-> 0]
      /\ sum' = Registers!SumOf(regs') /\ zeros' = Registers!ZerosOf(regs')
      /\ UNCHANGED <<regPc, idx, rank, old, word, copied, during>>
  BY DEF Registers!Reset, Registers!locals, Registers!export
<1>2. RegisterTypes /\ CopyHolds /\ 0 \in Values /\ N \in Nat /\ Holder \in Registers!Threads
  BY Parameters DEF Packing
<1>3. \A t \in Registers!Threads : regPc'[t] = "idle"
  BY <1>1 DEF Registers!Threads
<1>4. \A t \in Registers!Threads :
        ~Summed(t)' /\ ~Loaded(t)' /\ ~Halfway(t)' /\ ~Uncounted(t)' /\ ~Registers!Locking(t)'
  BY <1>3 DEF Summed, Loaded, Halfway, Uncounted, Registers!Locking
<1>5. RegisterTypes'
  BY <1>1, <1>2 DEF RegisterTypes
<1>6. OneToALock' /\ OneToAByte' /\ WordsFit' /\ OldsKnown'
  BY <1>4 DEF OneToALock, OneToAByte, WordsFit, OldsKnown
<1>7. BitsHold'
  <2>1. ASSUME NEW i \in Registers!Reg, NEW k \in 0 .. 5
        PROVE  data'[6 * i + k] = Registers!BitOf(regs'[i], k)
    <3>1. 6 * i + k \in Registers!Bits
      BY <1>2, PlacesOfRegister
    <3>2. data'[6 * i + k] = 0 /\ regs'[i] = 0
      BY <1>1, <3>1
    <3>3. QED
      BY <3>2, NoBits
  <2>2. QED
    BY <1>4, <2>1 DEF BitsHold
<1>8. SumHolds' /\ ZerosHold'
  <2>1. PICK m : m = regs'
    OBVIOUS
  <2>2. m \in [Registers!Reg -> Values]
    BY <1>1, <1>2, <2>1
  <2>3. Summing(m)' /\ Zeroing(m)'
    BY <1>4, <2>1, <2>2 DEF Summing, Zeroing
  <2>4. QED
    BY <1>1, <2>1, <2>3 DEF SumHolds, ZerosHold
<1>9. CopyHolds'
  BY <1>1, <1>2 DEF CopyHolds
<1>. QED
  BY <1>5, <1>6, <1>7, <1>8, <1>9 DEF Packing

LEMMA PackingCallCopy ==
  ASSUME Registers!PackedRegistersAssumption, Packing, Registers!CallCopy
  PROVE  Packing'
<1> DEFINE storing(i) == {u \in Inserters : regPc[u] = "high" /\ idx[u] = i}
<1>1. /\ regPc[Holder] = "idle"
      /\ during' = [i \in Registers!Reg |-> {regs[i]} \cup {rank[t] : t \in storing(i)}]
      /\ regPc' = [regPc EXCEPT ![Holder] = "copy"]
      /\ UNCHANGED <<data, sum, zeros, idx, rank, old, word, regs, copied>>
  BY DEF Registers!CallCopy, Registers!Goto, Registers!memory, Registers!locals
<1>2. /\ RegisterTypes /\ OneToALock /\ CopyHolds
      /\ Holder \in Registers!Threads /\ Inserters \subseteq Registers!Threads
  BY Parameters DEF Packing
<1>3. /\ \A u \in Registers!Threads : u # Holder => regPc'[u] = regPc[u]
      /\ regPc'[Holder] = "copy"
  BY <1>1, <1>2 DEF RegisterTypes
<1>4. \A i \in Registers!Reg :
        /\ during'[i] \in SUBSET Values /\ regs[i] \in during'[i]
        /\ \A t \in storing(i) : rank[t] \in during'[i]
  BY <1>1, <1>2 DEF RegisterTypes
<1>5. RegisterTypes'
  <2>1. during' \in [Registers!Reg -> SUBSET Values]
    <3>1. during' = [i \in Registers!Reg |-> during'[i]]
      BY <1>1
    <3>2. QED
      BY <1>4, <3>1
  <2>2. QED
    BY <1>1, <1>2, <2>1 DEF RegisterTypes
<1>6. OneToALock'
  BY <1>1, <1>2, <1>3, LockKept DEF Registers!Locking, OneToALock
<1>7. BetweenSets
  BY <1>1, <1>3 DEF BetweenSets, Busy, Summed, Uncounted
<1>8. CopyHolds'
  <2>1. copied' = <<>>
    BY <1>1, <1>2 DEF CopyHolds
  <2>2. \A t \in Registers!Threads : Halfway(t)' => rank'[t] \in during'[idx'[t]]
    <3>1. \A t \in Registers!Threads : Halfway(t)' => t # Holder /\ regPc[t] = "high"
      BY <1>3 DEF Halfway
    <3>2. \A t \in Registers!Threads : Halfway(t)' => t \in Inserters /\ idx[t] \in Registers!Reg
      BY <1>2, <3>1 DEF Registers!Threads, OneToALock, Registers!Locking
    <3>3. QED
      BY <1>1, <1>4, <3>1, <3>2
  <2>3. \A i \in Registers!Reg, b \in {0, 1} :
          \E v \in during'[i] : \A k \in 0 .. 5 :
            6 * i + k \in DOMAIN copied' /\ (6 * i + k) \div 8 = Registers!FirstByte(i) + b =>
              copied'[6 * i + k] = Registers!BitOf(v, k)
    <3>1. \A p : p \notin DOMAIN copied'
      BY <2>1
    <3>2. QED
      BY <1>4, <3>1
  <2>4. QED
    BY <1>1, <1>3, <1>4, <2>2, <2>3 DEF CopyHolds
<1>. QED
  BY <1>5, <1>6, <1>7, <1>8, KeptBetween

LEMMA PackingCopyReturns ==
  ASSUME Registers!PackedRegistersAssumption, Packing, Registers!CopyReturns
  PROVE  Packing'
<1>1. /\ regPc[Holder] = "copy"
      /\ copied' = <<>> /\ during' = [i \in Registers!Reg |-> {}]
      /\ regPc' = [regPc EXCEPT ![Holder] = "idle"]
      /\ UNCHANGED <<data, sum, zeros, idx, rank, old, word, regs>>
  BY DEF Registers!CopyReturns, Registers!Goto, Registers!memory, Registers!locals
<1>2. RegisterTypes /\ OneToALock /\ Holder \in Registers!Threads
  BY Parameters DEF Packing
<1>3. /\ \A u \in Registers!Threads : u # Holder => regPc'[u] = regPc[u]
      /\ regPc'[Holder] = "idle"
  BY <1>1, <1>2 DEF RegisterTypes
<1>4. RegisterTypes'
  BY <1>1, <1>2 DEF RegisterTypes
<1>5. OneToALock'
  BY <1>1, <1>2, <1>3, LockKept DEF Registers!Locking, OneToALock
<1>6. BetweenSets
  BY <1>1, <1>3 DEF BetweenSets, Busy, Summed, Uncounted
<1>7. CopyHolds'
  BY <1>1, <1>3 DEF CopyHolds
<1>. QED
  BY <1>4, <1>5, <1>6, <1>7, KeptBetween

LEMMA PackingCopyByte ==
  ASSUME Registers!PackedRegistersAssumption, Packing,
         NEW b \in 0 .. Registers!NumBytes - 1, Registers!CopyByte(b)
  PROVE  Packing'
<1>1. /\ regPc[Holder] = "copy"
      /\ Registers!BitsOf(b) \cap DOMAIN copied = {}
      /\ copied' = [p \in DOMAIN copied \cup Registers!BitsOf(b) |->
                     IF p \in Registers!BitsOf(b) THEN data[p] ELSE copied[p]]
      /\ UNCHANGED <<data, sum, zeros, regPc, idx, rank, old, word, regs, during>>
  BY DEF Registers!CopyByte, Registers!memory, Registers!locals
<1>2. RegisterTypes /\ OneToALock /\ BitsHold /\ CopyHolds /\ N \in Nat
  BY Parameters DEF Packing
<1>3. RegisterTypes' /\ OneToALock'
  BY <1>1, <1>2 DEF RegisterTypes, OneToALock, Registers!Locking
<1>4. BetweenSets
  BY <1>1 DEF BetweenSets
<1>5. ASSUME NEW i \in Registers!Reg, NEW c \in {0, 1}
      PROVE  \E v \in during[i] : \A k \in 0 .. 5 :
               6 * i + k \in DOMAIN copied' /\ (6 * i + k) \div 8 = Registers!FirstByte(i) + c =>
                 copied'[6 * i + k] = Registers!BitOf(v, k)
  <2> DEFINE f == Registers!FirstByte(i)
             Place(k) == 6 * i + k
  <2>1. \A k \in 0 .. 5 : Place(k) \in Registers!BitsOf(b) <=> Place(k) \div 8 = b
    <3>1. b \in Nat
      BY <1>2 DEF Registers!NumBytes
    <3>2. \A k \in 0 .. 5 : Place(k) \in Nat
      BY <1>2, PlacesOfRegister
    <3> HIDE DEF Place
    <3>3. QED
      BY <3>1, <3>2, ByteOfBit
  <2>2. f \in Nat
    BY <1>2, PlacesOfRegister DEF Registers!FirstByte
  <2> HIDE DEF f
  <2>3. CASE f + c # b
    <3>1. PICK v \in during[i] : \A k \in 0 .. 5 :
            Place(k) \in DOMAIN copied /\ Place(k) \div 8 = f + c => copied[Place(k)] = Registers!BitOf(v, k)
      BY <1>1, <1>2 DEF CopyHolds, f
    <3> HIDE DEF Place
    <3>2. ASSUME NEW k \in 0 .. 5, Place(k) \in DOMAIN copied', Place(k) \div 8 = f + c
          PROVE  copied'[Place(k)] = Registers!BitOf(v, k)
      <4>1. Place(k) \notin Registers!BitsOf(b)
        BY <2>1, <2>3, <3>2
      <4>2. Place(k) \in DOMAIN copied /\ copied'[Place(k)] = copied[Place(k)]
        BY <1>1, <3>2, <4>1
      <4>3. QED
        BY <3>1, <3>2, <4>2
    <3>3. QED
      BY <3>2 DEF Place, f
  <2>4. CASE f + c = b
    <3>1. \A k \in 0 .. 5 : Place(k) \div 8 = f + c => copied'[Place(k)] = data[Place(k)]
      <4> HIDE DEF Place
      <4>1. QED
        BY <1>1, <2>1, <2>4
    <3>2. CASE \E t \in Registers!Threads : Halfway(t) /\ idx[t] = i
      <4>1. PICK t \in Registers!Threads : Halfway(t) /\ idx[t] = i
        BY <3>2
      <4>2. \A k \in 0 .. 5 :
              data[Place(k)] = Registers!BitOf(IF Place(k) \div 8 = f THEN rank[t] ELSE regs[i], k)
        BY <1>2, <4>1 DEF BitsHold, f
      <4>3. rank[t] \in during[i] /\ regs[i] \in during[i]
        BY <1>1, <1>2, <4>1 DEF CopyHolds
      <4>4. CASE c = 0
        <5>1. \A k \in 0 .. 5 : Place(k) \div 8 = f + c => copied'[Place(k)] = Registers!BitOf(rank[t], k)
          <6> HIDE DEF Place
          <6>1. QED
            BY <2>2, <3>1, <4>2, <4>4
        <5>2. QED
          BY <4>3, <5>1 DEF f
      <4>5. CASE c = 1
        <5>1. \A k \in 0 .. 5 : Place(k) \div 8 = f + c => copied'[Place(k)] = Registers!BitOf(regs[i], k)
          <6> HIDE DEF Place
          <6>1. QED
            BY <2>2, <3>1, <4>2, <4>5
        <5>2. QED
          BY <4>3, <5>1 DEF f
      <4>6. QED
        BY <4>4, <4>5
    <3>3. CASE ~ \E t \in Registers!Threads : Halfway(t) /\ idx[t] = i
      <4>1. \A k \in 0 .. 5 : data[Place(k)] = Registers!BitOf(regs[i], k)
        BY <1>2, <3>3 DEF BitsHold
      <4>2. regs[i] \in during[i]
        BY <1>1, <1>2 DEF CopyHolds
      <4>3. \A k \in 0 .. 5 : Place(k) \div 8 = f + c => copied'[Place(k)] = Registers!BitOf(regs[i], k)
        <5> HIDE DEF Place
        <5>1. QED
          BY <3>1, <4>1
      <4>4. QED
        BY <4>2, <4>3 DEF f
    <3>4. QED
      BY <3>2, <3>3
  <2>5. QED
    BY <2>3, <2>4
<1>6. CopyHolds'
  <2>1. \A t \in Registers!Threads : Halfway(t)' <=> Halfway(t)
    BY <1>1 DEF Halfway
  <2>2. QED
    BY <1>1, <1>2, <1>5, <2>1 DEF CopyHolds
<1>. QED
  BY <1>3, <1>4, <1>6, KeptBetween

LEMMA PackingStutters ==
  ASSUME Packing, UNCHANGED Registers!vars
  PROVE  Packing'
<1>1. UNCHANGED <<data, sum, zeros, regPc, idx, rank, old, word, regs, copied, during>>
  BY DEF Registers!vars, Registers!memory, Registers!locals, Registers!export
<1>2. RegisterTypes /\ OneToALock /\ CopyHolds
  BY DEF Packing
<1>3. RegisterTypes' /\ OneToALock'
  BY <1>1, <1>2 DEF RegisterTypes, OneToALock, Registers!Locking
<1>4. BetweenSets /\ NoCopying
  BY <1>1 DEF BetweenSets, NoCopying, Halfway
<1>. QED
  BY <1>2, <1>3, <1>4, CopyUndisturbed, KeptBetween

LEMMA PackingStep ==
  ASSUME Registers!PackedRegistersAssumption, ~overlapped => Packing, [Registers!Next]_Registers!vars
  PROVE  ~overlapped' => Packing'
<1> SUFFICES ASSUME ~overlapped'
             PROVE  Packing'
  OBVIOUS
<1>1. CASE UNCHANGED Registers!vars
  <2>1. overlapped' = overlapped
    BY <1>1 DEF Registers!vars
  <2>2. QED
    BY <1>1, <2>1, PackingStutters
<1>2. ASSUME NEW t \in Inserters, NEW i \in Registers!Reg, NEW r \in Ranks, Registers!CallInsert(t, i, r)
      PROVE  Packing'
  <2>1. overlapped' = overlapped
    BY <1>2 DEF Registers!CallInsert
  <2>2. QED
    BY <1>2, <2>1, PackingCallInsert
<1>3. CASE Registers!CallMerge
  <2>1. overlapped' = overlapped
    BY <1>3 DEF Registers!CallMerge
  <2>2. QED
    BY <1>3, <2>1, PackingCallMerge
<1>4. CASE Registers!MergeNext
  <2>1. overlapped' = overlapped
    BY <1>4 DEF Registers!MergeNext
  <2>2. QED
    BY <1>4, <2>1, PackingMergeNext
<1>5. ASSUME NEW t \in Registers!Threads, Registers!Set(t)
      PROVE  Packing'
  <2>1. CASE Registers!ReadValue(t)
    <3>1. overlapped' = overlapped
      BY <2>1 DEF Registers!ReadValue
    <3>2. QED
      BY <2>1, <3>1, PackingReadValue
  <2>2. CASE Registers!ChangeSum(t)
    <3>1. overlapped' = overlapped
      BY <2>2 DEF Registers!ChangeSum
    <3>2. QED
      BY <2>2, <3>1, PackingChangeSum
  <2>3. CASE Registers!LoadWord(t)
    <3>1. ~overlapped
      BY <2>3 DEF Registers!LoadWord
    <3>2. QED
      BY <2>3, <3>1, PackingLoadWord
  <2>4. CASE Registers!StoreLow(t)
    <3>1. overlapped' = overlapped
      BY <2>4 DEF Registers!StoreLow
    <3>2. QED
      BY <2>4, <3>1, PackingStoreLow
  <2>5. CASE Registers!StoreHigh(t)
    <3>1. overlapped' = overlapped
      BY <2>5 DEF Registers!StoreHigh
    <3>2. QED
      BY <2>5, <3>1, PackingStoreHigh
  <2>6. CASE Registers!CountZeros(t)
    <3>1. overlapped' = overlapped
      BY <2>6 DEF Registers!CountZeros
    <3>2. QED
      BY <2>6, <3>1, PackingCountZeros
  <2>7. QED
    BY <1>5, <2>1, <2>2, <2>3, <2>4, <2>5, <2>6 DEF Registers!Set
<1>6. CASE Registers!Reset
  <2>1. overlapped' = overlapped
    BY <1>6 DEF Registers!Reset
  <2>2. QED
    BY <1>6, <2>1, PackingReset
<1>7. CASE Registers!CallCopy
  <2>1. overlapped' = overlapped
    BY <1>7 DEF Registers!CallCopy
  <2>2. QED
    BY <1>7, <2>1, PackingCallCopy
<1>8. CASE Registers!CopyReturns
  <2>1. overlapped' = overlapped
    BY <1>8 DEF Registers!CopyReturns
  <2>2. QED
    BY <1>8, <2>1, PackingCopyReturns
<1>9. ASSUME NEW b \in 0 .. Registers!NumBytes - 1, Registers!CopyByte(b)
      PROVE  Packing'
  <2>1. overlapped' = overlapped
    BY <1>9 DEF Registers!CopyByte
  <2>2. QED
    BY <1>9, <2>1, PackingCopyByte
<1>. QED
  BY <1>1, <1>2, <1>3, <1>4, <1>5, <1>6, <1>7, <1>8, <1>9 DEF Registers!Next

LEMMA PackingFaithful ==
  ASSUME Registers!PackedRegistersAssumption, ~overlapped => Packing
  PROVE  Registers!Faithful
<1> SUFFICES ASSUME ~overlapped
             PROVE  /\ Registers!Kept
                    /\ (\A t \in Registers!Threads : ~Registers!Locking(t)) =>
                         sum = Registers!SumOf(regs) /\ zeros = Registers!ZerosOf(regs)
                    /\ DOMAIN copied = Registers!Bits => \A i \in Registers!Reg : Registers!Mixed(i)
  BY DEF Registers!Faithful
<1>1. RegisterTypes /\ BitsHold /\ SumHolds /\ ZerosHold /\ CopyHolds /\ N \in Nat \ {0}
  BY Parameters DEF Packing
<1>2. Registers!Kept
  <2>1. ASSUME NEW i \in Registers!Reg, ~Registers!Storing(i)
        PROVE  Registers!Value(data, i) = regs[i]
    <3>1. \A t \in Registers!Threads : ~(Halfway(t) /\ idx[t] = i)
      BY <2>1 DEF Registers!Storing, Halfway
    <3>2. QED
      BY <1>1, <3>1, ValueHeld
  <2>2. QED
    BY <2>1 DEF Registers!Kept
<1>3. ASSUME \A t \in Registers!Threads : ~Registers!Locking(t)
      PROVE  sum = Registers!SumOf(regs) /\ zeros = Registers!ZerosOf(regs)
  <2>1. \A t \in Registers!Threads : ~Summed(t) /\ ~Uncounted(t)
    BY <1>3 DEF Registers!Locking, Summed, Uncounted
  <2>2. regs \in [Registers!Reg -> Values]
    BY <1>1 DEF RegisterTypes
  <2>3. sum = Registers!SumOf(regs)
    <3>1. PICK m : Summing(m) /\ sum = Registers!SumOf(m)
      BY <1>1 DEF SumHolds
    <3>2. m \in [Registers!Reg -> Values] /\ \A i \in Registers!Reg : m[i] = regs[i]
      BY <2>1, <3>1 DEF Summing
    <3>3. m = regs
      BY <2>2, <3>2
    <3>4. QED
      BY <3>1, <3>3
  <2>4. zeros = Registers!ZerosOf(regs)
    <3>1. PICK m : Zeroing(m) /\ zeros = Registers!ZerosOf(m)
      BY <1>1 DEF ZerosHold
    <3>2. m \in [Registers!Reg -> Values] /\ \A i \in Registers!Reg : m[i] = regs[i]
      BY <2>1, <3>1 DEF Zeroing
    <3>3. m = regs
      BY <2>2, <3>2
    <3>4. QED
      BY <3>1, <3>3
  <2>5. QED
    BY <2>3, <2>4
<1>4. ASSUME DOMAIN copied = Registers!Bits, NEW i \in Registers!Reg
      PROVE  Registers!Mixed(i)
  <2> DEFINE f == Registers!FirstByte(i)
  <2>1. \A k \in 0 .. 5 : 6 * i + k \in Registers!Bits /\ ((6 * i + k) \div 8 = f \/ (6 * i + k) \div 8 = f + 1)
    BY <1>1, PlacesOfRegister
  <2>2. regPc[Holder] = "copy"
    <3>1. CASE copied = <<>>
      <4>1. \A p : p \notin DOMAIN copied
        BY <3>1
      <4>2. QED
        BY <1>4, <2>1, <4>1
    <3>2. QED
      BY <1>1, <3>1 DEF CopyHolds
  <2>3. f \in Nat
    BY <1>1, PlacesOfRegister DEF Registers!FirstByte
  <2>4. \A c \in {0, 1} : \E v \in during[i] : \A k \in 0 .. 5 :
          6 * i + k \in DOMAIN copied /\ (6 * i + k) \div 8 = f + c =>
            copied[6 * i + k] = Registers!BitOf(v, k)
    BY <1>1, <2>2 DEF CopyHolds
  <2> HIDE DEF f
  <2>5. PICK low \in during[i] : \A k \in 0 .. 5 :
          6 * i + k \in DOMAIN copied /\ (6 * i + k) \div 8 = f =>
            copied[6 * i + k] = Registers!BitOf(low, k)
    <3>1. 0 \in {0, 1} /\ f + 0 = f
      BY <2>3
    <3>2. QED
      BY <2>4, <3>1
  <2>6. PICK high \in during[i] : \A k \in 0 .. 5 :
          6 * i + k \in DOMAIN copied /\ (6 * i + k) \div 8 = f + 1 =>
            copied[6 * i + k] = Registers!BitOf(high, k)
    BY <2>4
  <2>7. \A k \in 0 .. 5 :
          copied[6 * i + k] = Registers!BitOf(IF (6 * i + k) \div 8 = f THEN low ELSE high, k)
    BY <1>4, <2>1, <2>5, <2>6
  <2>8. QED
    BY <2>7 DEF f, Registers!Mixed
<1>. QED
  BY <1>2, <1>3, <1>4

\* For any number of registers, locks and inserting goroutines: as long as no
\* two Sets work on a common byte, the packed bytes hold every register that no
\* Set is storing, the running sum and the zero counter are exact when no Set
\* is under way, and a copied register is put together from two ranks it had.
THEOREM RegistersFaithful == AnySpec => []Faithful
<1> DEFINE Inv == part = "registers" => (~overlapped => Packing)
<1> USE ComponentsAssumption DEF ComponentsAssumption
<1>1. AnyInit => Inv
  BY PackingInit DEF AnyInit
<1>2. Inv /\ [AnyNext]_anyVars => Inv'
  <2>1. SUFFICES ASSUME Inv, [AnyNext]_anyVars, part' = "registers", ~overlapped'
                 PROVE  Packing'
    OBVIOUS
  <2>2. part = "registers" /\ [Registers!Next]_Registers!vars
    BY <2>1, StepOfPart
  <2>3. ~overlapped => Packing
    BY <2>1, <2>2
  <2>4. QED
    BY <2>1, <2>2, <2>3, PackingStep
<1>3. Inv => Faithful
  BY PackingFaithful DEF Faithful
<1>. QED
  BY <1>1, <1>2, <1>3, PTL DEF AnySpec
==============================================================================
