------------------------------- MODULE Counting -------------------------------
(***************************************************************************)
(* What the proofs need of natural numbers, largest elements, sums over    *)
(* finite sets and powers of two.  The induction theorems of the library   *)
(* take an operator; here a least counterexample does their work.          *)
(***************************************************************************)
EXTENDS Integers, Functions, FiniteSetsExt, FiniteSetTheorems, TLAPS

\* Every set of natural numbers has a least one.
LEMMA LeastOf ==
  ASSUME NEW S \in SUBSET Nat, S # {}
  PROVE  \E x \in S : \A y \in S : x <= y
<1> DEFINE Below == {0 .. x : x \in S}
           Smaller == StrictSubsetOrdering(Nat)
<1>1. Below \subseteq FiniteSubsetsOf(Nat)
  <2>1. ASSUME NEW x \in S
        PROVE  0 .. x \in FiniteSubsetsOf(Nat)
    <3>1. IsFiniteSet(0 .. x)
      BY FS_Interval
    <3>2. 0 .. x \in SUBSET Nat
      OBVIOUS
    <3>3. QED
      BY <3>1, <3>2 DEF FiniteSubsetsOf
  <2>2. QED
    BY <2>1
<1>2. PICK B \in Below : \A C \in Below : <<C, B>> \notin Smaller
  <2>1. Below # {}
    OBVIOUS
  <2>2. IsWellFoundedOn(Smaller, FiniteSubsetsOf(Nat))
    BY FS_StrictSubsetOrderingWellFounded
  <2> HIDE DEF Below, Smaller
  <2>3. QED
    BY <1>1, <2>1, <2>2, WFMin
<1>3. PICK x \in S : B = 0 .. x
  OBVIOUS
<1>4. ASSUME NEW y \in S, y < x
      PROVE  FALSE
  <2>1. 0 .. y \in Below
    OBVIOUS
  <2>2. 0 .. y \in SUBSET Nat /\ 0 .. x \in SUBSET Nat
    OBVIOUS
  <2>3. 0 .. y \subseteq 0 .. x /\ 0 .. y # 0 .. x
    <3>1. x \in 0 .. x /\ x \notin 0 .. y
      BY <1>4
    <3>2. 0 .. y \subseteq 0 .. x
      BY <1>4
    <3>3. QED
      BY <3>1, <3>2
  <2>4. <<0 .. y, 0 .. x>> \in Smaller
    BY <2>2, <2>3 DEF StrictSubsetOrdering
  <2>5. QED
    BY <1>2, <1>3, <2>1, <2>4
<1>5. QED
  BY <1>4

\* A bounded set of natural numbers has a largest one, which Max finds.
LEMMA LargestOf ==
  ASSUME NEW n \in Nat, NEW S \in SUBSET (0 .. n), S # {}
  PROVE  Max(S) \in S /\ \A x \in S : x <= Max(S)
<1> DEFINE Gaps == {n - x : x \in S}
<1>1. Gaps \in SUBSET Nat /\ Gaps # {}
  <2>1. ASSUME NEW x \in S
        PROVE  n - x \in Nat
    <3>1. x \in 0 .. n
      OBVIOUS
    <3>2. QED
      BY <3>1
  <2>2. Gaps \subseteq Nat
    BY <2>1
  <2>3. QED
    BY <2>2
<1>2. PICK g \in Gaps : \A y \in Gaps : g <= y
  BY <1>1, LeastOf
<1>3. PICK m \in S : g = n - m
  OBVIOUS
<1>4. \A x \in S : m >= x
  BY <1>2, <1>3
<1>5. QED
  BY <1>3, <1>4 DEF Max

\* Induction, for a set that is given.
LEMMA Induction ==
  ASSUME NEW S \in SUBSET Nat, 0 \in S, \A n \in S : n + 1 \in S
  PROVE  S = Nat
<1> SUFFICES ASSUME Nat \ S # {} PROVE FALSE
  OBVIOUS
<1>1. PICK n \in Nat \ S : \A m \in Nat \ S : n <= m
  BY LeastOf
<1>2. n # 0 /\ n - 1 \in Nat
  BY <1>1
<1>3. n - 1 \in S
  BY <1>1, <1>2
<1>4. (n - 1) + 1 = n
  BY <1>1
<1>. QED
  BY <1>1, <1>3, <1>4

------------------------------------------------------------------------------
(* Sums *)

Chosen(s) == CHOOSE x \in s : TRUE

\* g is the sum of f over every set in D.
SumsUp(g, D, f) ==
  g = [s \in D |-> IF s = {} THEN 0 ELSE f[Chosen(s)] + g[s \ {Chosen(s)}]]

UpTo(S, n) == {s \in SUBSET S : Cardinality(s) <= n}

LEMMA SmallerWithout ==
  ASSUME NEW S, IsFiniteSet(S), NEW n \in Nat, NEW s \in UpTo(S, n), s # {}
  PROVE  /\ Chosen(s) \in s
         /\ s \ {Chosen(s)} \in UpTo(S, n)
         /\ Cardinality(s) \in Nat /\ Cardinality(s) >= 1
         /\ Cardinality(s \ {Chosen(s)}) = Cardinality(s) - 1
         /\ n # 0 => s \ {Chosen(s)} \in UpTo(S, n - 1)
<1>1. s \in SUBSET S /\ Cardinality(s) <= n
  BY DEF UpTo
<1>2. IsFiniteSet(s)
  BY <1>1, FS_Subset
<1>3. Chosen(s) \in s
  BY DEF Chosen
<1>4. Cardinality(s) \in Nat /\ Cardinality(s) # 0
  BY <1>2, FS_CardinalityType, FS_EmptySet
<1>5. Cardinality(s \ {Chosen(s)}) = Cardinality(s) - 1
  BY <1>2, <1>3, FS_RemoveElement
<1>6. QED
  BY <1>1, <1>3, <1>4, <1>5 DEF UpTo

LEMMA SumsExist ==
  ASSUME NEW S, IsFiniteSet(S), NEW f \in [S -> Nat]
  PROVE  \E g \in [SUBSET S -> Nat] : SumsUp(g, SUBSET S, f)
<1> DEFINE Good(n) == \E g \in [UpTo(S, n) -> Nat] : SumsUp(g, UpTo(S, n), f)
           Bad == {n \in Nat : ~Good(n)}
<1>1. Good(0)
  <2>1. \A s \in UpTo(S, 0) : s = {}
    <3>1. ASSUME NEW s \in UpTo(S, 0), s # {}
          PROVE  FALSE
      <4>1. Cardinality(s) <= 0
        BY DEF UpTo
      <4>2. Cardinality(s) \in Nat /\ Cardinality(s) >= 1
        BY <3>1, SmallerWithout
      <4>3. QED
        BY <4>1, <4>2
    <3>2. QED
      BY <3>1
  <2> DEFINE g == [s \in UpTo(S, 0) |-> 0]
  <2>2. g \in [UpTo(S, 0) -> Nat]
    OBVIOUS
  <2>3. SumsUp(g, UpTo(S, 0), f)
    BY <2>1 DEF SumsUp
  <2>4. QED
    BY <2>2, <2>3
<1>2. ASSUME NEW n \in Nat, Good(n)
      PROVE  Good(n + 1)
  <2>1. PICK g \in [UpTo(S, n) -> Nat] : SumsUp(g, UpTo(S, n), f)
    BY <1>2
  <2> DEFINE D == UpTo(S, n + 1)
             h == [s \in D |-> IF s = {} THEN 0 ELSE f[Chosen(s)] + g[s \ {Chosen(s)}]]
  <2>2. ASSUME NEW s \in D, s # {}
        PROVE  /\ s \ {Chosen(s)} \in UpTo(S, n)
               /\ s \ {Chosen(s)} \in D
               /\ Chosen(s) \in S
    <3>1. s \in UpTo(S, n + 1) /\ n + 1 \in Nat /\ n + 1 # 0 /\ (n + 1) - 1 = n
      OBVIOUS
    <3>2. s \ {Chosen(s)} \in UpTo(S, n) /\ s \ {Chosen(s)} \in D /\ Chosen(s) \in s
      BY <2>2, <3>1, SmallerWithout
    <3>3. s \subseteq S
      BY DEF UpTo
    <3>4. QED
      BY <3>2, <3>3
  <2>3. h \in [D -> Nat]
    <3>1. ASSUME NEW s \in D
          PROVE  (IF s = {} THEN 0 ELSE f[Chosen(s)] + g[s \ {Chosen(s)}]) \in Nat
      BY <2>2
    <3>2. QED
      BY <3>1
  <2>4. ASSUME NEW s \in D, s \in UpTo(S, n)
        PROVE  h[s] = g[s]
    BY <2>1, <2>4 DEF SumsUp
  <2>5. ASSUME NEW s \in D
        PROVE  h[s] = IF s = {} THEN 0 ELSE f[Chosen(s)] + h[s \ {Chosen(s)}]
    <3>1. CASE s = {}
      BY <3>1
    <3>2. CASE s # {}
      <4>1. h[s \ {Chosen(s)}] = g[s \ {Chosen(s)}]
        BY <2>2, <2>4, <3>2
      <4>2. QED
        BY <3>2, <4>1
    <3>3. QED
      BY <3>1, <3>2
  <2>6. SumsUp(h, D, f)
    <3>1. h = [s \in D |-> h[s]]
      OBVIOUS
    <3> HIDE DEF h
    <3>2. QED
      BY <2>5, <3>1 DEF SumsUp
  <2>7. QED
    BY <2>3, <2>6
<1>3. Bad = {}
  <2> SUFFICES ASSUME Bad # {} PROVE FALSE
    OBVIOUS
  <2>1. PICK n \in Bad : \A m \in Bad : n <= m
    <3>1. Bad \in SUBSET Nat
      OBVIOUS
    <3> HIDE DEF Bad
    <3>2. QED
      BY <3>1, LeastOf
  <2>2. n \in Nat /\ n # 0
    BY <1>1
  <2>3. n - 1 \in Nat /\ n - 1 \notin Bad
    BY <2>1, <2>2
  <2>4. Good(n - 1)
    BY <2>3
  <2>5. Good((n - 1) + 1)
    BY <1>2, <2>3, <2>4
  <2>6. (n - 1) + 1 = n
    BY <2>2
  <2>7. QED
    BY <2>5, <2>6
<1>4. Cardinality(S) \in Nat
  BY FS_CardinalityType
<1>5. UpTo(S, Cardinality(S)) = SUBSET S
  BY FS_Subset DEF UpTo
<1>6. Good(Cardinality(S))
  BY <1>3, <1>4
<1>7. QED
  BY <1>5, <1>6

\* An induction over the subsets of a finite set.
LEMMA SubsetInduction ==
  ASSUME NEW S, IsFiniteSet(S), NEW Right \in SUBSET SUBSET S, {} \in Right,
         \A s \in SUBSET S : s # {} /\ s \ {Chosen(s)} \in Right => s \in Right
  PROVE  Right = SUBSET S
<1> DEFINE Sizes == {Cardinality(s) : s \in (SUBSET S) \ Right}
<1> SUFFICES ASSUME (SUBSET S) \ Right # {} PROVE FALSE
  OBVIOUS
<1>1. \A s \in SUBSET S : IsFiniteSet(s) /\ Cardinality(s) \in Nat
  BY FS_Subset, FS_CardinalityType
<1>2. Sizes \in SUBSET Nat /\ Sizes # {}
  BY <1>1
<1>3. PICK n \in Sizes : \A m \in Sizes : n <= m
  <2> HIDE DEF Sizes
  <2>1. QED
    BY <1>2, LeastOf
<1>4. PICK s \in (SUBSET S) \ Right : Cardinality(s) = n
  OBVIOUS
<1>5. s # {} /\ s \in UpTo(S, n) /\ n \in Nat
  <2>1. n \in Nat /\ Cardinality(s) <= n
    BY <1>1, <1>4
  <2>2. QED
    BY <1>4, <2>1 DEF UpTo
<1>6. Cardinality(s \ {Chosen(s)}) = n - 1 /\ n >= 1
  BY <1>4, <1>5, SmallerWithout
<1>7. s \ {Chosen(s)} \in SUBSET S
  OBVIOUS
<1>8. s \ {Chosen(s)} \in Right
  BY <1>3, <1>5, <1>6, <1>7
<1>9. QED
  BY <1>4, <1>5, <1>8

LEMMA SumsUnique ==
  ASSUME NEW S, IsFiniteSet(S), NEW f, NEW g, NEW h,
         SumsUp(g, SUBSET S, f), SumsUp(h, SUBSET S, f)
  PROVE  g = h
<1> DEFINE Same == {s \in SUBSET S : g[s] = h[s]}
<1>1. /\ g = [s \in SUBSET S |-> g[s]] /\ h = [s \in SUBSET S |-> h[s]]
      /\ \A s \in SUBSET S :
           /\ g[s] = IF s = {} THEN 0 ELSE f[Chosen(s)] + g[s \ {Chosen(s)}]
           /\ h[s] = IF s = {} THEN 0 ELSE f[Chosen(s)] + h[s \ {Chosen(s)}]
  BY DEF SumsUp
<1>2. {} \in Same
  BY <1>1
<1>3. \A s \in SUBSET S : s # {} /\ s \ {Chosen(s)} \in Same => s \in Same
  BY <1>1
<1>4. Same \in SUBSET SUBSET S
  OBVIOUS
<1>5. Same = SUBSET S
  <2> HIDE DEF Same
  <2>1. QED
    BY <1>2, <1>3, <1>4, SubsetInduction
<1>6. \A s \in SUBSET S : g[s] = h[s]
  BY <1>5
<1>7. QED
  BY <1>1, <1>6

\* SumFunctionOnSet, unfolded.
LEMMA SumFunctionUnfolds ==
  ASSUME NEW D, NEW S \in SUBSET D, IsFiniteSet(S), NEW f \in [D -> Nat]
  PROVE  \E g \in [SUBSET S -> Nat] : SumsUp(g, SUBSET S, f) /\ g[S] = SumFunctionOnSet(f, S)
<1> DEFINE r == [x \in S |-> f[x]]
           It == CHOOSE g : SumsUp(g, SUBSET S, f)
<1>1. PICK g \in [SUBSET S -> Nat] : SumsUp(g, SUBSET S, r)
  <2>1. r \in [S -> Nat]
    OBVIOUS
  <2> HIDE DEF r
  <2>2. QED
    BY <2>1, SumsExist
<1>2. SumsUp(g, SUBSET S, f)
  <2>1. \A s \in SUBSET S : s # {} => Chosen(s) \in S
    BY DEF Chosen
  <2>2. \A s \in SUBSET S : s # {} => r[Chosen(s)] = f[Chosen(s)]
    BY <2>1
  <2> HIDE DEF r
  <2>3. g = [s \in SUBSET S |-> IF s = {} THEN 0 ELSE r[Chosen(s)] + g[s \ {Chosen(s)}]]
    BY <1>1 DEF SumsUp
  <2>4. [s \in SUBSET S |-> IF s = {} THEN 0 ELSE r[Chosen(s)] + g[s \ {Chosen(s)}]]
          = [s \in SUBSET S |-> IF s = {} THEN 0 ELSE f[Chosen(s)] + g[s \ {Chosen(s)}]]
    BY <2>2
  <2>5. QED
    BY <2>3, <2>4 DEF SumsUp
<1>3. SumsUp(It, SUBSET S, f)
  BY <1>2
<1>4. It = g
  <2> HIDE DEF It
  <2>1. QED
    BY <1>2, <1>3, SumsUnique
<1>5. SumFunctionOnSet(f, S) = It[S]
  BY DEF SumFunctionOnSet, FoldFunctionOnSet, MapThenFoldSet, SumsUp, Chosen
<1>6. QED
  BY <1>2, <1>4, <1>5

\* What a sum over a finite set is, and what one more for one of them does.
LEMMA SumFacts ==
  ASSUME NEW D, NEW S \in SUBSET D, IsFiniteSet(S), NEW f \in [D -> Nat]
  PROVE  /\ SumFunctionOnSet(f, S) \in Nat
         /\ \A a \in D : SumFunctionOnSet([f EXCEPT ![a] = @ + 1], S)
                           = SumFunctionOnSet(f, S) + (IF a \in S THEN 1 ELSE 0)
<1>1. PICK g \in [SUBSET S -> Nat] :
        SumsUp(g, SUBSET S, f) /\ g[S] = SumFunctionOnSet(f, S)
  BY SumFunctionUnfolds
<1>2. ASSUME NEW a \in D
      PROVE  SumFunctionOnSet([f EXCEPT ![a] = @ + 1], S) = g[S] + (IF a \in S THEN 1 ELSE 0)
  <2> DEFINE e == [f EXCEPT ![a] = @ + 1]
  <2>1. e \in [D -> Nat] /\ \A x \in D : e[x] = f[x] + (IF x = a THEN 1 ELSE 0)
    OBVIOUS
  <2> HIDE DEF e
  <2>2. PICK h \in [SUBSET S -> Nat] :
          SumsUp(h, SUBSET S, e) /\ h[S] = SumFunctionOnSet(e, S)
    BY <2>1, SumFunctionUnfolds
  <2> DEFINE Right == {s \in SUBSET S : h[s] = g[s] + (IF a \in s THEN 1 ELSE 0)}
  <2>3. /\ \A s \in SUBSET S : g[s] = IF s = {} THEN 0 ELSE f[Chosen(s)] + g[s \ {Chosen(s)}]
        /\ \A s \in SUBSET S : h[s] = IF s = {} THEN 0 ELSE e[Chosen(s)] + h[s \ {Chosen(s)}]
    BY <1>1, <2>2 DEF SumsUp
  <2>4. {} \in Right
    <3>1. g[{}] = 0 /\ h[{}] = 0
      BY <2>3
    <3>2. QED
      BY <3>1
  <2>5. ASSUME NEW s \in SUBSET S, s # {}, s \ {Chosen(s)} \in Right
        PROVE  s \in Right
    <3> DEFINE x == Chosen(s)
               t == s \ {x}
    <3>1. x \in s /\ x \in D /\ t \in SUBSET S
      BY <2>5 DEF Chosen
    <3>2. h[s] = e[x] + h[t] /\ g[s] = f[x] + g[t]
      BY <2>3, <2>5
    <3>3. h[t] = g[t] + (IF a \in t THEN 1 ELSE 0)
      BY <2>5
    <3>4. e[x] = f[x] + (IF x = a THEN 1 ELSE 0) /\ f[x] \in Nat /\ g[t] \in Nat
      BY <2>1, <3>1
    <3>5. a \in s <=> a \in t \/ x = a
      BY <3>1
    <3>6. ~(a \in t /\ x = a)
      OBVIOUS
    <3> HIDE DEF x, t
    <3>7. h[s] = g[s] + (IF a \in s THEN 1 ELSE 0)
      BY <3>2, <3>3, <3>4, <3>5, <3>6
    <3>8. QED
      BY <3>7
  <2>6. Right \in SUBSET SUBSET S
    OBVIOUS
  <2>7. Right = SUBSET S
    <3> HIDE DEF Right
    <3>1. QED
      BY <2>4, <2>5, <2>6, SubsetInduction
  <2>8. S \in Right
    BY <2>7
  <2>9. QED
    BY <2>2, <2>8 DEF e
<1>3. QED
  BY <1>1, <1>2

------------------------------------------------------------------------------
(* Products, powers of two, and the places of bits *)

LEMMA ProductsGrow ==
  ASSUME NEW x \in Int, NEW y \in Int, NEW z \in Nat, x <= y
  PROVE  x * z <= y * z /\ z * x <= z * y
OBVIOUS

Doubled(n) == 2^n \in Nat \ {0} /\ 2^(n + 1) = 2 * 2^n

\* The subsets of a set with one more member are twice as many.
LEMMA PowersDouble ==
  ASSUME NEW n \in Nat
  PROVE  Doubled(n)
<1> DEFINE S == 1 .. n
           T == 1 .. n + 1
           A == SUBSET S
           B == {s \cup {n + 1} : s \in A}
           f == [s \in A |-> s \cup {n + 1}]
<1>1. /\ IsFiniteSet(S) /\ Cardinality(S) = n
      /\ IsFiniteSet(T) /\ Cardinality(T) = n + 1
  BY FS_Interval
<1>2. /\ IsFiniteSet(A) /\ Cardinality(A) = 2^n
      /\ IsFiniteSet(SUBSET T) /\ Cardinality(SUBSET T) = 2^(n + 1)
  <2> HIDE DEF S, T
  <2>1. IsFiniteSet(A) /\ Cardinality(A) = 2^Cardinality(S)
    BY <1>1, FS_SUBSET
  <2>2. IsFiniteSet(SUBSET T) /\ Cardinality(SUBSET T) = 2^Cardinality(T)
    BY <1>1, FS_SUBSET
  <2>3. QED
    BY <1>1, <2>1, <2>2
<1>3. n + 1 \notin S /\ T = S \cup {n + 1}
  OBVIOUS
<1> HIDE DEF S, T
<1>4. IsFiniteSet(B) /\ Cardinality(B) = Cardinality(A)
  <2>1. f \in Bijection(A, B)
    <3>1. f \in [A -> B]
      OBVIOUS
    <3>2. \A s, r \in A : f[s] = f[r] => s = r
      <4>1. \A s \in A : n + 1 \notin s
        BY <1>3
      <4>2. \A s \in A : s = f[s] \ {n + 1}
        BY <4>1
      <4>3. QED
        BY <4>2
    <3>3. \A t \in B : \E s \in A : f[s] = t
      OBVIOUS
    <3>4. QED
      BY <3>1, <3>2, <3>3 DEF Bijection, Injection, Surjection, IsInjective
  <2> HIDE DEF f, A, B
  <2>2. ExistsBijection(A, B)
    BY <2>1 DEF ExistsBijection
  <2>3. QED
    BY <1>2, <2>2, FS_Bijection
<1>5. SUBSET T = A \cup B /\ A \cap B = {}
  <2>1. \A t \in SUBSET T : t \in A \/ t \in B
    <3> SUFFICES ASSUME NEW t \in SUBSET T, t \notin A
                 PROVE  t \in B
      OBVIOUS
    <3>1. n + 1 \in t
      BY <1>3
    <3>2. t \ {n + 1} \in A /\ t = (t \ {n + 1}) \cup {n + 1}
      BY <1>3, <3>1
    <3>3. QED
      BY <3>2
  <2>2. A \subseteq SUBSET T /\ B \subseteq SUBSET T
    BY <1>3
  <2>3. \A t \in A : t \notin B
    BY <1>3
  <2>4. QED
    BY <2>1, <2>2, <2>3
<1> HIDE DEF A, B
<1>6. Cardinality(A \cup B) = Cardinality(A) + Cardinality(B) - Cardinality(A \cap B)
  BY <1>2, <1>4, FS_Union
<1>7. Cardinality({}) = 0
  BY FS_EmptySet
<1>8. Cardinality(A) \in Nat /\ Cardinality(A) # 0
  <2>1. {} \in A
    BY DEF A
  <2>2. QED
    BY <1>2, <2>1, FS_CardinalityType, FS_EmptySet
<1> DEFINE p == 2^n
           q == 2^(n + 1)
<1>9. p = Cardinality(A) /\ q = Cardinality(SUBSET T)
  BY <1>2
<1> HIDE DEF p, q
<1>10. p \in Nat \ {0} /\ q = 2 * p
  <2>1. q = Cardinality(A \cup B) /\ Cardinality(A \cap B) = 0
    BY <1>5, <1>7, <1>9
  <2>2. q = p + p - 0
    BY <1>4, <1>6, <1>9, <2>1
  <2>3. p \in Nat \ {0}
    BY <1>8, <1>9
  <2>4. QED
    BY <2>2, <2>3
<1>. QED
  BY <1>10 DEF Doubled, p, q

LEMMA PowerOfZero == 2^0 = 1
<1>1. IsFiniteSet({}) /\ Cardinality({}) = 0 /\ SUBSET {} = {{}}
  BY FS_EmptySet
<1>2. Cardinality(SUBSET {}) = 2^Cardinality({})
  BY <1>1, FS_SUBSET
<1>3. Cardinality({{}}) = 1
  BY FS_Singleton
<1>. QED
  BY <1>1, <1>2, <1>3

\* The greatest power of two that matters here is the greatest.
PowersUpTo(n) == \A k \in 0 .. n : 2^k \in Nat \ {0} /\ 2^k <= 2^n

LEMMA PowersGrow ==
  ASSUME NEW n \in Nat
  PROVE  PowersUpTo(n)
<1> DEFINE Fine == {m \in Nat : PowersUpTo(m)}
<1>1. 0 \in Fine
  <2>1. \A k \in 0 .. 0 : k = 0
    OBVIOUS
  <2>2. 2^0 \in Nat \ {0} /\ 2^0 <= 2^0
    BY PowerOfZero
  <2>3. QED
    BY <2>1, <2>2 DEF PowersUpTo
<1>2. ASSUME NEW m \in Fine
      PROVE  m + 1 \in Fine
  <2> SUFFICES ASSUME NEW k \in 0 .. m + 1
               PROVE  2^k \in Nat \ {0} /\ 2^k <= 2^(m + 1)
    BY DEF PowersUpTo
  <2> DEFINE p == 2^m
             q == 2^(m + 1)
             r == 2^k
  <2>1. p \in Nat \ {0} /\ q = 2 * p
    BY PowersDouble DEF Doubled
  <2>2. CASE k = m + 1
    <3>1. r = q
      BY <2>2
    <3> HIDE DEF p, q, r
    <3>2. r \in Nat \ {0} /\ r <= q
      BY <2>1, <3>1
    <3>3. QED
      BY <3>2 DEF q, r
  <2>3. CASE k # m + 1
    <3>1. k \in 0 .. m
      BY <2>3
    <3>2. r \in Nat \ {0} /\ r <= p
      BY <3>1 DEF PowersUpTo
    <3> HIDE DEF p, q, r
    <3>3. r \in Nat \ {0} /\ r <= q
      BY <2>1, <3>2
    <3>4. QED
      BY <3>3 DEF q, r
  <2>4. QED
    BY <2>2, <2>3
<1>3. Fine \in SUBSET Nat
  OBVIOUS
<1>4. Fine = Nat
  <2> HIDE DEF Fine
  <2>1. QED
    BY <1>1, <1>2, <1>3, Induction
<1>. QED
  BY <1>4

LEMMA PowersAdd ==
  ASSUME NEW a \in Nat, NEW b \in Nat
  PROVE  2^(a + b) = 2^a * 2^b
<1> DEFINE Fine == {n \in Nat : 2^(a + n) = 2^a * 2^n}
<1>1. 0 \in Fine
  <2> DEFINE p == 2^a
  <2>1. p \in Nat \ {0}
    BY PowersDouble DEF Doubled
  <2>2. 2^(a + 0) = p
    <3>1. a + 0 = a
      OBVIOUS
    <3>2. QED
      BY <3>1
  <2> HIDE DEF p
  <2>3. 2^(a + 0) = p * 2^0
    BY <2>1, <2>2, PowerOfZero
  <2>4. QED
    BY <2>3 DEF p
<1>2. ASSUME NEW n \in Fine
      PROVE  n + 1 \in Fine
  <2> DEFINE p == 2^a
             q == 2^n
             r == 2^(a + n)
             s == 2^(n + 1)
             t == 2^((a + n) + 1)
  <2>1. n \in Nat /\ a + n \in Nat /\ a + (n + 1) = (a + n) + 1 /\ r = p * q
    OBVIOUS
  <2>2. p \in Nat \ {0}
    BY PowersDouble DEF Doubled
  <2>3. q \in Nat \ {0} /\ s = 2 * q
    BY <2>1, PowersDouble DEF Doubled
  <2>4. t = 2 * r
    BY <2>1, PowersDouble DEF Doubled
  <2>5. 2^(a + (n + 1)) = t
    BY <2>1
  <2> HIDE DEF p, q, r, s, t
  <2>6. t = p * s
    BY <2>1, <2>2, <2>3, <2>4
  <2>7. n + 1 \in Nat
    BY <2>1
  <2>8. QED
    BY <2>5, <2>6, <2>7 DEF p, s
<1>3. Fine \in SUBSET Nat
  OBVIOUS
<1>4. Fine = Nat
  <2> HIDE DEF Fine
  <2>1. QED
    BY <1>1, <1>2, <1>3, Induction
<1>. QED
  BY <1>4

LEMMA RemainderIs ==
  ASSUME NEW x \in Nat, NEW p \in Nat \ {0}
  PROVE  /\ x % p \in 0 .. p - 1 /\ x \div p \in Nat
         /\ x = (x \div p) * p + (x % p)
OBVIOUS

LEMMA DividedOnce ==
  ASSUME NEW k \in Nat, NEW p \in Nat \ {0}, NEW t \in 0 .. p - 1, NEW x \in Nat, x = k * p + t
  PROVE  x \div p = k /\ x % p = t
<1> DEFINE q == x \div p
           u == x % p
<1>1. u \in 0 .. p - 1 /\ q \in Nat /\ x = q * p + u
  BY RemainderIs
<1> HIDE DEF q, u
<1>2. q = k
  <2>1. k <= q
    <3> SUFFICES ASSUME q + 1 <= k PROVE FALSE
      BY <1>1
    <3>1. (q + 1) * p <= k * p /\ (q + 1) * p = q * p + p /\ q * p \in Nat /\ k * p \in Nat
      BY <1>1, ProductsGrow
    <3>2. QED
      BY <1>1, <3>1
  <2>2. q <= k
    <3> SUFFICES ASSUME k + 1 <= q PROVE FALSE
      BY <1>1
    <3>1. (k + 1) * p <= q * p /\ (k + 1) * p = k * p + p /\ q * p \in Nat /\ k * p \in Nat
      BY <1>1, ProductsGrow
    <3>2. QED
      BY <1>1, <3>1
  <2>3. QED
    BY <1>1, <2>1, <2>2
<1>3. u = t
  <2>1. k * p \in Nat
    OBVIOUS
  <2>2. QED
    BY <1>1, <1>2, <2>1
<1>. QED
  BY <1>2, <1>3 DEF q, u

\* The first one of len bits is at r.
TopAt(x, r, len) == r \in 1 .. len /\ 2^(len - r) <= x /\ x < 2 * 2^(len - r)

LEMMA TopExists ==
  ASSUME NEW l \in Nat
  PROVE  \A x \in 1 .. 2^l - 1 : \E r : TopAt(x, r, l)
<1> DEFINE Fine == {n \in Nat : \A x \in 1 .. 2^n - 1 : \E r : TopAt(x, r, n)}
<1>1. 0 \in Fine
  <2>1. 1 .. 2^0 - 1 = {}
    <3>1. 1 .. 1 - 1 = {}
      OBVIOUS
    <3>2. QED
      BY <3>1, PowerOfZero
  <2>2. QED
    BY <2>1
<1>2. ASSUME NEW n \in Fine
      PROVE  n + 1 \in Fine
  <2> SUFFICES ASSUME NEW x \in 1 .. 2^(n + 1) - 1
               PROVE  \E r : TopAt(x, r, n + 1)
    OBVIOUS
  <2> DEFINE p == 2^n
             q == 2^(n + 1)
  <2>1. p \in Nat \ {0} /\ q = 2 * p /\ n \in Nat
    BY PowersDouble DEF Doubled
  <2>2. x \in 1 .. q - 1 /\ \A y \in 1 .. p - 1 : \E r : TopAt(y, r, n)
    OBVIOUS
  <2>3. CASE x >= p
    <3>1. (n + 1) - 1 = n /\ 1 \in 1 .. n + 1
      BY <2>1
    <3> HIDE DEF q
    <3>2. p <= x /\ x < 2 * p
      BY <2>1, <2>2, <2>3
    <3>3. TopAt(x, 1, n + 1)
      BY <3>1, <3>2 DEF TopAt
    <3>4. QED
      BY <3>3
  <2>4. CASE ~(x >= p)
    <3>1. x \in 1 .. p - 1
      <4> HIDE DEF p, q
      <4>1. QED
        BY <2>1, <2>2, <2>4
    <3>2. PICK r : TopAt(x, r, n)
      BY <2>2, <3>1
    <3>3. r \in 1 .. n
      BY <3>2 DEF TopAt
    <3>4. (n + 1) - (r + 1) = n - r /\ r + 1 \in 1 .. n + 1
      BY <2>1, <3>3
    <3>5. TopAt(x, r + 1, n + 1)
      BY <3>2, <3>4 DEF TopAt
    <3>6. QED
      BY <3>5
  <2>5. QED
    BY <2>3, <2>4
<1>3. Fine \in SUBSET Nat
  OBVIOUS
<1>4. Fine = Nat
  <2> HIDE DEF Fine
  <2>1. QED
    BY <1>1, <1>2, <1>3, Induction
<1>. QED
  BY <1>4

LEMMA TopBefore ==
  ASSUME NEW l \in Nat, NEW x \in Nat, NEW r, NEW s, TopAt(x, r, l), TopAt(x, s, l)
  PROVE  ~(r < s)
<1> SUFFICES ASSUME r < s PROVE FALSE
  OBVIOUS
<1> DEFINE p == 2^(l - r)
           q == 2^(l - s)
           k == l - s + 1
<1>1. l - r \in Nat /\ l - s \in Nat /\ k \in 0 .. l - r /\ k = (l - s) + 1
  BY DEF TopAt
<1>2. 2^k <= p /\ p \in Nat
  <2> HIDE DEF k
  <2>1. QED
    BY <1>1, PowersGrow DEF PowersUpTo
<1>3. q \in Nat /\ 2^k = 2 * q
  BY <1>1, PowersDouble DEF Doubled
<1>4. p <= x /\ x < 2 * q
  BY DEF TopAt
<1> HIDE DEF p, q
<1>. QED
  BY <1>2, <1>3, <1>4

LEMMA TopUnique ==
  ASSUME NEW l \in Nat, NEW x \in Nat, NEW r, NEW s, TopAt(x, r, l), TopAt(x, s, l)
  PROVE  r = s
<1>1. ~(r < s) /\ ~(s < r)
  BY TopBefore
<1>2. r \in Nat /\ s \in Nat
  BY DEF TopAt
<1>. QED
  BY <1>1, <1>2

LEMMA OneIn ==
  ASSUME NEW x \in Nat, NEW p \in Nat \ {0}
  PROVE  x \div p = 1 <=> p <= x /\ x < 2 * p
<1> DEFINE q == x \div p
           u == x % p
<1>1. u \in 0 .. p - 1 /\ q \in Nat /\ x = q * p + u
  BY RemainderIs
<1>2. q = 1 => p <= x /\ x < 2 * p
  <2> HIDE DEF q, u
  <2>1. QED
    BY <1>1
<1>3. ASSUME p <= x, x < 2 * p
      PROVE  q = 1
  <2> DEFINE t == x - p
  <2>1. t \in 0 .. p - 1 /\ x = 1 * p + t
    BY <1>3
  <2> HIDE DEF t
  <2>2. QED
    BY <2>1, DividedOnce
<1>. QED
  BY <1>2, <1>3

\* The parts of a hash: register number k, the bits t of the index beside it, the rest z.
Split(x, a, b, k, t, z) ==
  /\ k \in Nat /\ t \in 0 .. b - 1 /\ z \in 0 .. a - 1
  /\ x \div a = k * b + t /\ x % a = z
  /\ (x \div a) \div b = k /\ (x \div a) % b = t
  /\ x \div (a * b) = k /\ x % (a * b) = t * a + z

LEMMA SplitExists ==
  ASSUME NEW x \in Nat, NEW a \in Nat \ {0}, NEW b \in Nat \ {0}
  PROVE  \E k, t, z : Split(x, a, b, k, t, z)
<1> DEFINE i == x \div a
           z == x % a
           k == i \div b
           t == i % b
<1>1. i \in Nat /\ z \in 0 .. a - 1 /\ x = i * a + z
  BY RemainderIs
<1> HIDE DEF i, z
<1>2. k \in Nat /\ t \in 0 .. b - 1 /\ i = k * b + t
  BY <1>1, RemainderIs
<1> HIDE DEF k, t
<1> DEFINE y == t * a + z
           ab == a * b
<1>3. x = k * ab + y
  <2>1. (k * b + t) * a = k * (a * b) + t * a
    BY <1>2
  <2>2. k * (a * b) \in Nat /\ t * a \in Nat /\ z \in Nat
    BY <1>1, <1>2
  <2>3. QED
    BY <1>1, <1>2, <2>1, <2>2
<1>4. y \in 0 .. ab - 1 /\ ab \in Nat \ {0}
  <2>1. t + 1 <= b /\ t \in Nat
    BY <1>2
  <2>2. (t + 1) * a <= b * a
    BY <2>1, ProductsGrow
  <2>3. (t + 1) * a = t * a + a /\ b * a = a * b /\ t * a \in Nat /\ a * b \in Nat /\ a * b # 0
    BY <2>1
  <2>4. QED
    BY <1>1, <2>2, <2>3
<1> HIDE DEF y, ab
<1>5. x \div ab = k /\ x % ab = y
  BY <1>2, <1>3, <1>4, DividedOnce
<1>6. Split(x, a, b, k, t, z)
  BY <1>1, <1>2, <1>5 DEF Split, y, ab, k, t, i, z
<1>. QED
  BY <1>6

\* A first one among the higher bits stays the first one with lower bits added.
LEMMA TopAbove ==
  ASSUME NEW l \in Nat, NEW q \in Nat, NEW t \in Nat, NEW z \in 0 .. 2^l - 1, NEW r,
         TopAt(t, r, q)
  PROVE  TopAt(t * 2^l + z, r, l + q)
<1> DEFINE a == 2^l
           p == 2^(q - r)
           s == 2^(l + q - r)
<1>1. r \in 1 .. q /\ q - r \in Nat /\ l + q - r = l + (q - r) /\ r \in 1 .. l + q
  BY DEF TopAt
<1>2. s = a * p
  BY <1>1, PowersAdd
<1>3. a \in Nat \ {0} /\ p \in Nat \ {0}
  BY <1>1, PowersDouble DEF Doubled
<1>4. p <= t /\ t < 2 * p /\ z \in 0 .. a - 1
  BY DEF TopAt
<1> HIDE DEF a, p
<1>5. a * p <= t * a + z
  <2>1. p * a <= t * a
    BY <1>3, <1>4, ProductsGrow
  <2>2. p * a = a * p /\ t * a \in Nat /\ a * p \in Nat /\ z \in Nat
    BY <1>3, <1>4
  <2>3. QED
    BY <2>1, <2>2
<1>6. t * a + z < 2 * (a * p)
  <2>1. t + 1 \in Int /\ 2 * p \in Int /\ t + 1 <= 2 * p
    BY <1>3, <1>4
  <2>2. (t + 1) * a <= (2 * p) * a
    BY <1>3, <2>1, ProductsGrow
  <2>3. (t + 1) * a = t * a + a /\ (2 * p) * a = 2 * (a * p) /\ t * a \in Nat /\ a * p \in Nat
    BY <1>3
  <2>4. QED
    BY <1>3, <1>4, <2>2, <2>3
<1> HIDE DEF s
<1>7. s <= t * a + z /\ t * a + z < 2 * s
  BY <1>2, <1>5, <1>6
<1>. QED
  BY <1>1, <1>7 DEF TopAt, a, s

LEMMA TopBelow ==
  ASSUME NEW l \in Nat, NEW q \in Nat, NEW z, NEW r, TopAt(z, r, l)
  PROVE  TopAt(z, r + q, l + q)
<1>1. r \in 1 .. l /\ (l + q) - (r + q) = l - r /\ r + q \in 1 .. l + q
  BY DEF TopAt
<1>. QED
  BY <1>1 DEF TopAt
==============================================================================
