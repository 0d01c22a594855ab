--------------------------- MODULE DataInduction ---------------------------
(***************************************************************************)
(* Induction without an operator parameter.  A property of the naturals is *)
(* the set of those that have it, and one of finite sets is brought back   *)
(* to their cardinalities.                                                 *)
(***************************************************************************)
EXTENDS Sums, FiniteSets, FiniteSetTheorems, WellFoundedInduction, TLAPS

\* A set of naturals that holds 0 and each successor is all of them.
LEMMA InductionBySet ==
    ASSUME NEW H, H \subseteq Nat, 0 \in H, \A n \in H : n + 1 \in H
    PROVE  H = Nat
<1> DEFINE R == OpToRel(<, Nat)
           T == Nat \ H
<1>1. SUFFICES ASSUME T # {} PROVE FALSE
  OBVIOUS
<1>2. IsWellFoundedOn(R, Nat)
  BY NatLessThanWellFounded
<1>3. \A x, y \in Nat : <<y, x>> \in R <=> y < x
  BY DEF OpToRel
<1>. HIDE DEF R
<1>4. PICK x \in T : \A y \in T : ~(<<y, x>> \in R)
  BY <1>1, <1>2, WFMin
<1>5. x # 0 /\ x - 1 \in Nat
  OBVIOUS
<1>6. x - 1 \notin T
  <2>1. x \in Nat /\ x - 1 < x
    OBVIOUS
  <2>2. <<x - 1, x>> \in R
    BY <1>3, <1>5, <2>1
  <2>. QED  BY <1>4, <2>2
<1>. QED  BY <1>4, <1>5, <1>6

\* A set of sets that holds {}, and with each set one that is an element
\* larger, holds the whole.
LEMMA GrowsToAll ==
    ASSUME NEW S, IsFiniteSet(S), NEW H, H \subseteq SUBSET S, {} \in H,
           \A U \in H : U # S => \E x \in S \ U : U \cup {x} \in H
    PROVE  S \in H
<1> DEFINE K == {n \in Nat : n <= Cardinality(S) => \E U \in H : Cardinality(U) = n}
<1>1. \A U \in H : IsFiniteSet(U) /\ Cardinality(U) \in Nat /\ Cardinality(U) <= Cardinality(S)
                   /\ (Cardinality(U) = Cardinality(S) => U = S)
  BY FS_Subset, FS_CardinalityType
<1>2. 0 \in K
  BY FS_EmptySet
<1>3. ASSUME NEW n \in K PROVE n + 1 \in K
  <2>1. SUFFICES ASSUME n + 1 <= Cardinality(S) PROVE \E U \in H : Cardinality(U) = n + 1
    OBVIOUS
  <2>2. n \in Nat /\ Cardinality(S) \in Nat
    BY FS_CardinalityType
  <2>3. PICK U \in H : Cardinality(U) = n
    BY <2>1, <2>2
  <2>4. U # S
    BY <2>1, <2>2, <2>3
  <2>5. PICK x \in S \ U : U \cup {x} \in H
    BY <2>4
  <2>6. Cardinality(U \cup {x}) = n + 1
    BY <1>1, <2>3, <2>5, FS_AddElement
  <2>. QED  BY <2>5, <2>6
<1>4. K \subseteq Nat
  OBVIOUS
<1>. HIDE DEF K
<1>5. K = Nat
  BY <1>2, <1>3, <1>4, InductionBySet
<1>6. PICK U \in H : Cardinality(U) = Cardinality(S)
  BY <1>5, FS_CardinalityType DEF K
<1>. QED  BY <1>1, <1>6

LEMMA InductionOnSet ==
    ASSUME NEW S, IsFiniteSet(S), NEW H, H \subseteq SUBSET S, {} \in H,
           \A U \in H : \A x \in S \ U : U \cup {x} \in H
    PROVE  S \in H
<1>1. ASSUME NEW U \in H, U # S PROVE \E x \in S \ U : U \cup {x} \in H
  <2>1. PICK x \in S \ U : TRUE
    BY <1>1
  <2>. QED  BY <2>1
<1>. QED  BY <1>1, GrowsToAll
-----------------------------------------------------------------------------
(***************************************************************************)
(* Orders.  R is a strict total order on S; it is given as a set of pairs. *)
(***************************************************************************)
Orders(R, S) ==
    /\ \A x \in S : <<x, x>> \notin R
    /\ \A x, y, z \in S : <<x, y>> \in R /\ <<y, z>> \in R => <<x, z>> \in R
    /\ \A x, y \in S : x = y \/ <<x, y>> \in R \/ <<y, x>> \in R

IsLast(m, R, S) == m \in S /\ \A x \in S \ {m} : <<x, m>> \in R

\* A finite set that is not empty has a last element.
LEMMA LastExists ==
    ASSUME NEW S, IsFiniteSet(S), S # {}, NEW R, Orders(R, S)
    PROVE  \E m \in S : IsLast(m, R, S)
<1> DEFINE OfSize(n) == {U \in SUBSET S : Cardinality(U) = n + 1}
           H == {n \in Nat : \A U \in OfSize(n) : \E m \in U : IsLast(m, R, U)}
<1>1. 0 \in H
  <2>1. ASSUME NEW U \in OfSize(0) PROVE \E m \in U : IsLast(m, R, U)
    <3>1. PICK x : U = {x}
      <4>1. IsFiniteSet(U) /\ Cardinality(U) = 1
        BY FS_Subset
      <4>. QED  BY <4>1, FS_Singleton
    <3>. QED  BY <3>1 DEF IsLast
  <2>. QED  BY <2>1
<1>2. ASSUME NEW n \in H PROVE n + 1 \in H
  <2>1. ASSUME NEW U \in OfSize(n + 1) PROVE \E m \in U : IsLast(m, R, U)
    <3>1. IsFiniteSet(U) /\ Cardinality(U) = n + 2 /\ n \in Nat
      BY FS_Subset
    <3>2. PICK x \in U : TRUE
      BY <3>1, FS_EmptySet
    <3>3. U \ {x} \in OfSize(n)
      <4>1. Cardinality(U \ {x}) = Cardinality(U) - 1
        BY <3>1, <3>2, FS_RemoveElement
      <4>. QED  BY <3>1, <4>1
    <3>4. PICK m \in U \ {x} : IsLast(m, R, U \ {x})
      BY <3>3
    <3>5. x \in S /\ m \in S /\ x # m /\ U \subseteq S
      BY <3>2, <3>4
    <3>6. CASE <<x, m>> \in R
      BY <3>4, <3>6 DEF IsLast
    <3>7. CASE <<m, x>> \in R
      <4>1. \A y \in U \ {x} : y = m \/ <<y, m>> \in R
        BY <3>4 DEF IsLast
      <4>2. IsLast(x, R, U)
        BY <3>5, <3>7, <4>1 DEF IsLast, Orders
      <4>. QED  BY <4>2
    <3>. QED  BY <3>5, <3>6, <3>7 DEF Orders
  <2>2. n + 1 \in Nat
    OBVIOUS
  <2>. QED  BY <2>1, <2>2
<1>. HIDE DEF OfSize
<1>3. H = Nat
  <2>1. H \subseteq Nat
    OBVIOUS
  <2>. HIDE DEF H
  <2>. QED  BY <1>1, <1>2, <2>1, InductionBySet
<1>4. Cardinality(S) \in Nat /\ Cardinality(S) # 0
  BY FS_CardinalityType, FS_EmptySet
<1>5. Cardinality(S) - 1 \in H /\ S \in OfSize(Cardinality(S) - 1)
  BY <1>3, <1>4 DEF OfSize
<1>. QED  BY <1>5

Sorted(list, R, S) ==
    /\ list \in [1 .. Cardinality(S) -> S]
    /\ \A m, n \in 1 .. Cardinality(S) : m < n => <<list[m], list[n]>> \in R

\* A finite set can be listed in order.
LEMMA SortedExists ==
    ASSUME NEW S, IsFiniteSet(S), NEW R, Orders(R, S)
    PROVE  \E list : Sorted(list, R, S)
<1> DEFINE OfSize(n) == {U \in SUBSET S : Cardinality(U) = n}
           H == {n \in Nat : \A U \in OfSize(n) : \E list : Sorted(list, R, U)}
<1>1. 0 \in H
  <2>1. ASSUME NEW U \in OfSize(0) PROVE \E list : Sorted(list, R, U)
    <3>1. Cardinality(U) = 0
      OBVIOUS
    <3>2. [i \in 1 .. 0 |-> i] \in [1 .. Cardinality(U) -> U]
      BY <3>1
    <3>3. Sorted([i \in 1 .. 0 |-> i], R, U)
      BY <3>1, <3>2 DEF Sorted
    <3>. QED  BY <3>3
  <2>. QED  BY <2>1
<1>2. ASSUME NEW n \in H PROVE n + 1 \in H
  <2>1. ASSUME NEW U \in OfSize(n + 1) PROVE \E list : Sorted(list, R, U)
    <3>1. IsFiniteSet(U) /\ Cardinality(U) = n + 1 /\ n \in Nat /\ U \subseteq S
      BY FS_Subset
    <3>2. U # {} /\ Orders(R, U)
      BY <3>1, FS_EmptySet DEF Orders
    <3>3. PICK m \in U : IsLast(m, R, U)
      BY <3>1, <3>2, LastExists
    <3>4. U \ {m} \in OfSize(n) /\ Cardinality(U \ {m}) = n
      <4>1. Cardinality(U \ {m}) = Cardinality(U) - 1
        BY <3>1, <3>3, FS_RemoveElement
      <4>. QED  BY <3>1, <4>1
    <3>5. PICK list : Sorted(list, R, U \ {m})
      BY <3>4
    <3>. DEFINE longer == [i \in 1 .. n + 1 |-> IF i <= n THEN list[i] ELSE m]
    <3>6. \A i \in 1 .. n : list[i] \in U \ {m}
      BY <3>4, <3>5 DEF Sorted
    <3>7. longer \in [1 .. n + 1 -> U]
      BY <3>1, <3>6
    <3>8. ASSUME NEW i \in 1 .. n + 1, NEW j \in 1 .. n + 1, i < j
          PROVE  <<longer[i], longer[j]>> \in R
      <4>1. CASE j <= n
        <5>1. \A k, l \in 1 .. n : k < l => <<list[k], list[l]>> \in R
          BY <3>4, <3>5 DEF Sorted
        <5>2. i \in 1 .. n /\ j \in 1 .. n /\ longer[i] = list[i] /\ longer[j] = list[j]
          BY <3>1, <3>8, <4>1
        <5>. QED  BY <3>8, <5>1, <5>2
      <4>2. CASE j = n + 1
        BY <3>1, <3>3, <3>6, <3>8, <4>2 DEF IsLast
      <4>. QED  BY <3>1, <4>1, <4>2
    <3>9. Sorted(longer, R, U)
      BY <3>1, <3>7, <3>8 DEF Sorted
    <3>. QED  BY <3>9
  <2>2. n + 1 \in Nat
    OBVIOUS
  <2>. QED  BY <2>1, <2>2
<1>. HIDE DEF OfSize
<1>3. H = Nat
  <2>1. H \subseteq Nat
    OBVIOUS
  <2>. HIDE DEF H
  <2>. QED  BY <1>1, <1>2, <2>1, InductionBySet
<1>4. Cardinality(S) \in H /\ S \in OfSize(Cardinality(S))
  BY <1>3, FS_CardinalityType DEF OfSize
<1>. QED  BY <1>4

\* A sorted list of a set misses none of its elements.
LEMMA SortedCovers ==
    ASSUME NEW S, IsFiniteSet(S), NEW R, Orders(R, S), NEW list, Sorted(list, R, S),
           NEW x \in S
    PROVE  \E n \in 1 .. Cardinality(S) : list[n] = x
<1> DEFINE I == 1 .. Cardinality(S)
<1>1. Cardinality(S) \in Nat
  BY FS_CardinalityType
<1>2. IsFiniteSet(I) /\ Cardinality(I) = Cardinality(S)
  BY <1>1, FS_Interval
<1>3. ASSUME NEW m \in I, NEW n \in I, list[m] = list[n] PROVE m = n
  <2>1. ~(m < n) /\ ~(n < m)
    BY <1>3 DEF Sorted, Orders
  <2>. QED  BY <1>1, <2>1
<1>4. list \in Injection(I, S)
  BY <1>3 DEF Sorted, Injection, IsInjective
<1>5. list \in Surjection(I, S)
  BY <1>2, <1>4, FS_Injection
<1>. QED  BY <1>5 DEF Surjection

\* What a function gives on a finite set is finite.
LEMMA FiniteImage ==
    ASSUME NEW f, IsFiniteSet(DOMAIN f)
    PROVE  IsFiniteSet({f[x] : x \in DOMAIN f})
<1> DEFINE T == {f[x] : x \in DOMAIN f}
           g == [x \in DOMAIN f |-> f[x]]
<1>1. g \in Surjection(DOMAIN f, T)
  BY DEF Surjection
<1>. QED  BY <1>1, FS_Surjection

\* A finite set of numbers has a greatest one, and a least.
LEMMA GreatestExists ==
    ASSUME NEW S \in SUBSET Int, IsFiniteSet(S), S # {}
    PROVE  \E m \in S : \A x \in S : x <= m
<1> DEFINE R == {p \in Int \X Int : p[1] < p[2]}
<1>1. \A x, y \in Int : <<x, y>> \in R <=> x < y
  OBVIOUS
<1>. HIDE DEF R
<1>2. Orders(R, S)
  BY <1>1 DEF Orders
<1>3. PICK m \in S : IsLast(m, R, S)
  BY <1>2, LastExists
<1>4. \A x \in S : x = m \/ x < m
  BY <1>1, <1>3 DEF IsLast
<1>. QED  BY <1>3, <1>4

LEMMA LeastExists ==
    ASSUME NEW S \in SUBSET Int, IsFiniteSet(S), S # {}
    PROVE  \E m \in S : \A x \in S : m <= x
<1> DEFINE R == {p \in Int \X Int : p[1] > p[2]}
<1>1. \A x, y \in Int : <<x, y>> \in R <=> x > y
  OBVIOUS
<1>. HIDE DEF R
<1>2. Orders(R, S)
  BY <1>1 DEF Orders
<1>3. PICK m \in S : IsLast(m, R, S)
  BY <1>2, LastExists DEF IsLast
<1>4. \A x \in S : x = m \/ x > m
  BY <1>1, <1>3 DEF IsLast
<1>. QED  BY <1>3, <1>4
-----------------------------------------------------------------------------
(***************************************************************************)
(* Sums.  The recursion has one solution on the finite sets, and its value *)
(* does not depend on the order in which it takes the elements.            *)
(***************************************************************************)
Adds(g, f, U) ==
    \A T \in SUBSET U :
        g[T] = IF T = {} THEN 0
               ELSE LET x == CHOOSE y \in T : TRUE IN f[x] + g[T \ {x}]

Summing(g, f, U) == g = [T \in SUBSET U |-> g[T]] /\ Adds(g, f, U)

LEMMA AdderUnique ==
    ASSUME NEW U, IsFiniteSet(U), NEW f, NEW g, NEW h, NEW V, U \subseteq V,
           Adds(g, f, U), Adds(h, f, V)
    PROVE  \A T \in SUBSET U : g[T] = h[T]
<1> DEFINE OfSize(n) == {T \in SUBSET U : Cardinality(T) = n}
           H == {n \in Nat : \A T \in OfSize(n) : g[T] = h[T]}
<1>1. \A T \in SUBSET U : IsFiniteSet(T) /\ Cardinality(T) \in Nat
  BY FS_Subset, FS_CardinalityType
<1>2. 0 \in H
  <2>1. ASSUME NEW T \in OfSize(0) PROVE g[T] = h[T]
    <3>1. T = {}
      BY <1>1, FS_EmptySet
    <3>. QED  BY <3>1 DEF Adds
  <2>. QED  BY <2>1
<1>3. ASSUME NEW n \in H PROVE n + 1 \in H
  <2>1. ASSUME NEW T \in OfSize(n + 1) PROVE g[T] = h[T]
    <3> DEFINE x == CHOOSE y \in T : TRUE
    <3>1. T # {} /\ IsFiniteSet(T) /\ n \in Nat
      BY <1>1, FS_EmptySet
    <3>2. x \in T
      BY <3>1
    <3>3. Cardinality(T \ {x}) = n
      <4>1. Cardinality(T \ {x}) = Cardinality(T) - 1
        BY <3>1, <3>2, FS_RemoveElement
      <4>. QED  BY <3>1, <4>1
    <3>4. g[T \ {x}] = h[T \ {x}]
      BY <3>3
    <3>5. g[T] = f[x] + g[T \ {x}] /\ h[T] = f[x] + h[T \ {x}]
      BY <3>1 DEF Adds
    <3>. QED  BY <3>4, <3>5
  <2>. QED  BY <2>1
<1>4. H \subseteq Nat
  OBVIOUS
<1>. HIDE DEF H
<1>5. H = Nat
  BY <1>2, <1>3, <1>4, InductionBySet
<1>. QED  BY <1>1, <1>5 DEF H

\* A solution: on the sets up to a size, then up to the next.
LEMMA AdderExists ==
    ASSUME NEW U, IsFiniteSet(U), NEW f
    PROVE  \E g : Summing(g, f, U)
<1> DEFINE UpTo(n) == {T \in SUBSET U : Cardinality(T) <= n}
           Step(g, T) == IF T = {} THEN 0
                         ELSE LET x == CHOOSE y \in T : TRUE IN f[x] + g[T \ {x}]
           H == {n \in Nat : \E g : \A T \in UpTo(n) : g[T] = Step(g, T)}
<1>1. \A T \in SUBSET U : IsFiniteSet(T) /\ Cardinality(T) \in Nat
  BY FS_Subset, FS_CardinalityType
<1>2. 0 \in H
  <2> DEFINE g == [T \in {{}} |-> 0]
  <2>1. \A T \in UpTo(0) : T = {}
    BY <1>1, FS_EmptySet
  <2>2. \A T \in UpTo(0) : g[T] = Step(g, T)
    BY <2>1
  <2>. QED  BY <2>2
<1>3. ASSUME NEW n \in H PROVE n + 1 \in H
  <2>1. PICK g : \A T \in UpTo(n) : g[T] = Step(g, T)
    BY <1>3
  <2> DEFINE h == [T \in SUBSET U |-> IF T \in UpTo(n) THEN g[T] ELSE Step(g, T)]
  <2>2. ASSUME NEW T \in UpTo(n + 1) PROVE h[T] = Step(h, T)
    <3>1. h[T] = Step(g, T)
      BY <2>1
    <3>2. CASE T = {}
      BY <3>1, <3>2
    <3>3. CASE T # {}
      <4> DEFINE x == CHOOSE y \in T : TRUE
      <4>1. x \in T
        BY <3>3
      <4>2. IsFiniteSet(T) /\ Cardinality(T) <= n + 1 /\ n \in Nat /\ Cardinality(T) \in Nat
        BY <1>1
      <4>3. Cardinality(T \ {x}) = Cardinality(T) - 1
        BY <4>1, <4>2, FS_RemoveElement
      <4>4. T \ {x} \in UpTo(n)
        BY <4>2, <4>3
      <4>5. h[T \ {x}] = g[T \ {x}]
        BY <4>4
      <4>6. Step(g, T) = f[x] + g[T \ {x}] /\ Step(h, T) = f[x] + h[T \ {x}]
        BY <3>3
      <4>. QED  BY <3>1, <4>5, <4>6
    <3>. QED  BY <3>2, <3>3
  <2>3. n + 1 \in Nat
    OBVIOUS
  <2>. HIDE DEF h, UpTo, Step
  <2>. QED  BY <2>2, <2>3
<1>4. H \subseteq Nat
  OBVIOUS
<1>. HIDE DEF H
<1>5. H = Nat
  BY <1>2, <1>3, <1>4, InductionBySet
<1>6. PICK g : \A T \in UpTo(Cardinality(U)) : g[T] = Step(g, T)
  <2>1. Cardinality(U) \in H
    BY <1>5, FS_CardinalityType
  <2>. HIDE DEF UpTo, Step
  <2>. QED  BY <2>1 DEF H
<1>7. \A T \in SUBSET U : T \in UpTo(Cardinality(U))
  BY <1>1, FS_Subset
<1> DEFINE h == [T \in SUBSET U |-> g[T]]
<1>8. ASSUME NEW T \in SUBSET U PROVE h[T] = Step(h, T)
  BY <1>6, <1>7, <1>8
<1>9. Summing(h, f, U)
  BY <1>8 DEF Summing, Adds
<1>. QED  BY <1>9

LEMMA SumIs ==
    ASSUME NEW U, IsFiniteSet(U), NEW f, NEW g, Adds(g, f, U), NEW S \in SUBSET U
    PROVE  SumOver(f, S) = g[S]
<1> DEFINE own == CHOOSE h : h = [T \in SUBSET S |->
                      IF T = {} THEN 0
                      ELSE LET x == CHOOSE y \in T : TRUE IN f[x] + h[T \ {x}]]
<1>1. SumOver(f, S) = own[S]
  BY DEF SumOver
<1>2. IsFiniteSet(S)
  BY FS_Subset
<1>3. PICK h : Summing(h, f, S)
  BY <1>2, AdderExists
<1>4. h = [T \in SUBSET S |->
              IF T = {} THEN 0 ELSE LET x == CHOOSE y \in T : TRUE IN f[x] + h[T \ {x}]]
  BY <1>3 DEF Summing, Adds
<1>5. own = [T \in SUBSET S |->
              IF T = {} THEN 0 ELSE LET x == CHOOSE y \in T : TRUE IN f[x] + own[T \ {x}]]
  BY <1>4
<1>. HIDE DEF own
<1>6. Adds(own, f, S)
  BY <1>5 DEF Adds
<1>7. own[S] = g[S]
  BY <1>2, <1>6, AdderUnique
<1>. QED  BY <1>1, <1>7

Numbers(f, S) == IsFiniteSet(S) /\ \A x \in S : f[x] \in Int

LEMMA SumType ==
    ASSUME NEW S, NEW f, Numbers(f, S)
    PROVE  SumOver(f, {}) = 0 /\ SumOver(f, S) \in Int
<1>1. PICK g : Summing(g, f, S)
  BY AdderExists DEF Numbers
<1>2. \A T \in SUBSET S : SumOver(f, T) = g[T]
  BY <1>1, SumIs DEF Numbers, Summing
<1>3. g[{}] = 0
  BY <1>1 DEF Summing, Adds
<1> DEFINE OfSize(n) == {T \in SUBSET S : Cardinality(T) = n}
           H == {n \in Nat : \A T \in OfSize(n) : g[T] \in Int}
<1>4. \A T \in SUBSET S : IsFiniteSet(T) /\ Cardinality(T) \in Nat
  BY FS_Subset, FS_CardinalityType DEF Numbers
<1>5. 0 \in H
  <2>1. \A T \in OfSize(0) : T = {}
    BY <1>4, FS_EmptySet
  <2>. QED  BY <1>3, <2>1
<1>6. ASSUME NEW n \in H PROVE n + 1 \in H
  <2>1. ASSUME NEW T \in OfSize(n + 1) PROVE g[T] \in Int
    <3> DEFINE x == CHOOSE y \in T : TRUE
    <3>1. T # {} /\ IsFiniteSet(T) /\ n \in Nat
      BY <1>4, FS_EmptySet
    <3>2. x \in T
      BY <3>1
    <3>3. T \ {x} \in OfSize(n)
      <4>1. Cardinality(T \ {x}) = Cardinality(T) - 1
        BY <3>1, <3>2, FS_RemoveElement
      <4>. QED  BY <3>1, <4>1
    <3>4. g[T] = f[x] + g[T \ {x}]
      BY <1>1, <3>1 DEF Summing, Adds
    <3>5. f[x] \in Int /\ g[T \ {x}] \in Int
      BY <3>2, <3>3 DEF Numbers
    <3>. QED  BY <3>4, <3>5
  <2>. QED  BY <2>1
<1>7. H \subseteq Nat
  OBVIOUS
<1>. HIDE DEF H
<1>8. H = Nat
  BY <1>5, <1>6, <1>7, InductionBySet
<1>9. g[S] \in Int
  BY <1>4, <1>8 DEF H
<1>. QED  BY <1>2, <1>3, <1>9

\* Any element may be taken first.
LEMMA SumTakes ==
    ASSUME NEW S, NEW f, Numbers(f, S), NEW x \in S
    PROVE  SumOver(f, S) = f[x] + SumOver(f, S \ {x})
<1>1. PICK g : Summing(g, f, S)
  BY AdderExists DEF Numbers
<1>2. \A T \in SUBSET S : SumOver(f, T) = g[T]
  BY <1>1, SumIs DEF Numbers, Summing
<1>3. \A T \in SUBSET S : IsFiniteSet(T) /\ Cardinality(T) \in Nat
  BY FS_Subset, FS_CardinalityType DEF Numbers
<1>4. \A T \in SUBSET S : g[T] \in Int
  BY <1>2, <1>3, SumType DEF Numbers
<1> DEFINE OfSize(n) == {T \in SUBSET S : Cardinality(T) = n}
           H == {n \in Nat : \A T \in OfSize(n) : \A y \in T : g[T] = f[y] + g[T \ {y}]}
<1>5. 0 \in H
  <2>1. \A T \in OfSize(0) : T = {}
    BY <1>3, FS_EmptySet
  <2>. QED  BY <2>1
<1>6. ASSUME NEW n \in H PROVE n + 1 \in H
  <2>1. ASSUME NEW T \in OfSize(n + 1), NEW y \in T PROVE g[T] = f[y] + g[T \ {y}]
    <3> DEFINE z == CHOOSE w \in T : TRUE
    <3>1. T # {} /\ IsFiniteSet(T) /\ n \in Nat /\ z \in T
      BY <1>3
    <3>2. g[T] = f[z] + g[T \ {z}]
      BY <1>1, <3>1 DEF Summing, Adds
    <3>. HIDE DEF z
    <3>3. CASE y = z
      BY <3>2, <3>3
    <3>4. CASE y # z
      <4>1. ASSUME NEW w \in T PROVE T \ {w} \in OfSize(n)
        <5>1. Cardinality(T \ {w}) = Cardinality(T) - 1
          BY <3>1, FS_RemoveElement
        <5>. QED  BY <3>1, <5>1
      <4>2. g[T \ {z}] = f[y] + g[(T \ {z}) \ {y}]
        BY <3>1, <3>4, <4>1
      <4>3. g[T \ {y}] = f[z] + g[(T \ {y}) \ {z}]
        BY <3>1, <3>4, <4>1
      <4>4. (T \ {y}) \ {z} = (T \ {z}) \ {y}
        OBVIOUS
      <4>5. f[y] \in Int /\ f[z] \in Int /\ g[(T \ {y}) \ {z}] \in Int
        BY <1>4, <3>1 DEF Numbers
      <4>6. g[T \ {z}] = f[y] + g[(T \ {y}) \ {z}]
        BY <4>2, <4>4, Zenon
      <4> DEFINE rest == g[(T \ {y}) \ {z}]
      <4>7. g[T \ {z}] = f[y] + rest /\ g[T \ {y}] = f[z] + rest /\ rest \in Int
        BY <4>3, <4>5, <4>6
      <4>. HIDE DEF H, rest
      <4>. QED  BY <3>2, <4>5, <4>7
    <3>. QED  BY <3>3, <3>4
  <2>. QED  BY <2>1
<1>7. H \subseteq Nat
  OBVIOUS
<1>. HIDE DEF H
<1>8. H = Nat
  BY <1>5, <1>6, <1>7, InductionBySet
<1>9. g[S] = f[x] + g[S \ {x}]
  BY <1>3, <1>8 DEF H
<1>. QED  BY <1>2, <1>9

\* A step that adds any element adds f of it.
LEMMA SumAdds ==
    ASSUME NEW S, NEW f, Numbers(f, S), NEW U \in SUBSET S, NEW x \in S \ U
    PROVE  SumOver(f, U \cup {x}) = f[x] + SumOver(f, U) /\ SumOver(f, U) \in Int
<1>1. IsFiniteSet(U) /\ IsFiniteSet(U \cup {x})
  BY FS_Subset DEF Numbers
<1>2. Numbers(f, U) /\ Numbers(f, U \cup {x})
  BY <1>1 DEF Numbers
<1>3. (U \cup {x}) \ {x} = U
  OBVIOUS
<1>4. SumOver(f, U \cup {x}) = f[x] + SumOver(f, (U \cup {x}) \ {x})
  BY <1>2, SumTakes
<1>5. SumOver(f, U) \in Int
  BY <1>2, SumType
<1>. QED  BY <1>3, <1>4, <1>5, Zenon

\* A sum of multiples, each with another number added.
LEMMA SumLinear ==
    ASSUME NEW S, NEW f, Numbers(f, S), NEW g, Numbers(g, S), NEW k \in Int, NEW h,
           \A x \in S : h[x] = k * f[x] + g[x]
    PROVE  SumOver(h, S) = k * SumOver(f, S) + SumOver(g, S)
<1> DEFINE H == {U \in SUBSET S : SumOver(h, U) = k * SumOver(f, U) + SumOver(g, U)}
<1>1. IsFiniteSet(S) /\ H \subseteq SUBSET S
  BY DEF Numbers
<1>2. Numbers(h, S)
  <2>1. \A x \in S : f[x] \in Int /\ g[x] \in Int
    BY DEF Numbers
  <2>. QED  BY <1>1, <2>1 DEF Numbers
<1>3. {} \in H
  BY <1>2, SumType
<1>4. ASSUME NEW U \in H, NEW x \in S \ U PROVE U \cup {x} \in H
  <2>1. SumOver(f, U \cup {x}) = f[x] + SumOver(f, U) /\ SumOver(f, U) \in Int
    BY SumAdds
  <2>2. SumOver(g, U \cup {x}) = g[x] + SumOver(g, U) /\ SumOver(g, U) \in Int
    BY SumAdds
  <2>3. SumOver(h, U \cup {x}) = h[x] + SumOver(h, U)
    BY <1>2, SumAdds
  <2>4. h[x] = k * f[x] + g[x] /\ f[x] \in Int /\ g[x] \in Int
    BY DEF Numbers
  <2>5. SumOver(h, U) = k * SumOver(f, U) + SumOver(g, U)
    OBVIOUS
  <2>6. SumOver(h, U \cup {x}) = k * SumOver(f, U \cup {x}) + SumOver(g, U \cup {x})
    <3>1. PICK i, p : i = f[x] /\ p = g[x] /\ i \in Int /\ p \in Int
      BY <2>4
    <3>2. PICK j, q : j = SumOver(f, U) /\ q = SumOver(g, U) /\ j \in Int /\ q \in Int
      BY <2>1, <2>2
    <3>3. (k * i + p) + (k * j + q) = k * (i + j) + (p + q)
      BY <3>1, <3>2
    <3>4. /\ SumOver(f, U \cup {x}) = i + j
          /\ SumOver(g, U \cup {x}) = p + q
          /\ SumOver(h, U \cup {x}) = (k * i + p) + (k * j + q)
      BY <2>1, <2>2, <2>3, <2>4, <2>5, <3>1, <3>2
    <3>. QED  BY <3>3, <3>4
  <2>. QED  BY <2>6
<1>. HIDE DEF H
<1>5. S \in H
  BY <1>1, <1>3, <1>4, InductionOnSet
<1>. QED  BY <1>5 DEF H

\* Numbers that are 0 add nothing.
LEMMA SumPart ==
    ASSUME NEW S, NEW f, Numbers(f, S), NEW V \in SUBSET S, \A x \in S \ V : f[x] = 0
    PROVE  SumOver(f, S) = SumOver(f, V)
<1>1. \A U \in SUBSET S : SumOver(f, U) \in Int
  <2>1. \A U \in SUBSET S : Numbers(f, U)
    BY FS_Subset DEF Numbers
  <2>. QED  BY <2>1, SumType
<1>2. IsFiniteSet(S \ V) /\ IsFiniteSet(S)
  BY FS_Subset DEF Numbers
<1> DEFINE K == {U \in SUBSET (S \ V) : SumOver(f, V \cup U) = SumOver(f, V)}
<1>3. {} \in K
  <2>1. V \cup {} = V
    OBVIOUS
  <2>. QED  BY <2>1
<1>4. ASSUME NEW U \in K, NEW x \in (S \ V) \ U PROVE U \cup {x} \in K
  <2>1. V \cup U \in SUBSET S /\ x \in S \ (V \cup U) /\ V \cup (U \cup {x}) = (V \cup U) \cup {x}
    OBVIOUS
  <2>2. SumOver(f, (V \cup U) \cup {x}) = f[x] + SumOver(f, V \cup U)
    BY <2>1, SumAdds
  <2>3. f[x] = 0 /\ SumOver(f, V \cup U) = SumOver(f, V) /\ SumOver(f, V) \in Int
    BY <1>1
  <2>4. SumOver(f, V \cup (U \cup {x})) = SumOver(f, (V \cup U) \cup {x})
    BY <2>1, Zenon
  <2>5. SumOver(f, V \cup (U \cup {x})) = SumOver(f, V)
    BY <2>2, <2>3, <2>4
  <2>. QED  BY <2>5
<1>5. K \subseteq SUBSET (S \ V)
  OBVIOUS
<1>. HIDE DEF K
<1>6. S \ V \in K
  BY <1>2, <1>3, <1>4, <1>5, InductionOnSet
<1>7. V \cup (S \ V) = S
  OBVIOUS
<1>. QED  BY <1>6, <1>7, Zenon DEF K

\* The sum depends on the function at the elements alone.
LEMMA SumSame ==
    ASSUME NEW S, NEW f, Numbers(f, S), NEW g, \A x \in S : g[x] = f[x]
    PROVE  SumOver(g, S) = SumOver(f, S)
<1> DEFINE z == [x \in S |-> 0]
<1>1. Numbers(z, S) /\ \A x \in S : z[x] = 0
  BY DEF Numbers
<1>. HIDE DEF z
<1>2. \A x \in S : f[x] \in Int
  BY DEF Numbers
<1>3. \A x \in S : g[x] = 1 * f[x] + z[x]
  BY <1>1, <1>2
<1>4. SumOver(g, S) = 1 * SumOver(f, S) + SumOver(z, S)
  BY <1>1, <1>3, SumLinear
<1>5. SumOver(z, S) = 0
  BY <1>1, SumPart, SumType
<1>6. SumOver(f, S) \in Int
  BY SumType
<1>. QED  BY <1>4, <1>5, <1>6

\* A factor may be taken out.
LEMMA SumScales ==
    ASSUME NEW S, NEW f, Numbers(f, S), NEW k \in Int, NEW h, \A x \in S : h[x] = k * f[x]
    PROVE  SumOver(h, S) = k * SumOver(f, S)
<1> DEFINE z == [x \in S |-> 0]
<1>1. Numbers(z, S) /\ \A x \in S : z[x] = 0
  BY DEF Numbers
<1>. HIDE DEF z
<1>2. \A x \in S : f[x] \in Int
  BY DEF Numbers
<1>3. \A x \in S : h[x] = k * f[x] + z[x]
  BY <1>1, <1>2
<1>4. SumOver(h, S) = k * SumOver(f, S) + SumOver(z, S)
  BY <1>1, <1>3, SumLinear
<1>5. SumOver(z, S) = 0
  BY <1>1, SumPart, SumType
<1>6. SumOver(f, S) \in Int
  BY SumType
<1>. QED  BY <1>4, <1>5, <1>6

\* A table adds up to the same by rows and by columns.
Transposed(m, t, A, B) == \A a \in A : \A b \in B : m[a][b] \in Int /\ t[b][a] = m[a][b]

RowSums(h, m, A, B) == \A a \in A : h[a] = SumOver(m[a], B)

LEMMA SumSwap ==
    ASSUME NEW A, IsFiniteSet(A), NEW B, IsFiniteSet(B), NEW m, NEW t, Transposed(m, t, A, B),
           NEW h, RowSums(h, m, A, B), NEW g, RowSums(g, t, B, A)
    PROVE  SumOver(h, A) = SumOver(g, B)
<1> DEFINE Columns(U) == [b \in B |-> SumOver(t[b], U)]
           H == {U \in SUBSET A : SumOver(h, U) = SumOver(Columns(U), B)}
<1>1. \A b \in B : Numbers(t[b], A)
  BY DEF Numbers, Transposed
<1>2. \A a \in A : Numbers(m[a], B)
  BY DEF Numbers, Transposed
<1>3. Numbers(h, A)
  BY <1>2, SumType DEF Numbers, RowSums
<1>4. ASSUME NEW U \in SUBSET A PROVE Numbers(Columns(U), B)
  <2>1. ASSUME NEW b \in B PROVE SumOver(t[b], U) \in Int
    <3>1. IsFiniteSet(U)
      BY FS_Subset
    <3>2. Numbers(t[b], U)
      BY <1>1, <3>1 DEF Numbers
    <3>. QED  BY <3>2, SumType
  <2>. QED  BY <2>1 DEF Numbers
<1>5. {} \in H
  <2>1. \A b \in B : SumOver(t[b], {}) = 0
    BY <1>1, SumType
  <2>2. \A b \in B : Columns({})[b] = 0
    BY <2>1
  <2>3. Numbers(Columns({}), B)
    BY <1>4
  <2>. HIDE DEF Columns
  <2>4. SumOver(Columns({}), B) = SumOver(Columns({}), {})
    BY <2>2, <2>3, SumPart
  <2>5. SumOver(Columns({}), {}) = 0 /\ SumOver(h, {}) = 0
    BY <1>3, <2>3, SumType
  <2>. QED  BY <2>4, <2>5
<1>6. ASSUME NEW U \in H, NEW x \in A \ U PROVE U \cup {x} \in H
  <2> DEFINE c == Columns(U)
             d == Columns(U \cup {x})
  <2>1. Numbers(m[x], B) /\ Numbers(c, B) /\ Numbers(d, B)
    BY <1>2, <1>4
  <2>2. ASSUME NEW b \in B PROVE d[b] = 1 * m[x][b] + c[b]
    <3>1. SumOver(t[b], U \cup {x}) = t[b][x] + SumOver(t[b], U)
      BY <1>1, SumAdds
    <3>2. d[b] = SumOver(t[b], U \cup {x}) /\ c[b] = SumOver(t[b], U)
      OBVIOUS
    <3>3. t[b][x] = m[x][b] /\ m[x][b] \in Int
      BY DEF Transposed
    <3>. HIDE DEF c, d
    <3>. QED  BY <3>1, <3>2, <3>3
  <2>3. SumOver(h, U) = SumOver(c, B)
    OBVIOUS
  <2>4. SumOver(h, U \cup {x}) = h[x] + SumOver(h, U)
    BY <1>3, SumAdds
  <2>5. h[x] = SumOver(m[x], B)
    BY DEF RowSums
  <2>. HIDE DEF c, d
  <2>6. SumOver(d, B) = 1 * SumOver(m[x], B) + SumOver(c, B)
    <3>1. PICK row : row = m[x]
      OBVIOUS
    <3>2. Numbers(row, B) /\ \A b \in B : d[b] = 1 * row[b] + c[b]
      BY <2>1, <2>2, <3>1
    <3>3. SumOver(d, B) = 1 * SumOver(row, B) + SumOver(c, B)
      BY <2>1, <3>2, SumLinear
    <3>. QED  BY <3>1, <3>3
  <2>7. SumOver(m[x], B) \in Int /\ SumOver(c, B) \in Int
    BY <2>1, SumType
  <2>8. SumOver(h, U \cup {x}) = SumOver(d, B)
    BY <2>3, <2>4, <2>5, <2>6, <2>7
  <2>. QED  BY <2>8 DEF d
<1>7. H \subseteq SUBSET A
  OBVIOUS
<1>. HIDE DEF H
<1>8. A \in H
  BY <1>5, <1>6, <1>7, InductionOnSet
<1> DEFINE c == Columns(A)
<1>9. SumOver(h, A) = SumOver(c, B)
  BY <1>8 DEF H
<1>10. Numbers(c, B) /\ \A b \in B : g[b] = c[b]
  BY <1>4 DEF RowSums
<1>. HIDE DEF c
<1>11. SumOver(g, B) = SumOver(c, B)
  BY <1>10, SumSame
<1>. QED  BY <1>9, <1>11
=============================================================================
