----------------------------- MODULE ListProofs -----------------------------
(***************************************************************************)
(* What the operators of Lists return, and what the extremes and the sum   *)
(* of finitely many numbers are.                                           *)
(***************************************************************************)
EXTENDS Lists, FiniteSetsExt, FiniteSetTheorems, FunctionTheorems, WellFoundedInduction, TLAPS

LEMMA UpTo ==
  ASSUME NEW n \in Nat
  PROVE  IsFiniteSet(1..n) /\ Cardinality(1..n) = n
<1>1. 1 \in Int /\ n \in Int
  OBVIOUS
<1>2. IsFiniteSet(1..n) /\ Cardinality(1..n) = IF 1 > n THEN 0 ELSE n - 1 + 1
  BY <1>1, FS_Interval
<1> QED BY <1>2

\* As many values as places, when no value stands at two of them.
LEMMA ImageSize ==
  ASSUME NEW A, IsFiniteSet(A), NEW f, \A i, j \in A : f[i] = f[j] => i = j,
         NEW B, \A t : t \in B <=> \E i \in A : f[i] = t
  PROVE  IsFiniteSet(B) /\ Cardinality(B) = Cardinality(A)
<1> DEFINE g == [i \in A |-> f[i]]
<1>1. g \in [A -> B]
  OBVIOUS
<1>2. \A i, j \in A : g[i] = g[j] => i = j
  OBVIOUS
<1>3. \A t \in B : \E i \in A : g[i] = t
  OBVIOUS
<1> HIDE DEF g
<1>4. g \in Bijection(A, B)
  BY <1>1, <1>2, <1>3 DEF Bijection, Injection, Surjection, IsInjective
<1>5. ExistsBijection(A, B)
  BY <1>4 DEF ExistsBijection
<1> QED BY <1>5, FS_Bijection

\* Ranks grow along the set, and stay within its size.
LEMMA RankFacts ==
  ASSUME NEW N, N \subseteq Int, IsFiniteSet(N), NEW n \in N
  PROVE  /\ Cardinality(N) \in Nat
         /\ Rank(N, n) \in 1..Cardinality(N)
         /\ \A m \in N : m < n => Rank(N, m) < Rank(N, n)
<1> DEFINE upto(k) == {m \in N : m <= k}
<1>1. \A k : IsFiniteSet(upto(k)) /\ Cardinality(upto(k)) <= Cardinality(N)
             /\ Cardinality(upto(k)) \in Nat
  BY FS_Subset, FS_CardinalityType
<1>2. Cardinality(N) \in Nat
  BY FS_CardinalityType
<1>3. Cardinality(upto(n)) # 0
  BY <1>1, FS_EmptySet
<1>4. ASSUME NEW m \in N, m < n PROVE Cardinality(upto(m)) < Cardinality(upto(n))
  <2>1. upto(m) \subseteq upto(n) /\ n \in upto(n) /\ n \notin upto(m)
    <3>1. m \in Int /\ n \in Int /\ \A i \in N : i \in Int
      OBVIOUS
    <3>2. \A i \in N : i <= m => i <= n
      BY <1>4, <3>1
    <3>3. n <= n /\ ~(n <= m)
      BY <1>4, <3>1
    <3> QED BY <3>2, <3>3
  <2>2. Cardinality(upto(m)) <= Cardinality(upto(n)) /\ Cardinality(upto(m)) # Cardinality(upto(n))
    <3> HIDE DEF upto
    <3> QED BY <1>1, <2>1, FS_Subset
  <2> HIDE DEF upto
  <2> QED BY <1>1, <2>2
<1>5. \A k : Rank(N, k) = Cardinality(upto(k))
  BY DEF Rank
<1> HIDE DEF upto
<1> QED BY <1>1, <1>2, <1>3, <1>4, <1>5

\* Ranks count the numbers from 1 on.
LEMMA RankSteps ==
  ASSUME NEW N, N \subseteq Nat \ {0}, IsFiniteSet(N)
  PROVE  /\ Rank(N, 0) = 0
         /\ \A n \in Nat : /\ Rank(N, n) \in Nat
                           /\ Rank(N, n + 1) = Rank(N, n) + (IF n + 1 \in N THEN 1 ELSE 0)
         /\ \A m, n \in Nat : m <= n => Rank(N, m) <= Rank(N, n)
<1> DEFINE upto(n) == {m \in N : m <= n}
<1>1. \A n : Rank(N, n) = Cardinality(upto(n))
  BY DEF Rank
<1>2. \A n : IsFiniteSet(upto(n)) /\ Cardinality(upto(n)) \in Nat
  <2> TAKE n
  <2>1. upto(n) \subseteq N
    OBVIOUS
  <2> HIDE DEF upto
  <2> QED BY <2>1, FS_Subset, FS_CardinalityType
<1>3. upto(0) = {}
  <2>1. \A m \in N : m \in Nat /\ m # 0
    OBVIOUS
  <2>2. \A m \in N : ~(m <= 0)
    BY <2>1
  <2> QED BY <2>2
<1>4. ASSUME NEW n \in Nat
      PROVE  Cardinality(upto(n + 1)) = Cardinality(upto(n)) + (IF n + 1 \in N THEN 1 ELSE 0)
  <2>1. \A m \in N : m <= n + 1 <=> m <= n \/ m = n + 1
    <3>1. \A m \in N : m \in Nat
      OBVIOUS
    <3> QED BY <3>1
  <2>2. upto(n + 1) = IF n + 1 \in N THEN upto(n) \cup {n + 1} ELSE upto(n)
    BY <2>1
  <2>3. n + 1 \notin upto(n)
    OBVIOUS
  <2> HIDE DEF upto
  <2>4. CASE n + 1 \in N
    BY <1>2, <2>2, <2>3, <2>4, FS_AddElement
  <2>5. CASE n + 1 \notin N
    BY <1>2, <2>2, <2>5
  <2> QED BY <2>4, <2>5
<1>5. ASSUME NEW m \in Nat, NEW n \in Nat, m <= n
      PROVE  Cardinality(upto(m)) <= Cardinality(upto(n))
  <2>1. \A i \in Nat : i <= m => i <= n
    BY <1>5
  <2>2. upto(m) \subseteq upto(n)
    BY <2>1
  <2> HIDE DEF upto
  <2> QED BY <1>2, <2>2, FS_Subset
<1>6. Cardinality({}) = 0
  BY FS_EmptySet
<1> HIDE DEF upto
<1>7. Rank(N, 0) = 0
  BY <1>1, <1>3, <1>6
<1>8. \A n \in Nat : Rank(N, n) \in Nat
  BY <1>1, <1>2
<1>9. \A n \in Nat : Rank(N, n + 1) = Rank(N, n) + (IF n + 1 \in N THEN 1 ELSE 0)
  <2> TAKE n \in Nat
  <2>1. Cardinality(upto(n + 1)) = Cardinality(upto(n)) + (IF n + 1 \in N THEN 1 ELSE 0)
    BY <1>4
  <2>2. Rank(N, n) = Cardinality(upto(n)) /\ Rank(N, n + 1) = Cardinality(upto(n + 1))
    BY <1>1
  <2> QED BY <2>1, <2>2
<1>10. \A m, n \in Nat : m <= n => Rank(N, m) <= Rank(N, n)
  BY <1>1, <1>5
<1> QED BY <1>7, <1>8, <1>9, <1>10

\* A set of numbers in order: the n of rank k is at place k.
LEMMA InOrderFacts ==
  ASSUME NEW N, N \subseteq Int, IsFiniteSet(N)
  PROVE  /\ Cardinality(N) \in Nat
         /\ InOrder(N) \in [1..Cardinality(N) -> N]
         /\ \A n \in N : Rank(N, n) \in 1..Cardinality(N) /\ InOrder(N)[Rank(N, n)] = n
         /\ \A k \in 1..Cardinality(N) : Rank(N, InOrder(N)[k]) = k
<1> DEFINE size == Cardinality(N)
           rank == [n \in N |-> Rank(N, n)]
<1>1. size \in Nat
  BY FS_CardinalityType
<1>2. \A n \in N : Rank(N, n) \in 1..size
  BY RankFacts
<1>3. \A m, n \in N : Rank(N, m) = Rank(N, n) => m = n
  <2>1. ASSUME NEW m \in N, NEW n \in N, m < n PROVE Rank(N, m) # Rank(N, n)
    <3>1. Rank(N, m) < Rank(N, n)
      BY <2>1, RankFacts
    <3> QED BY <1>2, <3>1
  <2>2. \A n \in N : n \in Int
    OBVIOUS
  <2> QED BY <2>1, <2>2
<1>4. rank \in Injection(N, 1..size)
  BY <1>2, <1>3 DEF Injection, IsInjective
<1>5. IsFiniteSet(1..size) /\ Cardinality(1..size) = size
  BY <1>1, FS_Interval
<1>6. rank \in Surjection(N, 1..size)
  <2> HIDE DEF rank
  <2> QED BY <1>4, <1>5, FS_Injection
<1>7. ASSUME NEW k \in 1..size PROVE \E n \in N : Rank(N, n) = k
  BY <1>6 DEF Surjection
<1>8. ASSUME NEW k \in 1..size
      PROVE  InOrder(N)[k] \in N /\ Rank(N, InOrder(N)[k]) = k
  BY <1>7 DEF InOrder
<1>9. \A n \in N : InOrder(N)[Rank(N, n)] = n
  BY <1>2, <1>3, <1>8
<1>10. InOrder(N) \in [1..size -> N]
  BY <1>8 DEF InOrder
<1> QED BY <1>1, <1>2, <1>8, <1>9, <1>10

\* What is picked from s.
LEMMA PickedFacts ==
  ASSUME NEW s, NEW N, N \subseteq Int, IsFiniteSet(N)
  PROVE  /\ Cardinality(N) \in Nat
         /\ DOMAIN Picked(s, N) = 1..Cardinality(N)
         /\ \A n \in N : /\ Rank(N, n) \in 1..Cardinality(N)
                         /\ Picked(s, N)[Rank(N, n)] = s[n]
         /\ \A k \in 1..Cardinality(N) :
              \E n \in N : Rank(N, n) = k /\ Picked(s, N)[k] = s[n]
BY InOrderFacts DEF Picked

LEMMA PickedType ==
  ASSUME NEW S, NEW s, NEW N, N \subseteq Int, IsFiniteSet(N), \A n \in N : s[n] \in S
  PROVE  Picked(s, N) \in Seq(S) /\ Len(Picked(s, N)) = Cardinality(N)
<1>0. Cardinality(N) \in Nat /\ InOrder(N) \in [1..Cardinality(N) -> N]
  BY InOrderFacts
<1>1. \A k \in 1..Cardinality(N) : Picked(s, N)[k] \in S
  BY <1>0 DEF Picked
<1>2. Picked(s, N) \in [1..Cardinality(N) -> S]
  BY <1>1 DEF Picked
<1> QED BY <1>0, <1>2

\* Picking one more element, beyond those picked already.
LEMMA PickedGrows ==
  ASSUME NEW S, NEW s \in Seq(S), NEW N, N \subseteq 1..Len(s), NEW n \in 1..Len(s),
         \A m \in N : m < n
  PROVE  Picked(s, N \cup {n}) = Append(Picked(s, N), s[n])
<1> DEFINE M == N \cup {n}
<1>1. Len(s) \in Nat /\ IsFiniteSet(1..Len(s)) /\ N \subseteq Int /\ M \subseteq Int /\ n \notin N
  BY UpTo
<1>2. IsFiniteSet(N) /\ IsFiniteSet(M) /\ Cardinality(N) \in Nat
      /\ Cardinality(M) = Cardinality(N) + 1
  BY <1>1, FS_Subset, FS_CardinalityType, FS_AddElement
<1>3. \A m \in N : Rank(M, m) = Rank(N, m)
  <2> TAKE m \in N
  <2>1. m \in Int /\ n \in Int /\ ~(n <= m)
    BY <1>1
  <2>2. {k \in M : k <= m} = {k \in N : k <= m}
    BY <2>1
  <2> QED BY <2>2 DEF Rank
<1>4. Rank(M, n) = Cardinality(M)
  <2>1. \A k \in N : k <= n
    BY <1>1
  <2>2. n <= n
    BY <1>1
  <2>3. {k \in M : k <= n} = M
    BY <2>1, <2>2
  <2> QED BY <2>3 DEF Rank
<1>5. /\ InOrder(N) \in [1..Cardinality(N) -> N]
      /\ \A k \in 1..Cardinality(N) : Rank(N, InOrder(N)[k]) = k
  BY <1>1, <1>2, InOrderFacts
<1>6. \A m \in M : InOrder(M)[Rank(M, m)] = m
  <2> HIDE DEF M
  <2> QED BY <1>1, <1>2, InOrderFacts
<1>7. \A k \in 1..Cardinality(N) : InOrder(M)[k] = InOrder(N)[k]
  <2> TAKE k \in 1..Cardinality(N)
  <2>1. InOrder(N)[k] \in N /\ Rank(N, InOrder(N)[k]) = k
    BY <1>5
  <2>2. Rank(M, InOrder(N)[k]) = k
    BY <1>3, <2>1
  <2> QED BY <1>6, <2>1, <2>2
<1>8. InOrder(M)[Cardinality(N) + 1] = n
  BY <1>2, <1>4, <1>6
<1> HIDE DEF M
<1>9. Picked(s, M) = [k \in 1..(Cardinality(N) + 1) |-> s[InOrder(M)[k]]]
  BY <1>2 DEF Picked
<1>10. Picked(s, N) \in Seq(S) /\ Len(Picked(s, N)) = Cardinality(N)
  <2>1. \A m \in N : s[m] \in S
    OBVIOUS
  <2> QED BY <1>1, <1>2, <2>1, PickedType, ZenonT(40)
<1>11. Append(Picked(s, N), s[n]) =
         [k \in 1..(Cardinality(N) + 1) |-> IF k <= Cardinality(N) THEN Picked(s, N)[k] ELSE s[n]]
  BY <1>2, <1>10
<1>12. ASSUME NEW k \in 1..(Cardinality(N) + 1)
       PROVE  s[InOrder(M)[k]] = IF k <= Cardinality(N) THEN Picked(s, N)[k] ELSE s[n]
  <2>1. CASE k \in 1..Cardinality(N)
    BY <1>2, <1>7, <2>1 DEF Picked
  <2>2. CASE k = Cardinality(N) + 1
    BY <1>2, <1>8, <2>2
  <2> QED BY <1>2, <2>1, <2>2
<1>13. Picked(s, M) = Append(Picked(s, N), s[n])
  BY <1>9, <1>11, <1>12
<1> QED BY <1>13 DEF M

LEMMA PlacesFacts ==
  ASSUME NEW S, NEW s \in Seq(S), NEW T
  PROVE  PlacesOf(s, T) \subseteq 1..Len(s) /\ IsFiniteSet(PlacesOf(s, T))
<1>1. Len(s) \in Nat /\ DOMAIN s = 1..Len(s)
  OBVIOUS
<1>2. PlacesOf(s, T) \subseteq 1..Len(s)
  BY <1>1 DEF PlacesOf
<1>3. IsFiniteSet(1..Len(s))
  BY <1>1, FS_Interval
<1> QED BY <1>2, <1>3, FS_Subset

LEMMA AmongFacts ==
  ASSUME NEW S, NEW s \in Seq(S), NEW T
  PROVE  /\ Among(s, T) \in Seq(S)
         /\ Len(Among(s, T)) = Cardinality(PlacesOf(s, T))
         /\ \A i \in 1..Len(Among(s, T)) : Among(s, T)[i] \in T
<1>1. \A n \in PlacesOf(s, T) : s[n] \in S
  BY PlacesFacts
<1>2. PlacesOf(s, T) \subseteq Int /\ IsFiniteSet(PlacesOf(s, T))
  BY PlacesFacts
<1>3. Among(s, T) \in Seq(S) /\ Len(Among(s, T)) = Cardinality(PlacesOf(s, T))
  BY <1>1, <1>2, PickedType DEF Among
<1>4. ASSUME NEW i \in 1..Len(Among(s, T)) PROVE Among(s, T)[i] \in T
  <2>1. InOrder(PlacesOf(s, T))[i] \in PlacesOf(s, T)
    BY <1>2, <1>3, InOrderFacts
  <2>2. Among(s, T)[i] = s[InOrder(PlacesOf(s, T))[i]]
    BY <1>3 DEF Among, Picked
  <2> QED BY <2>1, <2>2 DEF PlacesOf
<1> QED BY <1>3, <1>4

----------------------------------------------------------------------------
(* Extremes *)

LEMMA LeastNat ==
  ASSUME NEW S \in SUBSET Nat, S # {}
  PROVE  Min(S) \in S /\ \A k \in S : Min(S) <= k
<1> DEFINE less == {ss \in Nat \X Nat : ss[1] < ss[2]}
<1>1. IsWellFoundedOn(less, Nat)
  BY NatLessThanWellFounded DEF OpToRel
<1> HIDE DEF less
<1>2. PICK x \in S : \A y \in S : ~(<<y, x>> \in less)
  BY <1>1, WFMin
<1>3. \A y \in S : x <= y
  <2> SUFFICES ASSUME NEW y \in S
               PROVE  ~(y < x)
    OBVIOUS
  <2>1. ~(<<y, x>> \in less) /\ x \in Nat /\ y \in Nat
    BY <1>2
  <2> QED BY <2>1 DEF less
<1>4. \E m \in S : \A k \in S : m <= k
  BY <1>2, <1>3
<1> QED BY <1>4 DEF Min

LEMMA MinOfTwo ==
  ASSUME NEW a \in Int, NEW b \in Int
  PROVE  Min({a, b}) \in {a, b} /\ Min({a, b}) <= a /\ Min({a, b}) <= b
<1>1. \E m \in {a, b} : \A k \in {a, b} : m <= k
  <2>1. CASE a <= b
    BY <2>1
  <2>2. CASE ~(a <= b)
    BY <2>2
  <2> QED BY <2>1, <2>2
<1> QED BY <1>1 DEF Min

LEMMA MaxOfTwo ==
  ASSUME NEW a \in Int, NEW b \in Int
  PROVE  Max({a, b}) \in {a, b}
<1>1. \E m \in {a, b} : \A k \in {a, b} : m >= k
  <2>1. CASE a >= b
    BY <2>1
  <2>2. CASE ~(a >= b)
    BY <2>2
  <2> QED BY <2>1, <2>2
<1> QED BY <1>1 DEF Max

LEMMA GreatestBelow ==
  ASSUME NEW S \in SUBSET Int, S # {}, NEW top \in Int, \A k \in S : k <= top
  PROVE  Max(S) \in S /\ \A k \in S : k <= Max(S)
<1> DEFINE T == {top - k : k \in S}
<1>1. T \in SUBSET Nat /\ T # {}
  <2>1. \A k \in T : k \in Nat
    OBVIOUS
  <2>2. T # {}
    OBVIOUS
  <2> HIDE DEF T
  <2> QED BY <2>1, <2>2
<1>2. PICK m \in T : \A k \in T : m <= k
  BY <1>1, LeastNat
<1>3. PICK x \in S : m = top - x
  BY <1>2
<1>4. \A k \in S : k <= x
  <2> SUFFICES ASSUME NEW k \in S
               PROVE  k <= x
    OBVIOUS
  <2>1. top - x <= top - k
    BY <1>2, <1>3
  <2> QED BY <2>1
<1>5. \E y \in S : \A k \in S : y >= k
  BY <1>3, <1>4
<1> QED BY <1>5 DEF Max

LEMMA LeastAbove ==
  ASSUME NEW S \in SUBSET Int, S # {}, NEW low \in Int, \A k \in S : low <= k
  PROVE  Min(S) \in S /\ \A k \in S : Min(S) <= k
<1> DEFINE T == {k - low : k \in S}
<1>1. T \in SUBSET Nat /\ T # {}
  <2>1. \A k \in T : k \in Nat
    OBVIOUS
  <2>2. T # {}
    OBVIOUS
  <2> HIDE DEF T
  <2> QED BY <2>1, <2>2
<1>2. PICK m \in T : \A k \in T : m <= k
  BY <1>1, LeastNat
<1>3. PICK x \in S : m = x - low
  BY <1>2
<1>4. \A k \in S : x <= k
  <2> SUFFICES ASSUME NEW k \in S
               PROVE  x <= k
    OBVIOUS
  <2>1. x - low <= k - low
    BY <1>2, <1>3
  <2> QED BY <2>1
<1>5. \E y \in S : \A k \in S : y <= k
  BY <1>3, <1>4
<1> QED BY <1>5 DEF Min

----------------------------------------------------------------------------
(* Sums *)

Some(s) == CHOOSE x \in s : TRUE

\* g adds up h over every part of S, an element at a time. A fold is the
\* value of such a g at S.
Adds(g, S, h) ==
  g = [s \in SUBSET S |-> IF s = {} THEN 0 ELSE h[Some(s)] + g[s \ {Some(s)}]]

LEMMA OneLess ==
  ASSUME NEW s, IsFiniteSet(s), s # {}
  PROVE  /\ Some(s) \in s /\ IsFiniteSet(s \ {Some(s)})
         /\ Cardinality(s) \in Nat \ {0}
         /\ Cardinality(s \ {Some(s)}) = Cardinality(s) - 1
<1>1. Some(s) \in s
  BY DEF Some
<1>2. Cardinality(s) \in Nat /\ Cardinality(s) # 0
  BY FS_CardinalityType, FS_EmptySet
<1>3. IsFiniteSet(s \ {Some(s)}) /\ Cardinality(s \ {Some(s)}) = Cardinality(s) - 1
  BY <1>1, FS_RemoveElement
<1> QED BY <1>1, <1>2, <1>3

\* Every sum exists: the least size for which it did not would follow one for
\* which it does.
LEMMA SumExists ==
  ASSUME NEW S, IsFiniteSet(S), NEW h
  PROVE  \E g : Adds(g, S, h)
<1> DEFINE parts(n) == {s \in SUBSET S : Cardinality(s) <= n}
           step(g, s) == IF s = {} THEN 0 ELSE h[Some(s)] + g[s \ {Some(s)}]
           good(n) == \E g : g = [s \in parts(n) |-> step(g, s)]
           bad == {n \in Nat : ~good(n)}
<1>1. \A s \in SUBSET S : IsFiniteSet(s) /\ Cardinality(s) \in Nat /\ Cardinality(s) <= Cardinality(S)
  BY FS_Subset, FS_CardinalityType
<1>2. good(0)
  <2> DEFINE g == [s \in parts(0) |-> 0]
  <2>1. \A s \in parts(0) : s = {}
    <3> SUFFICES ASSUME NEW s \in parts(0)
                 PROVE  s = {}
      OBVIOUS
    <3>1. IsFiniteSet(s) /\ Cardinality(s) = 0
      BY <1>1
    <3> QED BY <3>1, FS_EmptySet
  <2>2. g = [s \in parts(0) |-> step(g, s)]
    BY <2>1
  <2> QED BY <2>2
<1>3. ASSUME NEW n \in Nat, good(n) PROVE good(n + 1)
  <2>1. PICK g : g = [s \in parts(n) |-> step(g, s)]
    BY <1>3
  <2> DEFINE f == [s \in parts(n + 1) |-> step(g, s)]
  <2>2. ASSUME NEW s \in parts(n + 1) PROVE step(f, s) = step(g, s)
    <3>1. CASE s = {}
      BY <3>1
    <3>2. CASE s # {}
      <4> DEFINE t == s \ {Some(s)}
      <4>1. s \in SUBSET S /\ Cardinality(s) <= n + 1
        OBVIOUS
      <4>2. t \in SUBSET S /\ Cardinality(t) \in Nat /\ Cardinality(t) <= n
        <5>1. IsFiniteSet(s) /\ Cardinality(s) \in Nat
          BY <1>1, <4>1
        <5>2. Cardinality(t) = Cardinality(s) - 1 /\ Cardinality(s) \in Nat \ {0}
          BY <3>2, <5>1, OneLess
        <5> QED BY <4>1, <5>1, <5>2
      <4>3. t \in parts(n) /\ t \in parts(n + 1)
        BY <4>2
      <4> HIDE DEF t, parts
      <4>4. f[t] = step(g, t) /\ g[t] = step(g, t)
        BY <2>1, <4>3
      <4> QED BY <3>2, <4>4 DEF t
    <3> QED BY <3>1, <3>2
  <2> HIDE DEF parts, step
  <2>3. f = [s \in parts(n + 1) |-> step(f, s)]
    BY <2>2
  <2> QED BY <2>3
<1>4. \A n \in Nat : good(n)
  <2> SUFFICES ASSUME bad # {}
               PROVE  FALSE
    OBVIOUS
  <2>1. PICK m \in bad : \A k \in bad : m <= k
    <3>1. bad \in SUBSET Nat
      OBVIOUS
    <3> HIDE DEF bad
    <3> QED BY <3>1, LeastNat
  <2>2. m \in Nat /\ ~good(m) /\ m # 0
    <3>1. m \in Nat /\ ~good(m)
      BY <2>1
    <3>2. ASSUME m = 0 PROVE FALSE
      <4> HIDE DEF good
      <4> QED BY <1>2, <3>1, <3>2
    <3> QED BY <3>1, <3>2
  <2>3. m - 1 \in Nat /\ (m - 1) + 1 = m /\ ~(m <= m - 1)
    BY <2>2
  <2>4. good(m - 1)
    BY <2>1, <2>3
  <2> HIDE DEF good
  <2> QED BY <1>3, <2>2, <2>3, <2>4
<1>5. parts(Cardinality(S)) = SUBSET S
  BY <1>1
<1>6. good(Cardinality(S))
  <2>1. Cardinality(S) \in Nat
    BY FS_CardinalityType
  <2> HIDE DEF good
  <2> QED BY <1>4, <2>1
<1> HIDE DEF parts
<1> QED BY <1>5, <1>6 DEF Adds

\* A sum of n numbers is between n times the least and n times the greatest.
LEMMA SumBounds ==
  ASSUME NEW S, IsFiniteSet(S), NEW h, NEW lo \in Int, NEW hi \in Int,
         \A x \in S : h[x] \in Int /\ lo <= h[x] /\ h[x] <= hi,
         NEW g, Adds(g, S, h)
  PROVE  /\ g[S] \in Int
         /\ Cardinality(S) * lo <= g[S] /\ g[S] <= Cardinality(S) * hi
<1> DEFINE fits(s) == /\ g[s] \in Int
                      /\ Cardinality(s) * lo <= g[s] /\ g[s] <= Cardinality(s) * hi
           bad == {n \in Nat : \E s \in SUBSET S : Cardinality(s) = n /\ ~fits(s)}
<1>1. \A s \in SUBSET S : IsFiniteSet(s) /\ Cardinality(s) \in Nat
  BY FS_Subset, FS_CardinalityType
<1>2. fits({})
  <2>1. g[{}] = 0 /\ Cardinality({}) = 0
    BY FS_EmptySet DEF Adds
  <2> QED BY <2>1
<1>3. ASSUME NEW s \in SUBSET S, s # {}, fits(s \ {Some(s)}) PROVE fits(s)
  <2> DEFINE t == s \ {Some(s)}
             n == Cardinality(s)
  <2>1. Some(s) \in s /\ n \in Nat \ {0} /\ Cardinality(t) = n - 1
    BY <1>1, <1>3, OneLess
  <2>2. g[s] = h[Some(s)] + g[t]
    BY <1>3 DEF Adds
  <2>3. h[Some(s)] \in Int /\ lo <= h[Some(s)] /\ h[Some(s)] <= hi
    BY <2>1
  <2>4. g[t] \in Int /\ (n - 1) * lo <= g[t] /\ g[t] <= (n - 1) * hi
    BY <1>3, <2>1
  <2> HIDE DEF t, n
  <2>5. (n - 1) * lo = n * lo - lo /\ (n - 1) * hi = n * hi - hi
    BY <2>1
  <2>6. n * lo \in Int /\ n * hi \in Int
    BY <2>1
  <2>7. g[s] \in Int /\ n * lo <= g[s] /\ g[s] <= n * hi
    BY <2>2, <2>3, <2>4, <2>5, <2>6
  <2> QED BY <2>7 DEF n
<1>4. \A s \in SUBSET S : fits(s)
  <2> SUFFICES ASSUME NEW s0 \in SUBSET S, ~fits(s0)
               PROVE  FALSE
    OBVIOUS
  <2>1. Cardinality(s0) \in bad
    BY <1>1
  <2>2. PICK m \in bad : \A k \in bad : m <= k
    <3>1. bad \in SUBSET Nat
      OBVIOUS
    <3> HIDE DEF bad
    <3> QED BY <2>1, <3>1, LeastNat
  <2> HIDE DEF fits
  <2>3. PICK s \in SUBSET S : Cardinality(s) = m /\ ~fits(s)
    BY <2>2
  <2>4. s # {}
    BY <1>2, <2>3
  <2>5. ~fits(s \ {Some(s)})
    BY <1>3, <2>3, <2>4
  <2>6. Cardinality(s \ {Some(s)}) = Cardinality(s) - 1 /\ Cardinality(s) \in Nat \ {0}
    BY <1>1, <2>4, OneLess
  <2>7. m - 1 \in bad
    BY <2>3, <2>5, <2>6
  <2> QED BY <2>2, <2>3, <2>6, <2>7
<1> QED BY <1>4

\* What holds of a part whenever it does of all that is in it but is less,
\* holds of every part.
LEMMA EveryPart ==
  ASSUME NEW S, IsFiniteSet(S), NEW good,
         \A s \in SUBSET S : (\A t \in SUBSET s : t # s => t \in good) => s \in good
  PROVE  \A s \in SUBSET S : s \in good
<1> DEFINE bad == {n \in Nat : \E s \in SUBSET S : Cardinality(s) = n /\ s \notin good}
<1>1. \A s \in SUBSET S : IsFiniteSet(s) /\ Cardinality(s) \in Nat
  BY FS_Subset, FS_CardinalityType
<1> SUFFICES ASSUME NEW s0 \in SUBSET S, s0 \notin good
             PROVE  FALSE
  OBVIOUS
<1>2. Cardinality(s0) \in bad
  BY <1>1
<1>3. PICK m \in bad : \A k \in bad : m <= k
  <2>1. bad \in SUBSET Nat
    OBVIOUS
  <2> HIDE DEF bad
  <2> QED BY <1>2, <2>1, LeastNat
<1>4. PICK s \in SUBSET S : Cardinality(s) = m /\ s \notin good
  BY <1>3
<1>5. PICK t \in SUBSET s : t # s /\ t \notin good
  BY <1>4
<1>6. PICK x \in s : t \subseteq s \ {x}
  <2> HIDE DEF bad
  <2>1. ASSUME \A x \in s : x \in t PROVE FALSE
    <3>1. t = s
      BY <1>5, <2>1, SMTT(30)
    <3> QED BY <1>5, <3>1
  <2>2. PICK x \in s : x \notin t
    BY <2>1
  <2> QED BY <1>5, <2>2
<1>7. IsFiniteSet(s) /\ Cardinality(s) = m /\ m \in Nat
  BY <1>1, <1>4
<1>8. IsFiniteSet(s \ {x}) /\ Cardinality(s \ {x}) = m - 1
  BY <1>7, FS_RemoveElement
<1>9. Cardinality(t) <= m - 1 /\ Cardinality(t) \in Nat
  BY <1>1, <1>4, <1>6, <1>8, FS_Subset
<1>10. Cardinality(t) \in bad
  BY <1>4, <1>5, <1>9
<1>11. m <= Cardinality(t)
  BY <1>3, <1>10
<1> QED BY <1>7, <1>9, <1>11

\* g adds up numbers, finitely many.
Sums(g, S, h) == Adds(g, S, h) /\ IsFiniteSet(S) /\ \A x \in S : h[x] \in Int

LEMMA SumFinite ==
  ASSUME NEW S, NEW h, NEW g, Sums(g, S, h)
  PROVE  /\ IsFiniteSet(S) /\ \A x \in S : h[x] \in Int
         /\ \A s \in SUBSET S : IsFiniteSet(s)
BY FS_Subset DEF Sums

LEMMA SumOfPart ==
  ASSUME NEW S, NEW h, NEW g, Sums(g, S, h), NEW s \in SUBSET S
  PROVE  g[s] = IF s = {} THEN 0 ELSE h[Some(s)] + g[s \ {Some(s)}]
BY DEF Adds, Sums

LEMMA PartLess ==
  ASSUME NEW S, NEW h, NEW g, Sums(g, S, h), NEW s \in SUBSET S, s # {}
  PROVE  Some(s) \in s /\ s \ {Some(s)} \in SUBSET s /\ s \ {Some(s)} # s
<1>1. Some(s) \in s
  BY SumFinite, OneLess
<1> QED BY <1>1

LEMMA SumIsInt ==
  ASSUME NEW S, NEW h, NEW g, Sums(g, S, h)
  PROVE  \A s \in SUBSET S : g[s] \in Int
<1> DEFINE good == {s \in SUBSET S : g[s] \in Int}
<1>1. ASSUME NEW s \in SUBSET S, \A t \in SUBSET s : t # s => t \in good
      PROVE  s \in good
  <2>1. CASE s = {}
    BY <2>1, SumOfPart, PartLess
  <2>2. CASE s # {}
    <3>1. /\ g[s] = h[Some(s)] + g[s \ {Some(s)}]
          /\ Some(s) \in s /\ s \ {Some(s)} \in SUBSET s /\ s \ {Some(s)} # s
      BY <2>2, SumOfPart, PartLess
    <3>2. h[Some(s)] \in Int /\ g[s \ {Some(s)}] \in Int
      BY <1>1, <3>1, SumFinite
    <3> QED BY <3>1, <3>2
  <2> QED BY <2>1, <2>2
<1>2. \A s \in SUBSET S : s \in good
  <2> HIDE DEF good
  <2> QED BY <1>1, SumFinite, EveryPart
<1> QED BY <1>2

\* Any member may be taken out first.
LEMMA SumSplit ==
  ASSUME NEW S, NEW h, NEW g, Sums(g, S, h)
  PROVE  \A s \in SUBSET S : \A x \in s : g[s] = h[x] + g[s \ {x}]
<1> DEFINE good == {s \in SUBSET S : \A x \in s : g[s] = h[x] + g[s \ {x}]}
<1>1. ASSUME NEW s \in SUBSET S, \A t \in SUBSET s : t # s => t \in good
      PROVE  s \in good
  <2> SUFFICES ASSUME NEW x \in s
               PROVE  g[s] = h[x] + g[s \ {x}]
    OBVIOUS
  <2>1. PICK y : y = Some(s)
    OBVIOUS
  <2>2. y \in s /\ g[s] = h[y] + g[s \ {y}]
    <3>1. s # {}
      OBVIOUS
    <3>2. Some(s) \in s /\ g[s] = h[Some(s)] + g[s \ {Some(s)}]
      BY <3>1, SumOfPart, PartLess
    <3> QED BY <2>1, <3>2
  <2>3. CASE x = y
    BY <2>2, <2>3
  <2>4. CASE x # y
    <3> DEFINE rest == s \ {x, y}
    <3>1. /\ (s \ {x}) \ {y} = rest /\ (s \ {y}) \ {x} = rest /\ rest \in SUBSET S
          /\ y \in s \ {x} /\ x \in s \ {y}
      BY <2>2, <2>4
    <3>2. s \ {x} \in good /\ s \ {y} \in good
      BY <1>1, <2>2
    <3>3. g[s \ {x}] = h[y] + g[rest] /\ g[s \ {y}] = h[x] + g[rest]
      BY <3>1, <3>2
    <3>4. h[x] \in Int /\ h[y] \in Int /\ g[rest] \in Int
      BY <2>2, <3>1, SumFinite, SumIsInt
    <3> HIDE DEF rest
    <3> QED BY <2>2, <3>3, <3>4
  <2> QED BY <2>3, <2>4
<1>2. \A s \in SUBSET S : s \in good
  <2> HIDE DEF good
  <2> QED BY <1>1, SumFinite, EveryPart
<1> QED BY <1>2

\* The sum over two parts that have nothing in common.
LEMMA SumOfBoth ==
  ASSUME NEW S, NEW h, NEW g, Sums(g, S, h),
         NEW A \in SUBSET S, NEW B \in SUBSET S, A \cap B = {}
  PROVE  g[A \cup B] = g[A] + g[B]
<1>9. ASSUME NEW s \in SUBSET S, NEW y \in s
      PROVE  g[s] = h[y] + g[s \ {y}]
  BY SumSplit
<1> DEFINE good == {b \in SUBSET B : g[A \cup b] = g[A] + g[b]}
<1>0. IsFiniteSet(B)
  BY SumFinite
<1>1. ASSUME NEW b \in SUBSET B, \A t \in SUBSET b : t # b => t \in good
      PROVE  b \in good
  <2>1. CASE b = {}
    <3>1. g[{}] = 0 /\ A \cup b = A /\ g[A] \in Int
      BY <2>1, SumOfPart, PartLess, SumIsInt
    <3> QED BY <2>1, <3>1
  <2>2. CASE b # {}
    <3>1. PICK x : x \in b
      BY <2>2
    <3> DEFINE c == b \ {x}
    <3>2. (A \cup b) \ {x} = A \cup c /\ x \in S /\ x \in A \cup b
      BY <3>1
    <3>3. g[A \cup c] = g[A] + g[c]
      <4>1. c \in SUBSET b /\ c # b
        BY <3>1
      <4> QED BY <1>1, <4>1
    <3>4. g[A \cup b] = h[x] + g[A \cup c]
      <4>1. g[A \cup b] = h[x] + g[(A \cup b) \ {x}]
        BY <1>9, <3>2
      <4> HIDE DEF c
      <4> QED BY <3>2, <4>1
    <3>5. g[b] = h[x] + g[c]
      BY <3>1, SumSplit
    <3>6. h[x] \in Int /\ g[A] \in Int /\ g[c] \in Int
      BY <3>2, SumFinite, SumIsInt
    <3> HIDE DEF c
    <3> QED BY <3>3, <3>4, <3>5, <3>6
  <2> QED BY <2>1, <2>2
<1>2. \A b \in SUBSET B : b \in good
  <2> HIDE DEF good
  <2> QED BY <1>0, <1>1, EveryPart
<1> QED BY <1>2

\* Only what is added matters.
LEMMA SameSum ==
  ASSUME NEW S, NEW h, NEW g, Sums(g, S, h),
         NEW T, NEW k, NEW f, Sums(f, T, k),
         NEW A \in SUBSET S, A \in SUBSET T, \A x \in A : h[x] = k[x]
  PROVE  g[A] = f[A]
<1> DEFINE good == {s \in SUBSET A : g[s] = f[s]}
<1>0. IsFiniteSet(A)
  BY SumFinite
<1>1. ASSUME NEW s \in SUBSET A, \A t \in SUBSET s : t # s => t \in good
      PROVE  s \in good
  <2>1. CASE s = {}
    BY <2>1, SumOfPart, PartLess
  <2>2. CASE s # {}
    <3>1. /\ g[s] = h[Some(s)] + g[s \ {Some(s)}]
          /\ Some(s) \in s /\ s \ {Some(s)} \in SUBSET s /\ s \ {Some(s)} # s
      <4>1. s \in SUBSET S
        OBVIOUS
      <4>2. g[s] = h[Some(s)] + g[s \ {Some(s)}]
        BY <2>2, <4>1, SumOfPart
      <4> QED BY <2>2, <4>1, <4>2, PartLess
    <3>2. f[s] = k[Some(s)] + f[s \ {Some(s)}]
      <4>1. s \in SUBSET T
        OBVIOUS
      <4> QED BY <2>2, <4>1, SumOfPart
    <3>3. g[s \ {Some(s)}] = f[s \ {Some(s)}] /\ h[Some(s)] = k[Some(s)]
      BY <1>1, <3>1
    <3> QED BY <3>1, <3>2, <3>3
  <2> QED BY <2>1, <2>2
<1>2. \A s \in SUBSET A : s \in good
  <2> HIDE DEF good
  <2> QED BY <1>0, <1>1, EveryPart
<1> QED BY <1>2

\* The sum of differences is the difference of the sums.
LEMMA SumOfDifferences ==
  ASSUME NEW S, NEW h, NEW k, NEW d, \A x \in S : d[x] = h[x] - k[x],
         NEW g, Sums(g, S, h), NEW f, Sums(f, S, k), NEW e, Sums(e, S, d)
  PROVE  e[S] = g[S] - f[S]
<1>3. ASSUME NEW s \in SUBSET S, s # {}
      PROVE  /\ Some(s) \in s /\ s \ {Some(s)} \in SUBSET s /\ s \ {Some(s)} # s
             /\ g[s] = h[Some(s)] + g[s \ {Some(s)}]
  BY <1>3, SumOfPart, PartLess
<1>4. ASSUME NEW s \in SUBSET S, s # {}
      PROVE  f[s] = k[Some(s)] + f[s \ {Some(s)}]
  BY <1>4, SumOfPart
<1>5. ASSUME NEW s \in SUBSET S, s # {}
      PROVE  e[s] = d[Some(s)] + e[s \ {Some(s)}]
  BY <1>5, SumOfPart
<1> DEFINE good == {s \in SUBSET S : e[s] = g[s] - f[s]}
<1>1. ASSUME NEW s \in SUBSET S, \A t \in SUBSET s : t # s => t \in good
      PROVE  s \in good
  <2>1. CASE s = {}
    <3>1. e[s] = 0
      BY <2>1, SumOfPart, ZenonT(40)
    <3>2. g[s] = 0
      BY <2>1, SumOfPart, ZenonT(40)
    <3>3. f[s] = 0
      BY <2>1, SumOfPart
    <3> QED BY <3>1, <3>2, <3>3
  <2>2. CASE s # {}
    <3>1. PICK x, r : x = Some(s) /\ r = s \ {x}
      OBVIOUS
    <3>2. /\ g[s] = h[x] + g[r] /\ f[s] = k[x] + f[r] /\ e[s] = d[x] + e[r]
          /\ x \in S /\ r \in SUBSET s /\ r # s
      <4>1. /\ g[s] = h[Some(s)] + g[s \ {Some(s)}]
            /\ Some(s) \in s /\ s \ {Some(s)} \in SUBSET s /\ s \ {Some(s)} # s
        BY <2>2, <1>3
      <4>2. f[s] = k[Some(s)] + f[s \ {Some(s)}]
        BY <2>2, <1>4
      <4>3. e[s] = d[Some(s)] + e[s \ {Some(s)}]
        BY <2>2, <1>5
      <4> QED BY <3>1, <4>1, <4>2, <4>3
    <3>3. e[r] = g[r] - f[r]
      BY <1>1, <3>2
    <3>4. h[x] \in Int /\ k[x] \in Int /\ d[x] = h[x] - k[x] /\ g[r] \in Int /\ f[r] \in Int
      BY <3>2, SumFinite, SumIsInt
    <3> QED BY <3>2, <3>3, <3>4
  <2> QED BY <2>1, <2>2
<1>2. \A s \in SUBSET S : s \in good
  <2> HIDE DEF good
  <2> QED BY <1>1, SumFinite, EveryPart
<1> QED BY <1>2

============================================================================
