-------------------------- MODULE ConstraintsProofs ---------------------------
(***************************************************************************)
(* Proofs about Constraints, for every sequence of load steps and every    *)
(* mesh as NodeIntervals!IsMesh says (any domains, any nodes between them, *)
(* any part of these on the surface): the processes find the same nodes    *)
(* for the intervals they share, and these in the same order               *)
(* (SharedIntervalsAgreed); they come to the same numbers for the          *)
(* multipliers they share, and no number is used twice (NumberedOnce); and *)
(* a product over all processes counts each multiplier exactly once        *)
(* (CountedOnce).                                                          *)
(*                                                                         *)
(* First facts about sorted lists, sums over sets, the groups and          *)
(* intervals of the processes and the offsets of one process's intervals;  *)
(* then when a process does what (its time, and how far neighbours can be  *)
(* apart); then which offsets are on their way; then which numbers an      *)
(* interval has at each process that shares it; last what the map of a     *)
(* process lists, as its part of the numbers of all intervals.             *)
(***************************************************************************)
EXTENDS Constraints, FiniteSetTheorems, WellFoundedInduction, TLAPS

-----------------------------------------------------------------------------
(* Induction over numbers, as facts about sets of numbers.                 *)

LEMMA LeastNumber ==
    ASSUME NEW T, T \subseteq Nat, T # {}
    PROVE  \E m \in T : \A k \in T : m <= k
<1> DEFINE R == OpToRel(<, Nat)
<1>1. IsWellFoundedOn(R, Nat)
  BY NatLessThanWellFounded
<1>2. \A k, m \in Nat : <<k, m>> \in R <=> k < m
  BY DEF OpToRel
<1> HIDE DEF R
<1>3. PICK m \in T : \A k \in T : ~(<<k, m>> \in R)
  BY <1>1, WFMin
<1>4. ASSUME NEW k \in T PROVE m <= k
  <2>1. k \in Nat /\ m \in Nat
    OBVIOUS
  <2>2. ~(k < m)
    BY <1>2, <1>3, <2>1
  <2> QED BY <2>1, <2>2
<1> QED BY <1>4

LEMMA LeastOfSet ==
    ASSUME NEW T, T \subseteq Nat, T # {}
    PROVE  Min(T) \in T /\ \A k \in T : Min(T) <= k
  BY LeastNumber DEF Min

LEMMA IntervalInduction ==
    ASSUME NEW lo \in Int, NEW hi \in Int, NEW T,
           lo <= hi => lo \in T,
           \A i \in lo..(hi - 1) : i \in T => i + 1 \in T
    PROVE  \A i \in lo..hi : i \in T
<1> SUFFICES ASSUME NEW i \in lo..hi, i \notin T PROVE FALSE
  OBVIOUS
<1> DEFINE bad == {n \in Nat : lo + n <= hi /\ lo + n \notin T}
<1>1. i - lo \in bad
  <2>1. i - lo \in Nat /\ lo + (i - lo) = i
    OBVIOUS
  <2> QED BY <2>1
<1>2. PICK m \in bad : \A k \in bad : m <= k
  BY <1>1, LeastNumber
<1>3. m # 0
  <2>1. lo + 0 = lo /\ lo <= hi
    OBVIOUS
  <2> QED BY <2>1, <1>2
<1>4. m - 1 \in Nat /\ ~(m <= m - 1) /\ lo + (m - 1) \in lo..(hi - 1)
  BY <1>2, <1>3
<1>5. m - 1 \notin bad
  BY <1>2, <1>4
<1>6. lo + (m - 1) \in T
  BY <1>4, <1>5
<1>7. (lo + (m - 1)) + 1 \in T
  BY <1>4, <1>6
<1>8. (lo + (m - 1)) + 1 = lo + m
  BY <1>2
<1> QED BY <1>2, <1>7, <1>8

\* A recursive function exists.
Recursion(f, S, lo, hi, base, grow) ==
    /\ f \in [lo..hi -> S] /\ f[lo] = base
    /\ \A i \in (lo + 1)..hi : f[i] = grow[i][f[i - 1]]

LEMMA RecursiveFunction ==
    ASSUME NEW S, NEW lo \in Int, NEW hi \in Int, lo <= hi, NEW base \in S,
           NEW grow \in [(lo + 1)..hi -> [S -> S]]
    PROVE  \E f : Recursion(f, S, lo, hi, base, grow)
<1> DEFINE Is(f, n) == /\ f \in [lo..n -> S] /\ f[lo] = base
                       /\ \A i \in (lo + 1)..n : f[i] = grow[i][f[i - 1]]
           T == {n \in lo..hi : \E f : Is(f, n)}
<1>1. lo \in T
  <2>1. lo \in lo..lo /\ (lo + 1)..lo = {}
    OBVIOUS
  <2> DEFINE f == [i \in lo..lo |-> base]
  <2>2. f \in [lo..lo -> S] /\ f[lo] = base
    BY <2>1
  <2>3. \A i \in (lo + 1)..lo : f[i] = grow[i][f[i - 1]]
    BY <2>1
  <2>4. \E g : Is(g, lo)
    <3> HIDE DEF f
    <3> QED BY <2>2, <2>3
  <2>5. lo \in lo..hi
    OBVIOUS
  <2> QED BY <2>4, <2>5
<1>2. ASSUME NEW n \in lo..(hi - 1), n \in T PROVE n + 1 \in T
  <2>1. PICK f : Is(f, n)
    BY <1>2
  <2> DEFINE g == [i \in lo..(n + 1) |->
                    IF i = n + 1 THEN grow[n + 1][f[n]] ELSE f[i]]
  <2>2. n \in lo..n /\ n + 1 \in (lo + 1)..hi /\ n + 1 \in lo..hi
    OBVIOUS
  <2>3. f[n] \in S /\ grow[n + 1][f[n]] \in S
    BY <2>1, <2>2
  <2>4. g \in [lo..(n + 1) -> S]
    <3>1. \A i \in lo..(n + 1) : i # n + 1 => i \in lo..n
      OBVIOUS
    <3> QED BY <3>1, <2>1, <2>3
  <2>5. g[lo] = base
    BY <2>1
  <2>6. ASSUME NEW i \in (lo + 1)..(n + 1) PROVE g[i] = grow[i][g[i - 1]]
    <3>1. i \in lo..(n + 1) /\ i - 1 \in lo..(n + 1) /\ i - 1 # n + 1
      OBVIOUS
    <3>2. g[i - 1] = f[i - 1]
      BY <3>1
    <3>3. CASE i = n + 1
      <4>1. i - 1 = n
        BY <3>3
      <4> QED BY <3>1, <3>2, <3>3, <4>1
    <3>4. CASE i # n + 1
      <4>1. i \in (lo + 1)..n
        BY <3>4
      <4> QED BY <3>1, <3>2, <3>4, <4>1, <2>1
    <3> QED BY <3>3, <3>4
  <2>7. Is(g, n + 1)
    BY <2>4, <2>5, <2>6
  <2> QED BY <2>2, <2>7
<1>3. \A n \in lo..hi : n \in T
  <2> HIDE DEF T
  <2> QED BY <1>1, <1>2, IntervalInduction
<1>4. hi \in T
  BY <1>3
<1> QED BY <1>4 DEF Recursion

-----------------------------------------------------------------------------
(* Lists in an order.  R has the pairs of elements <<x, y>> with x first.  *)

StrictOrder(S, R) ==
    /\ \A x \in S : <<x, x>> \notin R
    /\ \A x, y, z \in S : <<x, y>> \in R /\ <<y, z>> \in R => <<x, z>> \in R
    /\ \A x, y \in S : x # y => <<x, y>> \in R \/ <<y, x>> \in R

Below(S, R, x) == {y \in S : <<y, x>> \in R}

\* The list has each of the elements once, each behind those below it.
InOrder(s, S, R) ==
    /\ s \in [1..Cardinality(S) -> S]
    /\ \A x \in S : \E k \in 1..Cardinality(S) : s[k] = x
    /\ \A j, k \in 1..Cardinality(S) : j < k => <<s[j], s[k]>> \in R

\* A number of the elements below is a place, and a place has an element.
LEMMA SortedInOrder ==
    ASSUME NEW S, IsFiniteSet(S), NEW R, StrictOrder(S, R),
           NEW s, s = [k \in 1..Cardinality(S) |-> s[k]],
           \A k \in 1..Cardinality(S) : \A x \in S :
                Cardinality(Below(S, R, x)) = k - 1 =>
                    s[k] \in S /\ Cardinality(Below(S, R, s[k])) = k - 1
    PROVE  InOrder(s, S, R)
<1> DEFINE n == Cardinality(S)
           rank(x) == Cardinality(Below(S, R, x))
           place == [x \in S |-> rank(x) + 1]
<1>1. n \in Nat
  BY FS_CardinalityType
<1>2. ASSUME NEW x \in S PROVE rank(x) \in 0..(n - 1)
  <2>1. /\ Below(S, R, x) \in SUBSET S
        /\ Below(S, R, x) # S
    BY DEF Below, StrictOrder
  <2>2. /\ IsFiniteSet(Below(S, R, x))
        /\ rank(x) <= n /\ rank(x) # n
    BY <2>1, FS_Subset
  <2>3. rank(x) \in Nat
    BY <2>2, FS_CardinalityType
  <2> HIDE DEF rank, n
  <2> QED BY <1>1, <2>2, <2>3
<1>3. ASSUME NEW x \in S, NEW y \in S, <<x, y>> \in R PROVE rank(x) < rank(y)
  <2>1. /\ Below(S, R, x) \in SUBSET Below(S, R, y)
        /\ Below(S, R, x) # Below(S, R, y)
    <3>1. x \in Below(S, R, y) /\ x \notin Below(S, R, x)
      BY <1>3 DEF Below, StrictOrder
    <3>2. \A z \in Below(S, R, x) : z \in Below(S, R, y)
      BY <1>3 DEF Below, StrictOrder
    <3> QED BY <3>1, <3>2
  <2>2. IsFiniteSet(Below(S, R, y))
    <3>1. Below(S, R, y) \in SUBSET S
      BY DEF Below
    <3> QED BY <3>1, FS_Subset
  <2>3. rank(x) <= rank(y) /\ rank(x) # rank(y)
    BY <2>1, <2>2, FS_Subset
  <2>4. rank(x) \in 0..(n - 1) /\ rank(y) \in 0..(n - 1)
    BY <1>2
  <2> HIDE DEF rank, n
  <2> QED BY <1>1, <2>3, <2>4
<1>4. place \in Injection(S, 1..n)
  <2>1. place \in [S -> 1..n]
    <3> HIDE DEF rank, n
    <3> QED BY <1>1, <1>2
  <2>2. ASSUME NEW x \in S, NEW y \in S, x # y PROVE place[x] # place[y]
    <3>1. <<x, y>> \in R \/ <<y, x>> \in R
      BY <2>2 DEF StrictOrder
    <3>2. rank(x) < rank(y) \/ rank(y) < rank(x)
      BY <1>3, <3>1
    <3>3. rank(x) \in 0..(n - 1) /\ rank(y) \in 0..(n - 1)
      BY <1>2
    <3> HIDE DEF rank, n
    <3> QED BY <1>1, <3>2, <3>3
  <2> QED BY <2>1, <2>2 DEF Injection, IsInjective
<1>5. place \in Surjection(S, 1..n)
  <2>1. IsFiniteSet(1..n) /\ Cardinality(1..n) = n
    <3> HIDE DEF n
    <3>1. 1 \in Int /\ n \in Int /\ (1 > n => n = 0) /\ n - 1 + 1 = n
      BY <1>1
    <3>2. /\ IsFiniteSet(1..n)
          /\ Cardinality(1..n) = IF 1 > n THEN 0 ELSE n - 1 + 1
      BY <3>1, FS_Interval
    <3> QED BY <3>1, <3>2
  <2> QED BY <1>4, <2>1, FS_Injection
<1>6. ASSUME NEW k \in 1..n PROVE s[k] \in S /\ rank(s[k]) = k - 1
  <2>1. PICK x \in S : place[x] = k
    BY <1>5 DEF Surjection
  <2>2. rank(x) = k - 1
    <3>1. rank(x) \in 0..(n - 1)
      BY <1>2
    <3> HIDE DEF rank, n
    <3> QED BY <1>1, <2>1, <3>1
  <2>3. x \in S /\ Cardinality(Below(S, R, x)) = k - 1
    BY <2>2
  <2>4. s[k] \in S /\ Cardinality(Below(S, R, s[k])) = k - 1
    BY <2>3
  <2> QED BY <2>4
<1>7. s \in [1..n -> S]
  <2> HIDE DEF rank
  <2>1. s = [k \in 1..n |-> s[k]]
    OBVIOUS
  <2>2. \A k \in 1..n : s[k] \in S
    BY <1>6
  <2> HIDE DEF n
  <2> QED BY <2>1, <2>2
<1>8. ASSUME NEW x \in S PROVE \E k \in 1..n : s[k] = x
  <2> DEFINE k == rank(x) + 1
  <2>1. k \in 1..n /\ k - 1 = rank(x)
    <3>1. rank(x) \in 0..(n - 1)
      BY <1>2
    <3> HIDE DEF rank, n
    <3> QED BY <1>1, <3>1
  <2>2. s[k] \in S /\ rank(s[k]) = rank(x)
    BY <1>6, <2>1
  <2>3. ~(<<s[k], x>> \in R) /\ ~(<<x, s[k]>> \in R)
    <3>1. rank(x) \in 0..(n - 1)
      BY <1>2
    <3>2. ~(rank(x) < rank(x))
      <4> HIDE DEF rank, n
      <4> QED BY <1>1, <3>1
    <3> HIDE DEF rank
    <3> QED BY <1>3, <2>2, <3>2
  <2>4. s[k] = x
    <3> HIDE DEF k
    <3> QED BY <2>2, <2>3 DEF StrictOrder
  <2> HIDE DEF k
  <2> QED BY <2>1, <2>4
<1>9. ASSUME NEW j \in 1..n, NEW k \in 1..n, j < k
      PROVE  <<s[j], s[k]>> \in R
  <2>1. /\ s[j] \in S /\ rank(s[j]) = j - 1
        /\ s[k] \in S /\ rank(s[k]) = k - 1
    BY <1>6
  <2>2. rank(s[j]) < rank(s[k]) /\ s[j] # s[k] /\ ~(rank(s[k]) < rank(s[j]))
    <3> HIDE DEF rank, n
    <3> QED BY <1>1, <1>9, <2>1
  <2>3. ~(<<s[k], s[j]>> \in R)
    <3> HIDE DEF rank, n
    <3> QED BY <1>3, <2>1, <2>2
  <2> HIDE DEF rank, n
  <2> QED BY <2>1, <2>2, <2>3 DEF StrictOrder
<1> HIDE DEF n
<1> QED BY <1>7, <1>8, <1>9 DEF InOrder, n

\* In front of an element are those below it.
LEMMA InFront ==
    ASSUME NEW S, IsFiniteSet(S), NEW R, StrictOrder(S, R),
           NEW s, InOrder(s, S, R), NEW k \in 1..Cardinality(S)
    PROVE  /\ InFrontOf(s, s[k]) = Below(S, R, s[k])
           /\ Cardinality(InFrontOf(s, s[k])) = k - 1
<1> DEFINE n == Cardinality(S)
<1>1. n \in Nat
  BY FS_CardinalityType
<1>2. s[k] \in S /\ DOMAIN s = 1..n /\ \A j \in 1..n : s[j] \in S
  BY DEF InOrder
<1>3. \A i, j \in 1..n : i < j => <<s[i], s[j]>> \in R
  BY DEF InOrder
<1>4. \A i, j \in 1..n : i < j => s[i] # s[j]
  <2> HIDE DEF n
  <2> QED BY <1>2, <1>3 DEF StrictOrder
<1>5. ASSUME NEW l \in 1..n PROVE (\A j \in 1..l : s[j] # s[k]) <=> l < k
  <2>1. CASE l < k
    <3>1. \A j \in 1..l : j \in 1..n /\ j < k
      BY <1>1, <2>1
    <3> QED BY <1>4, <2>1, <3>1
  <2>2. CASE ~(l < k)
    <3>1. k \in 1..l
      BY <1>1, <2>2
    <3> QED BY <2>2, <3>1
  <2> QED BY <2>1, <2>2
<1>6. InFrontOf(s, s[k]) = {s[l] : l \in 1..(k - 1)}
  <2>1. {l \in DOMAIN s : \A j \in 1..l : s[j] # s[k]} = 1..(k - 1)
    <3>1. \A l \in 1..n : l \in 1..(k - 1) <=> l < k
      BY <1>1
    <3>2. \A l \in 1..(k - 1) : l \in 1..n
      BY <1>1
    <3> HIDE DEF n
    <3> QED BY <1>2, <1>5, <3>1, <3>2
  <2> QED BY <2>1 DEF InFrontOf
<1>7. {s[l] : l \in 1..(k - 1)} = Below(S, R, s[k])
  <2>1. ASSUME NEW l \in 1..(k - 1) PROVE s[l] \in Below(S, R, s[k])
    <3>1. l \in 1..n /\ l < k /\ k \in 1..n
      BY <1>1
    <3> QED BY <1>2, <1>3, <3>1 DEF Below
  <2>2. ASSUME NEW y \in Below(S, R, s[k])
        PROVE  \E l \in 1..(k - 1) : s[l] = y
    <3>1. PICK l \in 1..n : s[l] = y
      BY DEF Below, InOrder
    <3>2. <<s[l], s[k]>> \in R
      BY <3>1 DEF Below
    <3>3. l # k
      BY <1>2, <3>2 DEF StrictOrder
    <3>4. ~(k < l)
      <4> SUFFICES ASSUME k < l PROVE FALSE
        OBVIOUS
      <4>1. <<s[k], s[l]>> \in R
        BY <1>3
      <4> QED BY <1>2, <3>2, <4>1 DEF StrictOrder
    <3>5. l \in 1..(k - 1)
      BY <1>1, <3>3, <3>4
    <3> QED BY <3>1, <3>5
  <2> QED BY <2>1, <2>2
<1>8. Cardinality({s[l] : l \in 1..(k - 1)}) = k - 1
  <2> DEFINE g == [l \in 1..(k - 1) |-> s[l]]
             T == {s[l] : l \in 1..(k - 1)}
  <2>1. \A l \in 1..(k - 1) : l \in 1..n
    BY <1>1
  <2>2. g \in Bijection(1..(k - 1), T)
    <3>1. g \in [1..(k - 1) -> T]
      OBVIOUS
    <3>2. \A i, j \in 1..(k - 1) : i # j => g[i] # g[j]
      <4>1. \A i, j \in 1..n : i # j => s[i] # s[j]
        <5>1. \A i, j \in 1..n : i # j => i < j \/ j < i
          OBVIOUS
        <5> HIDE DEF n
        <5> QED BY <1>4, <5>1
      <4> HIDE DEF n
      <4> QED BY <2>1, <4>1
    <3>3. \A t \in T : \E l \in 1..(k - 1) : g[l] = t
      OBVIOUS
    <3> HIDE DEF g, T
    <3> QED BY <3>1, <3>2, <3>3
            DEF Bijection, Injection, IsInjective, Surjection
  <2>3. IsFiniteSet(1..(k - 1)) /\ Cardinality(1..(k - 1)) = k - 1
    <3>1. k - 1 \in Int /\ 1 \in Int /\ (1 > k - 1 => k - 1 = 0)
          /\ (k - 1) - 1 + 1 = k - 1
      BY <1>1
    <3> QED BY <3>1, FS_Interval
  <2>4. ExistsBijection(1..(k - 1), T)
    <3> HIDE DEF g, T
    <3> QED BY <2>2 DEF ExistsBijection
  <2> HIDE DEF T
  <2> QED BY <2>3, <2>4, FS_Bijection DEF T
<1> QED BY <1>6, <1>7, <1>8

\* There is one list of a set in an order.
LEMMA OrderIsUnique ==
    ASSUME NEW S, IsFiniteSet(S), NEW R, StrictOrder(S, R),
           NEW s, InOrder(s, S, R), NEW t, InOrder(t, S, R)
    PROVE  s = t
<1> DEFINE n == Cardinality(S)
<1>1. n \in Nat
  BY FS_CardinalityType
<1>2. s \in [1..n -> S] /\ t \in [1..n -> S]
  BY DEF InOrder
<1>3. ASSUME NEW k \in 1..n PROVE s[k] = t[k]
  <2>1. s[k] \in S
    BY <1>2
  <2>2. PICK l \in 1..n : t[l] = s[k]
    BY <2>1 DEF InOrder
  <2>3. /\ Cardinality(Below(S, R, s[k])) = k - 1
        /\ Cardinality(Below(S, R, t[l])) = l - 1
    BY InFront
  <2>4. k = l
    <3> HIDE DEF n
    <3> QED BY <1>1, <2>2, <2>3
  <2> QED BY <2>2, <2>4
<1>4. s = [k \in 1..n |-> s[k]] /\ t = [k \in 1..n |-> t[k]]
  BY <1>2
<1> HIDE DEF n
<1> QED BY <1>3, <1>4

\* The numbers in their order.
LessThan == {p \in Nat \X Nat : p[1] < p[2]}

LEMMA SortedNumbers ==
    ASSUME NEW P \in SUBSET Nat, IsFiniteSet(P)
    PROVE  StrictOrder(P, LessThan) /\ InOrder(Sorted(P, <), P, LessThan)
<1>1. \A x, y \in P : <<x, y>> \in LessThan <=> x < y
  BY DEF LessThan
<1>2. StrictOrder(P, LessThan)
  <2>1. \A x \in P : ~(x < x)
    OBVIOUS
  <2>2. \A x, y, z \in P : x < y /\ y < z => x < z
    OBVIOUS
  <2>3. \A x, y \in P : x # y => x < y \/ y < x
    OBVIOUS
  <2> QED BY <1>1, <2>1, <2>2, <2>3 DEF StrictOrder
<1>3. \A x \in P : Below(P, LessThan, x) = {y \in P : y < x}
  BY <1>1 DEF Below
<1> DEFINE s == Sorted(P, <)
<1>4. s = [k \in 1..Cardinality(P) |-> s[k]]
  BY SMTT(30) DEF Sorted
<1>5. ASSUME NEW k \in 1..Cardinality(P), NEW x \in P,
             Cardinality(Below(P, LessThan, x)) = k - 1
      PROVE  s[k] \in P /\ Cardinality(Below(P, LessThan, s[k])) = k - 1
  <2>1. Cardinality({y \in P : y < x}) = k - 1
    BY <1>3, <1>5
  <2>2. s[k] \in P /\ Cardinality({y \in P : y < s[k]}) = k - 1
    BY <2>1 DEF Sorted
  <2> HIDE DEF s
  <2> QED BY <1>3, <2>2
<1> HIDE DEF s
<1>6. InOrder(s, P, LessThan)
  BY <1>2, <1>4, <1>5, SortedInOrder
<1> QED BY <1>2, <1>6 DEF s

\* A selection from a list in an order is the list of its elements.
LEMMA AmongInOrder ==
    ASSUME NEW S, IsFiniteSet(S), NEW R, StrictOrder(S, R),
           NEW s, InOrder(s, S, R), NEW T
    PROVE  InOrder(Among(s, T), S \cap T, R)
<1> DEFINE n == Cardinality(S)
           P == {k \in DOMAIN s : s[k] \in T}
           place == Sorted(P, <)
           m == Cardinality(P)
<1>1. n \in Nat /\ s \in [1..n -> S]
  BY FS_CardinalityType DEF InOrder
<1>2. P \in SUBSET Nat /\ P \in SUBSET (1..n)
  BY <1>1
<1>3. IsFiniteSet(P)
  <2>1. IsFiniteSet(1..n)
    BY <1>1, FS_Interval
  <2> HIDE DEF P
  <2> QED BY <1>2, <2>1, FS_Subset
<1>4. InOrder(place, P, LessThan) /\ m \in Nat
  <2> HIDE DEF P
  <2> QED BY <1>2, <1>3, SortedNumbers, FS_CardinalityType
<1>5. m = Cardinality(S \cap T)
  <2> DEFINE g == [k \in P |-> s[k]]
  <2>1. g \in [P -> S \cap T]
    BY <1>1
  <2>2. \A i, j \in P : i # j => g[i] # g[j]
    <3>1. \A i, j \in 1..n : i < j => s[i] # s[j]
      BY <1>1 DEF StrictOrder, InOrder
    <3>2. \A i, j \in 1..n : i # j => i < j \/ j < i
      OBVIOUS
    <3>3. \A i, j \in 1..n : i # j => s[i] # s[j]
      <4> HIDE DEF n
      <4> QED BY <3>1, <3>2
    <3> HIDE DEF n
    <3> QED BY <1>2, <3>3
  <2>3. \A t \in S \cap T : \E k \in P : g[k] = t
    <3>1. \A t \in S : \E k \in 1..n : s[k] = t
      BY DEF InOrder
    <3> QED BY <1>1, <3>1
  <2>4. g \in Bijection(P, S \cap T)
    <3> HIDE DEF g, P
    <3> QED BY <2>1, <2>2, <2>3
            DEF Bijection, Injection, IsInjective, Surjection
  <2>5. ExistsBijection(P, S \cap T)
    <3> HIDE DEF g, P
    <3> QED BY <2>4 DEF ExistsBijection
  <2> HIDE DEF P
  <2> QED BY <1>3, <2>5, FS_Bijection
<1>6. place \in [1..m -> P]
      /\ (\A x \in P : \E k \in 1..m : place[k] = x)
      /\ \A j, k \in 1..m : j < k => place[j] < place[k]
  <2>1. \A j, k \in 1..m : j < k => <<place[j], place[k]>> \in LessThan
    BY <1>4 DEF InOrder
  <2>2. \A j, k : <<j, k>> \in LessThan => j < k
    BY DEF LessThan
  <2> HIDE DEF place
  <2> QED BY <1>4, <2>1, <2>2 DEF InOrder
<1>7. Among(s, T) = [k \in 1..m |-> s[place[k]]]
  <2>1. DOMAIN place = 1..m
    BY <1>6
  <2> QED BY <2>1 DEF Among
<1> DEFINE a == [k \in 1..m |-> s[place[k]]]
<1> HIDE DEF place, m
<1>8. a \in [1..m -> S \cap T]
  BY <1>1, <1>6
<1>9. \A x \in S \cap T : \E k \in 1..m : a[k] = x
  <2>1. ASSUME NEW x \in S \cap T PROVE \E l \in P : s[l] = x
    <3>1. PICK l \in 1..n : s[l] = x
      BY DEF InOrder
    <3> QED BY <1>1, <3>1
  <2> HIDE DEF P
  <2> QED BY <1>6, <2>1
<1>10. \A j, k \in 1..m : j < k => <<a[j], a[k]>> \in R
  <2>1. \A i, j \in 1..n : i < j => <<s[i], s[j]>> \in R
    BY DEF InOrder
  <2> HIDE DEF P, n
  <2> QED BY <1>2, <1>6, <2>1
<1> HIDE DEF a
<1> QED BY <1>5, <1>7, <1>8, <1>9, <1>10 DEF InOrder, a

-----------------------------------------------------------------------------
(* Sums.                                                                   *)

LEMMA FunctionIsSeq ==
    ASSUME NEW n \in Nat, NEW S, NEW f \in [1..n -> S]
    PROVE  f \in Seq(S) /\ Len(f) = n
  OBVIOUS

LEMMA SumsDef ==
    ASSUME NEW n \in Nat, NEW seq \in [1..n -> Nat]
    PROVE  /\ Sums(seq) \in [0..n -> Nat] /\ Sums(seq)[0] = 0
           /\ \A k \in 1..n : Sums(seq)[k] = Sums(seq)[k - 1] + seq[k]
<1> DEFINE Sum(f) == [k \in 0..Len(seq) |-> IF k = 0 THEN 0 ELSE f[k - 1] + seq[k]]
           grow == [k \in 1..n |-> [x \in Nat |-> x + seq[k]]]
           t == CHOOSE f : f = Sum(f)
<1>1. seq \in Seq(Nat) /\ Len(seq) = n
  BY FunctionIsSeq
<1>2. grow \in [1..n -> [Nat -> Nat]]
  OBVIOUS
<1>3. PICK f : Recursion(f, Nat, 0, n, 0, grow)
  <2> HIDE DEF grow
  <2>1. 0 \in Int /\ n \in Int /\ 0 <= n /\ 0 + 1 = 1 /\ 0 \in Nat
    OBVIOUS
  <2>2. grow \in [(0 + 1)..n -> [Nat -> Nat]]
    BY <1>2, <2>1
  <2> QED BY <2>1, <2>2, RecursiveFunction
<1>4. /\ f \in [0..n -> Nat] /\ f[0] = 0
      /\ \A k \in 1..n : f[k] = grow[k][f[k - 1]]
  <2>1. \A k \in 1..n : k \in (0 + 1)..n
    OBVIOUS
  <2> HIDE DEF grow
  <2> QED BY <1>3, <2>1 DEF Recursion
<1>5. \A k \in 1..n : f[k] = f[k - 1] + seq[k]
  <2> SUFFICES ASSUME NEW k \in 1..n PROVE f[k] = f[k - 1] + seq[k]
    OBVIOUS
  <2>1. k - 1 \in 0..n
    OBVIOUS
  <2>2. f[k - 1] \in Nat
    BY <1>4, <2>1
  <2> QED BY <1>4, <2>2
<1>6. ASSUME NEW k \in 0..n PROVE f[k] = Sum(f)[k]
  <2>1. CASE k = 0
    BY <1>1, <1>4, <2>1
  <2>2. CASE k # 0
    BY <1>1, <1>5, <2>2
  <2> QED BY <2>1, <2>2
<1>7. f = Sum(f)
  <2>1. DOMAIN f = 0..n /\ f = [k \in 0..n |-> f[k]]
    BY <1>4
  <2>2. Sum(f) = [k \in 0..n |-> Sum(f)[k]]
    BY <1>1
  <2> HIDE DEF Sum
  <2> QED BY <1>6, <2>1, <2>2
<1>8. t = Sum(t)
  <2> HIDE DEF Sum
  <2> QED BY <1>7
<1>9. Sums(seq) = t
  BY DEF Sums
<1> HIDE DEF t
<1> DEFINE IsSum(g, m) == g[m] \in Nat /\ (m # 0 => g[m] = g[m - 1] + seq[m])
           T == {k \in 0..n : IsSum(t, k)}
<1>10. t[0] = 0 /\ \A k \in 1..n : t[k] = t[k - 1] + seq[k]
  BY <1>1, <1>8
<1>11. \A k \in 0..n : k \in T
  <2>1. 0 \in T
    BY <1>10
  <2>2. \A k \in 0..(n - 1) : k \in T => k + 1 \in T
    <3> SUFFICES ASSUME NEW k \in 0..(n - 1), k \in T PROVE k + 1 \in T
      OBVIOUS
    <3>1. k + 1 \in 1..n /\ k + 1 \in 0..n /\ (k + 1) - 1 = k
      OBVIOUS
    <3>2. t[k + 1] = t[k] + seq[k + 1] /\ seq[k + 1] \in Nat /\ t[k] \in Nat
      BY <1>10, <3>1
    <3>3. t[k + 1] \in Nat
      BY <3>2
    <3> QED BY <3>1, <3>2, <3>3
  <2>3. 0 \in Int /\ n \in Int /\ 0 <= n
    OBVIOUS
  <2> HIDE DEF T
  <2> QED BY <2>1, <2>2, <2>3, IntervalInduction
<1>12. t \in [0..n -> Nat]
  <2>1. t = [k \in 0..n |-> t[k]]
    <3>1. t = [k \in 0..n |-> IF k = 0 THEN 0 ELSE t[k - 1] + seq[k]]
      BY <1>1, <1>8
    <3> QED BY <3>1
  <2>2. \A k \in 0..n : t[k] \in Nat
    BY <1>11
  <2> QED BY <2>1, <2>2
<1> QED BY <1>9, <1>10, <1>12

LEMMA SumsGrow ==
    ASSUME NEW n \in Nat, NEW seq \in [1..n -> Nat],
           NEW j \in 0..n, NEW k \in 0..n
    PROVE  /\ j <= k => Sums(seq)[j] <= Sums(seq)[k]
           /\ j < k => Sums(seq)[j] + seq[j + 1] <= Sums(seq)[k]
<1> DEFINE s == Sums(seq)
           From(i) == {l \in i..n : s[i] <= s[l]}
<1>1. /\ s \in [0..n -> Nat]
      /\ \A l \in 1..n : s[l] = s[l - 1] + seq[l]
  BY SumsDef
<1> HIDE DEF s
<1>2. ASSUME NEW i \in 0..n PROVE \A l \in i..n : s[i] <= s[l]
  <2>1. i \in Int /\ n \in Int /\ i <= n
    OBVIOUS
  <2>2. i \in From(i)
    BY <1>1
  <2>3. ASSUME NEW l \in i..(n - 1), l \in From(i) PROVE l + 1 \in From(i)
    <3>1. l \in 0..n /\ l + 1 \in 1..n /\ l + 1 \in i..n /\ (l + 1) - 1 = l
          /\ l + 1 \in 0..n
      OBVIOUS
    <3>2. s[l + 1] = s[l] + seq[l + 1] /\ seq[l + 1] \in Nat
          /\ s[l] \in Nat /\ s[i] \in Nat /\ s[i] <= s[l]
      BY <1>1, <2>3, <3>1
    <3>3. s[i] <= s[l + 1]
      BY <3>2
    <3> QED BY <3>1, <3>3
  <2>4. \A l \in i..n : l \in From(i)
    <3> HIDE DEF From
    <3> QED BY <2>1, <2>2, <2>3, IntervalInduction
  <2> QED BY <2>4
<1>3. j <= k => s[j] <= s[k]
  BY <1>2
<1>4. ASSUME j < k PROVE s[j] + seq[j + 1] <= s[k]
  <2>1. j + 1 \in 1..n /\ j + 1 \in 0..n /\ k \in (j + 1)..n /\ (j + 1) - 1 = j
    BY <1>4
  <2>2. s[j + 1] = s[j] + seq[j + 1]
    BY <1>1, <2>1
  <2> QED BY <1>2, <2>1, <2>2
<1> QED BY <1>3, <1>4 DEF s

LEMMA SumsPrefix ==
    ASSUME NEW n \in Nat, NEW N \in Nat, n <= N,
           NEW pre \in [1..n -> Nat], NEW seq \in [1..N -> Nat],
           \A k \in 1..n : pre[k] = seq[k]
    PROVE  \A k \in 0..n : Sums(pre)[k] = Sums(seq)[k]
<1> DEFINE T == {k \in 0..n : Sums(pre)[k] = Sums(seq)[k]}
<1>1. /\ Sums(pre)[0] = 0
      /\ \A k \in 1..n : Sums(pre)[k] = Sums(pre)[k - 1] + pre[k]
  BY SumsDef
<1>2. /\ Sums(seq)[0] = 0
      /\ \A k \in 1..N : Sums(seq)[k] = Sums(seq)[k - 1] + seq[k]
  BY SumsDef
<1>3. 0 \in T
  BY <1>1, <1>2
<1>4. ASSUME NEW l \in 0..(n - 1), l \in T PROVE l + 1 \in T
  <2>1. l + 1 \in 1..n /\ l + 1 \in 1..N /\ l + 1 \in 0..n /\ (l + 1) - 1 = l
    OBVIOUS
  <2> QED BY <1>1, <1>2, <1>4, <2>1
<1>5. \A l \in 0..n : l \in T
  <2>1. 0 \in Int /\ n \in Int /\ 0 <= n
    OBVIOUS
  <2> HIDE DEF T
  <2> QED BY <1>3, <1>4, <2>1, IntervalInduction
<1> QED BY <1>5

LEMMA SumsBound ==
    ASSUME NEW n \in Nat, NEW seq \in [1..n -> Nat], NEW b \in Nat,
           \A k \in 1..n : seq[k] <= b
    PROVE  Sums(seq)[n] <= n * b
<1> DEFINE s == Sums(seq)
           T == {k \in 0..n : s[k] <= k * b}
<1>1. /\ s \in [0..n -> Nat] /\ s[0] = 0
      /\ \A l \in 1..n : s[l] = s[l - 1] + seq[l]
  BY SumsDef
<1> HIDE DEF s
<1>2. 0 \in T
  BY <1>1
<1>3. ASSUME NEW l \in 0..(n - 1), l \in T PROVE l + 1 \in T
  <2>1. l \in 0..n /\ l + 1 \in 1..n /\ l + 1 \in 0..n /\ (l + 1) - 1 = l
    OBVIOUS
  <2>2. s[l + 1] = s[l] + seq[l + 1] /\ seq[l + 1] \in Nat
        /\ s[l] \in Nat /\ s[l] <= l * b /\ seq[l + 1] <= b
    BY <1>1, <1>3, <2>1
  <2>3. (l + 1) * b = l * b + b /\ l * b \in Nat
    OBVIOUS
  <2>4. s[l + 1] <= (l + 1) * b
    BY <2>2, <2>3
  <2> QED BY <2>1, <2>4
<1>4. \A l \in 0..n : l \in T
  <2>1. 0 \in Int /\ n \in Int /\ 0 <= n
    OBVIOUS
  <2> HIDE DEF T
  <2> QED BY <1>2, <1>3, <2>1, IntervalInduction
<1>5. n \in T
  BY <1>4
<1> QED BY <1>5 DEF s

-----------------------------------------------------------------------------
(* Meshes.                                                                 *)

LEMMA DomainProcess ==
    ASSUME NEW m, IsMesh(m), NEW d \in 0..(m.domains[Size] - 1)
    PROVE  /\ d2p(m, d) \in Rank /\ d \in OwnDomains(m, d2p(m, d))
           /\ \A r \in Rank : d \in OwnDomains(m, r) => r = d2p(m, d)
<1>1. Size \in Nat \ {0}
  BY SizeAssumption
<1>2. /\ m.domains \in [0..Size -> Nat] /\ m.domains[0] = 0
      /\ \A i, j \in 0..Size : i <= j => m.domains[i] <= m.domains[j]
  BY DEF IsMesh, IsDistribution
<1> DEFINE T == {r \in 0..Size : d < m.domains[r]}
<1>3. PICK b \in T : \A k \in T : b <= k
  <2>1. Size \in T
    BY <1>1, <1>2
  <2>2. T \subseteq Nat
    BY <1>1
  <2> HIDE DEF T
  <2> QED BY <2>1, <2>2, LeastNumber
<1>4. b # 0
  BY <1>2, <1>3
<1>5. b - 1 \in Rank /\ b - 1 \in 0..Size /\ b - 1 \notin T
  BY <1>1, <1>3, <1>4 DEF Rank
<1>6. d \in OwnDomains(m, b - 1)
  <2>1. (b - 1) + 1 = b /\ b \in 0..Size /\ d < m.domains[b]
    BY <1>1, <1>3
  <2>2. ~(d < m.domains[b - 1])
    BY <1>5
  <2>3. /\ m.domains[b - 1] \in Nat /\ m.domains[b] \in Nat
        /\ m.domains[Size] \in Nat
    BY <1>1, <1>2, <1>5, <2>1
  <2>4. d \in m.domains[b - 1]..(m.domains[b] - 1)
    BY <2>1, <2>2, <2>3
  <2> QED BY <2>1, <2>4 DEF OwnDomains
<1>7. ASSUME NEW q \in Rank, NEW r \in Rank,
             d \in OwnDomains(m, q), d \in OwnDomains(m, r)
      PROVE  q = r
  <2>1. ASSUME NEW x \in Rank, NEW y \in Rank, x < y,
               d \in OwnDomains(m, x), d \in OwnDomains(m, y)
        PROVE  FALSE
    <3>1. x + 1 \in 0..Size /\ y \in 0..Size /\ x + 1 <= y
      BY <1>1, <2>1 DEF Rank
    <3>2. m.domains[x + 1] <= m.domains[y] /\ m.domains[x + 1] \in Nat
          /\ m.domains[y] \in Nat
      BY <1>2, <3>1
    <3> QED BY <2>1, <3>2 DEF OwnDomains
  <2>2. q < r \/ r < q \/ q = r
    BY <1>1 DEF Rank
  <2> QED BY <1>7, <2>1, <2>2
<1>8. d2p(m, d) \in Rank /\ d \in OwnDomains(m, d2p(m, d))
  BY <1>5, <1>6 DEF d2p
<1> QED BY <1>7, <1>8

LEMMA ProcessesInOrder ==
    ASSUME NEW m, IsMesh(m), NEW d \in 0..(m.domains[Size] - 1),
           NEW e \in 0..(m.domains[Size] - 1), d <= e
    PROVE  d2p(m, d) <= d2p(m, e)
<1> DEFINE q == d2p(m, d)
           r == d2p(m, e)
<1>1. /\ q \in Rank /\ d \in OwnDomains(m, q)
      /\ r \in Rank /\ e \in OwnDomains(m, r)
  BY DomainProcess
<1> HIDE DEF q, r
<1>2. Size \in Nat \ {0}
  BY SizeAssumption
<1>3. /\ m.domains \in [0..Size -> Nat]
      /\ \A i, j \in 0..Size : i <= j => m.domains[i] <= m.domains[j]
  BY DEF IsMesh, IsDistribution
<1>4. ASSUME r < q PROVE FALSE
  <2>1. r + 1 \in 0..Size /\ q \in 0..Size /\ r + 1 <= q
    BY <1>1, <1>2, <1>4 DEF Rank
  <2>2. m.domains[r + 1] <= m.domains[q] /\ m.domains[r + 1] \in Nat
        /\ m.domains[q] \in Nat
    BY <1>3, <2>1
  <2> QED BY <1>1, <2>2 DEF OwnDomains
<1> QED BY <1>1, <1>2, <1>4 DEF q, r, Rank

-----------------------------------------------------------------------------
(* The processes of a node agree on its group, so that they divide the     *)
(* nodes they share into the same intervals.                               *)

GroupIn(m, D, v) == IF m.nodes[D][v].free # {} THEN 0
                    ELSE IF Cardinality(D) = 1 THEN 2 ELSE 1
PlacesIn(m, D, g) == {v \in DOMAIN m.nodes[D] : GroupIn(m, D, v) = g}
IntervalsIn(m) ==
    {i \in [domains : DOMAIN m.nodes, group : 0..2] :
        PlacesIn(m, i.domains, i.group) # {}}
IntervalsOf(m, r) == {i \in IntervalsIn(m) : r \in ranks(m, i)}
NodesIn(m, i) == Sorted(PlacesIn(m, i.domains, i.group), <)
NodeCount(m, i) == Len(NodesIn(m, i))

LEMMA DomainsFacts ==
    ASSUME NEW m, IsMesh(m), NEW D \in DOMAIN m.nodes
    PROVE  /\ D \in SUBSET Nat /\ D # {}
           /\ \A d \in D : d \in 0..(m.domains[Size] - 1)
           /\ IsFiniteSet(D) /\ Cardinality(D) \in Nat \ {0}
           /\ Min(D) \in D /\ \A d \in D : Min(D) <= d
<1>1. D # {} /\ D \subseteq 0..(m.domains[Size] - 1)
  BY DEF IsMesh
<1>2. m.domains[Size] \in Nat
  BY SizeAssumption DEF IsMesh, IsDistribution
<1>3. IsFiniteSet(D)
  <2>1. 0 \in Int /\ m.domains[Size] - 1 \in Int
    BY <1>2
  <2>2. IsFiniteSet(0..(m.domains[Size] - 1))
    BY <2>1, FS_Interval
  <2> QED BY <1>1, <2>2, FS_Subset
<1>4. Cardinality(D) \in Nat \ {0}
  BY <1>1, <1>3, FS_CardinalityType, FS_EmptySet
<1>5. D \subseteq Nat
  BY <1>1, <1>2
<1>6. Min(D) \in D /\ \A d \in D : Min(D) <= d
  BY <1>1, <1>5, LeastOfSet
<1> QED BY <1>1, <1>3, <1>4, <1>5, <1>6

LEMMA NodeRankFacts ==
    ASSUME NEW m, IsMesh(m), NEW D \in DOMAIN m.nodes
    PROVE  \A q \in nodeRanks(m, D) : q \in Rank
<1> TAKE q \in nodeRanks(m, D)
<1>1. PICK d \in D : q = d2p(m, d)
  BY DEF nodeRanks
<1>2. d \in 0..(m.domains[Size] - 1)
  BY DomainsFacts
<1> QED BY <1>1, <1>2, DomainProcess

LEMMA NeighbourFacts ==
    ASSUME NEW m, IsMesh(m), NEW r \in Rank
    PROVE  /\ \A q \in neighbours(m, r) :
                q \in Rank /\ q # r /\ r \in neighbours(m, q)
           /\ \A D \in DOMAIN m.nodes : \A q \in nodeRanks(m, D) :
                r \in nodeRanks(m, D) /\ q # r => q \in neighbours(m, r)
<1>1. \A q, p : q \in neighbours(m, p) <=>
        /\ q # p
        /\ \E D \in DOMAIN m.nodes : p \in nodeRanks(m, D) /\ q \in nodeRanks(m, D)
  <2> TAKE q, p
  <2> DEFINE I == OfProcess(m, p)
             U == {nodeRanks(m, D) : D \in I}
  <2>1. neighbours(m, p) = (UNION U) \ {p}
    BY DEF neighbours
  <2>2. q \in UNION U <=> \E D \in I : q \in nodeRanks(m, D)
    OBVIOUS
  <2>3. \A D : D \in I <=> D \in DOMAIN m.nodes /\ p \in nodeRanks(m, D)
    BY DEF OfProcess
  <2> HIDE DEF I
  <2> QED BY <2>1, <2>2, <2>3
<1>2. \A D \in DOMAIN m.nodes : \A q \in nodeRanks(m, D) : q \in Rank
  BY NodeRankFacts
<1> QED BY <1>1, <1>2

\* A node is external to all of its processes as soon as one of them has a free
\* face there: this one tells the others.
LEMMA ExternalAgreed ==
    ASSUME NEW m, IsMesh(m), NEW D \in DOMAIN m.nodes,
           NEW v \in DOMAIN m.nodes[D], NEW r \in nodeRanks(m, D)
    PROVE  <<D, v>> \in externalBoundary(m, r) <=> m.nodes[D][v].free # {}
<1> DEFINE x == <<D, v>>
           n == m.nodes[D][v]
<1>1. n.free \subseteq nodeRanks(m, D)
  <2>1. n \in [free : SUBSET nodeRanks(m, D), cut : SUBSET nodeRanks(m, D)]
    BY DEF IsMesh, IsNode
  <2> QED BY <2>1
<1>2. \A q : x \in external(m, q) <=> q \in nodeRanks(m, D) /\ q \in n.free
  <2> TAKE q
  <2>1. x \in Nodes(m, q) <=> q \in nodeRanks(m, D)
    BY DEF Nodes, OfProcess
  <2> QED BY <2>1 DEF external
<1>3. \A p, q : x \in sBuffer(m, p, q) <=>
        p \in nodeRanks(m, D) /\ p \in n.free /\ q \in nodeRanks(m, D)
  BY <1>2 DEF sBuffer
<1>4. r \in Rank /\ \A q \in nodeRanks(m, D) : q \in Rank
  BY NodeRankFacts
<1>5. \A q \in nodeRanks(m, D) : q # r => q \in neighbours(m, r)
  BY <1>4, NeighbourFacts
<1> DEFINE In == UNION {sBuffer(m, q, r) : q \in neighbours(m, r)}
           Out == UNION {sBuffer(m, r, q) : q \in neighbours(m, r)}
<1>6. x \in In <=> \E q \in neighbours(m, r) : x \in sBuffer(m, q, r)
  OBVIOUS
<1>7. x \in Out <=> \E q \in neighbours(m, r) : x \in sBuffer(m, r, q)
  OBVIOUS
<1>8. x \in externalBoundary(m, r) <=> x \in external(m, r) \/ (x \in In /\ x \notin Out)
  BY DEF externalBoundary, nExternal
<1> HIDE DEF x, n, In, Out
<1>9. x \in externalBoundary(m, r) => n.free # {}
  BY <1>2, <1>3, <1>6, <1>8
<1>10. ASSUME NEW q \in n.free PROVE x \in externalBoundary(m, r)
  <2>1. CASE r \in n.free
    BY <1>2, <1>8, <2>1
  <2>2. CASE r \notin n.free
    <3>1. q \in nodeRanks(m, D) /\ q # r
      BY <1>1, <1>10, <2>2
    <3>2. x \in In
      BY <1>3, <1>5, <1>6, <1>10, <3>1
    <3>3. x \notin Out
      BY <1>3, <1>7, <2>2
    <3> QED BY <1>8, <3>2, <3>3
  <2> QED BY <2>1, <2>2
<1> QED BY <1>9, <1>10 DEF x, n

LEMMA GroupAgreed ==
    ASSUME NEW m, IsMesh(m), NEW D \in DOMAIN m.nodes,
           NEW v \in DOMAIN m.nodes[D], NEW r \in nodeRanks(m, D)
    PROVE  group(m, r, <<D, v>>) = GroupIn(m, D, v)
<1> DEFINE x == <<D, v>>
           n == m.nodes[D][v]
<1>1. x \in externalBoundary(m, r) <=> n.free # {}
  BY ExternalAgreed
<1>2. n.free = {} => n.cut = IF Cardinality(D) = 1 THEN {} ELSE nodeRanks(m, D)
  BY DEF IsMesh, IsNode
<1>3. x \in internal(m, r) <=> r \in n.cut
  <2>1. x \in Nodes(m, r)
    BY DEF Nodes, OfProcess
  <2> QED BY <2>1 DEF internal
<1>4. x \in internalBoundary(m, r) <=> r \in n.cut /\ n.free = {}
  BY <1>1, <1>3 DEF internalBoundary
<1> HIDE DEF x, n
<1>5. group(m, r, x) = IF n.free # {} THEN 0
                       ELSE IF Cardinality(D) = 1 THEN 2 ELSE 1
  BY <1>1, <1>2, <1>4 DEF group
<1> QED BY <1>5 DEF GroupIn, x, n

LEMMA IntervalsAgreed ==
    ASSUME NEW m, IsMesh(m), NEW r
    PROVE  /\ intervals(m, r) = IntervalsOf(m, r)
           /\ \A i \in IntervalsOf(m, r) : nodesOf(m, r, i) = NodesIn(m, i)
<1>1. \A D, v : <<D, v>> \in Nodes(m, r) <=>
        D \in DOMAIN m.nodes /\ v \in DOMAIN m.nodes[D] /\ r \in nodeRanks(m, D)
  BY DEF Nodes, OfProcess
<1>2. \A x \in Nodes(m, r) : \E D, v : x = <<D, v>>
  BY DEF Nodes
<1>3. ASSUME NEW i \in intervals(m, r) PROVE i \in IntervalsOf(m, r)
  <2>1. PICK x \in Nodes(m, r) : i = [domains |-> x[1], group |-> group(m, r, x)]
    BY <1>3 DEF intervals
  <2>2. PICK D, v : x = <<D, v>>
    BY <1>2
  <2>3. D \in DOMAIN m.nodes /\ v \in DOMAIN m.nodes[D] /\ r \in nodeRanks(m, D)
    BY <1>1, <2>2
  <2>4. group(m, r, x) = GroupIn(m, D, v)
    BY <2>2, <2>3, GroupAgreed
  <2>5. i.domains = D /\ i.group = GroupIn(m, D, v)
        /\ i = [domains |-> D, group |-> GroupIn(m, D, v)]
    BY <2>1, <2>2, <2>4
  <2>6. GroupIn(m, D, v) \in 0..2
    BY DEF GroupIn
  <2>7. i \in [domains : DOMAIN m.nodes, group : 0..2]
    BY <2>3, <2>5, <2>6
  <2>8. v \in PlacesIn(m, i.domains, i.group)
    BY <2>3, <2>5 DEF PlacesIn
  <2> QED BY <2>3, <2>5, <2>7, <2>8 DEF IntervalsOf, IntervalsIn, ranks
<1>4. ASSUME NEW i \in IntervalsOf(m, r)
      PROVE  i \in intervals(m, r) /\ nodesOf(m, r, i) = NodesIn(m, i)
  <2> DEFINE D == i.domains
  <2>1. /\ i \in [domains : DOMAIN m.nodes, group : 0..2]
        /\ PlacesIn(m, D, i.group) # {} /\ r \in nodeRanks(m, D)
    BY DEF IntervalsOf, IntervalsIn, ranks
  <2>2. D \in DOMAIN m.nodes /\ i = [domains |-> D, group |-> i.group]
    BY <2>1
  <2>3. \A v \in DOMAIN m.nodes[D] : group(m, r, <<D, v>>) = GroupIn(m, D, v)
    BY <2>1, <2>2, GroupAgreed
  <2>4. PICK v \in DOMAIN m.nodes[D] : GroupIn(m, D, v) = i.group
    BY <2>1 DEF PlacesIn
  <2> HIDE DEF D
  <2>5. i \in intervals(m, r)
    <3>1. <<D, v>> \in Nodes(m, r)
      BY <1>1, <2>1, <2>2
    <3>2. <<D, v>>[1] = D /\ group(m, r, <<D, v>>) = i.group
      BY <2>3, <2>4
    <3> QED BY <2>2, <3>1, <3>2 DEF intervals
  <2>6. {v2 \in DOMAIN m.nodes[D] : group(m, r, <<D, v2>>) = i.group}
            = PlacesIn(m, D, i.group)
    BY <2>3 DEF PlacesIn
  <2>7. nodesOf(m, r, i) = NodesIn(m, i)
    BY <2>6, Zenon DEF nodesOf, NodesIn, D
  <2> QED BY <2>5, <2>7
<1> QED BY <1>3, <1>4

LEMMA IntervalFacts ==
    ASSUME NEW m, IsMesh(m), NEW i \in IntervalsIn(m)
    PROVE  /\ i.domains \in SUBSET Nat /\ i.domains # {}
           /\ \A d \in i.domains : d \in 0..(m.domains[Size] - 1)
           /\ IsFiniteSet(i.domains) /\ Cardinality(i.domains) \in Nat \ {0}
           /\ NodeCount(m, i) \in Nat \ {0}
           /\ Min(i.domains) \in i.domains
           /\ \A d \in i.domains : Min(i.domains) <= d
           /\ i.domains \in DOMAIN m.nodes /\ i.group \in Int
           /\ i = [domains |-> i.domains, group |-> i.group]
<1> DEFINE D == i.domains
           P == PlacesIn(m, D, i.group)
           n == Cardinality(P)
<1>1. /\ i \in [domains : DOMAIN m.nodes, group : 0..2] /\ P # {}
  BY DEF IntervalsIn
<1>2. D \in DOMAIN m.nodes /\ i = [domains |-> D, group |-> i.group] /\ i.group \in Int
  BY <1>1
<1>3. P \in SUBSET Nat /\ IsFiniteSet(P)
  <2>1. DOMAIN m.nodes[D] = 1..Len(m.nodes[D]) /\ Len(m.nodes[D]) \in Nat
    BY <1>2 DEF IsMesh
  <2>2. P \subseteq 1..Len(m.nodes[D])
    BY <2>1 DEF PlacesIn
  <2> HIDE DEF P
  <2>3. IsFiniteSet(1..Len(m.nodes[D])) /\ 1..Len(m.nodes[D]) \subseteq Nat
    BY <2>1, FS_Interval
  <2> QED BY <2>2, <2>3, FS_Subset
<1>4. n \in Nat \ {0}
  BY <1>1, <1>3, FS_CardinalityType, FS_EmptySet
<1>5. Len(Sorted(P, <)) = n
  <2>1. Sorted(P, <) \in [1..n -> P]
    BY <1>3, SortedNumbers DEF InOrder
  <2> HIDE DEF P
  <2> QED BY <1>4, <2>1, FunctionIsSeq
<1>6. NodeCount(m, i) \in Nat \ {0}
  BY <1>4, <1>5 DEF NodeCount, NodesIn
<1> QED BY <1>2, <1>6, DomainsFacts

LEMMA IntervalsFinite ==
    ASSUME NEW m, IsMesh(m)
    PROVE  IsFiniteSet(IntervalsIn(m))
<1> DEFINE D == 0..(m.domains[Size] - 1)
           S == (SUBSET D) \X (0..2)
           T == IntervalsIn(m)
           f == [i \in T |-> <<i.domains, i.group>>]
<1>1. m.domains[Size] \in Nat
  BY SizeAssumption DEF IsMesh, IsDistribution
<1>2. IsFiniteSet(D) /\ IsFiniteSet(0..2)
  <2>1. 0 \in Int /\ m.domains[Size] - 1 \in Int /\ 2 \in Int
    BY <1>1
  <2> QED BY <2>1, FS_Interval
<1>3. DOMAIN m.nodes \in SUBSET (SUBSET D)
  BY DEF IsMesh
<1> HIDE DEF D
<1>4. IsFiniteSet(S)
  BY <1>2, FS_SUBSET, FS_Product
<1>5. ASSUME NEW i \in T
      PROVE  /\ i.domains \in SUBSET D /\ i.group \in 0..2
             /\ i = [domains |-> i.domains, group |-> i.group]
  <2>1. i \in [domains : DOMAIN m.nodes, group : 0..2]
    BY DEF IntervalsIn
  <2> QED BY <1>3, <2>1
<1> HIDE DEF T
<1>6. f \in [T -> S]
  BY <1>5
<1>7. ASSUME NEW i \in T, NEW j \in T, f[i] = f[j] PROVE i = j
  <2>1. i.domains = j.domains /\ i.group = j.group
    BY <1>7
  <2> QED BY <1>5, <2>1
<1>8. f \in Injection(T, S)
  <2> HIDE DEF f, S
  <2> QED BY <1>6, <1>7 DEF Injection, IsInjective
<1> HIDE DEF S, f
<1> QED BY <1>4, <1>8, FS_Injection DEF T

\* The owner of an interval is the first of its processes.
LEMMA OwnerFacts ==
    ASSUME NEW m, IsMesh(m), NEW i \in IntervalsIn(m)
    PROVE  /\ Owner(m, i) \in ranks(m, i)
           /\ \A r \in ranks(m, i) : r \in Rank /\ Owner(m, i) <= r
<1> DEFINE D == i.domains
<1>1. /\ Min(D) \in D /\ \A d \in D : Min(D) <= d
      /\ \A d \in D : d \in 0..(m.domains[Size] - 1)
  BY IntervalFacts
<1>2. Owner(m, i) \in ranks(m, i)
  BY <1>1 DEF Owner, ranks, nodeRanks
<1>3. ASSUME NEW r \in ranks(m, i) PROVE r \in Rank /\ Owner(m, i) <= r
  <2>1. PICK d \in D : r = d2p(m, d)
    BY DEF ranks, nodeRanks
  <2>2. /\ d \in 0..(m.domains[Size] - 1) /\ Min(D) \in 0..(m.domains[Size] - 1)
        /\ Min(D) <= d
    BY <1>1
  <2>3. d2p(m, Min(D)) <= d2p(m, d)
    BY <2>2, ProcessesInOrder
  <2>4. d2p(m, d) \in Rank
    BY <2>2, DomainProcess
  <2> QED BY <2>1, <2>3, <2>4 DEF Owner
<1> QED BY <1>2, <1>3

LEMMA NeighboursOfIntervals ==
    ASSUME NEW m, IsMesh(m), NEW r \in Rank
    PROVE  \A i \in IntervalsIn(m) : \A q \in ranks(m, i) :
                r \in ranks(m, i) /\ q # r => q \in neighbours(m, r)
<1>1. \A i \in IntervalsIn(m) :
        i.domains \in DOMAIN m.nodes /\ ranks(m, i) = nodeRanks(m, i.domains)
  BY IntervalFacts DEF ranks
<1>2. \A D \in DOMAIN m.nodes : \A q \in nodeRanks(m, D) :
                r \in nodeRanks(m, D) /\ q # r => q \in neighbours(m, r)
  BY NeighbourFacts
<1> QED BY <1>1, <1>2

\* Two lists of domains are compared at their first difference, intervals with
\* the same domains by their groups.
BeforeIn(m) ==
    {p \in IntervalsIn(m) \X IntervalsIn(m) : Before(p[1], p[2])}

FirstIsIn(S, T) == S # T /\ Min(SymDiff(S, T)) \in S

LEMMA FirstDifference ==
    ASSUME NEW i \in SUBSET Nat, NEW j \in SUBSET Nat
    PROVE  /\ FirstIsIn(i, j) =>
                \E d \in i : d \notin j /\ \A e \in Nat :
                    e < d => (e \in i <=> e \in j)
           /\ \A d \in i : (d \notin j /\ \A e \in Nat :
                    e < d => (e \in i <=> e \in j)) => FirstIsIn(i, j)
           /\ i # j => FirstIsIn(i, j) \/ FirstIsIn(j, i)
<1> DEFINE D == SymDiff(i, j)
<1>1. \A x : x \in D <=> (x \in i /\ x \notin j) \/ (x \in j /\ x \notin i)
  BY DEF SymDiff
<1>2. D \subseteq Nat /\ (i # j => D # {})
  BY <1>1
<1>3. SymDiff(j, i) = D
  BY DEF SymDiff
<1> HIDE DEF D
<1>4. i # j => Min(D) \in D /\ \A x \in D : Min(D) <= x
  BY <1>2, LeastOfSet
<1>5. FirstIsIn(i, j) <=> i # j /\ Min(D) \in i
  BY DEF FirstIsIn, D
<1>6. FirstIsIn(j, i) <=> i # j /\ Min(D) \in j
  BY <1>3 DEF FirstIsIn
<1>7. ASSUME FirstIsIn(i, j)
      PROVE  \E d \in i : d \notin j /\ \A e \in Nat :
                    e < d => (e \in i <=> e \in j)
  <2>1. /\ Min(D) \in i /\ Min(D) \notin j
        /\ \A x \in D : Min(D) <= x
    BY <1>1, <1>4, <1>5, <1>7
  <2>2. ASSUME NEW e \in Nat, e < Min(D) PROVE e \in i <=> e \in j
    <3>1. ~(Min(D) <= e)
      <4>1. Min(D) \in Nat
        BY <2>1
      <4> QED BY <2>2, <4>1
    <3> QED BY <1>1, <2>1, <3>1
  <2> QED BY <2>1, <2>2
<1>8. ASSUME NEW d \in i, d \notin j,
             \A e \in Nat : e < d => (e \in i <=> e \in j)
      PROVE  FirstIsIn(i, j)
  <2>1. d \in D /\ i # j
    BY <1>1, <1>8
  <2>2. Min(D) \in D /\ Min(D) <= d /\ Min(D) \in Nat
    BY <1>2, <1>4, <2>1
  <2>3. ~(Min(D) < d)
    BY <1>1, <1>8, <2>2
  <2>4. Min(D) = d
    BY <2>2, <2>3
  <2> QED BY <1>5, <2>1, <2>4
<1>9. i # j => FirstIsIn(i, j) \/ FirstIsIn(j, i)
  BY <1>1, <1>4, <1>5, <1>6
<1> QED BY <1>7, <1>8, <1>9

LEMMA FirstTransitive ==
    ASSUME NEW i \in SUBSET Nat, NEW j \in SUBSET Nat, NEW k \in SUBSET Nat,
           FirstIsIn(i, j), FirstIsIn(j, k)
    PROVE  FirstIsIn(i, k)
<1>1. PICK d \in i : d \notin j /\ \A e \in Nat :
                    e < d => (e \in i <=> e \in j)
  BY FirstDifference
<1>2. PICK b \in j : b \notin k /\ \A e \in Nat :
                    e < b => (e \in j <=> e \in k)
  BY FirstDifference
<1>3. d < b \/ b < d
  BY <1>1, <1>2
<1>4. CASE d < b
  <2>1. d \notin k
    BY <1>1, <1>2, <1>4
  <2>2. \A e \in Nat : e < d => (e \in i <=> e \in k)
    BY <1>1, <1>2, <1>4
  <2> QED BY <2>1, <2>2, FirstDifference
<1>5. CASE b < d
  <2>1. b \in i /\ b \notin k
    BY <1>1, <1>2, <1>5
  <2>2. \A e \in Nat : e < b => (e \in i <=> e \in k)
    BY <1>1, <1>2, <1>5
  <2> QED BY <2>1, <2>2, FirstDifference
<1> QED BY <1>3, <1>4, <1>5

LEMMA BeforeIsOrder ==
    ASSUME NEW m, IsMesh(m), NEW S \in SUBSET IntervalsIn(m)
    PROVE  StrictOrder(S, BeforeIn(m))
<1>1. \A i \in S : /\ i.domains \in SUBSET Nat /\ i.group \in Int
                   /\ i = [domains |-> i.domains, group |-> i.group]
  BY IntervalFacts
<1>2. \A i, j \in S : <<i, j>> \in BeforeIn(m) <=> Before(i, j)
  BY DEF BeforeIn
<1>3. \A i, j : Before(i, j) <=>
            \/ FirstIsIn(i.domains, j.domains)
            \/ i.domains = j.domains /\ i.group < j.group
  BY DEF Before, FirstIsIn
<1>4. \A i, j, k \in S : FirstIsIn(i.domains, j.domains)
            /\ FirstIsIn(j.domains, k.domains) => FirstIsIn(i.domains, k.domains)
  BY <1>1, FirstTransitive
<1>5. \A i, j \in S : i.domains # j.domains =>
            FirstIsIn(i.domains, j.domains) \/ FirstIsIn(j.domains, i.domains)
  BY <1>1, FirstDifference
<1>6. \A i \in S : ~Before(i, i)
  BY <1>1, <1>3 DEF FirstIsIn
<1>7. ASSUME NEW i \in S, NEW j \in S, NEW k \in S, Before(i, j), Before(j, k)
      PROVE  Before(i, k)
  <2>1. CASE i.domains = j.domains /\ j.domains = k.domains
    <3>1. i.group < j.group /\ j.group < k.group
      BY <1>3, <1>7, <2>1 DEF FirstIsIn
    <3>2. i.group < k.group
      BY <1>1, <3>1
    <3> QED BY <1>3, <2>1, <3>2
  <2>2. CASE ~(i.domains = j.domains /\ j.domains = k.domains)
    <3>1. FirstIsIn(i.domains, k.domains)
      BY <1>3, <1>4, <1>7, <2>2
    <3> QED BY <1>3, <3>1
  <2> QED BY <2>1, <2>2
<1>8. ASSUME NEW i \in S, NEW j \in S, i # j PROVE Before(i, j) \/ Before(j, i)
  <2>1. CASE i.domains # j.domains
    BY <1>3, <1>5, <2>1
  <2>2. CASE i.domains = j.domains
    <3>1. i.group # j.group
      BY <1>1, <1>8, <2>2
    <3>2. i.group < j.group \/ j.group < i.group
      BY <1>1, <3>1
    <3> QED BY <1>3, <2>2, <3>2
  <2> QED BY <2>1, <2>2
<1> QED BY <1>2, <1>6, <1>7, <1>8 DEF StrictOrder

LEMMA ArrangedInOrder ==
    ASSUME NEW m, IsMesh(m), NEW r
    PROVE  InOrder(pintervals(m, r), IntervalsOf(m, r), BeforeIn(m))
<1> DEFINE S == IntervalsOf(m, r)
           s == pintervals(m, r)
           R == BeforeIn(m)
<1>1. S \in SUBSET IntervalsIn(m) /\ intervals(m, r) = S
  BY IntervalsAgreed DEF IntervalsOf
<1>2. IsFiniteSet(S) /\ StrictOrder(S, R)
  BY <1>1, IntervalsFinite, FS_Subset, BeforeIsOrder
<1>3. \A x \in S : Below(S, R, x) = {y \in S : Before(y, x)}
  <2>1. \A x, y \in S : <<y, x>> \in R <=> Before(y, x)
    BY <1>1 DEF BeforeIn
  <2> HIDE DEF S, R
  <2> QED BY <2>1 DEF Below
<1> DEFINE at(k) == CHOOSE x \in S : Cardinality({y \in S : Before(y, x)}) = k - 1
<1>4. s = [k \in 1..Cardinality(S) |-> at(k)]
  BY <1>1 DEF pintervals, Sorted
<1>5. s = [k \in 1..Cardinality(S) |-> s[k]]
  <2> HIDE DEF at, s, S
  <2> QED BY <1>4
<1> HIDE DEF s, S, R
<1>6. ASSUME NEW k \in 1..Cardinality(S), NEW x \in S,
             Cardinality(Below(S, R, x)) = k - 1
      PROVE  s[k] \in S /\ Cardinality(Below(S, R, s[k])) = k - 1
  <2>1. Cardinality({y \in S : Before(y, x)}) = k - 1
    BY <1>3, <1>6
  <2>2. s[k] \in S /\ Cardinality({y \in S : Before(y, s[k])}) = k - 1
    BY <1>4, <2>1
  <2> QED BY <1>3, <2>2
<1>7. InOrder(s, S, R)
  BY <1>2, <1>5, <1>6, SortedInOrder
<1> QED BY <1>7 DEF s, S, R

\* Two processes that share an interval find the same nodes for it, and all they
\* share in the same order, although each classifies its nodes for itself and
\* several intervals may have the same domains (computeBoundaryNodes in
\* meshpreprocessing.cpp; arrangement.cpp:114-116, :142-147, :199).
THEOREM SharedIntervalsAgreed ==
    ASSUME NEW m, IsMesh(m), NEW r, NEW q
    PROVE  LET shared == intervals(m, r) \cap intervals(m, q) IN
           /\ \A i \in intervals(m, r) : q \in ranks(m, i) => i \in shared
           /\ \A i \in shared : nodesOf(m, r, i) = nodesOf(m, q, i)
           /\ Among(pintervals(m, r), shared) = Among(pintervals(m, q), shared)
<1> DEFINE S == IntervalsOf(m, r)
           T == IntervalsOf(m, q)
           R == BeforeIn(m)
           shared == intervals(m, r) \cap intervals(m, q)
<1>1. shared = S \cap T
  BY IntervalsAgreed
<1>2. ASSUME NEW i \in intervals(m, r), q \in ranks(m, i) PROVE i \in shared
  BY <1>1, <1>2, IntervalsAgreed DEF IntervalsOf
<1>3. ASSUME NEW i \in shared PROVE nodesOf(m, r, i) = nodesOf(m, q, i)
  BY <1>1, IntervalsAgreed
<1>4. Among(pintervals(m, r), shared) = Among(pintervals(m, q), shared)
  <2>1. /\ S \in SUBSET IntervalsIn(m) /\ T \in SUBSET IntervalsIn(m)
        /\ S \cap T \in SUBSET IntervalsIn(m)
    BY DEF IntervalsOf
  <2>2. /\ IsFiniteSet(S) /\ IsFiniteSet(T) /\ IsFiniteSet(S \cap T)
        /\ StrictOrder(S, R) /\ StrictOrder(T, R) /\ StrictOrder(S \cap T, R)
    BY <2>1, IntervalsFinite, FS_Subset, BeforeIsOrder
  <2>3. InOrder(pintervals(m, r), S, R) /\ InOrder(pintervals(m, q), T, R)
    BY ArrangedInOrder
  <2>4. S \cap shared = S \cap T /\ T \cap shared = S \cap T
    BY <1>1
  <2> HIDE DEF S, T, R, shared
  <2>5. InOrder(Among(pintervals(m, r), shared), S \cap T, R)
    BY <2>2, <2>3, <2>4, AmongInOrder
  <2>6. InOrder(Among(pintervals(m, q), shared), S \cap T, R)
    BY <2>2, <2>3, <2>4, AmongInOrder
  <2> QED BY <2>2, <2>5, <2>6, OrderIsUnique
<1> QED BY <1>2, <1>3, <1>4

-----------------------------------------------------------------------------
(* What computeIntervalsOffsets has to find, from the mesh alone.          *)

Rounds == {"dirichlet", "gluing"}
LoadSteps(m) == 1..Len(m.steps)

FixedOf(m, k, i, f) ==
    {v \in 0..(NodeCount(m, i) - 1) :
        NodesIn(m, i)[v + 1] \in m.steps[k].dirichlet[i.domains][f]}

fixedIn(m, k, i) ==
    SumUpto(LAMBDA f : Cardinality(FixedOf(m, k, i, f)), m.DOFs)

DirichletSizeIn(m, k, i) ==
    IF m.steps[k].redundant THEN Cardinality(i.domains) * fixedIn(m, k, i)
    ELSE fixedIn(m, k, i)

GluingSizeIn(m, k, i) ==
    LET n == Cardinality(i.domains)
        all == m.DOFs * NodeCount(m, i)
    IN IF n = 1 THEN 0
       ELSE IF m.steps[k].redundant
       THEN (all - fixedIn(m, k, i)) * ((n * (n - 1)) \div 2)
       ELSE all * (n - 1)

SizeIn(m, k, g, i) == IF g = "dirichlet" THEN DirichletSizeIn(m, k, i)
                      ELSE GluingSizeIn(m, k, i)

OwnedIn(m, q) == {i \in IntervalsIn(m) : Owner(m, i) = q}
OfIn(m, r, q) == Among(pintervals(m, r), OwnedIn(m, q))
OffsetsIn(m, k, g, q) ==
    Sums([n \in DOMAIN OfIn(m, q, q) |-> SizeIn(m, k, g, OfIn(m, q, q)[n])])
LocalSizeIn(m, k, g, q) == OffsetsIn(m, k, g, q)[Len(OfIn(m, q, q))]
LocalOffsetIn(m, k, g, q, i) ==
    OffsetsIn(m, k, g, q)[Cardinality(InFrontOf(OfIn(m, q, q), i))]
FirstIn(m, k, g, q) == SumUpto(LAMBDA p : LocalSizeIn(m, k, g, p), q)

OffsetIn(m, k, g, i) ==
    FirstIn(m, k, g, Owner(m, i)) + LocalOffsetIn(m, k, g, Owner(m, i), i)
TotalIn(m, k, g) == FirstIn(m, k, g, Size - 1) + LocalSizeIn(m, k, g, Size - 1)

\* What q has to tell r.
SharedIn(m, k, g, q, r) ==
    LET shared == Among(OfIn(m, q, q), {i \in OwnedIn(m, q) : r \in ranks(m, i)})
    IN [n \in DOMAIN shared |->
            FirstIn(m, k, g, q) + LocalOffsetIn(m, k, g, q, shared[n])]

-----------------------------------------------------------------------------
(* The numbers are disjoint, and a process finds those of its intervals in *)
(* what their owners have sent.                                            *)

LEMMA FixedFacts ==
    ASSUME NEW m, IsProblem(m), NEW k \in LoadSteps(m), NEW i \in IntervalsIn(m)
    PROVE  /\ fixedIn(m, k, i) \in Nat
           /\ fixedIn(m, k, i) <= m.DOFs * NodeCount(m, i)
<1> DEFINE c(f) == Cardinality(FixedOf(m, k, i, f))
           n == m.DOFs
           s == [j \in 1..n |-> c(j - 1)]
<1>1. IsMesh(m) /\ n \in Nat \ {0} /\ k \in DOMAIN m.steps
  BY DEF IsProblem, LoadSteps
<1>2. NodeCount(m, i) \in Nat
  BY <1>1, IntervalFacts
<1>3. ASSUME NEW j \in 1..n PROVE c(j - 1) \in Nat /\ c(j - 1) <= NodeCount(m, i)
  <2>1. j - 1 \in 0..(n - 1)
    BY <1>1
  <2>2. FixedOf(m, k, i, j - 1) \in SUBSET (0..(NodeCount(m, i) - 1))
    BY DEF FixedOf
  <2> DEFINE S == FixedOf(m, k, i, j - 1)
             h == NodeCount(m, i) - 1
  <2>3. /\ IsFiniteSet(0..h)
        /\ Cardinality(0..h) = IF 0 > h THEN 0 ELSE h - 0 + 1
    <3>1. 0 \in Int /\ h \in Int
      BY <1>2
    <3> HIDE DEF h
    <3> QED BY <3>1, FS_Interval
  <2>4. Cardinality(0..h) <= NodeCount(m, i)
    <3>1. h \in Int /\ h + 1 = NodeCount(m, i)
      BY <1>2
    <3> QED BY <1>2, <2>3, <3>1
  <2>5. S \in SUBSET (0..h)
    BY <2>2
  <2> HIDE DEF S, h
  <2>6. IsFiniteSet(S) /\ Cardinality(S) <= Cardinality(0..h)
    BY <2>3, <2>5, FS_Subset
  <2>7. Cardinality(S) \in Nat /\ Cardinality(0..h) \in Nat
    BY <2>3, <2>6, FS_CardinalityType
  <2>8. Cardinality(S) <= NodeCount(m, i)
    BY <1>2, <2>4, <2>6, <2>7
  <2> QED BY <2>7, <2>8 DEF S
<1> HIDE DEF c
<1>4. s \in [1..n -> Nat] /\ \A j \in 1..n : s[j] <= NodeCount(m, i)
  BY <1>3
<1>5. fixedIn(m, k, i) = Sums(s)[n]
  BY DEF fixedIn, SumUpto, c
<1> HIDE DEF s, n
<1>6. Sums(s) \in [0..n -> Nat] /\ n \in 0..n
  BY <1>1, <1>4, SumsDef
<1>7. Sums(s)[n] <= n * NodeCount(m, i)
  BY <1>1, <1>2, <1>4, SumsBound
<1> QED BY <1>5, <1>6, <1>7 DEF n

LEMMA SizeType ==
    ASSUME NEW m, IsProblem(m), NEW k \in LoadSteps(m), NEW g,
           NEW i \in IntervalsIn(m)
    PROVE  SizeIn(m, k, g, i) \in Nat
<1> DEFINE n == Cardinality(i.domains)
           d == fixedIn(m, k, i)
           all == m.DOFs * NodeCount(m, i)
<1>1. IsMesh(m) /\ m.DOFs \in Nat
  BY DEF IsProblem
<1>2. n \in Nat /\ n # 0 /\ NodeCount(m, i) \in Nat
  BY <1>1, IntervalFacts
<1>3. d \in Nat /\ d <= all
  BY FixedFacts
<1>4. all \in Nat
  BY <1>1, <1>2
<1> HIDE DEF n, d, all
<1>5. \A x, y \in Nat : x * y \in Nat
  OBVIOUS
<1>6. n * d \in Nat
  BY <1>2, <1>3, <1>5
<1>7. n - 1 \in Nat /\ all - d \in Nat
  BY <1>2, <1>3, <1>4
<1>8. n * (n - 1) \in Nat /\ all * (n - 1) \in Nat
  BY <1>2, <1>4, <1>5, <1>7
<1>9. \A x \in Nat : x \div 2 \in Nat
  OBVIOUS
<1>10. (n * (n - 1)) \div 2 \in Nat
  BY <1>8, <1>9
<1>11. (all - d) * ((n * (n - 1)) \div 2) \in Nat
  BY <1>5, <1>7, <1>10
<1>12. DirichletSizeIn(m, k, i) \in Nat
  BY <1>3, <1>6 DEF DirichletSizeIn, n, d
<1>13. GluingSizeIn(m, k, i) \in Nat
  <2>1. GluingSizeIn(m, k, i) =
            IF n = 1 THEN 0
            ELSE IF m.steps[k].redundant
            THEN (all - d) * ((n * (n - 1)) \div 2)
            ELSE all * (n - 1)
    BY DEF GluingSizeIn, n, d, all
  <2> QED BY <1>8, <1>11, <2>1
<1> QED BY <1>12, <1>13 DEF SizeIn

LEMMA OfInOrder ==
    ASSUME NEW m, IsMesh(m), NEW r, NEW q
    PROVE  InOrder(OfIn(m, r, q), IntervalsOf(m, r) \cap OwnedIn(m, q),
                   BeforeIn(m))
<1>1. IntervalsOf(m, r) \in SUBSET IntervalsIn(m)
  BY DEF IntervalsOf
<1>2. /\ IsFiniteSet(IntervalsOf(m, r))
      /\ StrictOrder(IntervalsOf(m, r), BeforeIn(m))
  BY <1>1, IntervalsFinite, FS_Subset, BeforeIsOrder
<1> QED BY <1>2, ArrangedInOrder, AmongInOrder DEF OfIn

LEMMA OwnInOrder ==
    ASSUME NEW m, IsMesh(m), NEW q
    PROVE  /\ InOrder(OfIn(m, q, q), OwnedIn(m, q), BeforeIn(m))
           /\ IsFiniteSet(OwnedIn(m, q))
           /\ StrictOrder(OwnedIn(m, q), BeforeIn(m))
           /\ OwnedIn(m, q) \in SUBSET IntervalsIn(m)
<1>1. OwnedIn(m, q) \in SUBSET IntervalsIn(m)
  BY DEF OwnedIn
<1>2. IntervalsOf(m, q) \cap OwnedIn(m, q) = OwnedIn(m, q)
  <2>1. \A i \in OwnedIn(m, q) : q \in ranks(m, i)
    BY OwnerFacts DEF OwnedIn
  <2> QED BY <1>1, <2>1 DEF IntervalsOf
<1>3. InOrder(OfIn(m, q, q), OwnedIn(m, q), BeforeIn(m))
  BY <1>2, OfInOrder
<1> QED BY <1>1, <1>3, IntervalsFinite, FS_Subset, BeforeIsOrder

\* Offsets within the intervals of one owner.
LEMMA OwnOffsets ==
    ASSUME NEW m, IsProblem(m), NEW k \in LoadSteps(m), NEW g, NEW q
    PROVE  /\ LocalSizeIn(m, k, g, q) \in Nat
           /\ \A i \in OwnedIn(m, q) :
                /\ LocalOffsetIn(m, k, g, q, i) \in Nat
                /\ LocalOffsetIn(m, k, g, q, i) + SizeIn(m, k, g, i)
                        <= LocalSizeIn(m, k, g, q)
           /\ \A i, j \in OwnedIn(m, q) : i # j =>
                \/ LocalOffsetIn(m, k, g, q, i) + SizeIn(m, k, g, i)
                        <= LocalOffsetIn(m, k, g, q, j)
                \/ LocalOffsetIn(m, k, g, q, j) + SizeIn(m, k, g, j)
                        <= LocalOffsetIn(m, k, g, q, i)
<1> DEFINE S == OwnedIn(m, q)
           R == BeforeIn(m)
           n == Cardinality(S)
           s == OfIn(m, q, q)
           z == [a \in 1..n |-> SizeIn(m, k, g, s[a])]
           sums == Sums(z)
<1>1. IsMesh(m)
  BY DEF IsProblem
<1>2. InOrder(s, S, R) /\ IsFiniteSet(S) /\ StrictOrder(S, R)
      /\ S \in SUBSET IntervalsIn(m)
  BY <1>1, OwnInOrder
<1>3. n \in Nat /\ s \in [1..n -> S] /\ DOMAIN s = 1..n /\ Len(s) = n
  <2>1. n \in Nat
    BY <1>2, FS_CardinalityType
  <2>2. s \in [1..n -> S]
    BY <1>2 DEF InOrder
  <2> HIDE DEF n, s, S
  <2> QED BY <2>1, <2>2, FunctionIsSeq
<1>4. z \in [1..n -> Nat]
  <2>1. \A a \in 1..n : s[a] \in IntervalsIn(m)
    BY <1>2, <1>3
  <2>2. \A a \in 1..n : SizeIn(m, k, g, s[a]) \in Nat
    BY <2>1, SizeType
  <2> QED BY <2>2
<1>5. OffsetsIn(m, k, g, q) = sums
  BY <1>3 DEF OffsetsIn
<1>6. LocalSizeIn(m, k, g, q) = sums[n]
  BY <1>3, <1>5 DEF LocalSizeIn
<1>7. sums \in [0..n -> Nat]
  <2> HIDE DEF z, n
  <2> QED BY <1>3, <1>4, SumsDef
<1>8. \A i \in S : \E a \in 1..n : s[a] = i
  BY <1>2 DEF InOrder
<1>9. ASSUME NEW a \in 1..n
      PROVE  LocalOffsetIn(m, k, g, q, s[a]) = sums[a - 1]
  <2>1. Cardinality(InFrontOf(s, s[a])) = a - 1
    <3> HIDE DEF s, S, R
    <3> QED BY <1>2, InFront DEF n
  <2> HIDE DEF sums
  <2> QED BY <1>5, <2>1 DEF LocalOffsetIn
<1>10. ASSUME NEW a \in 1..n, NEW b \in 0..n, a <= b
       PROVE  sums[a - 1] + z[a] <= sums[b]
  <2>1. a - 1 \in 0..n /\ a - 1 < b /\ (a - 1) + 1 = a
    BY <1>3, <1>10
  <2> HIDE DEF z, n
  <2> QED BY <1>3, <1>4, <2>1, SumsGrow
<1>11. \A a \in 1..n : z[a] = SizeIn(m, k, g, s[a])
  OBVIOUS
<1> HIDE DEF S, n, s, z, sums
<1>12. LocalSizeIn(m, k, g, q) \in Nat
  BY <1>3, <1>6, <1>7
<1>13. ASSUME NEW i \in S
       PROVE  /\ LocalOffsetIn(m, k, g, q, i) \in Nat
              /\ LocalOffsetIn(m, k, g, q, i) + SizeIn(m, k, g, i)
                        <= LocalSizeIn(m, k, g, q)
  <2>1. PICK a \in 1..n : s[a] = i
    BY <1>8
  <2>2. a - 1 \in 0..n /\ n \in 0..n /\ a <= n
    BY <1>3
  <2>3. LocalOffsetIn(m, k, g, q, i) = sums[a - 1] /\ sums[a - 1] \in Nat
    BY <1>7, <1>9, <2>1, <2>2
  <2>4. sums[a - 1] + z[a] <= sums[n]
    BY <1>10, <2>2
  <2> QED BY <1>6, <1>11, <2>1, <2>3, <2>4
<1>14. ASSUME NEW i \in S, NEW j \in S, i # j
       PROVE  \/ LocalOffsetIn(m, k, g, q, i) + SizeIn(m, k, g, i)
                        <= LocalOffsetIn(m, k, g, q, j)
              \/ LocalOffsetIn(m, k, g, q, j) + SizeIn(m, k, g, j)
                        <= LocalOffsetIn(m, k, g, q, i)
  <2>1. PICK a \in 1..n : s[a] = i
    BY <1>8
  <2>2. PICK b \in 1..n : s[b] = j
    BY <1>8
  <2>3. a - 1 \in 0..n /\ b - 1 \in 0..n /\ (a <= b - 1 \/ b <= a - 1)
    BY <1>3, <1>14, <2>1, <2>2
  <2>4. sums[a - 1] + z[a] <= sums[b - 1] \/ sums[b - 1] + z[b] <= sums[a - 1]
    BY <1>10, <2>3
  <2> QED BY <1>9, <1>11, <2>1, <2>2, <2>4
<1> QED BY <1>12, <1>13, <1>14 DEF S

\* Offsets of the processes.
LEMMA FirstFacts ==
    ASSUME NEW m, IsProblem(m), NEW k \in LoadSteps(m), NEW g,
           NEW q \in Rank, NEW p \in Rank
    PROVE  /\ FirstIn(m, k, g, q) \in Nat
           /\ q < p => FirstIn(m, k, g, q) + LocalSizeIn(m, k, g, q)
                            <= FirstIn(m, k, g, p)
<1> DEFINE z == [a \in 1..Size |-> LocalSizeIn(m, k, g, a - 1)]
           y(x) == [a \in 1..x |-> LocalSizeIn(m, k, g, a - 1)]
           F(x) == FirstIn(m, k, g, x)
<1>1. Size \in Nat
  BY SizeAssumption
<1>2. \A x : LocalSizeIn(m, k, g, x) \in Nat
  BY OwnOffsets
<1>3. z \in [1..Size -> Nat]
  BY <1>2
<1>4. ASSUME NEW x \in Rank PROVE F(x) = Sums(z)[x]
  <2>1. F(x) = Sums(y(x))[x]
    BY DEF FirstIn, SumUpto
  <2>2. x \in Nat /\ x <= Size /\ x \in 0..x
    BY <1>1 DEF Rank
  <2>3. y(x) \in [1..x -> Nat]
    BY <1>2
  <2>4. \A a \in 1..x : y(x)[a] = z[a]
    <3>1. \A a \in 1..x : a \in 1..Size
      BY <1>1, <2>2
    <3> QED BY <3>1
  <2> HIDE DEF y, z, F
  <2>5. \A a \in 0..x : Sums(y(x))[a] = Sums(z)[a]
    BY <1>1, <1>3, <2>2, <2>3, <2>4, SumsPrefix
  <2> QED BY <2>1, <2>2, <2>5
<1>5. q \in 0..Size /\ p \in 0..Size /\ q + 1 \in 1..Size
  BY <1>1 DEF Rank
<1>6. F(q) \in Nat
  <2> HIDE DEF z
  <2>1. Sums(z) \in [0..Size -> Nat]
    BY <1>1, <1>3, SumsDef
  <2> QED BY <1>4, <1>5, <2>1
<1>7. ASSUME q < p PROVE F(q) + LocalSizeIn(m, k, g, q) <= F(p)
  <2>1. z[q + 1] = LocalSizeIn(m, k, g, q)
    <3>1. (q + 1) - 1 = q
      BY <1>5
    <3> QED BY <1>5, <3>1
  <2> HIDE DEF z
  <2>2. Sums(z)[q] + z[q + 1] <= Sums(z)[p]
    BY <1>1, <1>3, <1>5, <1>7, SumsGrow
  <2> HIDE DEF F
  <2> QED BY <1>4, <2>1, <2>2
<1> QED BY <1>6, <1>7

\* No two intervals share a number, and none leaves the range.
LEMMA OffsetsDisjoint ==
    ASSUME NEW m, IsProblem(m), NEW k \in LoadSteps(m), NEW g,
           NEW i \in IntervalsIn(m)
    PROVE  /\ OffsetIn(m, k, g, i) \in Nat
           /\ OffsetIn(m, k, g, i) + SizeIn(m, k, g, i) <= TotalIn(m, k, g)
           /\ \A j \in IntervalsIn(m) : i # j =>
                \/ OffsetIn(m, k, g, i) + SizeIn(m, k, g, i)
                        <= OffsetIn(m, k, g, j)
                \/ OffsetIn(m, k, g, j) + SizeIn(m, k, g, j)
                        <= OffsetIn(m, k, g, i)
<1> DEFINE F(x) == FirstIn(m, k, g, x)
           L(x) == LocalSizeIn(m, k, g, x)
           O(x) == LocalOffsetIn(m, k, g, Owner(m, x), x)
           Z(x) == SizeIn(m, k, g, x)
           last == Size - 1
<1>1. IsMesh(m) /\ Size \in Nat \ {0}
  BY SizeAssumption DEF IsProblem
<1>2. ASSUME NEW x \in IntervalsIn(m)
      PROVE  Owner(m, x) \in Rank /\ x \in OwnedIn(m, Owner(m, x))
  BY <1>1, OwnerFacts DEF OwnedIn
<1>3. ASSUME NEW x \in IntervalsIn(m)
      PROVE  /\ O(x) \in Nat /\ Z(x) \in Nat
             /\ O(x) + Z(x) <= L(Owner(m, x))
  BY <1>2, OwnOffsets, SizeType
<1>4. \A x \in Rank : F(x) \in Nat /\ L(x) \in Nat
  BY FirstFacts, OwnOffsets
<1>5. \A x, y \in Rank : x < y => F(x) + L(x) <= F(y)
  BY FirstFacts
<1>6. last \in Rank /\ \A x \in Rank : x = last \/ x < last
  BY <1>1 DEF Rank
<1>7. ASSUME NEW x \in IntervalsIn(m), NEW y \in IntervalsIn(m), x # y,
             Owner(m, x) = Owner(m, y)
      PROVE  O(x) + Z(x) <= O(y) \/ O(y) + Z(y) <= O(x)
  BY <1>2, <1>7, OwnOffsets
<1>8. \A x \in IntervalsIn(m) : OffsetIn(m, k, g, x) = F(Owner(m, x)) + O(x)
  BY DEF OffsetIn
<1>9. TotalIn(m, k, g) = F(last) + L(last)
  BY DEF TotalIn
<1> HIDE DEF F, L, O, Z, last
<1>10. \A x, y \in Rank : x < y \/ y < x \/ x = y
  BY <1>1 DEF Rank
<1>11. OffsetIn(m, k, g, i) \in Nat
  BY <1>2, <1>3, <1>4, <1>8
<1>12. OffsetIn(m, k, g, i) + Z(i) <= TotalIn(m, k, g)
  <2> DEFINE q == Owner(m, i)
  <2>1. q \in Rank
    BY <1>2
  <2>2. F(q) \in Nat /\ L(q) \in Nat /\ O(i) \in Nat /\ Z(i) \in Nat
        /\ F(last) \in Nat /\ L(last) \in Nat /\ O(i) + Z(i) <= L(q)
    BY <1>3, <1>4, <1>6, <2>1
  <2>3. F(q) + L(q) <= F(last) + L(last)
    BY <1>5, <1>6, <2>1, <2>2
  <2> HIDE DEF q
  <2>4. F(q) + O(i) + Z(i) <= F(last) + L(last)
    BY <2>2, <2>3
  <2> QED BY <1>8, <1>9, <2>4 DEF q
<1>13. ASSUME NEW j \in IntervalsIn(m), i # j
       PROVE  \/ OffsetIn(m, k, g, i) + Z(i) <= OffsetIn(m, k, g, j)
              \/ OffsetIn(m, k, g, j) + Z(j) <= OffsetIn(m, k, g, i)
  <2> DEFINE q == Owner(m, i)
             p == Owner(m, j)
  <2>1. q \in Rank /\ p \in Rank
    BY <1>2
  <2>2. /\ F(q) \in Nat /\ L(q) \in Nat /\ O(i) \in Nat /\ Z(i) \in Nat
        /\ F(p) \in Nat /\ L(p) \in Nat /\ O(j) \in Nat /\ Z(j) \in Nat
        /\ O(i) + Z(i) <= L(q) /\ O(j) + Z(j) <= L(p)
    BY <1>3, <1>4, <2>1
  <2>3. /\ OffsetIn(m, k, g, i) = F(q) + O(i)
        /\ OffsetIn(m, k, g, j) = F(p) + O(j)
    BY <1>8
  <2>4. q = p => O(i) + Z(i) <= O(j) \/ O(j) + Z(j) <= O(i)
    BY <1>7, <1>13
  <2>5. (q < p => F(q) + L(q) <= F(p)) /\ (p < q => F(p) + L(p) <= F(q))
        /\ (q < p \/ p < q \/ q = p)
    BY <1>5, <1>10, <2>1
  <2> HIDE DEF q, p
  <2>6. CASE q = p
    BY <2>2, <2>3, <2>4, <2>6
  <2>7. CASE q < p
    BY <2>2, <2>3, <2>5, <2>7
  <2>8. CASE p < q
    BY <2>2, <2>3, <2>5, <2>8
  <2> QED BY <2>5, <2>6, <2>7, <2>8
<1> QED BY <1>11, <1>12, <1>13 DEF Z

\* The owner's selection and the receiver's are the same list.
LEMMA SharedNumbers ==
    ASSUME NEW m, IsProblem(m), NEW k \in LoadSteps(m), NEW g, NEW r \in Rank,
           NEW i \in IntervalsOf(m, r)
    PROVE  LET q == Owner(m, i)
               n == 1 + Cardinality(InFrontOf(OfIn(m, r, q), i))
           IN /\ n \in DOMAIN SharedIn(m, k, g, q, r)
              /\ SharedIn(m, k, g, q, r)[n] = OffsetIn(m, k, g, i)
<1> DEFINE q == Owner(m, i)
           R == BeforeIn(m)
           T == {j \in OwnedIn(m, q) : r \in ranks(m, j)}
           S == IntervalsOf(m, r) \cap OwnedIn(m, q)
           shared == Among(OfIn(m, q, q), T)
           n == Cardinality(S)
<1>1. IsMesh(m)
  BY DEF IsProblem
<1>2. OwnedIn(m, q) \cap T = S
  BY DEF OwnedIn, IntervalsOf
<1>3. S \in SUBSET IntervalsIn(m)
  BY DEF IntervalsOf
<1>4. IsFiniteSet(S) /\ StrictOrder(S, R)
  BY <1>1, <1>3, IntervalsFinite, FS_Subset, BeforeIsOrder
<1>5. InOrder(OfIn(m, r, q), S, R)
  BY <1>1, OfInOrder
<1>6. InOrder(shared, S, R)
  <2>1. InOrder(Among(OfIn(m, q, q), T), OwnedIn(m, q) \cap T, R)
    <3> HIDE DEF T, q
    <3> QED BY <1>1, OwnInOrder, AmongInOrder
  <2> QED BY <1>2, <2>1
<1>7. OfIn(m, r, q) = shared
  <2> HIDE DEF S, R, shared, q
  <2> QED BY <1>4, <1>5, <1>6, OrderIsUnique
<1>8. i \in S
  BY DEF IntervalsOf, OwnedIn
<1>9. PICK a \in 1..n : shared[a] = i
  BY <1>6, <1>8 DEF InOrder
<1>10. Cardinality(InFrontOf(shared, shared[a])) = a - 1
  <2> HIDE DEF S, R, shared
  <2> QED BY <1>4, <1>6, InFront DEF n
<1>11. DOMAIN shared = 1..n
  BY <1>6 DEF InOrder
<1>12. /\ a \in DOMAIN SharedIn(m, k, g, q, r)
       /\ SharedIn(m, k, g, q, r)[a] =
            FirstIn(m, k, g, q) + LocalOffsetIn(m, k, g, q, shared[a])
  BY <1>9, <1>11 DEF SharedIn
<1>13. 1 + Cardinality(InFrontOf(OfIn(m, r, q), i)) = a
  <2> HIDE DEF shared, q, n, S
  <2> QED BY <1>7, <1>9, <1>10
<1> QED BY <1>9, <1>12, <1>13 DEF OffsetIn

-----------------------------------------------------------------------------
(* Time: how far a process has come in the load steps.                     *)

Place(l) == CASE l = "count" -> 0 [] l = "scan" -> 1 [] l = "offsets" -> 2
              [] l = "total" -> 3 [] l = "insert" -> 8 [] l = "glue" -> 9
              [] l = "scale" -> 10 [] l = "solve" -> 11 [] l = "reduce" -> 12
              [] l = "solved" -> 13
Numbering == {"count", "scan", "offsets", "total"}
Locations == Numbering
                \cup {"insert", "glue", "scale", "solve", "reduce", "solved"}

Begin(k) == 14 * (k - 1)
RoundBegin(k, g) == Begin(k) + (IF g = "gluing" THEN 4 ELSE 0)
At(l, k, g) ==
    Place(l) + (IF l \in Numbering THEN RoundBegin(k, g) ELSE Begin(k))
time(r) == At(loc[r], step[r], round[r])

call(k, g) == IF g = "gluing" THEN 2 * k ELSE 2 * k - 1

\* How many calls of a kind were made, with or without the current one.
CallsBy(k, g, done) == IF done THEN call(k, g) ELSE call(k, g) - 1

IsSequence(s) == s \in Seq({s[n] : n \in 1..Len(s)})

PlacesOK ==
    /\ problem \in Problems /\ mesh = Arranged(problem)
    /\ step \in [Rank -> LoadSteps(problem)]
    /\ loc \in [Rank -> Locations]
    /\ round \in [Rank -> Rounds]
    /\ \A r \in Rank : /\ loc[r] \notin Numbering => round[r] = "gluing"
                       /\ loc[r] = "scale" => Scaled(r)

ShapesOK ==
    /\ offset = [r \in Rank |-> offset[r]]
    /\ entered = [r \in Rank |-> entered[r]]
    /\ \A r \in Rank : IsSequence(entered[r])
    /\ IsSequence(total)
    /\ channel = [k \in Rank \X Rank |-> channel[k]]
    /\ intervalOffset = [r \in Rank |->
            [dirichlet |-> intervalOffset[r].dirichlet,
             gluing |-> intervalOffset[r].gluing]]
    /\ size = [r \in Rank |->
            [dirichlet |-> size[r].dirichlet, gluing |-> size[r].gluing]]

TypeOK == PlacesOK /\ ShapesOK

\* The calls a process has entered, and the totals that were sent.
EnteredAt(r) ==
    /\ Len(entered[r]) = CallsBy(step[r], round[r], loc[r] # "count")
    /\ \A k \in LoadSteps(problem) : \A g \in Rounds :
        call(k, g) <= Len(entered[r]) =>
            entered[r][call(k, g)] = LocalSizeIn(problem, k, g, r)
TotalOK ==
    /\ Len(total) = CallsBy(step[Size - 1], round[Size - 1],
                            loc[Size - 1] \notin {"count", "scan", "offsets"})
    /\ \A k \in LoadSteps(problem) : \A g \in Rounds :
        call(k, g) <= Len(total) => total[call(k, g)] = TotalIn(problem, k, g)
CallsOK == TotalOK /\ \A r \in Rank : EnteredAt(r)

\* Nobody gets farther ahead of another process than a barrier or a message
\* between neighbours lets it: at time a process q is, r is at b.
Ahead(m, k, q, a, r, b) ==
    /\ \A g \in Rounds : a >= RoundBegin(k, g) + 2 => b >= RoundBegin(k, g) + 1
    /\ q \in neighbours(m, r) =>
        /\ r < q => \A g \in Rounds :
            a >= RoundBegin(k, g) + 3 => b >= RoundBegin(k, g) + 2
        /\ m.steps[k].redundant /\ m.steps[k].scaling =>
            (a >= Begin(k) + 11 => b >= Begin(k) + 10)
        /\ a >= Begin(k) + 13 => b >= Begin(k) + 12

LagOK == \A q, r \in Rank : \A k \in LoadSteps(problem) :
            Ahead(problem, k, q, time(q), r, time(r))

\* What is on its way from q to its neighbour r.
One(b) == IF b THEN 1 ELSE 0
OffsetsSent(q, r) ==
    /\ q < r /\ time(r) < RoundBegin(step[r], round[r]) + 3
    /\ time(q) >= RoundBegin(step[r], round[r]) + 2
DiagonalsSent(q, r) ==
    /\ Scaled(r)
    /\ time(q) >= Begin(step[r]) + 10 /\ time(r) < Begin(step[r]) + 11
LambdasSent(q, r) ==
    time(q) >= Begin(step[r]) + 12 /\ time(r) < Begin(step[r]) + 13

pending(q, r) == One(OffsetsSent(q, r)) + One(DiagonalsSent(q, r))
                    + One(LambdasSent(q, r))

ChannelAt(q, r) ==
    LET c == channel[<<q, r>>] IN
    /\ IsSequence(c)
    /\ Len(c) = pending(q, r)
    /\ OffsetsSent(q, r) => c[1] = SharedIn(problem, step[r], round[r], q, r)
ChannelOK ==
    \A q, r \in Rank : q \in neighbours(problem, r) => ChannelAt(q, r)

\* What a process knows.
NumbersAt(r) ==
    LET k == step[r]
        D == TotalIn(problem, k, "dirichlet")
    IN /\ loc[r] = "offsets" => offset[r] = FirstIn(problem, k, round[r], r)
       /\ time(r) >= Begin(k) + 3 => intervalOffset[r].dirichlet =
            [i \in IntervalsOf(problem, r) |-> OffsetIn(problem, k, "dirichlet", i)]
       /\ time(r) >= Begin(k) + 4 => size[r].dirichlet = D
       /\ time(r) >= Begin(k) + 7 => intervalOffset[r].gluing =
            [i \in IntervalsOf(problem, r) |-> D + OffsetIn(problem, k, "gluing", i)]
       /\ time(r) >= Begin(k) + 8 => size[r].gluing = TotalIn(problem, k, "gluing")
NumbersOK == \A r \in Rank : NumbersAt(r)

IInv == TypeOK /\ CallsOK /\ LagOK /\ ChannelOK /\ NumbersOK

\* The operators of the specification and those above.
LEMMA StateFacts ==
    ASSUME TypeOK
    PROVE  /\ IsProblem(problem) /\ IsMesh(problem)
           /\ \A r \in Rank : /\ mesh.neighbours[r] = neighbours(problem, r)
                              /\ Intervals(r) = pintervals(problem, r)
                              /\ ToSet(Intervals(r)) = IntervalsOf(problem, r)
<1>1. IsProblem(problem)
  BY ProblemsAssumption DEF TypeOK, PlacesOK
<1>2. IsMesh(problem)
  BY <1>1 DEF IsProblem
<1>3. mesh = Arranged(problem)
  BY DEF TypeOK, PlacesOK
<1>4. ASSUME NEW r \in Rank
      PROVE  /\ mesh.neighbours[r] = neighbours(problem, r)
             /\ Intervals(r) = pintervals(problem, r)
  BY <1>3 DEF Arranged, Intervals
<1>5. ASSUME NEW r \in Rank
      PROVE  ToSet(pintervals(problem, r)) = IntervalsOf(problem, r)
  <2> DEFINE s == pintervals(problem, r)
             S == IntervalsOf(problem, r)
             n == Cardinality(S)
  <2>1. InOrder(s, S, BeforeIn(problem))
    BY <1>2, ArrangedInOrder
  <2> HIDE DEF s, S
  <2>2. /\ s \in [1..n -> S]
        /\ \A x \in S : \E k \in 1..n : s[k] = x
    BY <2>1 DEF InOrder
  <2>3. ToSet(s) = {s[k] : k \in DOMAIN s}
    BY DEF ToSet
  <2>4. DOMAIN s = 1..n
    BY <2>2
  <2>5. ToSet(s) = S
    BY <2>2, <2>3, <2>4
  <2> QED BY <2>5 DEF s, S
<1> QED BY <1>1, <1>2, <1>4, <1>5

\* All processes of an interval have the same nodes in it, in one order.
LEMMA NodesFacts ==
    ASSUME TypeOK, NEW r \in Rank, NEW i \in IntervalsOf(problem, r)
    PROVE  /\ nodes(r, i) = NodeCount(problem, i)
           /\ \A f : Fixed(r, i, f) = FixedOf(problem, step[r], i, f)
<1>1. mesh = Arranged(problem) /\ IsMesh(problem)
  BY StateFacts DEF TypeOK, PlacesOK
<1>2. i \in intervals(problem, r) /\ nodesOf(problem, r, i) = NodesIn(problem, i)
  BY <1>1, IntervalsAgreed
<1>3. mesh.nodes[r][i] = NodesIn(problem, i)
  BY <1>1, <1>2 DEF Arranged
<1>4. nodes(r, i) = NodeCount(problem, i)
  BY <1>3 DEF nodes, NodeCount
<1>5. ASSUME NEW f PROVE Fixed(r, i, f) = FixedOf(problem, step[r], i, f)
  BY <1>3, <1>4 DEF Fixed, FixedOf, config
<1> QED BY <1>4, <1>5

LEMMA SizeFacts ==
    ASSUME TypeOK, NEW r \in Rank
    PROVE  /\ \A i \in IntervalsOf(problem, r) :
                /\ getDirichletSize(r, i) = DirichletSizeIn(problem, step[r], i)
                /\ getGluingSize(r, i) = GluingSizeIn(problem, step[r], i)
                /\ getsize(r, i) = SizeIn(problem, step[r], round[r], i)
           /\ \A q : Of(r, q) = OfIn(problem, r, q)
           /\ LocalSize(r) = LocalSizeIn(problem, step[r], round[r], r)
           /\ \A i : LocalOffset(r, i) =
                        LocalOffsetIn(problem, step[r], round[r], r, i)
<1> DEFINE S == IntervalsOf(problem, r)
<1>1. /\ Intervals(r) = pintervals(problem, r) /\ IsMesh(problem)
      /\ ToSet(Intervals(r)) = S
  BY StateFacts
<1>2. ASSUME NEW i \in S PROVE dsize(r, i) = fixedIn(problem, step[r], i)
  <2>1. \A f : Fixed(r, i, f) = FixedOf(problem, step[r], i, f)
    BY NodesFacts
  <2> QED BY <2>1, Zenon DEF dsize, fixedIn, SumUpto
<1>3. ASSUME NEW i \in S
      PROVE  /\ getDirichletSize(r, i) = DirichletSizeIn(problem, step[r], i)
             /\ getGluingSize(r, i) = GluingSizeIn(problem, step[r], i)
  <2>1. nodes(r, i) = NodeCount(problem, i)
    BY NodesFacts
  <2> HIDE DEF S
  <2> QED BY <1>2, <2>1 DEF getDirichletSize, DirichletSizeIn, getGluingSize,
              GluingSizeIn, config
<1>4. \A i \in S : getsize(r, i) = SizeIn(problem, step[r], round[r], i)
  BY <1>3 DEF getsize, SizeIn
<1>5. ASSUME NEW q PROVE Of(r, q) = OfIn(problem, r, q)
  <2> DEFINE s == Intervals(r)
  <2>1. \A k \in DOMAIN s : s[k] \in S
    BY <1>1 DEF ToSet
  <2>2. \A k \in DOMAIN s : s[k] \in OwnedBy(r, q) <=> s[k] \in OwnedIn(problem, q)
    BY <1>1, <2>1 DEF OwnedBy, OwnedIn, IntervalsOf
  <2>3. {k \in DOMAIN s : s[k] \in OwnedBy(r, q)} =
            {k \in DOMAIN s : s[k] \in OwnedIn(problem, q)}
    BY <2>2
  <2> HIDE DEF S
  <2>4. Among(s, OwnedBy(r, q)) = Among(s, OwnedIn(problem, q))
    BY <2>3, Zenon DEF Among
  <2> QED BY <1>1, <2>4 DEF Of, OfIn
<1>6. Offsets(r) = OffsetsIn(problem, step[r], round[r], r)
  <2> DEFINE s == OfIn(problem, r, r)
  <2>1. InOrder(s, S \cap OwnedIn(problem, r), BeforeIn(problem))
    BY <1>1, OfInOrder
  <2> HIDE DEF s, S
  <2>2. \A k \in DOMAIN s : s[k] \in S
    BY <2>1 DEF InOrder
  <2>3. [k \in DOMAIN s |-> getsize(r, s[k])] =
            [k \in DOMAIN s |-> SizeIn(problem, step[r], round[r], s[k])]
    BY <1>4, <2>2
  <2> QED BY <1>5, <2>3 DEF Offsets, OffsetsIn, s
<1>7. LocalSize(r) = LocalSizeIn(problem, step[r], round[r], r)
  BY <1>5, <1>6 DEF LocalSize, LocalSizeIn
<1>8. \A i : LocalOffset(r, i) =
                LocalOffsetIn(problem, step[r], round[r], r, i)
  BY <1>5, <1>6 DEF LocalOffset, LocalOffsetIn
<1> QED BY <1>3, <1>4, <1>5, <1>7, <1>8

LEMMA SequenceFacts ==
    ASSUME NEW s, IsSequence(s)
    PROVE  /\ Len(s) \in Nat /\ (s = <<>> <=> Len(s) = 0)
           /\ \A x : /\ IsSequence(Append(s, x))
                     /\ Len(Append(s, x)) = Len(s) + 1
                     /\ Append(s, x)[Len(s) + 1] = x
                     /\ \A n \in 1..Len(s) : Append(s, x)[n] = s[n]
           /\ Len(s) # 0 =>
                /\ Head(s) = s[1] /\ IsSequence(Tail(s))
                /\ Len(Tail(s)) = Len(s) - 1
                /\ \A n \in 1..(Len(s) - 1) : Tail(s)[n] = s[n + 1]
<1> DEFINE S == {s[n] : n \in 1..Len(s)}
<1>1. s \in Seq(S)
  BY DEF IsSequence
<1>2. \A n \in 1..Len(s) : s[n] \in S
  OBVIOUS
<1> HIDE DEF S
<1>3. ASSUME NEW x
      PROVE  /\ IsSequence(Append(s, x)) /\ Len(Append(s, x)) = Len(s) + 1
             /\ Append(s, x)[Len(s) + 1] = x
             /\ \A n \in 1..Len(s) : Append(s, x)[n] = s[n]
  <2> DEFINE a == Append(s, x)
             A == {a[n] : n \in 1..Len(a)}
  <2>1. s \in Seq(S \cup {x})
    BY <1>1
  <2>2. /\ a \in Seq(S \cup {x}) /\ Len(a) = Len(s) + 1
        /\ a[Len(s) + 1] = x /\ \A n \in 1..Len(s) : a[n] = s[n]
    BY <2>1
  <2>3. \A n \in 1..Len(a) : a[n] \in A
    OBVIOUS
  <2> HIDE DEF a, A
  <2>4. a \in Seq(A)
    BY <2>2, <2>3
  <2>5. IsSequence(a)
    BY <2>4 DEF IsSequence, A
  <2> QED BY <2>2, <2>5 DEF a
<1>4. ASSUME Len(s) # 0
      PROVE  /\ Head(s) = s[1] /\ IsSequence(Tail(s))
             /\ Len(Tail(s)) = Len(s) - 1
             /\ \A n \in 1..(Len(s) - 1) : Tail(s)[n] = s[n + 1]
  <2> DEFINE t == Tail(s)
             A == {t[n] : n \in 1..Len(t)}
  <2>1. /\ t \in Seq(S) /\ Len(t) = Len(s) - 1 /\ Head(s) = s[1]
        /\ \A n \in 1..(Len(s) - 1) : t[n] = s[n + 1]
    BY <1>1, <1>4
  <2>2. \A n \in 1..Len(t) : t[n] \in A
    OBVIOUS
  <2> HIDE DEF t, A
  <2>3. t \in Seq(A)
    BY <2>1, <2>2
  <2>4. IsSequence(t)
    BY <2>3 DEF IsSequence, A
  <2> QED BY <2>1, <2>4 DEF t
<1>5. Len(s) \in Nat /\ (s = <<>> <=> Len(s) = 0)
  BY <1>1
<1> QED BY <1>3, <1>4, <1>5

\* The times of the places, and what is between them.
LEMMA AtFacts ==
    ASSUME NEW k \in Int, NEW g \in Rounds, NEW l \in Locations
    PROVE  /\ Begin(k) \in Int /\ RoundBegin(k, g) \in Int /\ At(l, k, g) \in Int
           /\ RoundBegin(k, g) = IF g = "gluing" THEN Begin(k) + 4 ELSE Begin(k)
           /\ l = "count" => At(l, k, g) = RoundBegin(k, g)
           /\ l = "scan" => At(l, k, g) = RoundBegin(k, g) + 1
           /\ l = "offsets" => At(l, k, g) = RoundBegin(k, g) + 2
           /\ l = "total" => At(l, k, g) = RoundBegin(k, g) + 3
           /\ l = "insert" => At(l, k, g) = Begin(k) + 8
           /\ l = "glue" => At(l, k, g) = Begin(k) + 9
           /\ l = "scale" => At(l, k, g) = Begin(k) + 10
           /\ l = "solve" => At(l, k, g) = Begin(k) + 11
           /\ l = "reduce" => At(l, k, g) = Begin(k) + 12
           /\ l = "solved" => At(l, k, g) = Begin(k) + 13
  BY DEF At, Place, Numbering, Locations, Begin, RoundBegin, Rounds

LEMMA AheadLater ==
    ASSUME NEW m, NEW k \in Int, NEW q, NEW r, NEW a \in Int, NEW b \in Int,
           NEW c \in Int, Ahead(m, k, q, a, r, b), b <= c
    PROVE  Ahead(m, k, q, a, r, c)
<1>1. Begin(k) \in Int /\ \A g : RoundBegin(k, g) \in Int
  BY DEF Begin, RoundBegin
<1>2. \A g \in Rounds : a >= RoundBegin(k, g) + 2 => c >= RoundBegin(k, g) + 1
  BY <1>1 DEF Ahead
<1>3. ASSUME q \in neighbours(m, r), r < q, NEW g \in Rounds,
             a >= RoundBegin(k, g) + 3
      PROVE  c >= RoundBegin(k, g) + 2
  <2>1. b >= RoundBegin(k, g) + 2
    BY <1>3 DEF Ahead
  <2> QED BY <1>1, <2>1
<1>4. ASSUME q \in neighbours(m, r), m.steps[k].redundant, m.steps[k].scaling,
             a >= Begin(k) + 11
      PROVE  c >= Begin(k) + 10
  <2>1. b >= Begin(k) + 10
    BY <1>4 DEF Ahead
  <2> QED BY <1>1, <2>1
<1>5. ASSUME q \in neighbours(m, r), a >= Begin(k) + 13
      PROVE  c >= Begin(k) + 12
  <2>1. b >= Begin(k) + 12
    BY <1>5 DEF Ahead
  <2> QED BY <1>1, <2>1
<1> QED BY <1>2, <1>3, <1>4, <1>5 DEF Ahead

-----------------------------------------------------------------------------
(* A step of a process: it goes to place l of round g of load step k.      *)

Moves(r, l, k, g) ==
    /\ problem' = problem /\ mesh' = mesh
    /\ loc' = [loc EXCEPT ![r] = l]
    /\ step' = [step EXCEPT ![r] = k]
    /\ round' = [round EXCEPT ![r] = g]

\* Where a process is, in numbers.
LEMMA TimeFacts ==
    ASSUME PlacesOK, NEW r \in Rank
    PROVE  /\ step[r] \in LoadSteps(problem) /\ step[r] \in Int
           /\ round[r] \in Rounds /\ loc[r] \in Locations
           /\ Begin(step[r]) = 14 * (step[r] - 1)
           /\ RoundBegin(step[r], round[r]) =
                IF round[r] = "gluing" THEN Begin(step[r]) + 4
                ELSE Begin(step[r])
           /\ time(r) \in Int
           /\ Begin(step[r]) <= time(r) /\ time(r) <= Begin(step[r]) + 13
           /\ RoundBegin(step[r], round[r]) <= time(r)
           /\ round[r] = "dirichlet" => time(r) <= Begin(step[r]) + 3
           /\ time(r) = At(loc[r], step[r], round[r])
<1>1. /\ step[r] \in LoadSteps(problem) /\ round[r] \in Rounds
      /\ loc[r] \in Locations
  BY DEF PlacesOK
<1>2. step[r] \in Int
  BY <1>1, ProblemsAssumption DEF LoadSteps
<1>3. Begin(step[r]) = 14 * (step[r] - 1)
  BY DEF Begin
<1>4. loc[r] \notin Numbering => round[r] = "gluing"
  BY DEF PlacesOK
<1>5. /\ Begin(step[r]) \in Int /\ At(loc[r], step[r], round[r]) \in Int
      /\ RoundBegin(step[r], round[r]) =
            IF round[r] = "gluing" THEN Begin(step[r]) + 4
            ELSE Begin(step[r])
  BY <1>1, <1>2, AtFacts
<1>6. /\ RoundBegin(step[r], round[r]) <= At(loc[r], step[r], round[r])
      /\ At(loc[r], step[r], round[r]) <= Begin(step[r]) + 13
      /\ round[r] = "dirichlet" =>
            At(loc[r], step[r], round[r]) <= Begin(step[r]) + 3
  <2>1. CASE loc[r] \in Numbering
    BY <1>1, <1>2, <1>5, <2>1, AtFacts DEF Numbering
  <2>2. CASE loc[r] \notin Numbering
    BY <1>1, <1>2, <1>4, <1>5, <2>2, AtFacts DEF Numbering, Locations
  <2> QED BY <2>1, <2>2
<1> QED BY <1>1, <1>2, <1>3, <1>5, <1>6 DEF time, Rounds

LEMMA MoveFacts ==
    ASSUME PlacesOK, NEW r \in Rank, NEW l \in Locations,
           NEW k \in LoadSteps(problem), NEW g \in Rounds, Moves(r, l, k, g)
    PROVE  /\ \A p \in Rank : p # r =>
                /\ loc'[p] = loc[p] /\ step'[p] = step[p]
                /\ round'[p] = round[p] /\ time(p)' = time(p)
           /\ loc'[r] = l /\ step'[r] = k /\ round'[r] = g
           /\ time(r)' = At(l, k, g)
           /\ problem' = problem
<1>1. /\ loc \in [Rank -> Locations] /\ step \in [Rank -> LoadSteps(problem)]
      /\ round \in [Rank -> Rounds]
  BY DEF PlacesOK
<1>2. /\ \A p \in Rank : p # r => /\ loc'[p] = loc[p] /\ step'[p] = step[p]
                                  /\ round'[p] = round[p]
      /\ loc'[r] = l /\ step'[r] = k /\ round'[r] = g /\ problem' = problem
  BY <1>1 DEF Moves
<1> QED BY <1>2 DEF time

LEMMA MovePlaces ==
    ASSUME PlacesOK, NEW r \in Rank, NEW l \in Locations,
           NEW k \in LoadSteps(problem), NEW g \in Rounds, Moves(r, l, k, g),
           l \notin Numbering => g = "gluing",
           l = "scale" => /\ problem.steps[k].redundant
                          /\ problem.steps[k].scaling
    PROVE  PlacesOK'
<1>1. /\ problem' = problem /\ mesh' = mesh /\ step' \in [Rank -> LoadSteps(problem)]
      /\ loc' \in [Rank -> Locations] /\ round' \in [Rank -> Rounds]
  BY DEF PlacesOK, Moves
<1>2. ASSUME NEW p \in Rank
      PROVE  /\ loc'[p] \notin Numbering => round'[p] = "gluing"
             /\ loc'[p] = "scale" => Scaled(p)'
  <2>1. CASE p = r
    BY <2>1, MoveFacts DEF Scaled, config
  <2>2. CASE p # r
    BY <2>2, MoveFacts DEF PlacesOK, Scaled, config
  <2> QED BY <2>1, <2>2
<1> QED BY <1>1, <1>2 DEF PlacesOK

LEMMA MoveLag ==
    ASSUME PlacesOK, LagOK, NEW r \in Rank, NEW l \in Locations,
           NEW k \in LoadSteps(problem), NEW g \in Rounds, Moves(r, l, k, g),
           time(r) <= At(l, k, g),
           \A p \in Rank : \A h \in LoadSteps(problem) :
                p # r => Ahead(problem, h, r, At(l, k, g), p, time(p))
    PROVE  LagOK'
<1>1. At(l, k, g) \in Int /\ LoadSteps(problem) \in SUBSET Int
  <2>1. LoadSteps(problem) \in SUBSET Int
    BY ProblemsAssumption DEF LoadSteps, PlacesOK
  <2> QED BY <2>1, AtFacts
<1> SUFFICES ASSUME NEW q \in Rank, NEW p \in Rank, NEW h \in LoadSteps(problem)
             PROVE  Ahead(problem, h, q, time(q)', p, time(p)')
  BY DEF LagOK, Moves
<1>2. Ahead(problem, h, q, time(q), p, time(p)) /\ h \in Int
  BY <1>1 DEF LagOK
<1>3. CASE q # r
  <2>1. time(q)' = time(q) /\ time(p)' \in Int /\ time(p) <= time(p)'
        /\ time(p) \in Int /\ time(q) \in Int
    BY <1>1, <1>3, MoveFacts, TimeFacts
  <2> QED BY <1>2, <2>1, AheadLater
<1>4. CASE q = r /\ p # r
  BY <1>4, MoveFacts
<1>5. CASE q = r /\ p = r
  <2>1. p \notin neighbours(problem, p)
    BY DEF neighbours
  <2>2. \A f : RoundBegin(h, f) \in Int
    BY <1>2 DEF RoundBegin, Begin
  <2>3. time(p)' \in Int
    BY <1>1, <1>5, MoveFacts
  <2> QED BY <1>5, <2>1, <2>2, <2>3 DEF Ahead
<1> QED BY <1>3, <1>4, <1>5

LEMMA MoveEntered ==
    ASSUME PlacesOK, CallsOK, NEW r \in Rank, NEW l \in Locations,
           NEW k \in LoadSteps(problem), NEW g \in Rounds, Moves(r, l, k, g),
           entered' = entered,
           CallsBy(k, g, l # "count") =
                CallsBy(step[r], round[r], loc[r] # "count")
    PROVE  \A p \in Rank : EnteredAt(p)'
<1> SUFFICES ASSUME NEW p \in Rank PROVE EnteredAt(p)'
  OBVIOUS
<1>1. EnteredAt(p)
  BY DEF CallsOK
<1>2. CASE p = r
  BY <1>1, <1>2, MoveFacts DEF EnteredAt
<1>3. CASE p # r
  BY <1>1, <1>3, MoveFacts DEF EnteredAt
<1> QED BY <1>2, <1>3

LEMMA MoveTotal ==
    ASSUME PlacesOK, CallsOK, NEW r \in Rank, NEW l \in Locations,
           NEW k \in LoadSteps(problem), NEW g \in Rounds, Moves(r, l, k, g),
           total' = total,
           CallsBy(k, g, l \notin {"count", "scan", "offsets"}) =
                CallsBy(step[r], round[r],
                        loc[r] \notin {"count", "scan", "offsets"})
    PROVE  TotalOK'
<1>1. TotalOK /\ Size - 1 \in Rank
  BY SizeAssumption DEF CallsOK, Rank
<1>2. CASE Size - 1 = r
  BY <1>1, <1>2, MoveFacts DEF TotalOK
<1>3. CASE Size - 1 # r
  BY <1>1, <1>3, MoveFacts DEF TotalOK
<1> QED BY <1>2, <1>3

LEMMA MoveNumbers ==
    ASSUME PlacesOK, NumbersOK, NEW r \in Rank, NEW l \in Locations,
           NEW k \in LoadSteps(problem), NEW g \in Rounds, Moves(r, l, k, g),
           NEW p \in Rank, p # r, offset'[p] = offset[p],
           intervalOffset'[p] = intervalOffset[p], size'[p] = size[p]
    PROVE  NumbersAt(p)'
<1>1. NumbersAt(p)
  BY DEF NumbersOK
<1> QED BY <1>1, MoveFacts DEF NumbersAt

-----------------------------------------------------------------------------
(* What happens to the messages from one process to another.               *)

LEMMA PendingFacts ==
    ASSUME NEW q, NEW p
    PROVE  /\ One(OffsetsSent(q, p)) = IF OffsetsSent(q, p) THEN 1 ELSE 0
           /\ One(DiagonalsSent(q, p)) = IF DiagonalsSent(q, p) THEN 1 ELSE 0
           /\ One(LambdasSent(q, p)) = IF LambdasSent(q, p) THEN 1 ELSE 0
  BY DEF One

LEMMA Kept ==
    ASSUME NEW q, NEW p, ChannelAt(q, p), problem' = problem,
           channel'[<<q, p>>] = channel[<<q, p>>],
           pending(q, p)' = pending(q, p),
           OffsetsSent(q, p)' => /\ OffsetsSent(q, p) /\ step'[p] = step[p]
                                 /\ round'[p] = round[p]
    PROVE  ChannelAt(q, p)'
  BY DEF ChannelAt

LEMMA Sent ==
    ASSUME NEW q, NEW p, ChannelAt(q, p), problem' = problem, NEW x,
           channel'[<<q, p>>] = Append(channel[<<q, p>>], x),
           pending(q, p)' = pending(q, p) + 1,
           OffsetsSent(q, p)' =>
                \/ /\ OffsetsSent(q, p) /\ pending(q, p) >= 1
                   /\ step'[p] = step[p] /\ round'[p] = round[p]
                \/ /\ pending(q, p) = 0
                   /\ x = SharedIn(problem, step'[p], round'[p], q, p)
    PROVE  ChannelAt(q, p)'
<1> DEFINE c == channel[<<q, p>>]
<1>1. IsSequence(c) /\ Len(c) = pending(q, p)
  BY DEF ChannelAt
<1> HIDE DEF c
<1>2. /\ Len(c) \in Nat /\ IsSequence(Append(c, x))
      /\ Len(Append(c, x)) = Len(c) + 1 /\ Append(c, x)[Len(c) + 1] = x
      /\ \A n \in 1..Len(c) : Append(c, x)[n] = c[n]
  BY <1>1, SequenceFacts
<1>3. ASSUME OffsetsSent(q, p)'
      PROVE  Append(c, x)[1] = SharedIn(problem, step'[p], round'[p], q, p)
  <2>1. CASE /\ OffsetsSent(q, p) /\ pending(q, p) >= 1
             /\ step'[p] = step[p] /\ round'[p] = round[p]
    <3>1. 1 \in 1..Len(c)
      BY <1>1, <1>2, <2>1
    <3>2. c[1] = SharedIn(problem, step[p], round[p], q, p)
      BY <2>1 DEF ChannelAt, c
    <3> QED BY <1>2, <2>1, <3>1, <3>2
  <2>2. CASE /\ pending(q, p) = 0
             /\ x = SharedIn(problem, step'[p], round'[p], q, p)
    BY <1>1, <1>2, <2>2
  <2> QED BY <1>3, <2>1, <2>2
<1>4. channel'[<<q, p>>] = Append(c, x)
  BY DEF c
<1> QED BY <1>1, <1>2, <1>3, <1>4 DEF ChannelAt

LEMMA Taken ==
    ASSUME NEW q, NEW p, ChannelAt(q, p), problem' = problem,
           channel'[<<q, p>>] = Tail(channel[<<q, p>>]),
           pending(q, p)' = pending(q, p) - 1, pending(q, p) # 0,
           ~OffsetsSent(q, p)'
    PROVE  ChannelAt(q, p)'
<1> DEFINE c == channel[<<q, p>>]
<1>1. IsSequence(c) /\ Len(c) = pending(q, p)
  BY DEF ChannelAt
<1>2. channel'[<<q, p>>] = Tail(c)
  OBVIOUS
<1> HIDE DEF c
<1>3. IsSequence(Tail(c)) /\ Len(Tail(c)) = Len(c) - 1
  BY <1>1, SequenceFacts
<1> QED BY <1>1, <1>2, <1>3 DEF ChannelAt

\* No message is sent or taken by a process on its way to these places.
Quiet == {"count", "scan", "insert", "glue"}

LEMMA AheadQuiet ==
    ASSUME NEW m, NEW k \in Int, NEW g \in Rounds, NEW h \in Int, NEW q, NEW r,
           NEW b \in Int, NEW a \in Int, NEW l \in Quiet \cup {"scale", "reduce"},
           a + 1 = At(l, k, g), Ahead(m, h, q, a, r, b)
    PROVE  Ahead(m, h, q, a + 1, r, b)
<1>1. /\ Begin(h) = 14 * (h - 1) /\ Begin(k) = 14 * (k - 1)
      /\ \A f \in Rounds : RoundBegin(h, f) = Begin(h) \/ RoundBegin(h, f) = Begin(h) + 4
      /\ RoundBegin(k, g) = Begin(k) \/ RoundBegin(k, g) = Begin(k) + 4
  BY DEF Begin, RoundBegin
<1>2. \/ a + 1 = RoundBegin(k, g) \/ a + 1 = RoundBegin(k, g) + 1
      \/ a + 1 = Begin(k) + 8 \/ a + 1 = Begin(k) + 9
      \/ a + 1 = Begin(k) + 10 \/ a + 1 = Begin(k) + 12
  BY AtFacts DEF Quiet, Locations, Numbering
<1>3. /\ \A f \in Rounds : a + 1 >= RoundBegin(h, f) + 2 =>
                                a >= RoundBegin(h, f) + 2
      /\ \A f \in Rounds : a + 1 >= RoundBegin(h, f) + 3 =>
                                a >= RoundBegin(h, f) + 3
      /\ a + 1 >= Begin(h) + 11 => a >= Begin(h) + 11
      /\ a + 1 >= Begin(h) + 13 => a >= Begin(h) + 13
  BY <1>1, <1>2
<1> QED BY <1>3 DEF Ahead

LEMMA MoveApart ==
    ASSUME PlacesOK, ChannelOK, NEW r \in Rank, NEW l \in Locations,
           NEW k \in LoadSteps(problem), NEW g \in Rounds, Moves(r, l, k, g),
           NEW q \in Rank, NEW p \in Rank, q \in neighbours(problem, p),
           q # r, p # r, channel'[<<q, p>>] = channel[<<q, p>>]
    PROVE  ChannelAt(q, p)'
<1>1. /\ problem' = problem /\ step'[p] = step[p] /\ round'[p] = round[p]
      /\ time(p)' = time(p) /\ time(q)' = time(q)
  BY MoveFacts
<1>2. /\ OffsetsSent(q, p)' <=> OffsetsSent(q, p)
      /\ DiagonalsSent(q, p)' <=> DiagonalsSent(q, p)
      /\ LambdasSent(q, p)' <=> LambdasSent(q, p)
  BY <1>1 DEF OffsetsSent, DiagonalsSent, LambdasSent, Scaled, config
<1>3. pending(q, p)' = pending(q, p)
  BY <1>2 DEF pending, One
<1> QED BY <1>1, <1>2, <1>3, Kept DEF ChannelOK

LEMMA MoveQuiet ==
    ASSUME PlacesOK, LagOK, ChannelOK, NEW r \in Rank, NEW l \in Quiet,
           NEW k \in LoadSteps(problem), NEW g \in Rounds, Moves(r, l, k, g),
           time(r) + 1 = At(l, k, g), channel' = channel
    PROVE  LagOK' /\ ChannelOK'
<1>1. /\ l \in Locations /\ k \in Int /\ LoadSteps(problem) \in SUBSET Int
      /\ \A p \in Rank : p \in Int
  BY ProblemsAssumption, SizeAssumption
     DEF LoadSteps, Quiet, Locations, Numbering, Rank, PlacesOK
<1>2. /\ time(r) \in Int /\ Begin(step[r]) = 14 * (step[r] - 1)
      /\ step[r] \in Int /\ round[r] \in Rounds
      /\ Begin(step[r]) <= time(r) /\ time(r) <= Begin(step[r]) + 13
      /\ RoundBegin(step[r], round[r]) <= time(r)
      /\ round[r] = "dirichlet" => time(r) <= Begin(step[r]) + 3
      /\ RoundBegin(step[r], round[r]) =
            IF round[r] = "gluing" THEN Begin(step[r]) + 4 ELSE Begin(step[r])
  BY TimeFacts
<1>3. /\ Begin(k) = 14 * (k - 1)
      /\ RoundBegin(k, g) = IF g = "gluing" THEN Begin(k) + 4 ELSE Begin(k)
      /\ \/ l = "count" /\ time(r) + 1 = RoundBegin(k, g)
         \/ l = "scan" /\ time(r) + 1 = RoundBegin(k, g) + 1
         \/ l \in {"insert", "glue"} /\ time(r) + 1 = Begin(k) + 8
         \/ l \in {"insert", "glue"} /\ time(r) + 1 = Begin(k) + 9
  BY <1>1, AtFacts DEF Begin, Quiet
<1>4. /\ \A p \in Rank : p # r =>
            /\ step'[p] = step[p] /\ round'[p] = round[p]
            /\ time(p)' = time(p)
      /\ step'[r] = k /\ round'[r] = g /\ time(r)' = time(r) + 1
      /\ problem' = problem
  BY <1>1, MoveFacts
<1>5. LagOK'
  <2>1. ASSUME NEW p \in Rank, NEW h \in LoadSteps(problem), p # r
        PROVE  Ahead(problem, h, r, At(l, k, g), p, time(p))
    <3>1. Ahead(problem, h, r, time(r), p, time(p)) /\ time(p) \in Int
      BY TimeFacts DEF LagOK
    <3> QED BY <1>1, <1>2, <3>1, AheadQuiet
  <2>2. time(r) <= At(l, k, g)
    BY <1>2
  <2> QED BY <1>1, <2>1, <2>2, MoveLag
<1>6. ASSUME NEW q \in Rank, NEW p \in Rank, q \in neighbours(problem, p)
      PROVE  ChannelAt(q, p)'
  <2>1. q # p
    BY <1>6 DEF neighbours
  <2>2. ChannelAt(q, p) /\ channel'[<<q, p>>] = channel[<<q, p>>]
    BY <1>6 DEF ChannelOK
  <2>3. /\ time(q) \in Int /\ time(p) \in Int
        /\ step[p] \in Int /\ Begin(step[p]) = 14 * (step[p] - 1)
        /\ RoundBegin(step[p], round[p]) =
              IF round[p] = "gluing" THEN Begin(step[p]) + 4
              ELSE Begin(step[p])
    BY TimeFacts
  <2>4. CASE q # r /\ p # r
    BY <1>1, <1>6, <2>2, <2>4, MoveApart
  <2>5. CASE q = r
    <3>1. p # r /\ time(p)' = time(p) /\ time(r)' = time(r) + 1
          /\ step'[p] = step[p] /\ round'[p] = round[p]
      BY <1>4, <2>1, <2>5
    <3>2. /\ time(r) + 1 >= RoundBegin(step[p], round[p]) + 2 <=>
                time(r) >= RoundBegin(step[p], round[p]) + 2
          /\ time(r) + 1 >= Begin(step[p]) + 10 <=>
                time(r) >= Begin(step[p]) + 10
          /\ time(r) + 1 >= Begin(step[p]) + 12 <=>
                time(r) >= Begin(step[p]) + 12
      BY <1>1, <1>2, <1>3, <2>3
    <3>3. /\ OffsetsSent(r, p)' <=> OffsetsSent(r, p)
          /\ DiagonalsSent(r, p)' <=> DiagonalsSent(r, p)
          /\ LambdasSent(r, p)' <=> LambdasSent(r, p)
      BY <1>4, <3>1, <3>2
         DEF OffsetsSent, DiagonalsSent, LambdasSent, Scaled, config
    <3>4. pending(r, p)' = pending(r, p)
      BY <3>3 DEF pending, One
    <3> QED BY <1>4, <2>2, <2>5, <3>1, <3>3, <3>4, Kept
  <2>6. CASE p = r
    <3>1. time(q)' = time(q)
      BY <1>4, <2>1, <2>6
    <3>2. Ahead(problem, k, q, time(q), r, time(r))
      BY DEF LagOK
    <3>3. CASE l = "count"
      <4>1. ~(time(q) >= RoundBegin(k, g) + 2)
        BY <1>1, <1>2, <1>3, <2>3, <3>2, <3>3 DEF Ahead
      <4>2. /\ ~OffsetsSent(q, r)' /\ ~DiagonalsSent(q, r)'
            /\ ~LambdasSent(q, r)'
        <5>1. /\ ~(time(q) >= Begin(k) + 10) /\ ~(time(q) >= Begin(k) + 12)
          BY <1>1, <1>3, <2>3, <4>1
        <5> QED BY <1>4, <3>1, <4>1, <5>1
                DEF OffsetsSent, DiagonalsSent, LambdasSent
      <4>3. /\ ~OffsetsSent(q, r) /\ ~DiagonalsSent(q, r)
            /\ ~LambdasSent(q, r)
        <5>1. /\ ~(time(r) < RoundBegin(step[r], round[r]) + 3)
              /\ time(q) < Begin(step[r]) + 10 \/ time(r) >= Begin(step[r]) + 11
              /\ time(q) < Begin(step[r]) + 12 \/ time(r) >= Begin(step[r]) + 13
          BY <1>1, <1>2, <1>3, <2>3, <3>3, <4>1 DEF Rounds
        <5> QED BY <1>2, <2>3, <5>1 DEF OffsetsSent, DiagonalsSent, LambdasSent
      <4>4. pending(q, r)' = pending(q, r)
        BY <4>2, <4>3 DEF pending, One
      <4> QED BY <1>4, <2>2, <2>6, <4>2, <4>4, Kept
    <3>4. CASE l # "count"
      <4>1. step[r] = k
        BY <1>1, <1>2, <1>3, <3>4
      <4>2. \/ round[r] = g
            \/ time(r) >= Begin(k) + 7
        BY <1>1, <1>2, <1>3, <3>4, <4>1 DEF Rounds
      <4>3. /\ OffsetsSent(q, r)' <=> OffsetsSent(q, r)
            /\ OffsetsSent(q, r) => round[r] = g
        <5>1. CASE round[r] = g
          <6>1. time(r) + 1 < RoundBegin(k, g) + 3 <=>
                    time(r) < RoundBegin(k, g) + 3
            BY <1>1, <1>2, <1>3, <3>4
          <6> QED BY <1>4, <3>1, <4>1, <5>1, <6>1 DEF OffsetsSent
        <5>2. CASE time(r) >= Begin(k) + 7
          <6>1. /\ ~(time(r) < RoundBegin(step[r], round[r]) + 3)
                /\ ~(time(r) + 1 < RoundBegin(k, g) + 3)
            BY <1>1, <1>2, <1>3, <4>1, <5>2
          <6> QED BY <1>4, <6>1 DEF OffsetsSent
        <5> QED BY <4>2, <5>1, <5>2
      <4>4. /\ DiagonalsSent(q, r)' <=> DiagonalsSent(q, r)
            /\ LambdasSent(q, r)' <=> LambdasSent(q, r)
        <5>1. /\ time(r) + 1 < Begin(k) + 11 <=> time(r) < Begin(k) + 11
              /\ time(r) + 1 < Begin(k) + 13 <=> time(r) < Begin(k) + 13
          BY <1>1, <1>2, <1>3, <3>4
        <5> QED BY <1>4, <3>1, <4>1, <5>1
                DEF DiagonalsSent, LambdasSent, Scaled, config
      <4>5. pending(q, r)' = pending(q, r)
        BY <4>3, <4>4 DEF pending, One
      <4> QED BY <1>4, <2>2, <2>6, <4>1, <4>3, <4>5, Kept
    <3> QED BY <3>3, <3>4
  <2> QED BY <2>4, <2>5, <2>6
<1>7. ChannelOK'
  BY <1>4, <1>6 DEF ChannelOK
<1> QED BY <1>5, <1>7

-----------------------------------------------------------------------------
(* The actions that send and take nothing.                                 *)

LEMMA CallFacts ==
    ASSUME NEW k \in Int, NEW g \in Rounds
    PROVE  /\ call(k, g) \in Int
           /\ call(k, g) = IF g = "gluing" THEN 2 * k ELSE 2 * k - 1
           /\ \A h \in Int : \A f \in Rounds :
                call(h, f) = call(k, g) => h = k /\ f = g
  BY DEF call, CallsBy, Rounds

\* Where a step of a process starts: what the lemmas above need of it.
LEMMA Parts ==
    ASSUME IInv, NEW r \in Rank
    PROVE  /\ PlacesOK /\ ShapesOK /\ TypeOK /\ CallsOK /\ LagOK /\ ChannelOK
           /\ NumbersOK /\ EnteredAt(r) /\ NumbersAt(r) /\ TotalOK
           /\ step[r] \in LoadSteps(problem) /\ step[r] \in Int
           /\ round[r] \in Rounds
           /\ loc = [loc EXCEPT ![r] = loc[r]]
           /\ step = [step EXCEPT ![r] = step[r]]
           /\ round = [round EXCEPT ![r] = round[r]]
<1>1. PlacesOK /\ ShapesOK /\ TypeOK
  BY DEF IInv, TypeOK
<1>2. /\ loc \in [Rank -> Locations] /\ step \in [Rank -> LoadSteps(problem)]
      /\ round \in [Rank -> Rounds]
  BY <1>1 DEF PlacesOK
<1> QED BY <1>1, <1>2, TimeFacts DEF IInv, CallsOK, NumbersOK

LEMMA CountStep ==
    ASSUME IInv, NEW r \in Rank, Count(r)
    PROVE  IInv'
<1> DEFINE k == step[r]
           g == round[r]
<1>1. /\ PlacesOK /\ ShapesOK /\ TypeOK /\ CallsOK /\ LagOK /\ ChannelOK
      /\ NumbersOK /\ EnteredAt(r) /\ NumbersAt(r) /\ TotalOK
      /\ k \in LoadSteps(problem) /\ k \in Int /\ g \in Rounds
      /\ step = [step EXCEPT ![r] = k] /\ round = [round EXCEPT ![r] = g]
  BY Parts
<1>2. /\ loc[r] = "count" /\ loc' = [loc EXCEPT ![r] = "scan"]
      /\ entered' = [entered EXCEPT ![r] = Append(@, LocalSize(r))]
      /\ UNCHANGED <<problem, mesh, step, round, offset, total, channel,
                     intervalOffset, size>>
  BY DEF Count
<1>3. Moves(r, "scan", k, g) /\ "scan" \in Locations /\ "scan" \in Quiet
  BY <1>1, <1>2 DEF Moves, Locations, Numbering, Quiet
<1> HIDE DEF k, g
<1>4. time(r) + 1 = At("scan", k, g)
  <2>1. time(r) = RoundBegin(k, g) /\ RoundBegin(k, g) \in Int
    <3>1. time(r) = At("count", k, g) /\ "count" \in Locations
      BY <1>2 DEF time, k, g, Locations, Numbering
    <3> QED BY <1>1, <3>1, AtFacts
  <2>2. At("scan", k, g) = RoundBegin(k, g) + 1
    BY <1>1, <1>3, AtFacts
  <2> QED BY <2>1, <2>2
<1>5. PlacesOK'
  BY <1>1, <1>3, MovePlaces DEF Numbering
<1>6. LagOK' /\ ChannelOK'
  BY <1>1, <1>2, <1>3, <1>4, MoveQuiet
<1> DEFINE e == entered[r]
           z == LocalSize(r)
<1>7. /\ entered' = [p \in Rank |-> entered'[p]]
      /\ entered'[r] = Append(e, z)
      /\ \A p \in Rank : p # r => entered'[p] = entered[p]
      /\ \A p \in Rank : IsSequence(entered[p])
  <2>1. entered = [p \in Rank |-> entered[p]]
    BY <1>1 DEF ShapesOK
  <2>2. \A p \in Rank : IsSequence(entered[p])
    BY <1>1 DEF ShapesOK
  <2> QED BY <1>2, <2>1, <2>2
<1> HIDE DEF e, z
<1>8. IsSequence(e)
  BY <1>7 DEF e
<1>9. /\ Len(e) \in Nat /\ IsSequence(Append(e, z))
      /\ Len(Append(e, z)) = Len(e) + 1 /\ Append(e, z)[Len(e) + 1] = z
      /\ \A n \in 1..Len(e) : Append(e, z)[n] = e[n]
  BY <1>8, SequenceFacts
<1>10. ShapesOK'
  BY <1>1, <1>2, <1>7, <1>9 DEF ShapesOK
<1>11. TotalOK'
  <2>1. CallsBy(k, g, "scan" \notin {"count", "scan", "offsets"}) =
            CallsBy(k, g, loc[r] \notin {"count", "scan", "offsets"})
    BY <1>2 DEF CallsBy
  <2> QED BY <1>1, <1>2, <1>3, <2>1, MoveTotal DEF k, g
<1>12. \A p \in Rank : p # r => EnteredAt(p)'
  BY <1>1, <1>3, <1>7, MoveFacts DEF EnteredAt, CallsOK
<1>13. EnteredAt(r)'
  <2>1. Len(e) = call(k, g) - 1
    BY <1>1, <1>2 DEF EnteredAt, k, g, e, CallsBy
  <2>2. /\ step'[r] = k /\ round'[r] = g /\ loc'[r] = "scan"
        /\ problem' = problem
    BY <1>1, <1>3, MoveFacts
  <2>3. Len(entered'[r]) = CallsBy(k, g, "scan" # "count")
    BY <1>1, <1>7, <1>9, <2>1, CallFacts DEF CallsBy
  <2>4. ASSUME NEW h \in LoadSteps(problem), NEW f \in Rounds,
               call(h, f) <= Len(Append(e, z))
        PROVE  Append(e, z)[call(h, f)] = LocalSizeIn(problem, h, f, r)
    <3>1. h \in Int /\ h >= 1
      BY <1>1, ProblemsAssumption DEF LoadSteps, PlacesOK
    <3>2. call(h, f) \in Int /\ call(h, f) >= 1
      BY <3>1, CallFacts
    <3>3. CASE call(h, f) = Len(e) + 1
      <4>1. h = k /\ f = g
        <5>1. call(h, f) = call(k, g)
          BY <1>1, <1>9, <2>1, <3>2, <3>3, CallFacts
        <5> QED BY <1>1, <3>1, <5>1, CallFacts
      <4>2. z = LocalSizeIn(problem, k, g, r)
        BY <1>1, SizeFacts DEF z, k, g
      <4> QED BY <1>9, <3>3, <4>1, <4>2
    <3>4. CASE call(h, f) # Len(e) + 1
      <4>1. call(h, f) \in 1..Len(e)
        BY <1>9, <2>4, <3>2, <3>4
      <4>2. e[call(h, f)] = LocalSizeIn(problem, h, f, r)
        <5>1. call(h, f) <= Len(entered[r])
          BY <1>9, <4>1 DEF e
        <5>2. \A x \in LoadSteps(problem) : \A y \in Rounds :
                call(x, y) <= Len(entered[r]) =>
                    entered[r][call(x, y)] = LocalSizeIn(problem, x, y, r)
          BY <1>1 DEF EnteredAt
        <5> QED BY <5>1, <5>2 DEF e
      <4> QED BY <1>9, <4>1, <4>2
    <3> QED BY <3>3, <3>4
  <2> QED BY <1>7, <2>2, <2>3, <2>4 DEF EnteredAt
<1>14. \A p \in Rank : p # r => NumbersAt(p)'
  BY <1>1, <1>2, <1>3, MoveNumbers
<1>15. NumbersAt(r)'
  <2>1. /\ step'[r] = step[r] /\ round'[r] = round[r] /\ loc'[r] = "scan"
        /\ time(r)' = time(r) + 1 /\ problem' = problem
    BY <1>1, <1>3, <1>4, MoveFacts DEF k, g
  <2>2. /\ time(r) \in Int /\ Begin(k) \in Int
        /\ time(r) = Begin(k) \/ time(r) = Begin(k) + 4
    BY <1>1, <1>3, <1>4, TimeFacts, AtFacts DEF k, g
  <2>3. /\ time(r) + 1 >= Begin(k) + 3 => time(r) >= Begin(k) + 3
        /\ time(r) + 1 >= Begin(k) + 4 => time(r) >= Begin(k) + 4
        /\ time(r) + 1 >= Begin(k) + 7 => time(r) >= Begin(k) + 7
        /\ time(r) + 1 >= Begin(k) + 8 => time(r) >= Begin(k) + 8
    BY <2>2
  <2> QED BY <1>1, <1>2, <2>1, <2>3 DEF NumbersAt, k
<1> QED BY <1>5, <1>6, <1>10, <1>11, <1>12, <1>13, <1>14, <1>15
        DEF IInv, TypeOK, CallsOK, NumbersOK

LEMMA InsertStep ==
    ASSUME IInv, NEW r \in Rank, Insert(r)
    PROVE  IInv'
<1> DEFINE k == step[r]
           g == round[r]
<1>1. /\ PlacesOK /\ ShapesOK /\ TypeOK /\ CallsOK /\ LagOK /\ ChannelOK
      /\ NumbersOK /\ EnteredAt(r) /\ NumbersAt(r) /\ TotalOK
      /\ k \in LoadSteps(problem) /\ k \in Int /\ g \in Rounds
      /\ step = [step EXCEPT ![r] = k] /\ round = [round EXCEPT ![r] = g]
  BY Parts
<1>2. /\ loc[r] = "insert" /\ loc' = [loc EXCEPT ![r] = "glue"]
      /\ UNCHANGED <<problem, mesh, step, round, offset, entered, total,
                     channel, intervalOffset, size>>
  BY DEF Insert, numbering
<1>3. Moves(r, "glue", k, g) /\ "glue" \in Locations /\ "glue" \in Quiet
  BY <1>1, <1>2 DEF Moves, Locations, Numbering, Quiet
<1>4. g = "gluing"
  BY <1>1, <1>2 DEF PlacesOK, Numbering, g
<1> HIDE DEF k, g
<1>5. time(r) = Begin(k) + 8 /\ Begin(k) \in Int /\ At("glue", k, g) = Begin(k) + 9
  BY <1>1, <1>2, <1>3, TimeFacts, AtFacts DEF Locations, Numbering, k, g
<1>6. PlacesOK'
  BY <1>1, <1>3, <1>4, MovePlaces
<1>7. LagOK' /\ ChannelOK'
  BY <1>1, <1>2, <1>3, <1>5, MoveQuiet
<1>8. ShapesOK'
  BY <1>1, <1>2 DEF ShapesOK
<1>9. CallsOK'
  <2>1. CallsBy(k, g, "glue" # "count") = CallsBy(k, g, loc[r] # "count")
    BY <1>2 DEF CallsBy
  <2>2. CallsBy(k, g, "glue" \notin {"count", "scan", "offsets"}) =
            CallsBy(k, g, loc[r] \notin {"count", "scan", "offsets"})
    BY <1>2 DEF CallsBy
  <2>3. \A p \in Rank : EnteredAt(p)'
    BY <1>1, <1>2, <1>3, <2>1, MoveEntered DEF k, g
  <2>4. TotalOK'
    BY <1>1, <1>2, <1>3, <2>2, MoveTotal DEF k, g
  <2> QED BY <2>3, <2>4 DEF CallsOK
<1>10. \A p \in Rank : p # r => NumbersAt(p)'
  BY <1>1, <1>2, <1>3, MoveNumbers
<1>11. NumbersAt(r)'
  <2>1. /\ step'[r] = step[r] /\ loc'[r] = "glue"
        /\ time(r)' = time(r) + 1 /\ problem' = problem
    BY <1>1, <1>3, <1>5, MoveFacts DEF k
  <2> QED BY <1>1, <1>2, <1>5, <2>1 DEF NumbersAt, k
<1> QED BY <1>6, <1>7, <1>8, <1>9, <1>10, <1>11 DEF IInv, TypeOK, NumbersOK

LEMMA GetTotalStep ==
    ASSUME IInv, NEW r \in Rank, GetTotal(r)
    PROVE  IInv'
<1> DEFINE k == step[r]
           g == round[r]
           l == IF g = "dirichlet" THEN "count" ELSE "insert"
           n == Len(entered[r])
<1>1. /\ PlacesOK /\ ShapesOK /\ TypeOK /\ CallsOK /\ LagOK /\ ChannelOK
      /\ NumbersOK /\ EnteredAt(r) /\ NumbersAt(r) /\ TotalOK
      /\ k \in LoadSteps(problem) /\ k \in Int /\ g \in Rounds
      /\ step = [step EXCEPT ![r] = k]
  BY Parts
<1>2. /\ loc[r] = "total" /\ loc' = [loc EXCEPT ![r] = l]
      /\ n \in DOMAIN total
      /\ size' = [size EXCEPT ![r][g] = total[n]]
      /\ round' = [round EXCEPT ![r] = "gluing"]
      /\ UNCHANGED <<problem, mesh, step, offset, entered, total,
                     channel, intervalOffset>>
  BY DEF GetTotal
<1>3. /\ Moves(r, l, k, "gluing") /\ l \in Locations /\ l \in Quiet
      /\ "gluing" \in Rounds
  BY <1>1, <1>2 DEF Moves, Locations, Numbering, Quiet, Rounds
<1>4. total[n] = TotalIn(problem, k, g)
  <2>1. n = call(k, g)
    BY <1>1, <1>2 DEF EnteredAt, CallsBy
  <2>2. n <= Len(total)
    <3>1. IsSequence(total)
      BY <1>1 DEF ShapesOK
    <3>2. DOMAIN total = 1..Len(total)
      BY <3>1 DEF IsSequence
    <3>3. Len(total) \in Nat
      BY <3>1, SequenceFacts
    <3> QED BY <1>2, <3>2, <3>3
  <2> QED BY <1>1, <2>1, <2>2 DEF TotalOK
<1>5. /\ size' = [p \in Rank |-> [dirichlet |-> size'[p].dirichlet,
                                 gluing |-> size'[p].gluing]]
      /\ \A p \in Rank : p # r => size'[p] = size[p]
      /\ g = "dirichlet" => size'[r].dirichlet = total[n]
      /\ g = "gluing" => /\ size'[r].dirichlet = size[r].dirichlet
                         /\ size'[r].gluing = total[n]
  <2>1. size = [p \in Rank |-> [dirichlet |-> size[p].dirichlet,
                                gluing |-> size[p].gluing]]
    BY <1>1 DEF ShapesOK
  <2> DEFINE x == [size[r] EXCEPT ![g] = total[n]]
  <2>2. DOMAIN size = Rank /\ size' = [size EXCEPT ![r] = x]
    BY <1>2, <2>1
  <2>3. size[r] = [dirichlet |-> size[r].dirichlet, gluing |-> size[r].gluing]
    BY <2>1
  <2>4. /\ x = [dirichlet |-> x.dirichlet, gluing |-> x.gluing]
        /\ g = "dirichlet" => x.dirichlet = total[n]
        /\ g = "gluing" => x.dirichlet = size[r].dirichlet /\ x.gluing = total[n]
    BY <1>1, <2>3 DEF Rounds
  <2> HIDE DEF x, n, g
  <2>5. /\ size'[r] = x /\ DOMAIN size' = Rank
        /\ \A p \in Rank : p # r => size'[p] = size[p]
        /\ size' = [p \in Rank |-> size'[p]]
    BY <2>2
  <2>6. \A p \in Rank : size'[p] = [dirichlet |-> size'[p].dirichlet,
                                    gluing |-> size'[p].gluing]
    BY <2>1, <2>4, <2>5
  <2> QED BY <2>4, <2>5, <2>6
<1>6. /\ Begin(k) \in Int
      /\ g = "dirichlet" => time(r) = Begin(k) + 3 /\ At(l, k, "gluing") = Begin(k) + 4
      /\ g = "gluing" => time(r) = Begin(k) + 7 /\ At(l, k, "gluing") = Begin(k) + 8
  <2>1. time(r) = At("total", k, g) /\ "total" \in Locations
    BY <1>2 DEF time, Locations, Numbering
  <2>2. Begin(k) \in Int /\ time(r) = RoundBegin(k, g) + 3
        /\ RoundBegin(k, g) = IF g = "gluing" THEN Begin(k) + 4 ELSE Begin(k)
    BY <1>1, <2>1, AtFacts
  <2>3. /\ At("count", k, "gluing") = Begin(k) + 4
        /\ At("insert", k, "gluing") = Begin(k) + 8
    <3>1. "count" \in Locations /\ "insert" \in Locations
      BY DEF Locations, Numbering
    <3> QED BY <1>1, <1>3, <3>1, AtFacts
  <2> QED BY <2>2, <2>3
<1>7. time(r) + 1 = At(l, k, "gluing") /\ (g = "dirichlet" \/ g = "gluing")
  BY <1>1, <1>6 DEF Rounds
<1> HIDE DEF n
<1>8. PlacesOK'
  BY <1>1, <1>3, MovePlaces
<1>9. LagOK' /\ ChannelOK'
  BY <1>1, <1>2, <1>3, <1>7, MoveQuiet
<1>10. ShapesOK'
  BY <1>1, <1>2, <1>5 DEF ShapesOK
<1>11. CallsOK'
  <2>1. CallsBy(k, "gluing", l # "count") = CallsBy(k, g, loc[r] # "count")
    BY <1>1, <1>2, <1>7 DEF CallsBy, call
  <2>2. CallsBy(k, "gluing", l \notin {"count", "scan", "offsets"}) =
            CallsBy(k, g, loc[r] \notin {"count", "scan", "offsets"})
    BY <1>1, <1>2, <1>7 DEF CallsBy, call
  <2>3. \A p \in Rank : EnteredAt(p)'
    BY <1>1, <1>2, <1>3, <2>1, MoveEntered
  <2>4. TotalOK'
    BY <1>1, <1>2, <1>3, <2>2, MoveTotal
  <2> QED BY <2>3, <2>4 DEF CallsOK
<1>12. \A p \in Rank : p # r => NumbersAt(p)'
  BY <1>1, <1>2, <1>3, <1>5, MoveNumbers
<1>13. NumbersAt(r)'
  <2>1. /\ step'[r] = k /\ loc'[r] = l /\ l # "offsets"
        /\ time(r)' = time(r) + 1 /\ problem' = problem
        /\ intervalOffset' = intervalOffset
    BY <1>1, <1>2, <1>3, <1>7, MoveFacts
  <2>2. CASE g = "dirichlet"
    BY <1>1, <1>4, <1>5, <1>6, <2>1, <2>2 DEF NumbersAt
  <2>3. CASE g = "gluing"
    BY <1>1, <1>4, <1>5, <1>6, <2>1, <2>3 DEF NumbersAt
  <2> QED BY <1>7, <2>2, <2>3
<1> QED BY <1>8, <1>9, <1>10, <1>11, <1>12, <1>13 DEF IInv, TypeOK, NumbersOK

LEMMA NextLoadStepStep ==
    ASSUME IInv, NEW r \in Rank, NextLoadStep(r)
    PROVE  IInv'
<1> DEFINE k == step[r]
<1>1. /\ PlacesOK /\ ShapesOK /\ TypeOK /\ CallsOK /\ LagOK /\ ChannelOK
      /\ NumbersOK /\ EnteredAt(r) /\ NumbersAt(r) /\ TotalOK
      /\ k \in LoadSteps(problem) /\ k \in Int
  BY Parts
<1>2. /\ loc[r] = "solved" /\ loc' = [loc EXCEPT ![r] = "count"]
      /\ k < Len(problem.steps)
      /\ step' = [step EXCEPT ![r] = k + 1]
      /\ round' = [round EXCEPT ![r] = "dirichlet"]
      /\ UNCHANGED <<problem, mesh, offset, entered, total, channel,
                     intervalOffset, size>>
  BY <1>1 DEF NextLoadStep, PlacesOK
<1>3. /\ k + 1 \in LoadSteps(problem) /\ Moves(r, "count", k + 1, "dirichlet")
      /\ "count" \in Locations /\ "count" \in Quiet /\ "dirichlet" \in Rounds
      /\ k + 1 \in Int
  <2>1. Len(problem.steps) \in Nat
    BY <1>1, ProblemsAssumption DEF PlacesOK, IsProblem
  <2>2. k + 1 \in LoadSteps(problem)
    BY <1>1, <1>2, <2>1 DEF LoadSteps
  <2> QED BY <1>1, <1>2, <2>2
          DEF Moves, Locations, Numbering, Quiet, Rounds
<1>4. round[r] = "gluing"
  BY <1>1, <1>2 DEF PlacesOK, Numbering
<1>5. /\ time(r) = Begin(k) + 13 /\ Begin(k) \in Int
      /\ At("count", k + 1, "dirichlet") = Begin(k + 1)
      /\ Begin(k + 1) = Begin(k) + 14
  <2>1. time(r) = Begin(k) + 13 /\ Begin(k) \in Int
    BY <1>1, <1>2, TimeFacts, AtFacts DEF Rounds
  <2>2. At("count", k + 1, "dirichlet") = Begin(k + 1)
    BY <1>3, AtFacts
  <2>3. Begin(k + 1) = Begin(k) + 14
    BY <1>1 DEF Begin
  <2> QED BY <2>1, <2>2, <2>3
<1> HIDE DEF k
<1>6. time(r) + 1 = At("count", k + 1, "dirichlet")
  BY <1>5
<1>7. PlacesOK'
  BY <1>1, <1>3, MovePlaces DEF Numbering
<1>8. LagOK' /\ ChannelOK'
  BY <1>1, <1>2, <1>3, <1>6, MoveQuiet
<1>9. ShapesOK'
  BY <1>1, <1>2 DEF ShapesOK
<1>10. CallsOK'
  <2>1. CallsBy(k + 1, "dirichlet", "count" # "count") =
            CallsBy(step[r], round[r], loc[r] # "count")
    BY <1>1, <1>2, <1>4 DEF k, CallsBy, call
  <2>2. CallsBy(k + 1, "dirichlet", "count" \notin {"count", "scan", "offsets"}) =
            CallsBy(step[r], round[r],
                    loc[r] \notin {"count", "scan", "offsets"})
    BY <1>1, <1>2, <1>4 DEF k, CallsBy, call
  <2>3. \A p \in Rank : EnteredAt(p)'
    BY <1>1, <1>2, <1>3, <2>1, MoveEntered
  <2>4. TotalOK'
    BY <1>1, <1>2, <1>3, <2>2, MoveTotal
  <2> QED BY <2>3, <2>4 DEF CallsOK
<1>11. \A p \in Rank : p # r => NumbersAt(p)'
  BY <1>1, <1>2, <1>3, MoveNumbers
<1>12. NumbersAt(r)'
  <2>1. /\ step'[r] = k + 1 /\ loc'[r] = "count"
        /\ time(r)' = Begin(k + 1) /\ problem' = problem
    BY <1>1, <1>3, <1>5, MoveFacts
  <2> QED BY <1>5, <2>1 DEF NumbersAt
<1> QED BY <1>7, <1>8, <1>9, <1>10, <1>11, <1>12 DEF IInv, TypeOK, NumbersOK

-----------------------------------------------------------------------------
(* exscan: a process passes the barrier and tells its upper neighbours the *)
(* numbers of the intervals they share.                                    *)

LEMMA PairFacts ==
    ASSUME PlacesOK, LagOK, NEW q \in Rank, NEW p \in Rank,
           q \in neighbours(problem, p)
    PROVE  /\ q # p /\ q \in Int /\ p \in Int /\ p \in neighbours(problem, q)
           /\ \A h \in LoadSteps(problem) :
                Ahead(problem, h, p, time(p), q, time(q))
<1>1. IsMesh(problem)
  BY ProblemsAssumption DEF PlacesOK, IsProblem
<1>2. q # p /\ p \in neighbours(problem, q)
  BY <1>1, NeighbourFacts
<1> QED BY <1>2, SizeAssumption DEF LagOK, Rank

\* Who has entered a call has come to it.
LEMMA EnteredTime ==
    ASSUME PlacesOK, NEW q \in Rank, EnteredAt(q),
           NEW k \in Int, NEW g \in Rounds, call(k, g) <= Len(entered[q])
    PROVE  time(q) >= RoundBegin(k, g) + 1
<1> DEFINE h == step[q]
           f == round[q]
<1>1. /\ h \in Int /\ f \in Rounds /\ loc[q] \in Locations
      /\ Begin(h) = 14 * (h - 1) /\ time(q) \in Int
      /\ RoundBegin(h, f) = IF f = "gluing" THEN Begin(h) + 4 ELSE Begin(h)
      /\ RoundBegin(h, f) <= time(q)
  BY TimeFacts
<1>2. /\ Begin(k) = 14 * (k - 1)
      /\ RoundBegin(k, g) = IF g = "gluing" THEN Begin(k) + 4 ELSE Begin(k)
  BY DEF Begin, RoundBegin
<1>3. Len(entered[q]) = IF loc[q] # "count" THEN call(h, f) ELSE call(h, f) - 1
  BY DEF EnteredAt, CallsBy
<1>4. loc[q] # "count" => time(q) >= RoundBegin(h, f) + 1
  <2> SUFFICES ASSUME loc[q] # "count" PROVE time(q) >= RoundBegin(h, f) + 1
    OBVIOUS
  <2>1. CASE loc[q] \in Numbering
    <3>1. loc[q] \in {"scan", "offsets", "total"}
      BY <2>1 DEF Numbering
    <3>2. time(q) = At(loc[q], h, f)
      BY DEF time
    <3> HIDE DEF h, f
    <3>3. \/ time(q) = RoundBegin(h, f) + 1 \/ time(q) = RoundBegin(h, f) + 2
          \/ time(q) = RoundBegin(h, f) + 3
      BY <1>1, <3>1, <3>2, AtFacts
    <3> QED BY <1>1, <3>3
  <2>2. CASE loc[q] \notin Numbering
    <3>1. time(q) = At(loc[q], h, f)
      BY DEF time
    <3>2. loc[q] \in {"insert", "glue", "scale", "solve", "reduce", "solved"}
      BY <1>1, <2>2 DEF Locations
    <3>3. /\ h \in Int /\ f \in Rounds /\ loc[q] \in Locations
      BY <1>1
    <3> HIDE DEF h, f
    <3>4. Begin(h) \in Int /\ At(loc[q], h, f) \in
            {Begin(h) + 8, Begin(h) + 9, Begin(h) + 10, Begin(h) + 11,
             Begin(h) + 12, Begin(h) + 13}
      BY <3>2, <3>3, AtFacts
    <3>5. time(q) >= Begin(h) + 8
      BY <3>1, <3>4
    <3> QED BY <1>1, <3>5
  <2> QED BY <2>1, <2>2
<1> HIDE DEF h, f
<1>5. /\ call(h, f) = IF f = "gluing" THEN 2 * h ELSE 2 * h - 1
      /\ call(k, g) = IF g = "gluing" THEN 2 * k ELSE 2 * k - 1
  BY DEF call
<1>6. CASE loc[q] # "count"
  BY <1>1, <1>2, <1>3, <1>4, <1>5, <1>6
<1>7. CASE loc[q] = "count"
  BY <1>1, <1>2, <1>3, <1>5, <1>7 DEF Rounds
<1> QED BY <1>6, <1>7

LEMMA ScanStep ==
    ASSUME IInv, NEW r \in Rank, Scan(r)
    PROVE  IInv'
<1> DEFINE k == step[r]
           g == round[r]
           n == Len(entered[r])
           first == SumUpto(LAMBDA q : entered[q][n], r)
           B == RoundBegin(k, g)
<1>1. /\ PlacesOK /\ ShapesOK /\ TypeOK /\ CallsOK /\ LagOK /\ ChannelOK
      /\ NumbersOK /\ EnteredAt(r) /\ NumbersAt(r) /\ TotalOK
      /\ k \in LoadSteps(problem) /\ k \in Int /\ g \in Rounds
      /\ step = [step EXCEPT ![r] = k] /\ round = [round EXCEPT ![r] = g]
  BY Parts
<1>2. /\ loc[r] = "scan" /\ loc' = [loc EXCEPT ![r] = "offsets"]
      /\ \A q \in Rank : n \in DOMAIN entered[q]
      /\ offset' = [offset EXCEPT ![r] = first]
      /\ UNCHANGED <<problem, mesh, step, round, entered, total,
                     intervalOffset, size>>
  BY DEF Scan
<1>3. channel' = [c \in Rank \X Rank |->
            IF c[1] = r /\ c[2] \in Upper(r)
            THEN Append(channel[c], SharedOffsets(r, c[2], first))
            ELSE channel[c]]
  BY DEF Scan
<1>4. Moves(r, "offsets", k, g) /\ "offsets" \in Locations /\ "scan" \in Locations
  BY <1>1, <1>2 DEF Moves, Locations, Numbering
<1>5. IsProblem(problem) /\ IsMesh(problem)
      /\ LoadSteps(problem) \in SUBSET Int /\ Size \in Nat
  BY <1>1, StateFacts, SizeAssumption DEF LoadSteps
<1>6. n = call(k, g)
  BY <1>1, <1>2 DEF EnteredAt, CallsBy
<1>7. \A q \in Rank : n <= Len(entered[q])
  <2> TAKE q \in Rank
  <2>1. IsSequence(entered[q])
    BY <1>1 DEF ShapesOK
  <2>2. DOMAIN entered[q] = 1..Len(entered[q])
    BY <2>1 DEF IsSequence
  <2>3. Len(entered[q]) \in Nat
    BY <2>1, SequenceFacts
  <2> QED BY <1>2, <2>2, <2>3
<1>8. first = FirstIn(problem, k, g, r)
  <2>1. \A q \in Rank : entered[q][n] = LocalSizeIn(problem, k, g, q)
    BY <1>1, <1>6, <1>7 DEF EnteredAt, CallsOK
  <2>2. \A a \in 1..r : a - 1 \in Rank
    BY <1>5 DEF Rank
  <2> HIDE DEF n, k, g
  <2>3. [a \in 1..r |-> entered[a - 1][n]] =
            [a \in 1..r |-> LocalSizeIn(problem, k, g, a - 1)]
    BY <2>1, <2>2
  <2> QED BY <2>3 DEF FirstIn, SumUpto
<1> HIDE DEF first
<1>9. \A q \in Rank : time(q) >= B + 1
  BY <1>1, <1>6, <1>7, EnteredTime DEF CallsOK
<1>10. ASSUME NEW q \in Rank
       PROVE  SharedOffsets(r, q, first) = SharedIn(problem, k, g, r, q)
  <2>1. /\ Of(r, r) = OfIn(problem, r, r)
        /\ \A i : LocalOffset(r, i) = LocalOffsetIn(problem, k, g, r, i)
    BY <1>1, SizeFacts
  <2>2. {i \in OwnedBy(r, r) : q \in ranks(problem, i)} =
            {i \in OwnedIn(problem, r) : q \in ranks(problem, i)}
    <3>1. ToSet(Intervals(r)) = IntervalsOf(problem, r)
      BY <1>1, StateFacts
    <3>2. \A i \in OwnedIn(problem, r) : i \in IntervalsOf(problem, r)
      BY <1>5, OwnerFacts DEF OwnedIn, IntervalsOf
    <3>3. OwnedBy(r, r) = OwnedIn(problem, r)
      BY <3>1, <3>2 DEF OwnedBy, OwnedIn, IntervalsOf
    <3> QED BY <3>3
  <2> HIDE DEF k, g
  <2> QED BY <1>8, <2>1, <2>2 DEF SharedOffsets, SharedIn
<1>11. /\ time(r) = B + 1 /\ At("offsets", k, g) = B + 2 /\ B \in Int
       /\ Begin(k) = 14 * (k - 1)
       /\ B = IF g = "gluing" THEN Begin(k) + 4 ELSE Begin(k)
  <2>1. time(r) = At("scan", k, g)
    BY <1>2 DEF time
  <2> HIDE DEF k, g
  <2> QED BY <1>1, <1>4, <2>1, AtFacts DEF Begin
<1>12. /\ \A p \in Rank : p # r =>
            /\ step'[p] = step[p] /\ round'[p] = round[p]
            /\ time(p)' = time(p)
       /\ step'[r] = k /\ round'[r] = g /\ loc'[r] = "offsets"
       /\ time(r)' = B + 2 /\ problem' = problem
  BY <1>1, <1>4, <1>11, MoveFacts
<1> HIDE DEF B, n
<1>13. PlacesOK'
  BY <1>1, <1>4, MovePlaces DEF Numbering
<1>14. ShapesOK'
  <2>1. channel' = [c \in Rank \X Rank |-> channel'[c]]
    BY <1>3
  <2>2. offset' = [q \in Rank |-> offset'[q]]
    BY <1>1, <1>2 DEF ShapesOK
  <2> QED BY <1>1, <1>2, <2>1, <2>2 DEF ShapesOK
<1>15. CallsOK'
  <2>1. CallsBy(k, g, "offsets" # "count") = CallsBy(k, g, loc[r] # "count")
    BY <1>2 DEF CallsBy
  <2>2. CallsBy(k, g, "offsets" \notin {"count", "scan", "offsets"}) =
            CallsBy(k, g, loc[r] \notin {"count", "scan", "offsets"})
    BY <1>2 DEF CallsBy
  <2>3. \A p \in Rank : EnteredAt(p)'
    BY <1>1, <1>2, <1>4, <2>1, MoveEntered
  <2>4. TotalOK'
    BY <1>1, <1>2, <1>4, <2>2, MoveTotal
  <2> QED BY <2>3, <2>4 DEF CallsOK
<1>16. NumbersOK'
  <2>1. ASSUME NEW p \in Rank, p # r PROVE NumbersAt(p)'
    <3>1. offset'[p] = offset[p]
      BY <1>1, <1>2, <2>1 DEF ShapesOK
    <3> QED BY <1>1, <1>2, <1>4, <2>1, <3>1, MoveNumbers
  <2>2. NumbersAt(r)'
    <3>1. offset'[r] = FirstIn(problem, k, g, r)
      BY <1>1, <1>2, <1>8 DEF ShapesOK
    <3>2. /\ time(r)' >= Begin(k) + 3 => time(r) >= Begin(k) + 3
          /\ time(r)' >= Begin(k) + 4 => time(r) >= Begin(k) + 4
          /\ time(r)' >= Begin(k) + 7 => time(r) >= Begin(k) + 7
          /\ time(r)' >= Begin(k) + 8 => time(r) >= Begin(k) + 8
      BY <1>1, <1>11, <1>12
    <3> QED BY <1>1, <1>2, <1>12, <3>1, <3>2 DEF NumbersAt
  <2> QED BY <2>1, <2>2 DEF NumbersOK
<1> HIDE DEF k, g
<1>17. LagOK'
  <2>1. ASSUME NEW p \in Rank, NEW h \in LoadSteps(problem), p # r
        PROVE  Ahead(problem, h, r, B + 2, p, time(p))
    <3>1. Ahead(problem, h, r, B + 1, p, time(p)) /\ time(p) \in Int /\ h \in Int
      BY <1>1, <1>5, <1>11, TimeFacts DEF LagOK
    <3>2. /\ Begin(h) = 14 * (h - 1)
          /\ \A f \in Rounds : \/ RoundBegin(h, f) = Begin(h)
                               \/ RoundBegin(h, f) = Begin(h) + 4
      BY <3>1 DEF Begin, RoundBegin
    <3>3. time(p) >= B + 1
      BY <1>9
    <3>4. /\ \A f \in Rounds : B + 2 >= RoundBegin(h, f) + 2 =>
                                    time(p) >= RoundBegin(h, f) + 1
          /\ \A f \in Rounds : B + 2 >= RoundBegin(h, f) + 3 =>
                                    B + 1 >= RoundBegin(h, f) + 3
          /\ B + 2 >= Begin(h) + 11 => B + 1 >= Begin(h) + 11
          /\ B + 2 >= Begin(h) + 13 => B + 1 >= Begin(h) + 13
      BY <1>1, <1>11, <3>1, <3>2, <3>3
    <3> QED BY <3>1, <3>4 DEF Ahead
  <2>2. time(r) <= At("offsets", k, g)
    BY <1>11
  <2> QED BY <1>1, <1>4, <1>11, <2>1, <2>2, MoveLag
<1>18. ASSUME NEW q \in Rank, NEW p \in Rank, q \in neighbours(problem, p)
       PROVE  ChannelAt(q, p)'
  <2>1. /\ q # p /\ q \in Int /\ p \in Int /\ p \in neighbours(problem, q)
        /\ \A h \in LoadSteps(problem) :
                Ahead(problem, h, p, time(p), q, time(q))
    BY <1>1, <1>18, PairFacts
  <2>2. ChannelAt(q, p)
    BY <1>1, <1>18 DEF ChannelOK
  <2>3. /\ time(q) \in Int /\ time(p) \in Int
        /\ step[p] \in Int /\ Begin(step[p]) = 14 * (step[p] - 1)
        /\ Begin(step[p]) <= time(p) /\ time(p) <= Begin(step[p]) + 13
        /\ RoundBegin(step[p], round[p]) <= time(p)
        /\ round[p] = "dirichlet" => time(p) <= Begin(step[p]) + 3
        /\ RoundBegin(step[p], round[p]) =
              IF round[p] = "gluing" THEN Begin(step[p]) + 4
              ELSE Begin(step[p])
        /\ round[p] \in Rounds
    BY <1>1, TimeFacts
  <2>4. CASE q # r /\ p # r
    <3>1. channel'[<<q, p>>] = channel[<<q, p>>]
      BY <1>3, <2>4
    <3> QED BY <1>1, <1>4, <1>18, <2>4, <3>1, MoveApart
  <2>5. CASE p = r
    <3>1. channel'[<<q, r>>] = channel[<<q, r>>] /\ time(q)' = time(q)
      BY <1>3, <1>12, <2>1, <2>5
    <3>2. step[r] = k /\ round[r] = g
      BY DEF k, g
    <3>3. /\ time(r) < B + 3 /\ time(r)' < B + 3
          /\ time(r) < Begin(k) + 11 /\ time(r)' < Begin(k) + 11
          /\ time(r) < Begin(k) + 13 /\ time(r)' < Begin(k) + 13
      BY <1>1, <1>11, <1>12
    <3>4. /\ OffsetsSent(q, r)' <=> OffsetsSent(q, r)
          /\ DiagonalsSent(q, r)' <=> DiagonalsSent(q, r)
          /\ LambdasSent(q, r)' <=> LambdasSent(q, r)
      BY <1>12, <3>1, <3>2, <3>3
         DEF OffsetsSent, DiagonalsSent, LambdasSent, Scaled, config, B
    <3>5. pending(q, r)' = pending(q, r)
      BY <3>4 DEF pending, One
    <3> QED BY <1>12, <2>2, <2>5, <3>1, <3>2, <3>4, <3>5, Kept
  <2>6. CASE q = r /\ p < r
    <3>1. p \notin Upper(r) /\ p # r /\ ~(r < p)
      BY <2>1, <2>6 DEF Upper
    <3>2. channel'[<<r, p>>] = channel[<<r, p>>] /\ time(p)' = time(p)
          /\ step'[p] = step[p] /\ round'[p] = round[p]
      BY <1>3, <1>12, <3>1
    <3>3. /\ time(r) + 1 >= Begin(step[p]) + 10 <=>
                time(r) >= Begin(step[p]) + 10
          /\ time(r) + 1 >= Begin(step[p]) + 12 <=>
                time(r) >= Begin(step[p]) + 12
      BY <1>1, <1>11, <2>3
    <3>4. time(r)' = time(r) + 1
      BY <1>11, <1>12
    <3>5. /\ ~OffsetsSent(r, p)' /\ ~OffsetsSent(r, p)
          /\ DiagonalsSent(r, p)' <=> DiagonalsSent(r, p)
          /\ LambdasSent(r, p)' <=> LambdasSent(r, p)
      BY <1>12, <3>1, <3>2, <3>3, <3>4
         DEF OffsetsSent, DiagonalsSent, LambdasSent, Scaled, config
    <3>6. pending(r, p)' = pending(r, p)
      BY <3>5 DEF pending, One
    <3> QED BY <1>12, <2>2, <2>6, <3>2, <3>5, <3>6, Kept
  <2>7. CASE q = r /\ r < p
    <3>1. p \in Upper(r) /\ p # r
      <4>1. mesh.neighbours[r] = neighbours(problem, r)
        BY <1>1, StateFacts
      <4> QED BY <2>1, <2>7, <4>1 DEF Upper
    <3>2. channel'[<<r, p>>] =
                Append(channel[<<r, p>>], SharedIn(problem, k, g, r, p))
          /\ time(p)' = time(p) /\ step'[p] = step[p] /\ round'[p] = round[p]
      BY <1>3, <1>10, <1>12, <3>1
    <3>3. time(p) >= B + 1
      BY <1>9
    <3>4. ~(time(p) >= B + 3)
      <4>1. Ahead(problem, k, p, time(p), r, B + 1)
        BY <1>1, <1>11, <2>1, <2>7
      <4>2. time(p) >= RoundBegin(k, g) + 3 => B + 1 >= RoundBegin(k, g) + 2
        BY <1>1, <1>18, <2>1, <2>7, <4>1 DEF Ahead
      <4> QED BY <1>11, <4>2 DEF B
    <3>5. step[p] = k
      BY <1>1, <1>11, <2>3, <3>3, <3>4
    <3>6. round[p] = g
      BY <1>1, <1>11, <2>3, <3>3, <3>4, <3>5 DEF Rounds
    <3>7. RoundBegin(step[p], round[p]) = B
      BY <3>5, <3>6 DEF B
    <3>8. /\ ~OffsetsSent(r, p) /\ ~DiagonalsSent(r, p) /\ ~LambdasSent(r, p)
      BY <1>11, <2>3, <3>5, <3>7
         DEF OffsetsSent, DiagonalsSent, LambdasSent
    <3>9. OffsetsSent(r, p)'
      <4>1. time(p) < B + 3
        BY <1>11, <2>3, <3>4
      <4>2. RoundBegin(step'[p], round'[p]) = B
        BY <3>2, <3>7
      <4> QED BY <1>11, <1>12, <2>7, <3>2, <4>1, <4>2 DEF OffsetsSent
    <3>10. ~DiagonalsSent(r, p)' /\ ~LambdasSent(r, p)'
      <4>1. ~(B + 2 >= Begin(k) + 10) /\ ~(B + 2 >= Begin(k) + 12)
        BY <1>1, <1>11
      <4> QED BY <1>12, <3>2, <3>5, <4>1 DEF DiagonalsSent, LambdasSent
    <3>11. pending(r, p) = 0
      BY <3>8 DEF pending, One
    <3>12. pending(r, p)' = 1
      BY <3>9, <3>10 DEF pending, One
    <3>13. pending(r, p)' = pending(r, p) + 1
      BY <3>11, <3>12
    <3>14. channel'[<<r, p>>] = Append(channel[<<r, p>>],
                SharedIn(problem, step'[p], round'[p], r, p))
      BY <3>2, <3>5, <3>6
    <3> QED BY <1>12, <2>2, <2>7, <3>11, <3>13, <3>14, Sent
  <2> QED BY <2>1, <2>4, <2>5, <2>6, <2>7
<1>19. ChannelOK'
  BY <1>12, <1>18 DEF ChannelOK
<1> QED BY <1>13, <1>14, <1>15, <1>16, <1>17, <1>19 DEF IInv, TypeOK

-----------------------------------------------------------------------------
(* receiveLowerKnownSize and the numbers of the intervals.                 *)

LEMMA SetOffsetsStep ==
    ASSUME IInv, NEW r \in Rank, SetOffsets(r)
    PROVE  IInv'
<1> DEFINE k == step[r]
           g == round[r]
           B == RoundBegin(k, g)
           own(i) == offset[r] + LocalOffset(r, i)
           foreign(i) ==
                LET received == Head(channel[<<Owner(problem, i), r>>])
                    n == 1 + Cardinality(InFrontOf(Of(r, Owner(problem, i)), i))
                IN IF n \in DOMAIN received THEN received[n] ELSE 0
           base == IF g = "gluing" THEN size[r].dirichlet ELSE 0
           end == offset[r] + LocalSize(r)
           numbers == [i \in ToSet(Intervals(r)) |->
                base + (IF Owner(problem, i) = r THEN own(i) ELSE foreign(i))]
<1>1. /\ PlacesOK /\ ShapesOK /\ TypeOK /\ CallsOK /\ LagOK /\ ChannelOK
      /\ NumbersOK /\ EnteredAt(r) /\ NumbersAt(r) /\ TotalOK
      /\ k \in LoadSteps(problem) /\ k \in Int /\ g \in Rounds
      /\ step = [step EXCEPT ![r] = k] /\ round = [round EXCEPT ![r] = g]
  BY Parts
<1>2. /\ loc[r] = "offsets" /\ loc' = [loc EXCEPT ![r] = "total"]
      /\ \A q \in Lower(r) : channel[<<q, r>>] # <<>>
      /\ Received(r, Lower(r))
      /\ intervalOffset' = [intervalOffset EXCEPT ![r][g] = numbers]
      /\ offset' = [offset EXCEPT ![r] = end]
      /\ total' = IF r = Size - 1 THEN Append(total, end) ELSE total
      /\ UNCHANGED <<problem, mesh, step, round, entered, size>>
  BY DEF SetOffsets
<1>3. Moves(r, "total", k, g) /\ "offsets" \in Locations /\ "total" \in Locations
  BY <1>1, <1>2 DEF Moves, Locations, Numbering
<1>4. /\ IsProblem(problem) /\ IsMesh(problem)
      /\ LoadSteps(problem) \in SUBSET Int /\ Size \in Nat \ {0}
      /\ mesh.neighbours[r] = neighbours(problem, r)
      /\ ToSet(Intervals(r)) = IntervalsOf(problem, r)
  BY <1>1, StateFacts, SizeAssumption DEF LoadSteps
<1>5. /\ time(r) = B + 2 /\ At("total", k, g) = B + 3 /\ B \in Int
      /\ Begin(k) = 14 * (k - 1)
      /\ B = IF g = "gluing" THEN Begin(k) + 4 ELSE Begin(k)
  <2>1. time(r) = At("offsets", k, g)
    BY <1>2 DEF time
  <2> HIDE DEF k, g
  <2> QED BY <1>1, <1>3, <2>1, AtFacts DEF Begin
<1>6. /\ \A p \in Rank : p # r =>
            /\ step'[p] = step[p] /\ round'[p] = round[p]
            /\ time(p)' = time(p)
      /\ step'[r] = k /\ round'[r] = g /\ loc'[r] = "total"
      /\ time(r)' = B + 3 /\ problem' = problem
  BY <1>1, <1>3, <1>5, MoveFacts
<1>7. channel' = [c \in Rank \X Rank |->
            IF c[2] = r /\ c[1] \in Lower(r) THEN Tail(channel[c])
            ELSE channel[c]]
  BY <1>2 DEF Received
<1>8. offset[r] = FirstIn(problem, k, g, r)
  BY <1>1, <1>2 DEF NumbersAt
<1>9. end = FirstIn(problem, k, g, r) + LocalSizeIn(problem, k, g, r)
  BY <1>1, <1>8, SizeFacts
\* A lower neighbour has sent the numbers: nothing else can be on its way.
<1>10. ASSUME NEW q \in Lower(r)
       PROVE  /\ q \in Rank /\ q < r /\ q \in neighbours(problem, r)
              /\ OffsetsSent(q, r) /\ time(q) >= B + 2
              /\ pending(q, r) # 0
              /\ channel[<<q, r>>][1] = SharedIn(problem, k, g, q, r)
              /\ Head(channel[<<q, r>>]) = channel[<<q, r>>][1]
  <2>1. q \in Rank /\ q < r /\ q \in neighbours(problem, r)
    BY <1>4, NeighbourFacts DEF Lower
  <2>2. ChannelAt(q, r) /\ channel[<<q, r>>] # <<>>
    BY <1>1, <1>2, <2>1 DEF ChannelOK
  <2>3. /\ IsSequence(channel[<<q, r>>]) /\ Len(channel[<<q, r>>]) = pending(q, r)
    BY <2>2 DEF ChannelAt
  <2>4. pending(q, r) # 0 /\ Head(channel[<<q, r>>]) = channel[<<q, r>>][1]
    BY <2>2, <2>3, SequenceFacts
  <2>5. OffsetsSent(q, r) \/ DiagonalsSent(q, r) \/ LambdasSent(q, r)
    BY <2>4 DEF pending, One
  <2>6. time(q) \in Int
    BY <1>1, <2>1, TimeFacts
  <2>7. time(q) >= B + 2
    <3>1. CASE OffsetsSent(q, r)
      BY <3>1 DEF OffsetsSent
    <3>2. CASE DiagonalsSent(q, r) \/ LambdasSent(q, r)
      <4>1. time(q) >= Begin(k) + 10 \/ time(q) >= Begin(k) + 12
        BY <3>2 DEF DiagonalsSent, LambdasSent
      <4> HIDE DEF k, g
      <4> QED BY <1>1, <1>5, <2>6, <4>1
    <3> QED BY <2>5, <3>1, <3>2
  <2>8. OffsetsSent(q, r)
    <3>1. time(r) < B + 3
      BY <1>5
    <3> QED BY <2>1, <2>7, <3>1 DEF OffsetsSent
  <2>9. channel[<<q, r>>][1] = SharedIn(problem, k, g, q, r)
    BY <2>2, <2>8 DEF ChannelAt
  <2> QED BY <2>1, <2>4, <2>7, <2>8, <2>9
<1>11. base = IF g = "gluing" THEN TotalIn(problem, k, "dirichlet") ELSE 0
  <2>1. g = "gluing" => time(r) >= Begin(k) + 4
    <3> HIDE DEF k, g
    <3> QED BY <1>1, <1>5
  <2> QED BY <1>1, <2>1 DEF NumbersAt
<1>12. ASSUME NEW i \in IntervalsOf(problem, r)
       PROVE  (IF Owner(problem, i) = r THEN own(i) ELSE foreign(i))
                = OffsetIn(problem, k, g, i)
  <2>1. i \in IntervalsIn(problem) /\ r \in ranks(problem, i)
    BY DEF IntervalsOf
  <2>2. CASE Owner(problem, i) = r
    <3>1. LocalOffset(r, i) = LocalOffsetIn(problem, k, g, r, i)
      BY <1>1, SizeFacts
    <3> QED BY <1>8, <2>2, <3>1 DEF OffsetIn
  <2>3. CASE Owner(problem, i) # r
    <3> DEFINE q == Owner(problem, i)
    <3>1. q \in ranks(problem, i) /\ q \in Rank /\ q <= r /\ q # r
      BY <1>4, <2>1, <2>3, OwnerFacts
    <3>2. q \in Lower(r)
      <4>1. q \in neighbours(problem, r)
        BY <1>4, <2>1, <3>1, NeighboursOfIntervals
      <4>2. q < r
        BY <1>4, <3>1 DEF Rank
      <4> QED BY <1>4, <4>1, <4>2 DEF Lower
    <3>3. Head(channel[<<q, r>>]) = SharedIn(problem, k, g, q, r)
      BY <1>10, <3>2
    <3>4. Of(r, q) = OfIn(problem, r, q)
      BY <1>1, SizeFacts
    <3> DEFINE n == 1 + Cardinality(InFrontOf(OfIn(problem, r, q), i))
    <3>5. /\ n \in DOMAIN SharedIn(problem, k, g, q, r)
          /\ SharedIn(problem, k, g, q, r)[n] = OffsetIn(problem, k, g, i)
      BY <1>1, <1>4, SharedNumbers
    <3>6. foreign(i) = IF n \in DOMAIN Head(channel[<<q, r>>])
                       THEN Head(channel[<<q, r>>])[n] ELSE 0
      BY <3>4
    <3> HIDE DEF n, foreign
    <3> QED BY <2>3, <3>3, <3>5, <3>6
  <2> QED BY <2>2, <2>3
<1>13. numbers = [i \in IntervalsOf(problem, r) |->
                        base + OffsetIn(problem, k, g, i)]
  <2> HIDE DEF own, foreign, base, k, g
  <2> QED BY <1>4, <1>12
<1> HIDE DEF own, foreign, base, end, numbers
<1>14. /\ intervalOffset' = [p \in Rank |->
                [dirichlet |-> intervalOffset'[p].dirichlet,
                 gluing |-> intervalOffset'[p].gluing]]
       /\ \A p \in Rank : p # r => intervalOffset'[p] = intervalOffset[p]
       /\ g = "dirichlet" => intervalOffset'[r].dirichlet = numbers
       /\ g = "gluing" =>
            /\ intervalOffset'[r].dirichlet = intervalOffset[r].dirichlet
            /\ intervalOffset'[r].gluing = numbers
  <2>1. intervalOffset = [p \in Rank |->
                [dirichlet |-> intervalOffset[p].dirichlet,
                 gluing |-> intervalOffset[p].gluing]]
    BY <1>1 DEF ShapesOK
  <2> DEFINE x == [intervalOffset[r] EXCEPT ![g] = numbers]
  <2>2. /\ DOMAIN intervalOffset = Rank
        /\ intervalOffset' = [intervalOffset EXCEPT ![r] = x]
    BY <1>2, <2>1
  <2>3. intervalOffset[r] = [dirichlet |-> intervalOffset[r].dirichlet,
                             gluing |-> intervalOffset[r].gluing]
    BY <2>1
  <2>4. /\ x = [dirichlet |-> x.dirichlet, gluing |-> x.gluing]
        /\ g = "dirichlet" => x.dirichlet = numbers
        /\ g = "gluing" => /\ x.dirichlet = intervalOffset[r].dirichlet
                           /\ x.gluing = numbers
    BY <1>1, <2>3 DEF Rounds
  <2> HIDE DEF x, g
  <2>5. /\ intervalOffset'[r] = x /\ DOMAIN intervalOffset' = Rank
        /\ \A p \in Rank : p # r => intervalOffset'[p] = intervalOffset[p]
        /\ intervalOffset' = [p \in Rank |-> intervalOffset'[p]]
    BY <2>2
  <2>6. \A p \in Rank : intervalOffset'[p] =
                [dirichlet |-> intervalOffset'[p].dirichlet,
                 gluing |-> intervalOffset'[p].gluing]
    BY <2>1, <2>4, <2>5
  <2> QED BY <2>4, <2>5, <2>6
<1>15. IsSequence(total) /\ IsSequence(total')
  <2>1. IsSequence(total)
    BY <1>1 DEF ShapesOK
  <2> QED BY <1>2, <2>1, SequenceFacts
<1>16. TotalOK'
  <2>1. CASE r # Size - 1
    <3>1. total' = total /\ Size - 1 \in Rank
      BY <1>2, <1>4, <2>1 DEF Rank
    <3> QED BY <1>1, <1>3, <2>1, <3>1, MoveFacts DEF TotalOK
  <2>2. CASE r = Size - 1
    <3>1. total' = Append(total, end)
      BY <1>2, <2>2
    <3>2. Len(total) = call(k, g) - 1
      BY <1>1, <1>2, <2>2 DEF TotalOK, CallsBy
    <3>3. Len(total') = CallsBy(step'[r], round'[r],
                                loc'[r] \notin {"count", "scan", "offsets"})
      <4>1. Len(total') = call(k, g)
        BY <1>1, <1>15, <3>1, <3>2, SequenceFacts, CallFacts
      <4> QED BY <1>6, <4>1 DEF CallsBy
    <3>4. ASSUME NEW h \in LoadSteps(problem), NEW f \in Rounds,
                 call(h, f) <= Len(total')
          PROVE  total'[call(h, f)] = TotalIn(problem, h, f)
      <4>1. h \in Int /\ h >= 1 /\ call(h, f) \in Int /\ call(h, f) >= 1
        BY CallFacts DEF LoadSteps
      <4>2. /\ Len(total) \in Nat /\ Len(total') = Len(total) + 1
            /\ total'[Len(total) + 1] = end
            /\ \A n \in 1..Len(total) : total'[n] = total[n]
        BY <1>15, <3>1, SequenceFacts
      <4>3. CASE call(h, f) = Len(total) + 1
        <5>1. call(h, f) = call(k, g)
          <6>1. call(k, g) \in Int
            BY <1>1, CallFacts
          <6> HIDE DEF k, g
          <6> QED BY <3>2, <4>3, <6>1
        <5>2. h = k /\ f = g
          BY <1>1, <4>1, <5>1, CallFacts
        <5>3. end = TotalIn(problem, k, g)
          BY <1>9, <2>2 DEF TotalIn
        <5> QED BY <4>2, <4>3, <5>2, <5>3
      <4>4. CASE call(h, f) # Len(total) + 1
        <5>1. call(h, f) \in 1..Len(total)
          BY <3>4, <4>1, <4>2, <4>4
        <5>2. total[call(h, f)] = TotalIn(problem, h, f)
          BY <1>1, <4>2, <5>1 DEF TotalOK
        <5> QED BY <4>2, <5>1, <5>2
      <4> QED BY <4>3, <4>4
    <3> QED BY <1>6, <2>2, <3>3, <3>4 DEF TotalOK
  <2> QED BY <2>1, <2>2
<1>17. CallsOK'
  <2>1. CallsBy(k, g, "total" # "count") = CallsBy(k, g, loc[r] # "count")
    BY <1>2 DEF CallsBy
  <2>2. \A p \in Rank : EnteredAt(p)'
    BY <1>1, <1>2, <1>3, <2>1, MoveEntered
  <2> QED BY <1>16, <2>2 DEF CallsOK
<1>18. PlacesOK'
  BY <1>1, <1>3, MovePlaces DEF Numbering
<1>19. ShapesOK'
  <2>1. channel' = [c \in Rank \X Rank |-> channel'[c]]
    BY <1>7
  <2>2. offset' = [q \in Rank |-> offset'[q]]
    BY <1>1, <1>2 DEF ShapesOK
  <2> QED BY <1>1, <1>2, <1>14, <1>15, <2>1, <2>2 DEF ShapesOK
<1>20. NumbersOK'
  <2>1. ASSUME NEW p \in Rank, p # r PROVE NumbersAt(p)'
    <3>1. offset'[p] = offset[p]
      BY <1>1, <1>2, <2>1 DEF ShapesOK
    <3> QED BY <1>1, <1>2, <1>3, <1>14, <2>1, <3>1, MoveNumbers
  <2>2. NumbersAt(r)'
    <3> HIDE DEF B
    <3>1. CASE g = "dirichlet"
      <4>1. \A i \in IntervalsOf(problem, r) : OffsetIn(problem, k, g, i) \in Nat
        BY <1>1, <1>4, OffsetsDisjoint DEF IntervalsOf
      <4>2. intervalOffset'[r].dirichlet =
                [i \in IntervalsOf(problem, r) |->
                    OffsetIn(problem, k, "dirichlet", i)]
        <5>1. numbers = [i \in IntervalsOf(problem, r) |->
                            0 + OffsetIn(problem, k, g, i)]
          BY <1>11, <1>13, <3>1
        <5>2. \A i \in IntervalsOf(problem, r) :
                0 + OffsetIn(problem, k, g, i) = OffsetIn(problem, k, g, i)
          BY <4>1
        <5> QED BY <1>14, <3>1, <5>1, <5>2
      <4>3. /\ ~(time(r)' >= Begin(k) + 4) /\ ~(time(r)' >= Begin(k) + 7)
            /\ ~(time(r)' >= Begin(k) + 8)
        <5> HIDE DEF k, g
        <5> QED BY <1>1, <1>5, <1>6, <3>1
      <4> QED BY <1>6, <4>2, <4>3 DEF NumbersAt
    <3>2. CASE g = "gluing"
      <4>1. /\ time(r) >= Begin(k) + 3 /\ time(r) >= Begin(k) + 4
            /\ ~(time(r)' >= Begin(k) + 8)
        <5> HIDE DEF k, g
        <5> QED BY <1>1, <1>5, <1>6, <3>2
      <4>2. intervalOffset'[r].gluing =
                [i \in IntervalsOf(problem, r) |->
                    TotalIn(problem, k, "dirichlet")
                        + OffsetIn(problem, k, "gluing", i)]
        BY <1>11, <1>13, <1>14, <3>2
      <4>3. intervalOffset'[r].dirichlet = intervalOffset[r].dirichlet
        BY <1>14, <3>2
      <4> QED BY <1>1, <1>2, <1>6, <4>1, <4>2, <4>3 DEF NumbersAt
    <3> QED BY <1>1, <3>1, <3>2 DEF Rounds
  <2> QED BY <2>1, <2>2 DEF NumbersOK
<1>21. step[r] = k /\ round[r] = g /\ RoundBegin(k, g) = B
  OBVIOUS
<1> HIDE DEF k, g, B
<1>22. LagOK'
  <2>1. ASSUME NEW p \in Rank, NEW h \in LoadSteps(problem), p # r
        PROVE  Ahead(problem, h, r, B + 3, p, time(p))
    <3>1. Ahead(problem, h, r, B + 2, p, time(p)) /\ time(p) \in Int /\ h \in Int
      BY <1>1, <1>4, <1>5, TimeFacts DEF LagOK
    <3>2. /\ Begin(h) = 14 * (h - 1)
          /\ \A f \in Rounds : \/ RoundBegin(h, f) = Begin(h)
                               \/ RoundBegin(h, f) = Begin(h) + 4
      BY <3>1 DEF Begin, RoundBegin
    <3>3. ASSUME r \in neighbours(problem, p), p < r PROVE time(p) >= B + 2
      <4>1. p \in Lower(r)
        BY <1>1, <1>4, <3>3, PairFacts DEF Lower
      <4> QED BY <1>10, <4>1
    <3>4. /\ \A f \in Rounds : B + 3 >= RoundBegin(h, f) + 2 =>
                                    B + 2 >= RoundBegin(h, f) + 2
          /\ \A f \in Rounds : B + 3 >= RoundBegin(h, f) + 3 =>
                                    B + 2 >= RoundBegin(h, f) + 2
          /\ B + 3 >= Begin(h) + 11 => B + 2 >= Begin(h) + 11
          /\ B + 3 >= Begin(h) + 13 => B + 2 >= Begin(h) + 13
      BY <1>1, <1>5, <3>1, <3>2
    <3>5. ASSUME r \in neighbours(problem, p), p < r, NEW f \in Rounds,
                 B + 3 >= RoundBegin(h, f) + 3
          PROVE  time(p) >= RoundBegin(h, f) + 2
      BY <1>5, <3>1, <3>2, <3>3, <3>5
    <3> QED BY <3>1, <3>4, <3>5 DEF Ahead
  <2>2. time(r) <= At("total", k, g)
    BY <1>5
  <2> QED BY <1>1, <1>3, <1>5, <2>1, <2>2, MoveLag
<1>23. ASSUME NEW q \in Rank, NEW p \in Rank, q \in neighbours(problem, p)
       PROVE  ChannelAt(q, p)'
  <2>1. q # p /\ q \in Int /\ p \in Int
    BY <1>1, <1>23, PairFacts
  <2>2. ChannelAt(q, p)
    BY <1>1, <1>23 DEF ChannelOK
  <2>3. /\ time(q) \in Int /\ time(p) \in Int
        /\ step[p] \in Int /\ Begin(step[p]) = 14 * (step[p] - 1)
        /\ RoundBegin(step[p], round[p]) =
              IF round[p] = "gluing" THEN Begin(step[p]) + 4
              ELSE Begin(step[p])
    BY <1>1, TimeFacts
  <2>4. CASE p # r
    <3>1. channel'[<<q, p>>] = channel[<<q, p>>]
      BY <1>7, <2>4
    <3>2. CASE q # r
      BY <1>1, <1>3, <1>23, <2>4, <3>1, <3>2, MoveApart
    <3>3. CASE q = r
      <4>1. /\ time(p)' = time(p) /\ time(r)' = time(r) + 1
            /\ step'[p] = step[p] /\ round'[p] = round[p]
        BY <1>5, <1>6, <2>4
      <4>2. /\ time(r) + 1 >= RoundBegin(step[p], round[p]) + 2 <=>
                  time(r) >= RoundBegin(step[p], round[p]) + 2
            /\ time(r) + 1 >= Begin(step[p]) + 10 <=>
                  time(r) >= Begin(step[p]) + 10
            /\ time(r) + 1 >= Begin(step[p]) + 12 <=>
                  time(r) >= Begin(step[p]) + 12
        BY <1>1, <1>5, <2>3
      <4>3. /\ OffsetsSent(r, p)' <=> OffsetsSent(r, p)
            /\ DiagonalsSent(r, p)' <=> DiagonalsSent(r, p)
            /\ LambdasSent(r, p)' <=> LambdasSent(r, p)
        BY <1>6, <4>1, <4>2
           DEF OffsetsSent, DiagonalsSent, LambdasSent, Scaled, config
      <4>4. pending(r, p)' = pending(r, p)
        BY <4>3 DEF pending, One
      <4> QED BY <1>6, <2>2, <3>1, <3>3, <4>1, <4>3, <4>4, Kept
    <3> QED BY <3>2, <3>3
  <2>5. CASE p = r
    <3>1. time(q)' = time(q)
      BY <1>6, <2>1, <2>5
    <3>2. /\ time(r) < Begin(k) + 11 /\ time(r)' < Begin(k) + 11
          /\ time(r) < Begin(k) + 13 /\ time(r)' < Begin(k) + 13
          /\ ~(time(r)' < B + 3)
      BY <1>1, <1>5, <1>6
    <3>3. /\ ~OffsetsSent(q, r)'
          /\ DiagonalsSent(q, r)' <=> DiagonalsSent(q, r)
          /\ LambdasSent(q, r)' <=> LambdasSent(q, r)
      BY <1>6, <1>21, <3>1, <3>2
         DEF OffsetsSent, DiagonalsSent, LambdasSent, Scaled, config
    <3>4. CASE q \in Lower(r)
      <4>1. channel'[<<q, r>>] = Tail(channel[<<q, r>>])
        BY <1>7, <3>4
      <4>2. OffsetsSent(q, r) /\ pending(q, r) # 0
        BY <1>10, <3>4
      <4>3. pending(q, r)' = pending(q, r) - 1
        BY <3>3, <4>2 DEF pending, One
      <4> QED BY <1>6, <2>2, <2>5, <3>3, <4>1, <4>2, <4>3, Taken
    <3>5. CASE q \notin Lower(r)
      <4>1. channel'[<<q, r>>] = channel[<<q, r>>]
        BY <1>7, <3>5
      <4>2. ~OffsetsSent(q, r)
        BY <1>4, <1>23, <2>5, <3>5 DEF OffsetsSent, Lower
      <4>3. pending(q, r)' = pending(q, r)
        BY <3>3, <4>2 DEF pending, One
      <4> QED BY <1>6, <2>2, <2>5, <3>3, <4>1, <4>3, Kept
    <3> QED BY <3>4, <3>5
  <2> QED BY <2>4, <2>5
<1>24. ChannelOK'
  BY <1>6, <1>23 DEF ChannelOK
<1> QED BY <1>17, <1>18, <1>19, <1>20, <1>22, <1>24 DEF IInv, TypeOK

-----------------------------------------------------------------------------
(* The rows, their scaling and the dual vector: the numbers stay.          *)

Late == {"glue", "scale", "solve", "reduce", "solved"}

LEMMA LateMove ==
    ASSUME IInv, NEW r \in Rank, loc[r] \in Late, NEW l \in Late,
           UNCHANGED <<problem, mesh, step, round, offset, entered, total,
                       intervalOffset, size>>,
           loc' = [loc EXCEPT ![r] = l],
           channel' = [c \in Rank \X Rank |-> channel'[c]],
           l = "scale" => Scaled(r)
    PROVE  /\ Moves(r, l, step[r], "gluing")
           /\ PlacesOK' /\ ShapesOK' /\ CallsOK' /\ NumbersOK'
           /\ step[r] \in Int /\ Begin(step[r]) = 14 * (step[r] - 1)
           /\ round[r] = "gluing"
           /\ RoundBegin(step[r], "gluing") = Begin(step[r]) + 4
           /\ \A n \in {loc[r], l} :
                /\ n = "glue" => At(n, step[r], "gluing") = Begin(step[r]) + 9
                /\ n = "scale" => At(n, step[r], "gluing") = Begin(step[r]) + 10
                /\ n = "solve" => At(n, step[r], "gluing") = Begin(step[r]) + 11
                /\ n = "reduce" => At(n, step[r], "gluing") = Begin(step[r]) + 12
                /\ n = "solved" => At(n, step[r], "gluing") = Begin(step[r]) + 13
           /\ time(r) = At(loc[r], step[r], "gluing")
           /\ time(r)' = At(l, step[r], "gluing")
           /\ \A p \in Rank : p # r =>
                /\ step'[p] = step[p] /\ round'[p] = round[p]
                /\ time(p)' = time(p)
<1> DEFINE k == step[r]
           g == "gluing"
<1>1. /\ PlacesOK /\ ShapesOK /\ TypeOK /\ CallsOK /\ LagOK /\ ChannelOK
      /\ NumbersOK /\ EnteredAt(r) /\ NumbersAt(r) /\ TotalOK
      /\ k \in LoadSteps(problem) /\ k \in Int
      /\ step = [step EXCEPT ![r] = k] /\ round = [round EXCEPT ![r] = round[r]]
  BY Parts
<1>2. round[r] = g /\ g \in Rounds
  BY <1>1 DEF PlacesOK, Late, Numbering, Rounds
<1>3. Moves(r, l, k, g) /\ l \in Locations /\ loc[r] \in Locations
  BY <1>1, <1>2 DEF Moves, Locations, Numbering, Late
<1>4. time(r) = At(loc[r], k, g)
  BY <1>2 DEF time
<1>5. /\ \A p \in Rank : p # r =>
            /\ step'[p] = step[p] /\ round'[p] = round[p]
            /\ time(p)' = time(p)
      /\ step'[r] = k /\ round'[r] = g /\ loc'[r] = l
      /\ time(r)' = At(l, k, g) /\ problem' = problem
  BY <1>1, <1>2, <1>3, MoveFacts
<1>6. PlacesOK'
  BY <1>1, <1>2, <1>3, MovePlaces DEF Scaled, config
<1>7. ShapesOK'
  BY <1>1 DEF ShapesOK
<1>8. /\ Begin(k) = 14 * (k - 1) /\ RoundBegin(k, g) = Begin(k) + 4
      /\ \A n \in {loc[r], l} :
            /\ n = "glue" => At(n, k, g) = Begin(k) + 9
            /\ n = "scale" => At(n, k, g) = Begin(k) + 10
            /\ n = "solve" => At(n, k, g) = Begin(k) + 11
            /\ n = "reduce" => At(n, k, g) = Begin(k) + 12
            /\ n = "solved" => At(n, k, g) = Begin(k) + 13
  <2>1. \A n \in {loc[r], l} : n \in Locations
    BY <1>3
  <2> HIDE DEF k, g
  <2> QED BY <1>1, <1>2, <2>1, AtFacts DEF Begin, g
<1>9. CallsOK'
  <2>1. CallsBy(k, g, l # "count") = CallsBy(k, round[r], loc[r] # "count")
    BY <1>2 DEF CallsBy, Late
  <2>2. CallsBy(k, g, l \notin {"count", "scan", "offsets"}) =
            CallsBy(k, round[r], loc[r] \notin {"count", "scan", "offsets"})
    BY <1>2 DEF CallsBy, Late
  <2>3. \A p \in Rank : EnteredAt(p)'
    BY <1>1, <1>2, <1>3, <2>1, MoveEntered
  <2>4. TotalOK'
    BY <1>1, <1>2, <1>3, <2>2, MoveTotal
  <2> QED BY <2>3, <2>4 DEF CallsOK
<1>10. NumbersOK'
  <2>1. ASSUME NEW p \in Rank, p # r PROVE NumbersAt(p)'
    BY <1>1, <1>2, <1>3, <2>1, MoveNumbers
  <2>2. NumbersAt(r)'
    <3>1. loc'[r] # "offsets"
      BY <1>5 DEF Late
    <3>2. time(r) >= Begin(k) + 8 /\ time(r) \in Int /\ Begin(k) \in Int
      <4> HIDE DEF k, g
      <4> QED BY <1>1, <1>4, <1>8 DEF Late
    <3>3. /\ time(r) >= Begin(k) + 3 /\ time(r) >= Begin(k) + 4
          /\ time(r) >= Begin(k) + 7
      <4> HIDE DEF k
      <4> QED BY <3>2
    <3> QED BY <1>1, <1>5, <3>1, <3>2, <3>3 DEF NumbersAt
  <2> QED BY <2>1, <2>2 DEF NumbersOK
<1> QED BY <1>1, <1>2, <1>3, <1>4, <1>5, <1>6, <1>7, <1>8, <1>9, <1>10

\* Where the neighbours of a process are that writes its rows: in the same
\* load step, until they get its part of the dual vector.
LEMMA SameStep ==
    ASSUME PlacesOK, LagOK, NEW r \in Rank, NEW p \in Rank,
           r \in neighbours(problem, p), round[r] = "gluing",
           time(r) >= Begin(step[r]) + 9, time(r) < Begin(step[r]) + 12
    PROVE  /\ step[p] = step[r] /\ round[p] = "gluing"
           /\ time(p) < Begin(step[r]) + 13
           /\ Scaled(r) /\ time(r) < Begin(step[r]) + 10 =>
                time(p) < Begin(step[r]) + 11
<1> DEFINE k == step[r]
<1>1. /\ k \in LoadSteps(problem) /\ k \in Int /\ time(r) \in Int
      /\ Begin(k) = 14 * (k - 1)
  BY TimeFacts
<1>2. /\ step[p] \in Int /\ round[p] \in Rounds /\ time(p) \in Int
      /\ Begin(step[p]) = 14 * (step[p] - 1)
      /\ Begin(step[p]) <= time(p) /\ time(p) <= Begin(step[p]) + 13
      /\ round[p] = "dirichlet" => time(p) <= Begin(step[p]) + 3
  BY TimeFacts
<1>3. RoundBegin(k, "gluing") = Begin(k) + 4 /\ "gluing" \in Rounds
  BY <1>1 DEF RoundBegin, Rounds
<1>4. p \in neighbours(problem, r)
  BY PairFacts
<1>5. Ahead(problem, k, r, time(r), p, time(p))
      /\ Ahead(problem, k, p, time(p), r, time(r))
  BY <1>1 DEF LagOK
<1>6. time(p) >= Begin(k) + 5
  <2>1. time(r) >= RoundBegin(k, "gluing") + 2
    BY <1>1, <1>3
  <2>2. time(p) >= RoundBegin(k, "gluing") + 1
    BY <1>3, <1>5, <2>1 DEF Ahead
  <2> HIDE DEF k
  <2> QED BY <1>1, <1>2, <1>3, <2>2
<1>7. time(p) < Begin(k) + 13
  <2>1. ~(time(r) >= Begin(k) + 12)
    BY <1>1
  <2>2. ~(time(p) >= Begin(k) + 13)
    BY <1>4, <1>5, <2>1 DEF Ahead
  <2> HIDE DEF k
  <2> QED BY <1>1, <1>2, <2>2
<1>8. ASSUME Scaled(r), time(r) < Begin(k) + 10
      PROVE  time(p) < Begin(k) + 11
  <2>1. ~(time(r) >= Begin(k) + 10)
    BY <1>1, <1>8
  <2>2. ~(time(p) >= Begin(k) + 11)
    BY <1>4, <1>5, <1>8, <2>1 DEF Ahead, Scaled, config
  <2> HIDE DEF k
  <2> QED BY <1>1, <1>2, <2>2
<1>9. step[p] = k
  <2> HIDE DEF k
  <2> QED BY <1>1, <1>2, <1>6, <1>7
<1>10. round[p] = "gluing"
  <2> HIDE DEF k
  <2> QED BY <1>1, <1>2, <1>6, <1>9 DEF Rounds
<1> QED BY <1>7, <1>8, <1>9, <1>10

LEMMA GlueStep ==
    ASSUME IInv, NEW r \in Rank, Glue(r)
    PROVE  IInv'
<1> DEFINE k == step[r]
           g == "gluing"
           l == IF Scaled(r) THEN "scale" ELSE "solve"
           E == Begin(k)
<1>1. /\ PlacesOK /\ LagOK /\ ChannelOK /\ TypeOK /\ k \in LoadSteps(problem)
  BY Parts
<1>2. /\ loc[r] = "glue" /\ loc' = [loc EXCEPT ![r] = l]
      /\ channel' = IF ~Scaled(r) THEN channel
                    ELSE [c \in Rank \X Rank |->
                            IF c[1] = r /\ c[2] \in mesh.neighbours[r]
                            THEN Append(channel[c], SentDiagonals(r, c[2]))
                            ELSE channel[c]]
      /\ UNCHANGED <<problem, mesh, step, round, offset, entered, total,
                     intervalOffset, size>>
  BY DEF Glue, numbering
<1>3. /\ mesh.neighbours[r] = neighbours(problem, r)
      /\ LoadSteps(problem) \in SUBSET Int /\ g \in Rounds
  BY <1>1, StateFacts DEF LoadSteps, Rounds
<1>4. channel' = [c \in Rank \X Rank |-> channel'[c]]
  BY <1>1, <1>2 DEF TypeOK, ShapesOK
<1>5. /\ l \in Late /\ l \in Locations /\ loc[r] \in Late
      /\ l = "scale" => Scaled(r)
  BY <1>2 DEF Late, Locations, Numbering
<1>6. /\ Moves(r, l, k, g) /\ PlacesOK' /\ ShapesOK' /\ CallsOK' /\ NumbersOK'
      /\ k \in Int /\ E = 14 * (k - 1) /\ round[r] = g
      /\ RoundBegin(k, g) = E + 4
      /\ time(r) = E + 9
      /\ At(l, k, g) = time(r)' /\ time(r)' = IF Scaled(r) THEN E + 10 ELSE E + 11
      /\ \A p \in Rank : p # r =>
            /\ step'[p] = step[p] /\ round'[p] = round[p]
            /\ time(p)' = time(p)
  BY <1>2, <1>4, <1>5, LateMove
<1>7. step[r] = k /\ problem' = problem /\ step'[r] = k /\ round'[r] = g
  BY <1>1, <1>3, <1>5, <1>6, MoveFacts
<1> HIDE DEF k, E, l
<1>8. LagOK'
  <2>1. ASSUME NEW p \in Rank, NEW h \in LoadSteps(problem), p # r
        PROVE  Ahead(problem, h, r, At(l, k, g), p, time(p))
    <3>1. Ahead(problem, h, r, E + 9, p, time(p)) /\ time(p) \in Int /\ h \in Int
      BY <1>1, <1>3, <1>6, TimeFacts DEF LagOK
    <3>2. /\ Begin(h) = 14 * (h - 1)
          /\ \A f \in Rounds : \/ RoundBegin(h, f) = Begin(h)
                               \/ RoundBegin(h, f) = Begin(h) + 4
      BY <3>1 DEF Begin, RoundBegin
    <3>3. CASE h # k
      <4>1. /\ \A f \in Rounds : time(r)' >= RoundBegin(h, f) + 2 =>
                                      E + 9 >= RoundBegin(h, f) + 2
            /\ \A f \in Rounds : time(r)' >= RoundBegin(h, f) + 3 =>
                                      E + 9 >= RoundBegin(h, f) + 3
            /\ time(r)' >= Begin(h) + 11 => E + 9 >= Begin(h) + 11
            /\ time(r)' >= Begin(h) + 13 => E + 9 >= Begin(h) + 13
        BY <1>6, <3>1, <3>2, <3>3
      <4> QED BY <1>6, <3>1, <4>1 DEF Ahead
    <3>4. CASE h = k
      <4>1. /\ \A f \in Rounds : E + 9 >= RoundBegin(h, f) + 2
            /\ \A f \in Rounds : E + 9 >= RoundBegin(h, f) + 3
            /\ ~(time(r)' >= Begin(h) + 13)
            /\ Scaled(r) => ~(time(r)' >= Begin(h) + 11)
        BY <1>6, <3>2, <3>4 DEF E
      <4>2. Scaled(r) <=> /\ problem.steps[h].redundant
                          /\ problem.steps[h].scaling
        BY <1>7, <3>4 DEF Scaled, config
      <4> QED BY <1>6, <3>1, <4>1, <4>2 DEF Ahead
    <3> QED BY <3>3, <3>4
  <2>2. time(r) <= At(l, k, g)
    BY <1>6
  <2> QED BY <1>1, <1>3, <1>5, <1>6, <2>1, <2>2, MoveLag
<1>9. ASSUME NEW q \in Rank, NEW p \in Rank, q \in neighbours(problem, p)
      PROVE  ChannelAt(q, p)'
  <2>1. q # p /\ p \in neighbours(problem, q)
    BY <1>1, <1>9, PairFacts
  <2>2. ChannelAt(q, p)
    BY <1>1, <1>9 DEF ChannelOK
  <2>3. time(q) \in Int /\ time(p) \in Int
    BY <1>1, TimeFacts
  <2>4. CASE q # r /\ p # r
    <3>1. channel'[<<q, p>>] = channel[<<q, p>>]
      BY <1>2, <2>4
    <3> QED BY <1>1, <1>3, <1>5, <1>6, <1>9, <2>4, <3>1, MoveApart
  <2>5. CASE p = r
    <3>1. channel'[<<q, r>>] = channel[<<q, r>>] /\ time(q)' = time(q)
      BY <1>2, <1>6, <2>1, <2>5
    <3>2. /\ ~(time(r) < RoundBegin(k, g) + 3) /\ ~(time(r)' < RoundBegin(k, g) + 3)
          /\ time(r) < E + 13 /\ time(r)' < E + 13
          /\ Scaled(r) => time(r) < E + 11 /\ time(r)' < E + 11
      BY <1>6
    <3>3. Scaled(r)' <=> Scaled(r)
      BY <1>7 DEF Scaled, config
    <3>4. /\ ~OffsetsSent(q, r)' /\ ~OffsetsSent(q, r)
          /\ DiagonalsSent(q, r)' <=> DiagonalsSent(q, r)
          /\ LambdasSent(q, r)' <=> LambdasSent(q, r)
      BY <1>6, <1>7, <3>1, <3>2, <3>3
         DEF OffsetsSent, DiagonalsSent, LambdasSent, E
    <3>5. pending(q, r)' = pending(q, r)
      BY <3>4 DEF pending, One
    <3> QED BY <1>7, <2>2, <2>5, <3>1, <3>4, <3>5, Kept
  <2>6. CASE q = r
    <3>1. /\ p # r /\ time(p)' = time(p)
          /\ step'[p] = step[p] /\ round'[p] = round[p]
      BY <1>6, <2>1, <2>6
    <3>2. /\ step[p] = k /\ round[p] = g /\ time(p) < E + 13
          /\ Scaled(r) => time(p) < E + 11
      <4>1. /\ time(r) >= E + 9 /\ time(r) < E + 12
            /\ time(r) < E + 10
        BY <1>6
      <4> QED BY <1>1, <1>6, <1>9, <2>6, <4>1, SameStep DEF k, E
    <3>3. /\ (Scaled(p)' <=> Scaled(r)) /\ (Scaled(p) <=> Scaled(r))
      BY <1>7, <3>1, <3>2 DEF Scaled, config
    <3>4. /\ time(r) >= E + 6 /\ time(r)' >= E + 6
          /\ ~(time(r) >= E + 10) /\ time(r)' >= E + 10
          /\ ~(time(r) >= E + 12) /\ ~(time(r)' >= E + 12)
      BY <1>6
    <3>5. RoundBegin(step[p], round[p]) + 2 = E + 6
      BY <1>6, <3>2
    <3>6. /\ OffsetsSent(r, p)' <=> OffsetsSent(r, p)
          /\ ~LambdasSent(r, p)' /\ ~LambdasSent(r, p)
          /\ ~DiagonalsSent(r, p)
          /\ DiagonalsSent(r, p)' <=> Scaled(r)
      BY <3>1, <3>2, <3>3, <3>4, <3>5
         DEF OffsetsSent, DiagonalsSent, LambdasSent, E
    <3>7. CASE Scaled(r)
      <4>1. channel'[<<r, p>>] =
                Append(channel[<<r, p>>], SentDiagonals(r, p))
        BY <1>2, <1>3, <2>1, <2>6, <3>7
      <4>2. pending(r, p)' = pending(r, p) + 1
        BY <3>6, <3>7 DEF pending, One
      <4>3. OffsetsSent(r, p) => pending(r, p) >= 1
        BY <3>6 DEF pending, One
      <4> QED BY <1>7, <2>2, <2>6, <3>1, <3>6, <4>1, <4>2, <4>3, Sent
    <3>8. CASE ~Scaled(r)
      <4>1. channel'[<<r, p>>] = channel[<<r, p>>]
        BY <1>2, <3>8
      <4>2. pending(r, p)' = pending(r, p)
        BY <3>6, <3>8 DEF pending, One
      <4> QED BY <1>7, <2>2, <2>6, <3>1, <3>6, <4>1, <4>2, Kept
    <3> QED BY <3>7, <3>8
  <2> QED BY <2>4, <2>5, <2>6
<1>10. ChannelOK'
  BY <1>7, <1>9 DEF ChannelOK
<1> QED BY <1>6, <1>8, <1>10 DEF IInv, TypeOK

\* The diagonals, or the parts of the dual vector, of all neighbours are there.
LEMMA TakeStep ==
    ASSUME IInv, NEW r \in Rank, NEW l \in {"solve", "solved"},
           loc[r] = IF l = "solve" THEN "scale" ELSE "reduce",
           loc' = [loc EXCEPT ![r] = l],
           \A q \in mesh.neighbours[r] : channel[<<q, r>>] # <<>>,
           Received(r, mesh.neighbours[r]),
           UNCHANGED <<problem, mesh, step, round, offset, entered, total,
                       intervalOffset, size>>
    PROVE  IInv'
<1> DEFINE k == step[r]
           g == "gluing"
           E == Begin(k)
           t == IF l = "solve" THEN E + 10 ELSE E + 12
<1>1. /\ PlacesOK /\ LagOK /\ ChannelOK /\ TypeOK /\ k \in LoadSteps(problem)
  BY Parts
<1>2. /\ mesh.neighbours[r] = neighbours(problem, r)
      /\ LoadSteps(problem) \in SUBSET Int /\ g \in Rounds
  BY <1>1, StateFacts DEF LoadSteps, Rounds
<1>3. channel' = [c \in Rank \X Rank |->
            IF c[2] = r /\ c[1] \in mesh.neighbours[r] THEN Tail(channel[c])
            ELSE channel[c]]
  BY DEF Received
<1>4. channel' = [c \in Rank \X Rank |-> channel'[c]]
  BY <1>3
<1>5. /\ l \in Late /\ l \in Locations /\ loc[r] \in Late /\ l # "scale"
      /\ l = "solve" => Scaled(r)
  BY <1>1 DEF Late, Locations, Numbering, PlacesOK
<1>6. /\ Moves(r, l, k, g) /\ PlacesOK' /\ ShapesOK' /\ CallsOK' /\ NumbersOK'
      /\ k \in Int /\ E = 14 * (k - 1) /\ round[r] = g
      /\ RoundBegin(k, g) = E + 4
      /\ time(r) = t
      /\ At(l, k, g) = time(r)' /\ time(r)' = t + 1
      /\ \A p \in Rank : p # r =>
            /\ step'[p] = step[p] /\ round'[p] = round[p]
            /\ time(p)' = time(p)
  <2>1. /\ Moves(r, l, k, g) /\ PlacesOK' /\ ShapesOK' /\ CallsOK' /\ NumbersOK'
        /\ k \in Int /\ E = 14 * (k - 1) /\ round[r] = g
        /\ RoundBegin(k, g) = E + 4
        /\ \A n \in {loc[r], l} :
            /\ n = "scale" => At(n, k, g) = E + 10
            /\ n = "solve" => At(n, k, g) = E + 11
            /\ n = "reduce" => At(n, k, g) = E + 12
            /\ n = "solved" => At(n, k, g) = E + 13
        /\ time(r) = At(loc[r], k, g) /\ time(r)' = At(l, k, g)
        /\ \A p \in Rank : p # r =>
            /\ step'[p] = step[p] /\ round'[p] = round[p]
            /\ time(p)' = time(p)
    BY <1>4, <1>5, LateMove
  <2> HIDE DEF k, E
  <2>2. time(r) = t
    BY <2>1
  <2>3. At(l, k, g) = t + 1
    BY <2>1
  <2> QED BY <2>1, <2>2, <2>3
<1>7. step[r] = k /\ problem' = problem /\ step'[r] = k /\ round'[r] = g
  BY <1>1, <1>2, <1>5, <1>6, MoveFacts
<1>8. t \in Int /\ E \in Int /\ (t = E + 10 \/ t = E + 12)
      /\ (l = "solve" <=> t = E + 10)
  <2> HIDE DEF k, E
  <2> QED BY <1>6
<1>9. Scaled(r) <=> problem.steps[k].redundant /\ problem.steps[k].scaling
  BY DEF Scaled, config
<1> HIDE DEF k, E, t
<1>10. ASSUME NEW q \in Rank, q \in neighbours(problem, r)
       PROVE  /\ ~OffsetsSent(q, r) /\ pending(q, r) = 1 + pending(q, r)'
              /\ ~OffsetsSent(q, r)' /\ pending(q, r) # 0
              /\ time(q) >= t
  <2>1. ChannelAt(q, r) /\ channel[<<q, r>>] # <<>>
    BY <1>1, <1>2, <1>10 DEF ChannelOK
  <2>2. IsSequence(channel[<<q, r>>]) /\ Len(channel[<<q, r>>]) = pending(q, r)
    BY <2>1 DEF ChannelAt
  <2>3. pending(q, r) # 0
    BY <2>1, <2>2, SequenceFacts
  <2>4. q # r /\ time(q) \in Int
    BY <1>1, <1>10, PairFacts, TimeFacts
  <2>5. time(q)' = time(q)
    BY <1>6, <2>4
  <2>6. /\ ~(time(r) < RoundBegin(k, g) + 3) /\ ~(time(r)' < RoundBegin(k, g) + 3)
    BY <1>6, <1>8
  <2>7. ~OffsetsSent(q, r) /\ ~OffsetsSent(q, r)'
    BY <1>6, <1>7, <2>6 DEF OffsetsSent
  <2>8. Scaled(r)' <=> Scaled(r)
    BY <1>7 DEF Scaled, config
  <2>9. CASE l = "solve"
    <3>1. t = E + 10 /\ Scaled(r)
      BY <1>5, <1>8, <2>9
    <3>2. /\ DiagonalsSent(q, r) <=> time(q) >= E + 10
          /\ ~DiagonalsSent(q, r)'
          /\ LambdasSent(q, r) <=> time(q) >= E + 12
          /\ LambdasSent(q, r)' <=> time(q) >= E + 12
      <4>1. /\ time(r) < E + 11 /\ ~(time(r)' < E + 11)
            /\ time(r) < E + 13 /\ time(r)' < E + 13
        <5>1. time(r) = t /\ time(r)' = t + 1
          BY <1>6
        <5> QED BY <5>1, <1>8, <3>1
      <4> QED BY <1>7, <2>5, <2>8, <3>1, <4>1
              DEF DiagonalsSent, LambdasSent, E
    <3>3. DiagonalsSent(q, r) \/ LambdasSent(q, r)
      BY <2>3, <2>7 DEF pending, One
    <3>4. time(q) >= E + 10
      BY <1>8, <2>4, <3>2, <3>3
    <3>5. pending(q, r) = 1 + pending(q, r)'
      BY <2>7, <3>2, <3>4 DEF pending, One
    <3> QED BY <2>3, <2>7, <3>1, <3>4, <3>5
  <2>10. CASE l # "solve"
    <3>1. t = E + 12
      BY <1>8, <2>10
    <3>2. /\ ~DiagonalsSent(q, r) /\ ~DiagonalsSent(q, r)'
          /\ LambdasSent(q, r) <=> time(q) >= E + 12
          /\ ~LambdasSent(q, r)'
      <4>1. /\ ~(time(r) < E + 11) /\ ~(time(r)' < E + 11)
            /\ time(r) < E + 13 /\ ~(time(r)' < E + 13)
        <5>1. time(r) = t /\ time(r)' = t + 1
          BY <1>6
        <5> QED BY <5>1, <1>8, <3>1
      <4> QED BY <1>7, <2>5, <2>8, <4>1 DEF DiagonalsSent, LambdasSent, E
    <3>3. LambdasSent(q, r)
      BY <2>3, <2>7, <3>2 DEF pending, One
    <3>4. pending(q, r) = 1 + pending(q, r)'
      BY <2>7, <3>2, <3>3 DEF pending, One
    <3> QED BY <2>3, <2>7, <3>1, <3>2, <3>3, <3>4
  <2> QED BY <2>9, <2>10
<1>11. LagOK'
  <2>1. ASSUME NEW p \in Rank, NEW h \in LoadSteps(problem), p # r
        PROVE  Ahead(problem, h, r, t + 1, p, time(p))
    <3>1. Ahead(problem, h, r, t, p, time(p)) /\ time(p) \in Int /\ h \in Int
      BY <1>1, <1>2, <1>6, TimeFacts DEF LagOK
    <3>2. /\ Begin(h) = 14 * (h - 1) /\ Begin(h) \in Int
          /\ \A f \in Rounds : \/ RoundBegin(h, f) = Begin(h)
                               \/ RoundBegin(h, f) = Begin(h) + 4
      BY <3>1 DEF Begin, RoundBegin
    <3>3. r \in neighbours(problem, p) => time(p) >= t
      BY <1>1, <1>10, PairFacts
    <3>4. /\ \A f \in Rounds : t + 1 >= RoundBegin(h, f) + 2 =>
                                    t >= RoundBegin(h, f) + 2
          /\ \A f \in Rounds : t + 1 >= RoundBegin(h, f) + 3 =>
                                    t >= RoundBegin(h, f) + 3
      <4> SUFFICES ASSUME NEW f \in Rounds
                   PROVE  /\ t + 1 >= RoundBegin(h, f) + 2 =>
                                t >= RoundBegin(h, f) + 2
                          /\ t + 1 >= RoundBegin(h, f) + 3 =>
                                t >= RoundBegin(h, f) + 3
        OBVIOUS
      <4>1. RoundBegin(h, f) = Begin(h) \/ RoundBegin(h, f) = Begin(h) + 4
        BY <3>2
      <4>2. CASE t = E + 10
        BY <1>6, <1>8, <3>1, <3>2, <4>1, <4>2
      <4>3. CASE t = E + 12
        BY <1>6, <1>8, <3>1, <3>2, <4>1, <4>3
      <4> QED BY <1>8, <4>2, <4>3
    <3>5. /\ t + 1 >= Begin(h) + 11 => t >= Begin(h) + 10
          /\ t + 1 >= Begin(h) + 13 => t >= Begin(h) + 12
      BY <1>8, <3>2
    <3>6. r \in neighbours(problem, p) =>
            /\ t + 1 >= Begin(h) + 11 => time(p) >= Begin(h) + 10
            /\ t + 1 >= Begin(h) + 13 => time(p) >= Begin(h) + 12
      BY <1>8, <3>1, <3>2, <3>3, <3>5
    <3> QED BY <3>1, <3>4, <3>6 DEF Ahead
  <2>2. time(r) <= At(l, k, g) /\ At(l, k, g) = t + 1
    BY <1>6, <1>8
  <2> QED BY <1>1, <1>2, <1>5, <1>6, <2>1, <2>2, MoveLag
<1>12. ASSUME NEW q \in Rank, NEW p \in Rank, q \in neighbours(problem, p)
       PROVE  ChannelAt(q, p)'
  <2>1. q # p
    BY <1>1, <1>12, PairFacts
  <2>2. ChannelAt(q, p)
    BY <1>1, <1>12 DEF ChannelOK
  <2>3. CASE p = r
    <3>1. channel'[<<q, r>>] = Tail(channel[<<q, r>>])
      BY <1>2, <1>3, <1>12, <2>3
    <3>2. /\ ~OffsetsSent(q, r)' /\ pending(q, r) # 0
          /\ pending(q, r) = 1 + pending(q, r)'
      BY <1>10, <1>12, <2>3
    <3>3. pending(q, r)' \in Int
      BY DEF pending, One
    <3>4. pending(q, r)' = pending(q, r) - 1
      BY <3>2, <3>3
    <3> QED BY <1>7, <2>2, <2>3, <3>1, <3>2, <3>4, Taken
  <2>4. CASE p # r /\ q # r
    <3>1. channel'[<<q, p>>] = channel[<<q, p>>]
      BY <1>3, <2>4
    <3> QED BY <1>1, <1>2, <1>5, <1>6, <1>12, <2>4, <3>1, MoveApart
  <2>5. CASE q = r
    <3>1. /\ p # r /\ time(p)' = time(p)
          /\ step'[p] = step[p] /\ round'[p] = round[p]
          /\ channel'[<<r, p>>] = channel[<<r, p>>]
      BY <1>3, <1>6, <2>1, <2>5
    <3>2. /\ step[p] \in Int /\ Begin(step[p]) = 14 * (step[p] - 1)
          /\ RoundBegin(step[p], round[p]) =
                IF round[p] = "gluing" THEN Begin(step[p]) + 4
                ELSE Begin(step[p])
      BY <1>1, TimeFacts
    <3>3. /\ t + 1 >= RoundBegin(step[p], round[p]) + 2 <=>
                t >= RoundBegin(step[p], round[p]) + 2
          /\ t + 1 >= Begin(step[p]) + 10 <=> t >= Begin(step[p]) + 10
          /\ t + 1 >= Begin(step[p]) + 12 <=> t >= Begin(step[p]) + 12
      <4> DEFINE h == step[p]
                 b == Begin(h)
                 B == RoundBegin(h, round[p])
      <4>1. h \in Int /\ b = 14 * (h - 1) /\ (B = b \/ B = b + 4)
        BY <3>2
      <4> HIDE DEF b, B, h
      <4>2. CASE t = E + 10
        <5>1. /\ t + 1 >= B + 2 <=> t >= B + 2
              /\ t + 1 >= b + 10 <=> t >= b + 10
              /\ t + 1 >= b + 12 <=> t >= b + 12
          BY <1>6, <1>8, <4>1, <4>2
        <5> QED BY <5>1 DEF h, b, B
      <4>3. CASE t = E + 12
        <5>1. /\ t + 1 >= B + 2 <=> t >= B + 2
              /\ t + 1 >= b + 10 <=> t >= b + 10
              /\ t + 1 >= b + 12 <=> t >= b + 12
          BY <1>6, <1>8, <4>1, <4>3
        <5> QED BY <5>1 DEF h, b, B
      <4> QED BY <1>8, <4>2, <4>3
    <3>4. /\ OffsetsSent(r, p)' <=> OffsetsSent(r, p)
          /\ DiagonalsSent(r, p)' <=> DiagonalsSent(r, p)
          /\ LambdasSent(r, p)' <=> LambdasSent(r, p)
      BY <1>6, <1>7, <3>1, <3>3
         DEF OffsetsSent, DiagonalsSent, LambdasSent, Scaled, config
    <3>5. pending(r, p)' = pending(r, p)
      BY <3>4 DEF pending, One
    <3> QED BY <1>7, <2>2, <2>5, <3>1, <3>4, <3>5, Kept
  <2> QED BY <2>3, <2>4, <2>5
<1>13. ChannelOK'
  BY <1>7, <1>12 DEF ChannelOK
<1> QED BY <1>6, <1>11, <1>13 DEF IInv, TypeOK

LEMMA SendLambdasStep ==
    ASSUME IInv, NEW r \in Rank, SendLambdas(r)
    PROVE  IInv'
<1> DEFINE k == step[r]
           g == "gluing"
           E == Begin(k)
           message(q) == LET shared == my_comm_lambdas(r, q) IN
                         [n \in DOMAIN shared |-> dual'[r][shared[n]]]
<1>1. /\ PlacesOK /\ LagOK /\ ChannelOK /\ TypeOK /\ k \in LoadSteps(problem)
  BY Parts
<1>2. /\ loc[r] = "solve" /\ loc' = [loc EXCEPT ![r] = "reduce"]
      /\ channel' = [c \in Rank \X Rank |->
            IF c[1] = r /\ c[2] \in mesh.neighbours[r]
            THEN Append(channel[c], message(c[2])) ELSE channel[c]]
      /\ UNCHANGED <<problem, mesh, step, round, offset, entered, total,
                     intervalOffset, size>>
  BY DEF SendLambdas, numbering
<1> HIDE DEF message
<1>3. /\ mesh.neighbours[r] = neighbours(problem, r)
      /\ LoadSteps(problem) \in SUBSET Int /\ g \in Rounds
  BY <1>1, StateFacts DEF LoadSteps, Rounds
<1>4. channel' = [c \in Rank \X Rank |-> channel'[c]]
  BY <1>2
<1>5. /\ "reduce" \in Late /\ "reduce" \in Locations /\ loc[r] \in Late
  BY <1>2 DEF Late, Locations, Numbering
<1>6. /\ Moves(r, "reduce", k, g)
      /\ PlacesOK' /\ ShapesOK' /\ CallsOK' /\ NumbersOK'
      /\ k \in Int /\ E = 14 * (k - 1) /\ round[r] = g
      /\ RoundBegin(k, g) = E + 4
      /\ time(r) = E + 11
      /\ At("reduce", k, g) = E + 12 /\ time(r)' = E + 12
      /\ \A p \in Rank : p # r =>
            /\ step'[p] = step[p] /\ round'[p] = round[p]
            /\ time(p)' = time(p)
  BY <1>2, <1>4, <1>5, LateMove
<1>7. step[r] = k /\ problem' = problem /\ step'[r] = k /\ round'[r] = g
  BY <1>1, <1>3, <1>5, <1>6, MoveFacts
<1> HIDE DEF k, E
<1>8. LagOK'
  <2>1. ASSUME NEW p \in Rank, NEW h \in LoadSteps(problem), p # r
        PROVE  Ahead(problem, h, r, E + 12, p, time(p))
    <3>1. Ahead(problem, h, r, E + 11, p, time(p)) /\ time(p) \in Int /\ h \in Int
      BY <1>1, <1>3, <1>6, TimeFacts DEF LagOK
    <3>2. (E + 11) + 1 = At("reduce", k, g) /\ E + 11 \in Int
          /\ (E + 11) + 1 = E + 12
      BY <1>6
    <3>3. "reduce" \in Quiet \cup {"scale", "reduce"}
      OBVIOUS
    <3>4. Ahead(problem, h, r, (E + 11) + 1, p, time(p))
      BY <1>3, <1>6, <3>1, <3>2, <3>3, AheadQuiet
    <3> QED BY <3>2, <3>4
  <2>2. time(r) <= At("reduce", k, g)
    BY <1>6
  <2> QED BY <1>1, <1>3, <1>5, <1>6, <2>1, <2>2, MoveLag
<1>9. ASSUME NEW q \in Rank, NEW p \in Rank, q \in neighbours(problem, p)
      PROVE  ChannelAt(q, p)'
  <2>1. q # p /\ p \in neighbours(problem, q)
    BY <1>1, <1>9, PairFacts
  <2>2. ChannelAt(q, p)
    BY <1>1, <1>9 DEF ChannelOK
  <2>3. CASE q # r /\ p # r
    <3>1. channel'[<<q, p>>] = channel[<<q, p>>]
      BY <1>2, <2>3
    <3> QED BY <1>1, <1>3, <1>5, <1>6, <1>9, <2>3, <3>1, MoveApart
  <2>4. CASE p = r
    <3>1. channel'[<<q, r>>] = channel[<<q, r>>] /\ time(q)' = time(q)
      BY <1>2, <1>6, <2>1, <2>4
    <3>2. /\ ~(time(r) < RoundBegin(k, g) + 3) /\ ~(time(r)' < RoundBegin(k, g) + 3)
          /\ time(r) < E + 13 /\ time(r)' < E + 13
          /\ ~(time(r) < E + 11) /\ ~(time(r)' < E + 11)
      BY <1>6
    <3>3. /\ ~OffsetsSent(q, r)' /\ ~OffsetsSent(q, r)
          /\ ~DiagonalsSent(q, r)' /\ ~DiagonalsSent(q, r)
          /\ LambdasSent(q, r)' <=> LambdasSent(q, r)
      BY <1>6, <1>7, <3>1, <3>2
         DEF OffsetsSent, DiagonalsSent, LambdasSent, E
    <3>4. pending(q, r)' = pending(q, r)
      BY <3>3 DEF pending, One
    <3> QED BY <1>7, <2>2, <2>4, <3>1, <3>3, <3>4, Kept
  <2>5. CASE q = r
    <3>1. /\ p # r /\ time(p)' = time(p)
          /\ step'[p] = step[p] /\ round'[p] = round[p]
      BY <1>6, <2>1, <2>5
    <3>2. /\ step[p] = k /\ round[p] = g /\ time(p) < E + 13
      <4>1. time(r) >= E + 9 /\ time(r) < E + 12
        BY <1>6
      <4> QED BY <1>1, <1>6, <1>9, <2>5, <4>1, SameStep DEF k, E
    <3>3. Scaled(p)' <=> Scaled(p)
      BY <1>7, <3>1 DEF Scaled, config
    <3>4. /\ time(r) >= E + 6 /\ time(r)' >= E + 6
          /\ time(r) >= E + 10 /\ time(r)' >= E + 10
          /\ ~(time(r) >= E + 12) /\ time(r)' >= E + 12
      BY <1>6
    <3>5. RoundBegin(step[p], round[p]) + 2 = E + 6
      BY <1>6, <3>2
    <3>6. /\ OffsetsSent(r, p)' <=> OffsetsSent(r, p)
          /\ DiagonalsSent(r, p)' <=> DiagonalsSent(r, p)
          /\ LambdasSent(r, p)' /\ ~LambdasSent(r, p)
      BY <3>1, <3>2, <3>3, <3>4, <3>5
         DEF OffsetsSent, DiagonalsSent, LambdasSent, E
    <3>7. channel'[<<r, p>>] = Append(channel[<<r, p>>], message(p))
      BY <1>2, <1>3, <2>1, <2>5
    <3>8. pending(r, p)' = pending(r, p) + 1
      BY <3>6 DEF pending, One
    <3>9. OffsetsSent(r, p) => pending(r, p) >= 1
      BY <3>6 DEF pending, One
    <3> QED BY <1>7, <2>2, <2>5, <3>1, <3>6, <3>7, <3>8, <3>9, Sent
  <2> QED BY <2>3, <2>4, <2>5
<1>10. ChannelOK'
  BY <1>7, <1>9 DEF ChannelOK
<1> QED BY <1>6, <1>8, <1>10 DEF IInv, TypeOK

-----------------------------------------------------------------------------
(* The invariant, and what follows from it.                                *)

LEMMA InitHolds == Init => IInv
<1> SUFFICES ASSUME Init PROVE IInv
  OBVIOUS
<1>1. IsProblem(problem) /\ problem \in Problems
  BY ProblemsAssumption DEF Init
<1>2. 1 \in LoadSteps(problem) /\ LoadSteps(problem) \in SUBSET Int
      /\ \A k \in LoadSteps(problem) : k >= 1
  BY <1>1 DEF IsProblem, LoadSteps
<1>3. /\ "count" \in Locations /\ "count" \in Numbering /\ "count" # "scale"
      /\ "dirichlet" \in Rounds
  BY DEF Locations, Numbering, Rounds
<1>4. PlacesOK
  BY <1>1, <1>2, <1>3 DEF Init, PlacesOK
<1>5. IsSequence(<<>>) /\ Len(<<>>) = 0
  BY DEF IsSequence
<1>6. ShapesOK
  <2>1. \A r \in Rank : IsSequence(entered[r])
    BY <1>5 DEF Init
  <2>2. IsSequence(total)
    BY <1>5 DEF Init
  <2>3. intervalOffset = [r \in Rank |->
            [dirichlet |-> intervalOffset[r].dirichlet,
             gluing |-> intervalOffset[r].gluing]]
    BY DEF Init
  <2>4. size = [r \in Rank |->
            [dirichlet |-> size[r].dirichlet, gluing |-> size[r].gluing]]
    BY DEF Init
  <2>5. /\ offset = [r \in Rank |-> offset[r]]
        /\ entered = [r \in Rank |-> entered[r]]
        /\ channel = [k \in Rank \X Rank |-> channel[k]]
    BY DEF Init
  <2> QED BY <2>1, <2>2, <2>3, <2>4, <2>5 DEF ShapesOK
<1>7. /\ Begin(1) = 0 /\ RoundBegin(1, "dirichlet") = 0
      /\ \A r \in Rank : /\ step[r] = 1 /\ round[r] = "dirichlet"
                         /\ loc[r] = "count" /\ time(r) = 0
  <2>1. Begin(1) = 0 /\ RoundBegin(1, "dirichlet") = 0
    BY DEF Begin, RoundBegin
  <2>2. At("count", 1, "dirichlet") = 0
    BY <1>3, <2>1, AtFacts
  <2> QED BY <2>1, <2>2 DEF Init, time
<1>8. CallsOK
  <2>1. \A k \in LoadSteps(problem) : \A g \in Rounds : ~(call(k, g) <= 0)
    BY <1>2 DEF call, Rounds
  <2>2. CallsBy(1, "dirichlet", "count" # "count") = 0
        /\ CallsBy(1, "dirichlet", "count" \notin {"count", "scan", "offsets"}) = 0
    BY DEF CallsBy, call
  <2>3. Size - 1 \in Rank
    BY SizeAssumption DEF Rank
  <2>4. \A r \in Rank : EnteredAt(r)
    BY <1>5, <1>7, <2>1, <2>2 DEF EnteredAt, Init
  <2>5. TotalOK
    BY <1>5, <1>7, <2>1, <2>2, <2>3 DEF TotalOK, Init
  <2> QED BY <2>4, <2>5 DEF CallsOK
<1>9. LagOK
  <2>1. ASSUME NEW q \in Rank, NEW r \in Rank, NEW k \in LoadSteps(problem)
        PROVE  Ahead(problem, k, q, 0, r, 0)
    <3>1. k \in Int /\ k >= 1
      BY <1>2
    <3>2. /\ Begin(k) \in Int /\ Begin(k) >= 0
          /\ \A g \in Rounds : RoundBegin(k, g) \in Int /\ RoundBegin(k, g) >= 0
      BY <3>1 DEF Begin, RoundBegin
    <3>3. /\ \A g \in Rounds : ~(0 >= RoundBegin(k, g) + 2)
          /\ \A g \in Rounds : ~(0 >= RoundBegin(k, g) + 3)
          /\ ~(0 >= Begin(k) + 11) /\ ~(0 >= Begin(k) + 13)
      BY <3>2
    <3> QED BY <3>3 DEF Ahead
  <2> QED BY <1>7, <2>1 DEF LagOK
<1>10. ChannelOK
  <2>1. ASSUME NEW q \in Rank, NEW r \in Rank PROVE ChannelAt(q, r)
    <3>1. /\ ~OffsetsSent(q, r) /\ ~DiagonalsSent(q, r) /\ ~LambdasSent(q, r)
      BY <1>7 DEF OffsetsSent, DiagonalsSent, LambdasSent
    <3>2. pending(q, r) = 0
      BY <3>1 DEF pending, One
    <3>3. channel[<<q, r>>] = <<>>
      BY DEF Init
    <3> QED BY <1>5, <3>1, <3>2, <3>3 DEF ChannelAt
  <2> QED BY <2>1 DEF ChannelOK
<1>11. NumbersOK
  BY <1>7 DEF NumbersOK, NumbersAt
<1> QED BY <1>4, <1>6, <1>8, <1>9, <1>10, <1>11 DEF IInv, TypeOK

LEMMA NextHolds == IInv /\ [Next]_vars => IInv'
<1> SUFFICES ASSUME IInv, [Next]_vars PROVE IInv'
  OBVIOUS
<1>1. ASSUME NEW r \in Rank, Step(r) PROVE IInv'
  <2>1. CASE Count(r)
    BY <2>1, CountStep
  <2>2. CASE Scan(r)
    BY <2>2, ScanStep
  <2>3. CASE SetOffsets(r)
    BY <2>3, SetOffsetsStep
  <2>4. CASE GetTotal(r)
    BY <2>4, GetTotalStep
  <2>5. CASE Insert(r)
    BY <2>5, InsertStep
  <2>6. CASE Glue(r)
    BY <2>6, GlueStep
  <2>7. CASE Scale(r)
    <3>1. /\ loc[r] = "scale" /\ loc' = [loc EXCEPT ![r] = "solve"]
          /\ \A q \in mesh.neighbours[r] : channel[<<q, r>>] # <<>>
          /\ Received(r, mesh.neighbours[r])
          /\ UNCHANGED <<problem, mesh, step, round, offset, entered, total,
                         intervalOffset, size>>
      BY <2>7 DEF Scale, numbering
    <3> QED BY <3>1, TakeStep
  <2>8. CASE SendLambdas(r)
    BY <2>8, SendLambdasStep
  <2>9. CASE ReduceLambdas(r)
    <3>1. /\ loc[r] = "reduce" /\ loc' = [loc EXCEPT ![r] = "solved"]
          /\ \A q \in mesh.neighbours[r] : channel[<<q, r>>] # <<>>
          /\ Received(r, mesh.neighbours[r])
          /\ UNCHANGED <<problem, mesh, step, round, offset, entered, total,
                         intervalOffset, size>>
      BY <2>9 DEF ReduceLambdas, numbering
    <3> QED BY <3>1, TakeStep
  <2>10. CASE NextLoadStep(r)
    BY <2>10, NextLoadStepStep
  <2> QED BY <1>1, <2>1, <2>2, <2>3, <2>4, <2>5, <2>6, <2>7, <2>8, <2>9, <2>10
          DEF Step
<1>2. ASSUME UNCHANGED vars PROVE IInv'
  <2>1. UNCHANGED <<problem, mesh, step, loc, round, offset, entered, total,
                    intervalOffset, size, channel>>
    BY <1>2 DEF vars, numbering
  <2>2. PlacesOK' /\ ShapesOK'
    BY <2>1 DEF IInv, TypeOK, PlacesOK, ShapesOK, Scaled, config
  <2>3. CallsOK'
    BY <2>1 DEF IInv, CallsOK, TotalOK, EnteredAt
  <2>4. LagOK'
    BY <2>1 DEF IInv, LagOK, time
  <2>5. ChannelOK'
    <3>1. ASSUME NEW q \in Rank, NEW r \in Rank, ChannelAt(q, r)
          PROVE  ChannelAt(q, r)'
      <4>1. /\ OffsetsSent(q, r)' <=> OffsetsSent(q, r)
            /\ DiagonalsSent(q, r)' <=> DiagonalsSent(q, r)
            /\ LambdasSent(q, r)' <=> LambdasSent(q, r)
        BY <2>1 DEF OffsetsSent, DiagonalsSent, LambdasSent, Scaled, config,
                    time
      <4>2. pending(q, r)' = pending(q, r)
        BY <4>1 DEF pending, One
      <4> QED BY <2>1, <3>1, <4>1, <4>2, Kept
    <3> QED BY <2>1, <3>1 DEF IInv, ChannelOK
  <2>6. NumbersOK'
    BY <2>1 DEF IInv, NumbersOK, NumbersAt, time
  <2> QED BY <2>2, <2>3, <2>4, <2>5, <2>6 DEF IInv, TypeOK
<1> QED BY <1>1, <1>2 DEF Next, Done

\* However the processes are interleaved, each of them has the numbers its
\* mesh determines, none is more than one barrier or one message of a
\* neighbour ahead of another one, and on a channel is what was sent and not
\* yet taken (computeIntervalsOffsets and the exchanges after it).
THEOREM Invariance == Spec => []IInv
<1>1. Init => IInv
  BY InitHolds
<1>2. IInv /\ [Next]_vars => IInv'
  BY NextHolds
<1> QED BY <1>1, <1>2, PTL DEF Spec

\* Who has its numbers is in the load step of all who have theirs.
LEMMA NumberedTogether ==
    ASSUME IInv, NEW r \in Numbered
    PROVE  /\ r \in Rank /\ step[r] \in LoadSteps(problem)
           /\ \A q \in Numbered : step[q] = step[r]
           /\ intervalOffset[r].dirichlet =
                [i \in IntervalsOf(problem, r) |->
                    OffsetIn(problem, step[r], "dirichlet", i)]
           /\ intervalOffset[r].gluing =
                [i \in IntervalsOf(problem, r) |->
                    TotalIn(problem, step[r], "dirichlet")
                        + OffsetIn(problem, step[r], "gluing", i)]
           /\ size[r] = [dirichlet |-> TotalIn(problem, step[r], "dirichlet"),
                         gluing |-> TotalIn(problem, step[r], "gluing")]
<1>1. PlacesOK /\ ShapesOK /\ LagOK /\ NumbersOK
  BY DEF IInv, TypeOK
<1>2. ASSUME NEW q \in Numbered
      PROVE  /\ q \in Rank /\ step[q] \in Int /\ step[q] \in LoadSteps(problem)
             /\ Begin(step[q]) = 14 * (step[q] - 1) /\ time(q) \in Int
             /\ time(q) >= Begin(step[q]) + 8
             /\ time(q) <= Begin(step[q]) + 13
  <2>1. q \in Rank /\ loc[q] \in Late \cup {"insert"}
    BY DEF Numbered, Late
  <2>2. /\ step[q] \in Int /\ step[q] \in LoadSteps(problem)
        /\ Begin(step[q]) = 14 * (step[q] - 1) /\ time(q) \in Int
        /\ time(q) <= Begin(step[q]) + 13
        /\ round[q] \in Rounds
        /\ time(q) = At(loc[q], step[q], round[q])
    BY <1>1, <2>1, TimeFacts
  <2>3. At(loc[q], step[q], round[q]) >= Begin(step[q]) + 8
    <3>1. /\ loc[q] \in Locations
      BY <2>1 DEF Late, Locations, Numbering
    <3>2. At(loc[q], step[q], round[q]) \in
            {Begin(step[q]) + 8, Begin(step[q]) + 9, Begin(step[q]) + 10,
             Begin(step[q]) + 11, Begin(step[q]) + 12, Begin(step[q]) + 13}
      BY <2>1, <2>2, <3>1, AtFacts DEF Late
    <3> QED BY <2>2, <3>2
  <2> QED BY <2>1, <2>2, <2>3
<1>3. ASSUME NEW q \in Numbered, NEW p \in Numbered PROVE ~(step[p] < step[q])
  <2> SUFFICES ASSUME step[p] < step[q] PROVE FALSE
    OBVIOUS
  <2>1. Ahead(problem, step[q], q, time(q), p, time(p))
    BY <1>1, <1>2 DEF LagOK
  <2>2. "dirichlet" \in Rounds
        /\ RoundBegin(step[q], "dirichlet") = Begin(step[q])
    BY <1>2 DEF Rounds, RoundBegin
  <2>3. time(q) >= RoundBegin(step[q], "dirichlet") + 2
    BY <1>2, <2>2
  <2>4. time(p) >= RoundBegin(step[q], "dirichlet") + 1
    BY <2>1, <2>2, <2>3 DEF Ahead
  <2> QED BY <1>2, <2>2, <2>4
<1>4. \A q \in Numbered : step[q] = step[r]
  BY <1>2, <1>3
<1>5. /\ time(r) >= Begin(step[r]) + 3 /\ time(r) >= Begin(step[r]) + 4
      /\ time(r) >= Begin(step[r]) + 7 /\ time(r) >= Begin(step[r]) + 8
  BY <1>2
<1>6. NumbersAt(r) /\ r \in Rank
  BY <1>1, <1>2 DEF NumbersOK
<1>7. size[r] = [dirichlet |-> size[r].dirichlet, gluing |-> size[r].gluing]
  BY <1>1, <1>6 DEF ShapesOK
<1> QED BY <1>2, <1>4, <1>5, <1>6, <1>7 DEF NumbersAt

LEMMA NumberedOnceFollows == IInv => NumberedOnce
<1> SUFFICES ASSUME IInv, NEW r \in Numbered, NEW q \in Numbered
             PROVE  /\ size[r] = size[q]
                    /\ \A i \in ToSet(Intervals(r)) : \A j \in ToSet(Intervals(q)) :
                        LET D(p, k) == intervalOffset[p].dirichlet[k]
                            G(p, k) == intervalOffset[p].gluing[k]
                        IN IF i = j THEN D(r, i) = D(q, i) /\ G(r, i) = G(q, i)
                           ELSE /\ Apart(D(r, i), getDirichletSize(r, i),
                                         D(q, j), getDirichletSize(q, j))
                                /\ Apart(G(r, i), getGluingSize(r, i),
                                         G(q, j), getGluingSize(q, j))
                    /\ \A i \in ToSet(Intervals(r)) :
                        /\ intervalOffset[r].dirichlet[i] + getDirichletSize(r, i)
                                <= size[r].dirichlet
                        /\ intervalOffset[r].gluing[i] >= size[r].dirichlet
                        /\ intervalOffset[r].gluing[i] + getGluingSize(r, i)
                                <= size[r].dirichlet + size[r].gluing
  BY DEF NumberedOnce
<1> DEFINE k == step[r]
           m == problem
           D == TotalIn(m, k, "dirichlet")
           T == TotalIn(m, k, "gluing")
           d(i) == OffsetIn(m, k, "dirichlet", i)
           g(i) == OffsetIn(m, k, "gluing", i)
<1>1. /\ r \in Rank /\ q \in Rank /\ k \in LoadSteps(m) /\ step[q] = k
      /\ \A p \in {r, q} :
            /\ intervalOffset[p].dirichlet = [i \in IntervalsOf(m, p) |-> d(i)]
            /\ intervalOffset[p].gluing = [i \in IntervalsOf(m, p) |-> D + g(i)]
            /\ size[p] = [dirichlet |-> D, gluing |-> T]
  BY NumberedTogether
<1>2. /\ TypeOK /\ IsProblem(m)
      /\ \A p \in {r, q} : ToSet(Intervals(p)) = IntervalsOf(m, p)
  BY <1>1, StateFacts DEF IInv
<1>3. \A p \in {r, q} : \A i \in IntervalsOf(m, p) :
        /\ getDirichletSize(p, i) = SizeIn(m, k, "dirichlet", i)
        /\ getGluingSize(p, i) = SizeIn(m, k, "gluing", i)
  BY <1>1, <1>2, SizeFacts DEF SizeIn
<1>4. \A p \in {r, q} : \A i \in IntervalsOf(m, p) : i \in IntervalsIn(m)
  BY DEF IntervalsOf
<1> HIDE DEF m, k
<1>5. ASSUME NEW i \in IntervalsIn(m)
      PROVE  /\ d(i) \in Nat /\ g(i) \in Nat
             /\ SizeIn(m, k, "dirichlet", i) \in Nat
             /\ SizeIn(m, k, "gluing", i) \in Nat
             /\ d(i) + SizeIn(m, k, "dirichlet", i) <= D
             /\ g(i) + SizeIn(m, k, "gluing", i) <= T
             /\ \A j \in IntervalsIn(m) : i # j =>
                    /\ \/ d(i) + SizeIn(m, k, "dirichlet", i) <= d(j)
                       \/ d(j) + SizeIn(m, k, "dirichlet", j) <= d(i)
                    /\ \/ g(i) + SizeIn(m, k, "gluing", i) <= g(j)
                       \/ g(j) + SizeIn(m, k, "gluing", j) <= g(i)
  BY <1>1, <1>2, OffsetsDisjoint, SizeType
<1>6. D \in Nat /\ T \in Nat
  <2>1. Size - 1 \in Rank
    BY SizeAssumption DEF Rank
  <2>2. \A f : FirstIn(m, k, f, Size - 1) \in Nat
               /\ LocalSizeIn(m, k, f, Size - 1) \in Nat
    BY <1>1, <1>2, <2>1, FirstFacts, OwnOffsets
  <2> QED BY <2>2 DEF TotalIn
<1> HIDE DEF D, T, d, g
<1>7. size[r] = size[q]
  BY <1>1
<1>8. ASSUME NEW i \in IntervalsOf(m, r), NEW j \in IntervalsOf(m, q)
      PROVE  IF i = j
             THEN /\ intervalOffset[r].dirichlet[i] = intervalOffset[q].dirichlet[i]
                  /\ intervalOffset[r].gluing[i] = intervalOffset[q].gluing[i]
             ELSE /\ Apart(intervalOffset[r].dirichlet[i],
                           getDirichletSize(r, i),
                           intervalOffset[q].dirichlet[j],
                           getDirichletSize(q, j))
                  /\ Apart(intervalOffset[r].gluing[i], getGluingSize(r, i),
                           intervalOffset[q].gluing[j], getGluingSize(q, j))
  <2>1. /\ intervalOffset[r].dirichlet[i] = d(i)
        /\ intervalOffset[q].dirichlet[j] = d(j)
        /\ intervalOffset[r].gluing[i] = D + g(i)
        /\ intervalOffset[q].gluing[j] = D + g(j)
    BY <1>1
  <2>2. /\ getDirichletSize(r, i) = SizeIn(m, k, "dirichlet", i)
        /\ getDirichletSize(q, j) = SizeIn(m, k, "dirichlet", j)
        /\ getGluingSize(r, i) = SizeIn(m, k, "gluing", i)
        /\ getGluingSize(q, j) = SizeIn(m, k, "gluing", j)
    BY <1>3
  <2>3. i \in IntervalsIn(m) /\ j \in IntervalsIn(m)
    BY <1>4
  <2>4. CASE i = j
    BY <2>1, <2>4
  <2>5. CASE i # j
    <3>1. /\ Apart(d(i), SizeIn(m, k, "dirichlet", i),
                   d(j), SizeIn(m, k, "dirichlet", j))
          /\ Apart(D + g(i), SizeIn(m, k, "gluing", i),
                   D + g(j), SizeIn(m, k, "gluing", j))
      BY <1>5, <1>6, <2>3, <2>5 DEF Apart
    <3> QED BY <2>1, <2>2, <2>5, <3>1
  <2> QED BY <2>4, <2>5
<1>9. ASSUME NEW i \in IntervalsOf(m, r)
      PROVE  /\ intervalOffset[r].dirichlet[i] + getDirichletSize(r, i)
                    <= size[r].dirichlet
             /\ intervalOffset[r].gluing[i] >= size[r].dirichlet
             /\ intervalOffset[r].gluing[i] + getGluingSize(r, i)
                    <= size[r].dirichlet + size[r].gluing
  <2>1. /\ intervalOffset[r].dirichlet[i] = d(i)
        /\ intervalOffset[r].gluing[i] = D + g(i)
        /\ size[r].dirichlet = D /\ size[r].gluing = T
    BY <1>1
  <2>2. /\ getDirichletSize(r, i) = SizeIn(m, k, "dirichlet", i)
        /\ getGluingSize(r, i) = SizeIn(m, k, "gluing", i)
    BY <1>3
  <2>3. i \in IntervalsIn(m)
    BY <1>4
  <2> QED BY <1>5, <1>6, <2>1, <2>2, <2>3
<1> QED BY <1>2, <1>7, <1>8, <1>9

\* Whoever has the numbers of a load step is in the same load step as all the
\* others who have theirs, so that rows, diagonals and dual vectors of different
\* load steps never meet: the barrier of exscan keeps everybody together
\* (constraints.cpp, update).
THEOREM SameLoadStep == Spec => [](\A r, q \in Numbered : step[r] = step[q])
<1>1. IInv => \A r, q \in Numbered : step[r] = step[q]
  BY NumberedTogether
<1> QED BY <1>1, Invariance, PTL

\* All processes that share an interval have the same numbers for it, no two
\* intervals share a number, and all fit into the sizes everybody agrees on
\* (constraints.cpp, computeIntervalsOffsets): for every number of processes,
\* load steps and settings, and on every mesh as IsMesh says, which allows
\* several intervals with the same domains.
THEOREM NumberedOnceHolds == Spec => []NumberedOnce
<1>1. IInv => NumberedOnce
  BY NumberedOnceFollows
<1> QED BY <1>1, Invariance, PTL

-----------------------------------------------------------------------------
(* Concatenations.                                                         *)

\* What FlattenSeq computes, place by place.
Flattening(f, parts) ==
    /\ f[1] = parts[1]
    /\ \A i \in 2..Len(parts) : f[i] = f[i - 1] \o parts[i]
    /\ FlattenSeq(parts) = f[Len(parts)]

LEMMA FlattenFunction ==
    ASSUME NEW S, NEW n \in Nat, n >= 1, NEW parts \in [1..n -> Seq(S)]
    PROVE  \E f : Flattening(f, parts)
<1> DEFINE Flat(f) == [i \in 1..Len(parts) |->
                        IF i = 1 THEN parts[i] ELSE f[i - 1] \o parts[i]]
           g == CHOOSE f : f = Flat(f)
           P == Seq(S)
           grow == [i \in 2..n |-> [x \in P |-> x \o parts[i]]]
<1>1. Len(parts) = n
  BY FunctionIsSeq
<1>2. grow \in [2..n -> [P -> P]] /\ parts[1] \in P
  <2>1. 1 \in 1..n /\ \A i \in 2..n : i \in 1..n
    OBVIOUS
  <2>2. \A i \in 1..n : parts[i] \in Seq(S)
    OBVIOUS
  <2>3. \A i \in 2..n : \A x \in Seq(S) : x \o parts[i] \in Seq(S)
    BY <2>1, <2>2
  <2> QED BY <2>1, <2>2, <2>3
<1>3. PICK f : Recursion(f, P, 1, n, parts[1], grow)
  <2> HIDE DEF grow, P
  <2>1. 1 + 1 = 2 /\ 1 \in Int /\ n \in Int /\ 1 <= n
    OBVIOUS
  <2>2. grow \in [(1 + 1)..n -> [P -> P]]
    BY <1>2, <2>1
  <2> QED BY <1>2, <2>1, <2>2, RecursiveFunction
<1>4. /\ f \in [1..n -> P] /\ f[1] = parts[1]
      /\ \A i \in 2..n : f[i] = grow[i][f[i - 1]]
  <2>1. \A i \in 2..n : i \in (1 + 1)..n
    OBVIOUS
  <2> HIDE DEF grow, P
  <2> QED BY <2>1, <1>3 DEF Recursion
<1>5. ASSUME NEW i \in 1..n PROVE f[i] = Flat(f)[i]
  <2>1. CASE i = 1
    BY <1>1, <1>4, <2>1
  <2>2. CASE i # 1
    <3>1. i \in 2..n /\ i - 1 \in 1..n
      BY <2>2
    <3>2. f[i - 1] \in P
      BY <1>4, <3>1
    <3>3. f[i] = f[i - 1] \o parts[i]
      BY <1>4, <3>1, <3>2
    <3> QED BY <1>1, <2>2, <3>3
  <2> QED BY <2>1, <2>2
<1>6. f = Flat(f)
  <2>1. f = [i \in 1..n |-> f[i]] /\ Flat(f) = [i \in 1..n |-> Flat(f)[i]]
    BY <1>1, <1>4
  <2> HIDE DEF Flat
  <2> QED BY <1>5, <2>1
<1>7. g = Flat(g)
  <2> HIDE DEF Flat
  <2> QED BY <1>6
<1>8. FlattenSeq(parts) = g[n]
  BY <1>1 DEF FlattenSeq
<1> HIDE DEF g
<1>9. g[1] = parts[1] /\ \A i \in 2..n : g[i] = g[i - 1] \o parts[i]
  <2>1. 1 \in 1..n /\ \A i \in 2..n : i \in 1..n /\ i # 1
    OBVIOUS
  <2>2. \A i \in 1..n :
            g[i] = IF i = 1 THEN parts[i] ELSE g[i - 1] \o parts[i]
    BY <1>1, <1>7
  <2> QED BY <2>1, <2>2
<1> QED BY <1>1, <1>8, <1>9 DEF Flattening

LEMMA FlattenNothing ==
    ASSUME NEW parts, DOMAIN parts = {}, Len(parts) = 0,
           parts = [k \in DOMAIN parts |-> parts[k]]
    PROVE  FlattenSeq(parts) = <<>>
<1>1. FlattenSeq(parts) = parts
  BY DEF FlattenSeq
<1>2. parts = <<>>
  OBVIOUS
<1> QED BY <1>1, <1>2

-----------------------------------------------------------------------------
(* The map of multipliers to processes lists entries, one for a number.    *)

Entries == (Int \X Rank) \cup (Int \X Rank \X Rank)

\* The entries of s are those in A, and no two have the same number.
Listing(s, A) ==
    /\ s \in Seq(Entries) /\ A = {s[p] : p \in 1..Len(s)}
    /\ \A p, q \in 1..Len(s) : p # q => s[p][1] # s[q][1]

LEMMA EmptyListing == Listing(<<>>, {})
  BY DEF Listing

LEMMA ConcatListing ==
    ASSUME NEW a, NEW b, NEW A, NEW B, Listing(a, A), Listing(b, B),
           \A x \in A : \A y \in B : x[1] # y[1]
    PROVE  Listing(a \o b, A \cup B)
<1> DEFINE c == a \o b
<1>1. a \in Seq(Entries) /\ b \in Seq(Entries) /\ Len(a) \in Nat /\ Len(b) \in Nat
  BY DEF Listing
<1>2. /\ c \in Seq(Entries) /\ Len(c) = Len(a) + Len(b)
      /\ \A i \in 1..Len(c) : c[i] = IF i <= Len(a) THEN a[i] ELSE b[i - Len(a)]
  BY <1>1
<1>3. A = {a[i] : i \in 1..Len(a)} /\ B = {b[i] : i \in 1..Len(b)}
  BY DEF Listing
<1> HIDE DEF c
<1>4. ASSUME NEW i \in 1..Len(c)
      PROVE  \/ i \in 1..Len(a) /\ c[i] = a[i] /\ c[i] \in A
             \/ /\ i - Len(a) \in 1..Len(b) /\ c[i] = b[i - Len(a)]
                /\ c[i] \in B
  BY <1>1, <1>2, <1>3
<1>5. ASSUME NEW p \in A \cup B PROVE \E i \in 1..Len(c) : p = c[i]
  <2>1. CASE p \in A
    <3>1. PICK i \in 1..Len(a) : p = a[i]
      BY <2>1, <1>3
    <3> QED BY <3>1, <1>1, <1>2
  <2>2. CASE p \in B
    <3>1. PICK i \in 1..Len(b) : p = b[i]
      BY <2>2, <1>3
    <3>2. /\ i + Len(a) \in 1..Len(c) /\ ~(i + Len(a) <= Len(a))
          /\ (i + Len(a)) - Len(a) = i
      BY <1>1, <1>2
    <3> QED BY <3>1, <3>2, <1>2
  <2> QED BY <2>1, <2>2
<1>6. ASSUME NEW i \in 1..Len(c), NEW j \in 1..Len(c), i # j
      PROVE  c[i][1] # c[j][1]
  <2>1. i - Len(a) # j - Len(a)
    BY <1>1, <1>6
  <2>2. \A p, q \in 1..Len(a) : p # q => a[p][1] # a[q][1]
    BY DEF Listing
  <2>3. \A p, q \in 1..Len(b) : p # q => b[p][1] # b[q][1]
    BY DEF Listing
  <2>4. CASE i \in 1..Len(a) /\ c[i] = a[i] /\ c[i] \in A
    BY <1>4, <1>6, <2>2, <2>4
  <2>5. CASE i - Len(a) \in 1..Len(b) /\ c[i] = b[i - Len(a)] /\ c[i] \in B
    BY <1>4, <2>1, <2>3, <2>5
  <2> QED BY <1>4, <2>4, <2>5
<1>7. A \cup B = {c[i] : i \in 1..Len(c)}
  <2>1. \A i \in 1..Len(c) : c[i] \in A \cup B
    BY <1>4
  <2> QED BY <2>1, <1>5
<1> QED BY <1>2, <1>6, <1>7 DEF Listing, c

\* A list of n parts.
HasParts(parts, n) == parts = [j \in 1..n |-> parts[j]]
Together(A, n) == UNION {A[j] : j \in 1..n}

\* Lists of different numbers, one after the other, are one list.
LEMMA FlattenListing ==
    ASSUME NEW n \in Nat, NEW parts, NEW A, HasParts(parts, n),
           \A j \in 1..n : Listing(parts[j], A[j]),
           \A j, k \in 1..n : j < k =>
                \A x \in A[j] : \A y \in A[k] : x[1] # y[1]
    PROVE  Listing(FlattenSeq(parts), Together(A, n))
<1>0. DOMAIN parts = 1..n /\ parts = [j \in 1..n |-> parts[j]]
  BY DEF HasParts
<1>1. parts \in [1..n -> Seq(Entries)]
  <2>1. \A j \in 1..n : parts[j] \in Seq(Entries)
    BY DEF Listing
  <2> QED BY <1>0, <2>1
<1>2. Len(parts) = n
  BY <1>1, FunctionIsSeq
<1>3. CASE n = 0
  <2>1. 1..n = {}
    BY <1>3
  <2>2. FlattenSeq(parts) = <<>>
    BY <1>0, <1>2, <1>3, <2>1, FlattenNothing
  <2> QED BY <2>1, <2>2, EmptyListing DEF Together
<1>4. CASE n # 0
  <2>0. n >= 1
    BY <1>4
  <2>1. PICK f : /\ f[1] = parts[1]
                 /\ \A i \in 2..n : f[i] = f[i - 1] \o parts[i]
                 /\ FlattenSeq(parts) = f[n]
    BY <1>1, <1>2, <2>0, FlattenFunction DEF Flattening
  <2> DEFINE U(k) == Together(A, k)
             T == {k \in 1..n : Listing(f[k], U(k))}
  <2>2. 1 \in T
    <3>1. 1 \in 1..n /\ 1..1 = {1}
      BY <2>0
    <3>2. U(1) = A[1]
      BY <3>1 DEF Together
    <3>3. Listing(f[1], A[1])
      BY <2>1, <3>1
    <3> HIDE DEF U
    <3> QED BY <3>1, <3>2, <3>3
  <2>3. ASSUME NEW k \in 1..(n - 1), k \in T PROVE k + 1 \in T
    <3>1. k + 1 \in 2..n /\ k + 1 \in 1..n /\ (k + 1) - 1 = k /\ k \in 1..n
      OBVIOUS
    <3>2. f[k + 1] = f[k] \o parts[k + 1]
      BY <2>1, <3>1
    <3>3. U(k + 1) = U(k) \cup A[k + 1]
      <4>1. 1..(k + 1) = 1..k \cup {k + 1}
        OBVIOUS
      <4> QED BY <4>1 DEF Together
    <3>4. \A x \in U(k) : \A y \in A[k + 1] : x[1] # y[1]
      <4> SUFFICES ASSUME NEW j \in 1..k, NEW x \in A[j], NEW y \in A[k + 1]
                   PROVE  x[1] # y[1]
        BY DEF Together
      <4>1. j \in 1..n /\ j < k + 1
        BY <3>1
      <4> QED BY <3>1, <4>1
    <3>5. Listing(f[k], U(k)) /\ Listing(parts[k + 1], A[k + 1])
      BY <2>3, <3>1
    <3> HIDE DEF U
    <3>6. Listing(f[k] \o parts[k + 1], U(k) \cup A[k + 1])
      BY <3>4, <3>5, ConcatListing
    <3>7. Listing(f[k + 1], U(k + 1))
      BY <3>2, <3>3, <3>6
    <3> QED BY <3>1, <3>7
  <2>4. n \in T
    <3> HIDE DEF T
    <3>1. 1 \in Int /\ n \in Int /\ n \in 1..n
      BY <2>0
    <3>2. \A k \in 1..n : k \in T
      BY <3>1, <2>2, <2>3, IntervalInduction
    <3> QED BY <3>1, <3>2
  <2> QED BY <2>1, <2>4
<1> QED BY <1>3, <1>4

-----------------------------------------------------------------------------
(* Which processes a number belongs to: <<number, process, process>>, with *)
(* the same process twice for a multiplier that is not shared.             *)

Entry(r, t) == IF t[2] = r /\ t[3] = r THEN <<t[1], r>>
               ELSE <<t[1], r, IF t[2] = r THEN t[3] ELSE t[2]>>
Has(r, t) == t[2] = r \/ t[3] = r
EntriesOf(r, T) == {Entry(r, t) : t \in {u \in T : Has(r, u)}}

\* Each number from lo to hi - 1 belongs to one pair of processes.
Numbers(T, lo, hi) ==
    /\ T \subseteq Int \X Rank \X Rank
    /\ \A t \in T : lo <= t[1] /\ t[1] < hi
    /\ \A l \in lo..(hi - 1) : \E t \in T : t[1] = l
    /\ \A t, u \in T : t[1] = u[1] => t = u

\* These numbers are given, and process r has listed its own.
Gives(s, T, r, lo, hi) == Listing(s, EntriesOf(r, T)) /\ Numbers(T, lo, hi)

LEMMA EntryNumber == \A r, t : Entry(r, t)[1] = t[1]
  BY DEF Entry

LEMMA Windows ==
    ASSUME NEW n \in Nat, NEW w \in [0..n -> Int],
           \A j \in 1..n : w[j - 1] <= w[j]
    PROVE  /\ \A j, k \in 0..n : j <= k => w[j] <= w[k]
           /\ \A l \in Int : w[0] <= l /\ l < w[n] =>
                \E j \in 1..n : w[j - 1] <= l /\ l < w[j]
<1>1. ASSUME NEW j \in 0..n PROVE \A k \in j..n : w[j] <= w[k]
  <2> DEFINE T == {k \in j..n : w[j] <= w[k]}
  <2>1. j \in Int /\ n \in Int /\ j <= n
    OBVIOUS
  <2>2. j \in T
    OBVIOUS
  <2>3. ASSUME NEW k \in j..(n - 1), k \in T PROVE k + 1 \in T
    <3>1. k \in 0..n /\ k + 1 \in 1..n /\ k + 1 \in 0..n /\ k + 1 \in j..n
          /\ (k + 1) - 1 = k
      OBVIOUS
    <3>2. w[k] <= w[k + 1] /\ w[j] <= w[k]
          /\ w[j] \in Int /\ w[k] \in Int /\ w[k + 1] \in Int
      BY <2>3, <3>1
    <3>3. w[j] <= w[k + 1]
      BY <3>2
    <3> QED BY <3>1, <3>3
  <2>4. \A k \in j..n : k \in T
    <3> HIDE DEF T
    <3> QED BY <2>1, <2>2, <2>3, IntervalInduction
  <2> QED BY <2>4
<1>2. ASSUME NEW l \in Int, w[0] <= l, l < w[n]
      PROVE  \E j \in 1..n : w[j - 1] <= l /\ l < w[j]
  <2> DEFINE T == {j \in 0..n : l < w[j]}
  <2>1. n \in T /\ T \subseteq Nat /\ T \subseteq 0..n
    BY <1>2
  <2>2. PICK j \in T : \A k \in T : j <= k
    <3> HIDE DEF T
    <3> QED BY <2>1, LeastNumber
  <2>3. j # 0
    BY <1>2, <2>2
  <2>4. j \in 1..n /\ j - 1 \in 0..n /\ ~(j <= j - 1)
    BY <2>1, <2>2, <2>3
  <2>5. ~(l < w[j - 1])
    BY <2>2, <2>4
  <2>6. w[j - 1] \in Int /\ l < w[j]
    BY <2>2, <2>4
  <2> QED BY <2>4, <2>5, <2>6
<1> QED BY <1>1, <1>2

LEMMA FlattenGives ==
    ASSUME NEW n \in Nat, NEW parts, NEW T, NEW r, NEW w \in [0..n -> Int],
           HasParts(parts, n), \A j \in 1..n : w[j - 1] <= w[j],
           \A j \in 1..n : Gives(parts[j], T[j], r, w[j - 1], w[j])
    PROVE  Gives(FlattenSeq(parts), Together(T, n), r, w[0], w[n])
<1> DEFINE A == [j \in 1..n |-> EntriesOf(r, T[j])]
           all == Together(T, n)
<1>1. /\ \A j, k \in 0..n : j <= k => w[j] <= w[k]
      /\ \A l \in Int : w[0] <= l /\ l < w[n] =>
                \E j \in 1..n : w[j - 1] <= l /\ l < w[j]
  BY Windows
<1>2. ASSUME NEW j \in 1..n, NEW t \in T[j]
      PROVE  /\ t \in Int \X Rank \X Rank /\ t[1] \in Int
             /\ w[j - 1] <= t[1] /\ t[1] < w[j]
             /\ w[0] <= t[1] /\ t[1] < w[n]
  <2>1. /\ t \in Int \X Rank \X Rank /\ w[j - 1] <= t[1] /\ t[1] < w[j]
    BY DEF Gives, Numbers
  <2>2. j - 1 \in 0..n /\ j \in 0..n /\ 0 \in 0..n /\ n \in 0..n
        /\ 0 <= j - 1 /\ j <= n
    OBVIOUS
  <2>3. w[0] <= w[j - 1] /\ w[j] <= w[n] /\ w[0] \in Int /\ w[n] \in Int
        /\ w[j - 1] \in Int /\ w[j] \in Int
    BY <1>1, <2>2
  <2>4. t[1] \in Int
    BY <2>1
  <2>5. w[0] <= t[1] /\ t[1] < w[n]
    BY <2>1, <2>3, <2>4
  <2> QED BY <2>1, <2>4, <2>5
<1>3. ASSUME NEW j \in 1..n, NEW k \in 1..n, j < k, NEW t \in T[j], NEW u \in T[k]
      PROVE  t[1] # u[1]
  <2>1. j \in 0..n /\ k - 1 \in 0..n /\ j <= k - 1
    BY <1>3
  <2>2. w[j] <= w[k - 1] /\ w[j] \in Int /\ w[k - 1] \in Int
    BY <1>1, <2>1
  <2>3. t[1] < w[j] /\ w[k - 1] <= u[1] /\ t[1] \in Int /\ u[1] \in Int
    BY <1>2
  <2> QED BY <2>2, <2>3
<1>4. Listing(FlattenSeq(parts), Together(A, n))
  <2>1. \A j \in 1..n : Listing(parts[j], A[j])
    BY DEF Gives
  <2>2. ASSUME NEW j \in 1..n, NEW k \in 1..n, j < k, NEW x \in A[j], NEW y \in A[k]
        PROVE  x[1] # y[1]
    <3>1. PICK t \in T[j] : x = Entry(r, t)
      BY DEF EntriesOf
    <3>2. PICK u \in T[k] : y = Entry(r, u)
      BY DEF EntriesOf
    <3>3. x[1] = t[1] /\ y[1] = u[1]
      BY <3>1, <3>2, EntryNumber
    <3> QED BY <1>3, <2>2, <3>3
  <2> HIDE DEF A
  <2>3. \A j, k \in 1..n : j < k =>
            \A x \in A[j] : \A y \in A[k] : x[1] # y[1]
    BY <2>2
  <2> QED BY <2>1, <2>3, FlattenListing
<1>5. Together(A, n) = EntriesOf(r, all)
  <2>1. ASSUME NEW x \in Together(A, n) PROVE x \in EntriesOf(r, all)
    <3>1. PICK j \in 1..n : x \in A[j]
      BY DEF Together
    <3>2. PICK t \in T[j] : Has(r, t) /\ x = Entry(r, t)
      BY <3>1 DEF EntriesOf
    <3>3. t \in all
      BY <3>2 DEF Together
    <3> HIDE DEF all
    <3> QED BY <3>2, <3>3 DEF EntriesOf
  <2>2. ASSUME NEW x \in EntriesOf(r, all) PROVE x \in Together(A, n)
    <3>1. PICK t \in all : Has(r, t) /\ x = Entry(r, t)
      BY <2>2 DEF EntriesOf
    <3>2. PICK j \in 1..n : t \in T[j]
      BY <3>1 DEF Together
    <3>3. x \in A[j]
      BY <3>1, <3>2 DEF EntriesOf
    <3> QED BY <3>3 DEF Together
  <2> QED BY <2>1, <2>2
<1>6. Numbers(all, w[0], w[n])
  <2>1. all \subseteq Int \X Rank \X Rank
        /\ \A t \in all : w[0] <= t[1] /\ t[1] < w[n]
    BY <1>2 DEF Together
  <2>2. ASSUME NEW l \in w[0]..(w[n] - 1) PROVE \E t \in all : t[1] = l
    <3>1. w[0] \in Int /\ w[n] \in Int
      OBVIOUS
    <3>2. l \in Int /\ w[0] <= l /\ l < w[n]
      BY <3>1
    <3>3. PICK j \in 1..n : w[j - 1] <= l /\ l < w[j]
      BY <1>1, <3>2
    <3>4. w[j - 1] \in Int /\ w[j] \in Int
      OBVIOUS
    <3>5. l \in w[j - 1]..(w[j] - 1)
      BY <3>2, <3>3, <3>4
    <3>6. PICK t \in T[j] : t[1] = l
      BY <3>5 DEF Gives, Numbers
    <3> QED BY <3>6 DEF Together
  <2>3. ASSUME NEW t \in all, NEW u \in all, t[1] = u[1] PROVE t = u
    <3>1. PICK j \in 1..n : t \in T[j]
      BY DEF Together
    <3>2. PICK k \in 1..n : u \in T[k]
      BY DEF Together
    <3>3. j = k
      <4>1. ~(j < k) /\ ~(k < j)
        BY <1>3, <2>3, <3>1, <3>2
      <4> QED BY <4>1
    <3>4. Numbers(T[j], w[j - 1], w[j])
      BY DEF Gives
    <3> QED BY <2>3, <3>1, <3>2, <3>3, <3>4 DEF Numbers
  <2> HIDE DEF all
  <2> QED BY <2>1, <2>2, <2>3 DEF Numbers
<1> HIDE DEF A, all
<1>7. Gives(FlattenSeq(parts), all, r, w[0], w[n])
  BY <1>4, <1>5, <1>6 DEF Gives
<1> QED BY <1>7 DEF all

-----------------------------------------------------------------------------
(* The map of a process, from the mesh and the first numbers "off" of its  *)
(* intervals.                                                              *)

RepeatedIn(m, k, i) == IF m.steps[k].redundant THEN iranks(m, i)
                       ELSE <<Owner(m, i)>>
CountIn(m, k, i, f) == Len(Sorted(FixedOf(m, k, i, f), <))
CountsIn(m, k, i, f) == SumUpto(LAMBDA e : CountIn(m, k, i, e), f)

DirichletEntries(m, k, r, first, i, f, a) ==
    LET number == first + (a - 1) * CountIn(m, k, i, f)
                    + Len(RepeatedIn(m, k, i)) * CountsIn(m, k, i, f)
    IN IF RepeatedIn(m, k, i)[a] # r THEN <<>>
       ELSE [n \in 1..CountIn(m, k, i, f) |-> <<number + n - 1, r>>]

DirichletMapOver(m, k, r, off, p) ==
    ForEach(p, LAMBDA i : ForEach(Upto(m.DOFs), LAMBDA f :
        FlattenSeq([a \in DOMAIN RepeatedIn(m, k, i) |->
                        DirichletEntries(m, k, r, off[i], i, f, a)])))

RankPairsIn(m, k, i) ==
    LET p == iranks(m, i) IN
    IF m.steps[k].redundant
    THEN ForEach(Upto(Len(p)), LAMBDA n :
            [l \in 1..(Len(p) - n - 1) |-> <<p[n + 1], p[n + 1 + l]>>])
    ELSE [n \in 1..(Len(p) - 1) |-> <<p[n], p[n + 1]>>]

FreeIn(m, k, i, f) ==
    IF m.steps[k].redundant
    THEN Cardinality(0..(NodeCount(m, i) - 1) \ FixedOf(m, k, i, f))
    ELSE NodeCount(m, i)
WrittenIn(m, k, i) == SumUpto(LAMBDA f : FreeIn(m, k, i, f), m.DOFs)

GluingEntries(r, first, p, n) ==
    IF r \notin {p[n][1], p[n][2]} THEN <<>>
    ELSE IF p[n] = <<r, r>> THEN << <<first + n - 1, r>> >>
    ELSE << <<first + n - 1, r, IF p[n][1] = r THEN p[n][2] ELSE p[n][1]>> >>

GluingMapOver(m, k, r, off, p) ==
    ForEach(p, LAMBDA i :
        ForEach(Upto(WrittenIn(m, k, i)), LAMBDA v :
            FlattenSeq([n \in DOMAIN RankPairsIn(m, k, i) |->
                GluingEntries(r, off[i] + v * Len(RankPairsIn(m, k, i)),
                              RankPairsIn(m, k, i), n)])))

\* The maps that B1DirichletInsert and B1GlueElements write are these.
LEMMA MapsFromMesh ==
    ASSUME TypeOK, NEW r \in Rank
    PROVE  /\ DirichletMap(r) = DirichletMapOver(problem, step[r], r,
                    intervalOffset[r].dirichlet, pintervals(problem, r))
           /\ GluingMap(r) = GluingMapOver(problem, step[r], r,
                    intervalOffset[r].gluing, pintervals(problem, r))
<1>1. Intervals(r) = pintervals(problem, r)
  BY StateFacts
<1>2. ASSUME NEW i \in ToSet(Intervals(r))
      PROVE  /\ nodes(r, i) = NodeCount(problem, i)
             /\ \A f : Fixed(r, i, f) = FixedOf(problem, step[r], i, f)
  <2>1. i \in IntervalsOf(problem, r)
    BY StateFacts
  <2> QED BY <2>1, NodesFacts
<1>3. DirichletMap(r) = DirichletMapOver(problem, step[r], r,
                            intervalOffset[r].dirichlet, Intervals(r))
  <2> DEFINE F(i) == ForEach(DOF, LAMBDA f : FlattenSeq(
                [k \in DOMAIN Repeated(r, i) |->
                    LET count(e) == Len(dirichlet(r, i, e))
                        first == intervalOffset[r].dirichlet[i]
                                    + (k - 1) * count(f)
                                    + Len(Repeated(r, i)) * SumUpto(count, f)
                    IN IF Repeated(r, i)[k] # r THEN <<>>
                       ELSE [n \in 1..count(f) |-> <<first + n - 1, r>>]]))
             G(i) == ForEach(Upto(problem.DOFs), LAMBDA f : FlattenSeq(
                [a \in DOMAIN RepeatedIn(problem, step[r], i) |->
                    DirichletEntries(problem, step[r], r,
                        intervalOffset[r].dirichlet[i], i, f, a)]))
             s == Intervals(r)
  <2>1. DirichletMap(r) = FlattenSeq([n \in DOMAIN s |-> F(s[n])])
    BY Zenon DEF DirichletMap, ForEach
  <2>2. DirichletMapOver(problem, step[r], r, intervalOffset[r].dirichlet, s)
            = FlattenSeq([n \in DOMAIN s |-> G(s[n])])
    BY Zenon DEF DirichletMapOver, ForEach
  <2>3. ASSUME NEW i \in ToSet(Intervals(r)) PROVE F(i) = G(i)
    <3> DEFINE R == Repeated(r, i)
               c(e) == Len(dirichlet(r, i, e))
               C(e) == CountIn(problem, step[r], i, e)
               o == intervalOffset[r].dirichlet[i]
               x(f, k) == o + (k - 1) * c(f) + Len(R) * SumUpto(c, f)
               X(f, k) == o + (k - 1) * C(f) + Len(R) * SumUpto(C, f)
               E(f, k) == IF R[k] # r THEN <<>>
                          ELSE [n \in 1..c(f) |-> <<x(f, k) + n - 1, r>>]
               J(f, k) == IF R[k] # r THEN <<>>
                          ELSE [n \in 1..C(f) |-> <<X(f, k) + n - 1, r>>]
               a(f) == FlattenSeq([k \in DOMAIN R |-> E(f, k)])
               b(f) == FlattenSeq([k \in DOMAIN R |-> J(f, k)])
               u == Upto(problem.DOFs)
    <3>1. \A e : c(e) = C(e)
      BY <1>2 DEF dirichlet, CountIn
    <3>2. R = RepeatedIn(problem, step[r], i)
      BY DEF Repeated, RepeatedIn, config
    <3>3. F(i) = FlattenSeq([n \in DOMAIN u |-> a(u[n])])
      BY Zenon DEF DOF, ForEach
    <3>4. G(i) = FlattenSeq([n \in DOMAIN u |-> b(u[n])])
      <4>1. ASSUME NEW f, NEW k
            PROVE  DirichletEntries(problem, step[r], r, o, i, f, k) = J(f, k)
        <5> HIDE DEF R
        <5> QED BY <3>2, Zenon DEF DirichletEntries, CountsIn
      <4>2. ASSUME NEW f
            PROVE  [k \in DOMAIN R |->
                        DirichletEntries(problem, step[r], r, o, i, f, k)]
                    = [k \in DOMAIN R |-> J(f, k)]
        <5> HIDE DEF R, J
        <5> QED BY <4>1
      <4> DEFINE H(f) == FlattenSeq([k \in DOMAIN R |->
                            DirichletEntries(problem, step[r], r, o, i, f, k)])
      <4>3. \A f : H(f) = b(f)
        <5> HIDE DEF R, J
        <5> QED BY <4>2
      <4>4. G(i) = FlattenSeq([n \in DOMAIN u |-> H(u[n])])
        <5> HIDE DEF R
        <5> QED BY <3>2, Zenon DEF ForEach
      <4> HIDE DEF H, b, u, G
      <4>5. [n \in DOMAIN u |-> H(u[n])] = [n \in DOMAIN u |-> b(u[n])]
        BY <4>3
      <4> QED BY <4>4, <4>5
    <3>5. \A f : SumUpto(c, f) = SumUpto(C, f)
      <4> TAKE f
      <4> HIDE DEF c, C
      <4>1. [n \in 1..f |-> c(n - 1)] = [n \in 1..f |-> C(n - 1)]
        BY <3>1
      <4> QED BY <4>1, Zenon DEF SumUpto
    <3>6. \A f, k : x(f, k) = X(f, k)
      <4> HIDE DEF c, C, R, o
      <4> QED BY <3>1, <3>5, Zenon
    <3>7. \A f, k : E(f, k) = J(f, k)
      <4> HIDE DEF c, C, R, x, X
      <4> QED BY <3>1, <3>6, Zenon
    <3>8. \A f : a(f) = b(f)
      <4> TAKE f
      <4> HIDE DEF E, J, R
      <4>1. [k \in DOMAIN R |-> E(f, k)] = [k \in DOMAIN R |-> J(f, k)]
        BY <3>7
      <4> QED BY <4>1
    <3>9. [n \in DOMAIN u |-> a(u[n])] = [n \in DOMAIN u |-> b(u[n])]
      <4> HIDE DEF a, b, u
      <4> QED BY <3>8
    <3> QED BY <3>3, <3>4, <3>9, Zenon
  <2> HIDE DEF F, G, s
  <2>4. \A n \in DOMAIN s : s[n] \in ToSet(s)
    BY DEF ToSet
  <2>5. [n \in DOMAIN s |-> F(s[n])] = [n \in DOMAIN s |-> G(s[n])]
    <3>1. \A n \in DOMAIN s : F(s[n]) = G(s[n])
      BY <2>3, <2>4 DEF s
    <3> QED BY <3>1
  <2> QED BY <2>1, <2>2, <2>5, Zenon DEF s
<1>4. GluingMap(r) = GluingMapOver(problem, step[r], r,
                            intervalOffset[r].gluing, Intervals(r))
  <2> DEFINE isize(i, f) == IF config(r).redundant THEN Cardinality(Free(r, i, f))
                            ELSE nodes(r, i)
             F(i) == ForEach(Upto(SumUpto(LAMBDA f : isize(i, f), problem.DOFs)),
                LAMBDA v : nmap(r, i, intervalOffset[r].gluing[i]
                                        + v * Len(RankPairs(r, i))))
             G(i) == ForEach(Upto(WrittenIn(problem, step[r], i)), LAMBDA v :
                FlattenSeq([n \in DOMAIN RankPairsIn(problem, step[r], i) |->
                    GluingEntries(r, intervalOffset[r].gluing[i]
                            + v * Len(RankPairsIn(problem, step[r], i)),
                        RankPairsIn(problem, step[r], i), n)]))
             s == Intervals(r)
  <2>1. GluingMap(r) = FlattenSeq([n \in DOMAIN s |-> F(s[n])])
    BY Zenon DEF GluingMap, ForEach
  <2>2. GluingMapOver(problem, step[r], r, intervalOffset[r].gluing, s)
            = FlattenSeq([n \in DOMAIN s |-> G(s[n])])
    BY Zenon DEF GluingMapOver, ForEach
  <2>3. ASSUME NEW i \in ToSet(Intervals(r)) PROVE F(i) = G(i)
    <3> DEFINE w == SumUpto(LAMBDA f : isize(i, f), problem.DOFs)
               W == WrittenIn(problem, step[r], i)
               o == intervalOffset[r].gluing[i]
               P == RankPairsIn(problem, step[r], i)
               b(v) == FlattenSeq([n \in DOMAIN P |->
                                    GluingEntries(r, o + v * Len(P), P, n)])
               a(v) == nmap(r, i, o + v * Len(RankPairs(r, i)))
               u == Upto(w)
    <3>1. \A f : isize(i, f) = FreeIn(problem, step[r], i, f)
      BY <1>2 DEF Free, FreeIn, config
    <3>2. RankPairs(r, i) = P
      BY Zenon DEF RankPairs, RankPairsIn, config, ForEach
    <3>3. w = W
      <4> DEFINE c(f) == isize(i, f)
                 C(f) == FreeIn(problem, step[r], i, f)
      <4>1. [n \in 1..problem.DOFs |-> c(n - 1)]
                = [n \in 1..problem.DOFs |-> C(n - 1)]
        <5> HIDE DEF isize
        <5> QED BY <3>1
      <4>2. w = Sums([n \in 1..problem.DOFs |-> c(n - 1)])[problem.DOFs]
        <5> HIDE DEF isize
        <5> QED BY Zenon DEF SumUpto
      <4>3. W = Sums([n \in 1..problem.DOFs |-> C(n - 1)])[problem.DOFs]
        BY Zenon DEF WrittenIn, SumUpto
      <4> HIDE DEF c, C, w, W
      <4> QED BY <4>1, <4>2, <4>3
    <3>4. F(i) = FlattenSeq([n \in DOMAIN u |-> a(u[n])])
      <4> HIDE DEF isize
      <4> QED BY Zenon DEF ForEach
    <3>5. G(i) = FlattenSeq([n \in DOMAIN u |-> b(u[n])])
      <4> HIDE DEF w, W, P
      <4> QED BY <3>3, Zenon DEF ForEach, W, P
    <3>6. \A v : a(v) = b(v)
      <4> HIDE DEF P
      <4> QED BY <3>2, Zenon DEF nmap, GluingEntries
    <3>7. [n \in DOMAIN u |-> a(u[n])] = [n \in DOMAIN u |-> b(u[n])]
      <4> HIDE DEF a, b, u
      <4> QED BY <3>6
    <3> QED BY <3>4, <3>5, <3>7, Zenon
  <2> HIDE DEF F, G, s
  <2>4. \A n \in DOMAIN s : s[n] \in ToSet(s)
    BY DEF ToSet
  <2>5. [n \in DOMAIN s |-> F(s[n])] = [n \in DOMAIN s |-> G(s[n])]
    <3>1. \A n \in DOMAIN s : F(s[n]) = G(s[n])
      BY <2>3, <2>4 DEF s
    <3> QED BY <3>1
  <2> QED BY <2>1, <2>2, <2>5, Zenon DEF s
<1> QED BY <1>1, <1>3, <1>4

-----------------------------------------------------------------------------
(* Consecutive numbers of one process, and one number of two processes.    *)

OwnPairs(q, first, c) == {<<first + n - 1, q, q>> : n \in 1..c}
OwnList(q, r, first, c) ==
    IF q # r THEN <<>> ELSE [n \in 1..c |-> <<first + n - 1, r>>]

LEMMA OwnNumbers ==
    ASSUME NEW c \in Nat, NEW first \in Int, NEW q \in Rank, NEW r \in Rank
    PROVE  Gives(OwnList(q, r, first, c), OwnPairs(q, first, c), r,
                 first, first + c)
<1> DEFINE T == {<<first + n - 1, q, q>> : n \in 1..c}
           s == [n \in 1..c |-> <<first + n - 1, r>>]
<1>1. Numbers(T, first, first + c)
  <2>1. \A t \in T : \E n \in 1..c : t = <<first + n - 1, q, q>>
    OBVIOUS
  <2>2. \A n \in 1..c : /\ first + n - 1 \in Int /\ first <= first + n - 1
                        /\ first + n - 1 < first + c
    OBVIOUS
  <2>3. T \subseteq Int \X Rank \X Rank
    BY <2>1, <2>2
  <2>4. \A t \in T : first <= t[1] /\ t[1] < first + c
    BY <2>1, <2>2
  <2>5. ASSUME NEW l \in first..(first + c - 1) PROVE \E t \in T : t[1] = l
    <3>1. l - first + 1 \in 1..c /\ first + (l - first + 1) - 1 = l
      OBVIOUS
    <3>2. <<l, q, q>> \in T
      BY <3>1
    <3> QED BY <3>2
  <2>6. \A t, u \in T : t[1] = u[1] => t = u
    BY <2>1
  <2> HIDE DEF T
  <2> QED BY <2>3, <2>4, <2>5, <2>6 DEF Numbers
<1>2. ASSUME q # r PROVE Gives(<<>>, T, r, first, first + c)
  <2>1. EntriesOf(r, T) = {}
    BY <1>2 DEF EntriesOf, Has
  <2> HIDE DEF T
  <2> QED BY <1>1, <2>1, EmptyListing DEF Gives
<1>3. ASSUME q = r PROVE Gives(s, T, r, first, first + c)
  <2>1. s \in Seq(Entries) /\ Len(s) = c
    <3>1. \A n \in 1..c : <<first + n - 1, r>> \in Entries
      BY DEF Entries
    <3>2. s \in [1..c -> Entries]
      BY <3>1
    <3> HIDE DEF s
    <3> QED BY <3>2, FunctionIsSeq
  <2>2. \A n \in 1..c : s[n] = <<first + n - 1, r>>
    OBVIOUS
  <2>3. ASSUME NEW x \in EntriesOf(r, T) PROVE x \in {s[n] : n \in 1..Len(s)}
    <3>1. PICK t \in T : x = Entry(r, t)
      BY DEF EntriesOf
    <3>2. PICK n \in 1..c : t = <<first + n - 1, q, q>>
      OBVIOUS
    <3>3. x = <<first + n - 1, r>>
      BY <1>3, <3>1, <3>2 DEF Entry
    <3>4. x = s[n]
      BY <2>2, <3>3
    <3> HIDE DEF s
    <3> QED BY <2>1, <3>4
  <2>4. ASSUME NEW n \in 1..Len(s) PROVE s[n] \in EntriesOf(r, T)
    <3> DEFINE t == <<first + n - 1, q, q>>
    <3>1. n \in 1..c
      BY <2>1
    <3>2. t \in T /\ Has(r, t)
      BY <1>3, <3>1 DEF Has
    <3>3. s[n] = Entry(r, t)
      BY <1>3, <2>2, <3>1 DEF Entry
    <3> HIDE DEF t, T, s
    <3> QED BY <3>2, <3>3 DEF EntriesOf
  <2>5. \A n, l \in 1..Len(s) : n # l => s[n][1] # s[l][1]
    BY <2>1, <2>2
  <2>6. EntriesOf(r, T) = {s[n] : n \in 1..Len(s)}
    <3> HIDE DEF s, T
    <3> QED BY <2>3, <2>4
  <2>7. Listing(s, EntriesOf(r, T))
    <3> HIDE DEF s, T
    <3> QED BY <2>1, <2>5, <2>6 DEF Listing
  <2> HIDE DEF T
  <2> QED BY <1>1, <2>7 DEF Gives
<1>4. Gives(IF q # r THEN <<>> ELSE s, T, r, first, first + c)
  <2> HIDE DEF s, T
  <2> QED BY <1>2, <1>3
<1> QED BY <1>4 DEF OwnList, OwnPairs

LEMMA OneNumber ==
    ASSUME NEW first \in Int, NEW x \in Rank, NEW y \in Rank, NEW r \in Rank,
           NEW p, NEW n, p[n] = <<x, y>>, NEW base, first = base + n - 1
    PROVE  Gives(GluingEntries(r, base, p, n), {<<first, x, y>>}, r,
                 first, first + 1)
<1> DEFINE t == <<first, x, y>>
           T == {t}
           s == GluingEntries(r, base, p, n)
<1>1. t \in Int \X Rank \X Rank /\ t[1] = first /\ t[2] = x /\ t[3] = y
  OBVIOUS
<1>2. Numbers(T, first, first + 1)
  <2>1. \A l \in first..(first + 1 - 1) : l = first
    OBVIOUS
  <2> HIDE DEF t
  <2> QED BY <1>1, <2>1 DEF Numbers
<1>3. s = IF r \notin {x, y} THEN <<>> ELSE <<Entry(r, t)>>
  BY DEF GluingEntries, Entry
<1>4. CASE r \notin {x, y}
  <2>1. EntriesOf(r, T) = {}
    BY <1>4 DEF EntriesOf, Has
  <2> HIDE DEF T, s
  <2>2. Gives(s, T, r, first, first + 1)
    BY <1>2, <1>3, <1>4, <2>1, EmptyListing DEF Gives
  <2> QED BY <2>2 DEF s, T, t
<1>5. CASE r \in {x, y}
  <2>1. s = <<Entry(r, t)>> /\ Has(r, t)
    BY <1>3, <1>5 DEF Has
  <2>2. EntriesOf(r, T) = {Entry(r, t)}
    BY <2>1 DEF EntriesOf
  <2>3. Entry(r, t) \in Entries
    BY DEF Entry, Entries
  <2> HIDE DEF t, s
  <2>4. s \in Seq(Entries) /\ Len(s) = 1 /\ s[1] = Entry(r, t) /\ 1..1 = {1}
    BY <2>1, <2>3
  <2>5. Listing(s, {Entry(r, t)})
    BY <2>4 DEF Listing
  <2> HIDE DEF T
  <2>6. Gives(s, T, r, first, first + 1)
    BY <1>2, <2>2, <2>5 DEF Gives
  <2> QED BY <2>6 DEF s, T, t
<1> QED BY <1>4, <1>5

-----------------------------------------------------------------------------
(* The Dirichlet multipliers of an interval.                               *)

LEMMA RanksOfInterval ==
    ASSUME NEW m, IsMesh(m), NEW i \in IntervalsIn(m)
    PROVE  /\ iranks(m, i) \in [1..Cardinality(i.domains) -> Rank]
           /\ Len(iranks(m, i)) = Cardinality(i.domains)
           /\ \A a \in 1..Cardinality(i.domains) : iranks(m, i)[a] \in ranks(m, i)
<1> DEFINE n == Cardinality(i.domains)
           p == iranks(m, i)
<1>1. i.domains \in SUBSET Nat /\ IsFiniteSet(i.domains) /\ n \in Nat
  BY IntervalFacts
<1>2. Sorted(i.domains, <) \in [1..n -> i.domains]
  BY <1>1, SortedNumbers DEF InOrder
<1>3. p = [a \in 1..n |-> d2p(m, Sorted(i.domains, <)[a])]
  BY DEF iranks
<1>4. ASSUME NEW a \in 1..n PROVE p[a] \in ranks(m, i)
  <2>1. Sorted(i.domains, <)[a] \in i.domains
    BY <1>2
  <2> QED BY <1>3, <2>1 DEF ranks, nodeRanks
<1>5. \A a \in 1..n : p[a] \in Rank
  BY <1>4, OwnerFacts
<1>6. p \in [1..n -> Rank]
  BY <1>3, <1>5
<1>7. Len(p) = n
  <2> HIDE DEF p, n
  <2> QED BY <1>1, <1>6, FunctionIsSeq
<1> QED BY <1>4, <1>6, <1>7

LEMMA RepeatedFacts ==
    ASSUME NEW m, IsMesh(m), NEW i \in IntervalsIn(m), NEW k
    PROVE  LET p == RepeatedIn(m, k, i) IN
           /\ p \in [1..Len(p) -> Rank] /\ DOMAIN p = 1..Len(p)
           /\ Len(p) = (IF m.steps[k].redundant THEN Cardinality(i.domains) ELSE 1)
           /\ Len(p) \in Nat /\ \A a \in 1..Len(p) : p[a] \in ranks(m, i)
<1>1. CASE m.steps[k].redundant
  <2>1. RepeatedIn(m, k, i) = iranks(m, i)
    BY <1>1 DEF RepeatedIn
  <2>2. Cardinality(i.domains) \in Nat
    BY IntervalFacts
  <2> QED BY <1>1, <2>1, <2>2, RanksOfInterval
<1>2. CASE ~m.steps[k].redundant
  <2>1. RepeatedIn(m, k, i) = <<Owner(m, i)>>
    BY <1>2 DEF RepeatedIn
  <2>2. Owner(m, i) \in ranks(m, i) /\ Owner(m, i) \in Rank
    BY OwnerFacts
  <2> QED BY <1>2, <2>1, <2>2
<1> QED BY <1>1, <1>2

LEMMA FixedSets ==
    ASSUME NEW m, IsProblem(m), NEW k \in LoadSteps(m), NEW i \in IntervalsIn(m),
           NEW f \in 0..(m.DOFs - 1)
    PROVE  /\ CountIn(m, k, i, f) \in Nat /\ CountIn(m, k, i, f) <= NodeCount(m, i)
           /\ CountIn(m, k, i, f) = Cardinality(FixedOf(m, k, i, f))
           /\ FreeIn(m, k, i, f) = NodeCount(m, i)
                - (IF m.steps[k].redundant THEN CountIn(m, k, i, f) ELSE 0)
<1> DEFINE S == FixedOf(m, k, i, f)
           N == NodeCount(m, i)
           P == 0..(N - 1)
<1>1. IsMesh(m) /\ k \in DOMAIN m.steps
  BY DEF IsProblem, LoadSteps
<1>2. N \in Nat \ {0}
  BY <1>1, IntervalFacts
<1>3. S \in SUBSET P
  BY DEF FixedOf
<1>4. IsFiniteSet(P) /\ Cardinality(P) = N
  <2>1. 0 \in Int /\ N - 1 \in Int /\ ~(0 > N - 1) /\ (N - 1) - 0 + 1 = N
    BY <1>2
  <2> HIDE DEF N
  <2> QED BY <2>1, FS_Interval
<1> DEFINE s == Sorted(S, <)
           c == Cardinality(S)
<1>5. P \in SUBSET Nat
  BY <1>2
<1> HIDE DEF P
<1>6. IsFiniteSet(S) /\ c \in Nat
  BY <1>3, <1>4, FS_Subset, FS_CardinalityType
<1>7. S \in SUBSET Nat
  BY <1>3, <1>5
<1>8. s \in [1..c -> S]
  <2> HIDE DEF S
  <2> QED BY <1>6, <1>7, SortedNumbers DEF InOrder
<1>9. CountIn(m, k, i, f) = c
  <2>1. CountIn(m, k, i, f) = Len(s)
    BY DEF CountIn
  <2> HIDE DEF s, S
  <2>2. Len(s) = c
    <3> HIDE DEF c
    <3> QED BY <1>6, <1>8, FunctionIsSeq
  <2> QED BY <2>1, <2>2
<1>10. Cardinality(P \ S) = N - c /\ c <= N
  <2>1. P \cap S = S
    BY <1>3
  <2> HIDE DEF S
  <2>2. Cardinality(P \ S) = Cardinality(P) - Cardinality(P \cap S)
    BY <1>4, FS_Difference
  <2>3. c <= Cardinality(P)
    BY <1>3, <1>4, FS_Subset
  <2> QED BY <1>4, <2>1, <2>2, <2>3
<1>11. FreeIn(m, k, i, f) = N - (IF m.steps[k].redundant THEN c ELSE 0)
  <2>1. FreeIn(m, k, i, f) = IF m.steps[k].redundant THEN Cardinality(P \ S)
                             ELSE N
    BY DEF FreeIn, P
  <2>2. N - 0 = N
    BY <1>2
  <2> HIDE DEF N, S, c
  <2> QED BY <1>10, <2>1, <2>2
<1> QED BY <1>6, <1>9, <1>10, <1>11 DEF P

\* The sums of a list, computed from its beginnings.
LEMMA SumsOfBeginnings ==
    ASSUME NEW n \in Nat, NEW z \in [1..n -> Nat], NEW f \in 0..n,
           NEW y, y = [j \in 1..f |-> z[j]]
    PROVE  Sums(y)[f] = Sums(z)[f]
<1>1. f \in Nat /\ f <= n /\ f \in 0..f /\ \A j \in 1..f : j \in 1..n
  OBVIOUS
<1>2. y \in [1..f -> Nat] /\ \A j \in 1..f : y[j] = z[j]
  BY <1>1
<1>3. \A j \in 0..f : Sums(y)[j] = Sums(z)[j]
  BY <1>1, <1>2, SumsPrefix
<1> QED BY <1>1, <1>3

LEMMA CountFacts ==
    ASSUME NEW m, IsProblem(m), NEW k \in LoadSteps(m), NEW i \in IntervalsIn(m)
    PROVE  /\ \A f \in 0..(m.DOFs - 1) : CountIn(m, k, i, f) \in Nat
           /\ \A f \in 0..m.DOFs : CountsIn(m, k, i, f) \in Nat
           /\ CountsIn(m, k, i, 0) = 0
           /\ \A f \in 1..m.DOFs : CountsIn(m, k, i, f) =
                CountsIn(m, k, i, f - 1) + CountIn(m, k, i, f - 1)
           /\ CountsIn(m, k, i, m.DOFs) = fixedIn(m, k, i)
<1> DEFINE n == m.DOFs
           C(f) == CountIn(m, k, i, f)
           z == [j \in 1..n |-> C(j - 1)]
           y(f) == [j \in 1..f |-> C(j - 1)]
           x == [j \in 1..n |-> Cardinality(FixedOf(m, k, i, j - 1))]
<1>1. n \in Nat
  BY DEF IsProblem
<1>2. ASSUME NEW f \in 0..(n - 1)
      PROVE  C(f) \in Nat /\ C(f) = Cardinality(FixedOf(m, k, i, f))
  <2>1. f \in 0..(m.DOFs - 1)
    OBVIOUS
  <2> QED BY <2>1, FixedSets
<1>3. \A j \in 1..n : j - 1 \in 0..(n - 1)
  BY <1>1
<1>4. z \in [1..n -> Nat] /\ \A j \in 1..n : z[j] = C(j - 1)
  BY <1>2, <1>3
<1>5. \A f : CountsIn(m, k, i, f) = Sums(y(f))[f]
  BY DEF CountsIn, SumUpto
<1>6. fixedIn(m, k, i) = Sums(x)[n]
  BY DEF fixedIn, SumUpto
<1>7. x = z
  <2>1. \A j \in 1..n : C(j - 1) = Cardinality(FixedOf(m, k, i, j - 1))
    BY <1>2, <1>3
  <2> HIDE DEF C
  <2> QED BY <2>1
<1>8. ASSUME NEW f \in 0..n PROVE CountsIn(m, k, i, f) = Sums(z)[f]
  <2>1. y(f) = [j \in 1..f |-> z[j]]
    <3>1. \A j \in 1..f : j \in 1..n
      BY <1>1
    <3>2. \A j \in 1..f : z[j] = C(j - 1)
      BY <1>4, <3>1
    <3> HIDE DEF z, C
    <3> QED BY <3>2
  <2> HIDE DEF y, z, n
  <2>2. Sums(y(f))[f] = Sums(z)[f]
    BY <1>1, <1>4, <2>1, SumsOfBeginnings
  <2> QED BY <1>5, <2>2
<1> HIDE DEF x, y, z, C
<1>9. /\ Sums(z) \in [0..n -> Nat] /\ Sums(z)[0] = 0
      /\ \A j \in 1..n : Sums(z)[j] = Sums(z)[j - 1] + z[j]
  <2> HIDE DEF n
  <2> QED BY <1>1, <1>4, SumsDef
<1>10. 0 \in 0..n /\ n \in 0..n /\ \A j \in 1..n : j \in 0..n /\ j - 1 \in 0..n
  BY <1>1
<1>11. \A f \in 0..n : CountsIn(m, k, i, f) \in Nat
  BY <1>8, <1>9
<1>12. CountsIn(m, k, i, 0) = 0 /\ CountsIn(m, k, i, n) = fixedIn(m, k, i)
  BY <1>6, <1>7, <1>8, <1>9, <1>10
<1>13. \A f \in 1..n : CountsIn(m, k, i, f)
                            = CountsIn(m, k, i, f - 1) + C(f - 1)
  BY <1>4, <1>8, <1>9, <1>10
<1> QED BY <1>2, <1>11, <1>12, <1>13 DEF C

\* Which process each Dirichlet multiplier of an interval belongs to.
DirichletFirst(m, k, i, f) ==
    OffsetIn(m, k, "dirichlet", i)
        + Len(RepeatedIn(m, k, i)) * CountsIn(m, k, i, f)
DirichletPairs(m, k, i, f) ==
    [a \in 1..Len(RepeatedIn(m, k, i)) |->
        OwnPairs(RepeatedIn(m, k, i)[a],
                 DirichletFirst(m, k, i, f) + (a - 1) * CountIn(m, k, i, f),
                 CountIn(m, k, i, f))]
DirichletOfDOF(m, k, i) ==
    [x \in 1..m.DOFs |-> Together(DirichletPairs(m, k, i, x - 1),
                                  Len(RepeatedIn(m, k, i)))]
DirichletOf(m, k, i) == Together(DirichletOfDOF(m, k, i), m.DOFs)

DirichletListOfDOF(m, k, r, first, i, f) ==
    FlattenSeq([a \in DOMAIN RepeatedIn(m, k, i) |->
                    DirichletEntries(m, k, r, first, i, f, a)])

LEMMA DOFGives ==
    ASSUME NEW m, IsProblem(m), NEW k \in LoadSteps(m), NEW i \in IntervalsIn(m),
           NEW r \in Rank, NEW x \in 1..m.DOFs
    PROVE  Gives(DirichletListOfDOF(m, k, r, OffsetIn(m, k, "dirichlet", i),
                                    i, x - 1),
                 DirichletOfDOF(m, k, i)[x], r,
                 DirichletFirst(m, k, i, x - 1), DirichletFirst(m, k, i, x))
<1> DEFINE f == x - 1
           p == RepeatedIn(m, k, i)
           n == Len(p)
           c == CountIn(m, k, i, f)
           o == OffsetIn(m, k, "dirichlet", i)
           F == DirichletFirst(m, k, i, f)
           parts == [a \in DOMAIN p |-> DirichletEntries(m, k, r, o, i, f, a)]
           T == DirichletPairs(m, k, i, f)
           w == [a \in 0..n |-> F + a * c]
<1>1. /\ n \in Nat /\ p \in [1..n -> Rank] /\ DOMAIN p = 1..n
  BY RepeatedFacts DEF IsProblem
<1>2. o \in Nat
  BY OffsetsDisjoint
<1>3. m.DOFs \in Nat
  BY DEF IsProblem
<1>4. f \in 0..(m.DOFs - 1) /\ f \in 0..m.DOFs /\ x \in 0..m.DOFs
  BY <1>3
<1> DEFINE z(g) == CountsIn(m, k, i, g)
<1>5. c \in Nat /\ z(f) \in Nat /\ z(x) = z(f) + c /\ z(x) \in Nat
  BY <1>4, CountFacts
<1>6. F = o + n * z(f) /\ DirichletFirst(m, k, i, x) = o + n * z(x)
  BY DEF DirichletFirst
<1> HIDE DEF n, c, o, z, F, f
<1>7. n * z(f) \in Nat /\ n * z(x) = n * z(f) + n * c
  BY <1>1, <1>5
<1>8. F \in Int /\ \A a \in 0..n : a * c \in Int /\ a * c \in Nat
  BY <1>1, <1>2, <1>5, <1>6, <1>7
<1>9. \A a \in 1..n : a \in Int /\ a - 1 \in 0..n /\ a \in 0..n
                      /\ a * c = (a - 1) * c + c
  BY <1>1, <1>5
<1>10. w \in [0..n -> Int] /\ w[0] = F /\ w[n] = DirichletFirst(m, k, i, x)
  <2>1. w \in [0..n -> Int]
    BY <1>8
  <2>2. 0 * c = 0 /\ 0 \in 0..n /\ n \in 0..n
    BY <1>1, <1>5
  <2>3. w[0] = F + 0 * c /\ w[n] = F + n * c
    BY <2>2
  <2> HIDE DEF w
  <2>4. F + 0 * c = F
    BY <1>8, <2>2
  <2>5. F + n * c = o + n * z(x)
    <3> n * c \in Int
      BY <1>8, <2>2
    <3> QED BY <1>2, <1>6, <1>7
  <2> QED BY <1>6, <2>1, <2>3, <2>4, <2>5
<1>11. ASSUME NEW a \in 1..n
       PROVE  /\ w[a - 1] \in Int /\ w[a] = w[a - 1] + c
              /\ w[a - 1] = F + (a - 1) * c
  <2>1. w[a - 1] = F + (a - 1) * c /\ w[a] = F + a * c
    BY <1>9
  <2>2. (a - 1) * c \in Int /\ a * c = (a - 1) * c + c
    BY <1>8, <1>9
  <2> HIDE DEF w
  <2> QED BY <1>5, <1>8, <2>1, <2>2
<1>12. HasParts(parts, n)
  BY <1>1 DEF HasParts
<1>13. ASSUME NEW a \in 1..n PROVE Gives(parts[a], T[a], r, w[a - 1], w[a])
  <2> DEFINE g == w[a - 1]
             e == o + (a - 1) * c + n * z(f)
  <2>1. g \in Int /\ g = F + (a - 1) * c /\ w[a] = g + c
    BY <1>11
  <2>2. T[a] = OwnPairs(p[a], F + (a - 1) * c, c)
    BY DEF DirichletPairs, F, c, n
  <2>3. parts[a] = OwnList(p[a], r, e, c)
    BY <1>1 DEF DirichletEntries, OwnList, c, n, z
  <2>4. e = g
    <3>1. (a - 1) * c \in Int /\ n * z(f) \in Int /\ o \in Int
      BY <1>2, <1>7, <1>8, <1>9
    <3> HIDE DEF w
    <3> QED BY <1>6, <1>11, <3>1
  <2>5. p[a] \in Rank
    BY <1>1
  <2> HIDE DEF g, e, T, parts, p, w
  <2>6. Gives(OwnList(p[a], r, g, c), OwnPairs(p[a], g, c), r, g, g + c)
    BY <1>5, <2>1, <2>5, OwnNumbers
  <2>7. Gives(parts[a], T[a], r, g, w[a])
    BY <2>1, <2>2, <2>3, <2>4, <2>6
  <2> QED BY <2>7 DEF g
<1>14. \A a \in 1..n : w[a - 1] <= w[a]
  <2> HIDE DEF w
  <2> QED BY <1>5, <1>11
<1>15. DirichletListOfDOF(m, k, r, o, i, f) = FlattenSeq(parts)
  BY DEF DirichletListOfDOF
<1>16. DirichletOfDOF(m, k, i)[x] = Together(T, n)
  BY DEF DirichletOfDOF, n, f
<1> HIDE DEF parts, T, w
<1>17. Gives(FlattenSeq(parts), Together(T, n), r, w[0], w[n])
  BY <1>1, <1>10, <1>12, <1>13, <1>14, FlattenGives
<1> QED BY <1>10, <1>15, <1>16, <1>17 DEF o, F, f

\* The elements of a concatenation for the numbers below n.
LEMMA ForEachUpto ==
    ASSUME NEW n \in Nat
    PROVE  DOMAIN Upto(n) = 1..n /\ \A x \in 1..n : Upto(n)[x] = x - 1
  BY DEF Upto

DirichletListOf(m, k, r, first, i) ==
    FlattenSeq([x \in 1..m.DOFs |-> DirichletListOfDOF(m, k, r, first, i, x - 1)])

\* The Dirichlet multipliers of an interval fill the numbers it was given.
LEMMA DirichletGives ==
    ASSUME NEW m, IsProblem(m), NEW k \in LoadSteps(m), NEW i \in IntervalsIn(m),
           NEW r \in Rank
    PROVE  LET o == OffsetIn(m, k, "dirichlet", i) IN
           Gives(DirichletListOf(m, k, r, o, i), DirichletOf(m, k, i), r,
                 o, o + SizeIn(m, k, "dirichlet", i))
<1> DEFINE n == m.DOFs
           o == OffsetIn(m, k, "dirichlet", i)
           parts == [x \in 1..n |-> DirichletListOfDOF(m, k, r, o, i, x - 1)]
           T == DirichletOfDOF(m, k, i)
           w == [x \in 0..n |-> DirichletFirst(m, k, i, x)]
           p == Len(RepeatedIn(m, k, i))
           z(x) == CountsIn(m, k, i, x)
<1>1. n \in Nat /\ IsMesh(m) /\ o \in Nat
  BY OffsetsDisjoint DEF IsProblem
<1>2. p \in Nat /\ p = IF m.steps[k].redundant THEN Cardinality(i.domains) ELSE 1
  BY <1>1, RepeatedFacts
<1>3. /\ \A x \in 0..n : z(x) \in Nat
      /\ z(0) = 0 /\ z(n) = fixedIn(m, k, i)
      /\ \A x \in 1..n : z(x) = z(x - 1) + CountIn(m, k, i, x - 1)
  BY CountFacts
<1>4. \A x \in 0..(n - 1) : CountIn(m, k, i, x) \in Nat
  BY CountFacts
<1>5. \A x : DirichletFirst(m, k, i, x) = o + p * z(x)
  BY DEF DirichletFirst
<1> HIDE DEF z, p
<1>6. \A x \in 0..n : p * z(x) \in Nat
  BY <1>2, <1>3
<1>7. w \in [0..n -> Int] /\ \A x \in 0..n : w[x] = o + p * z(x)
  <2>1. \A x \in 0..n : o + p * z(x) \in Int
    BY <1>1, <1>6
  <2>2. w = [x \in 0..n |-> o + p * z(x)]
    BY <1>5
  <2> HIDE DEF w, o, n
  <2> QED BY <2>1, <2>2
<1>8. w[0] = o /\ w[n] = o + SizeIn(m, k, "dirichlet", i)
  <2>1. p * 0 = 0 /\ 0 \in 0..n /\ n \in 0..n /\ o + 0 = o
    BY <1>1, <1>2
  <2>2. p * z(n) = SizeIn(m, k, "dirichlet", i)
    <3>1. fixedIn(m, k, i) \in Nat /\ z(n) = fixedIn(m, k, i)
      BY <1>3, FixedFacts
    <3>2. 1 * fixedIn(m, k, i) = fixedIn(m, k, i)
      BY <3>1
    <3> QED BY <1>2, <3>1, <3>2 DEF SizeIn, DirichletSizeIn
  <2> HIDE DEF w, o, n
  <2> QED BY <1>3, <1>7, <2>1, <2>2
<1>9. ASSUME NEW x \in 1..n PROVE w[x - 1] <= w[x]
  <2>1. x \in 0..n /\ x - 1 \in 0..n /\ x - 1 \in 0..(n - 1)
    BY <1>1
  <2>2. p * z(x) = p * z(x - 1) + p * CountIn(m, k, i, x - 1)
    BY <1>2, <1>3, <1>4, <2>1
  <2>3. p * CountIn(m, k, i, x - 1) \in Nat
    BY <1>2, <1>4, <2>1
  <2>4. w[x] = o + p * z(x) /\ w[x - 1] = o + p * z(x - 1)
    BY <1>7, <2>1
  <2> HIDE DEF w, o, n
  <2> QED BY <1>1, <1>6, <2>1, <2>2, <2>3, <2>4
<1>10. ASSUME NEW x \in 1..n PROVE Gives(parts[x], T[x], r, w[x - 1], w[x])
  <2>1. parts[x] = DirichletListOfDOF(m, k, r, o, i, x - 1)
    OBVIOUS
  <2>2. /\ w[x - 1] = DirichletFirst(m, k, i, x - 1)
        /\ w[x] = DirichletFirst(m, k, i, x)
    <3>1. x \in 0..n /\ x - 1 \in 0..n
      BY <1>1
    <3> QED BY <3>1
  <2>3. Gives(DirichletListOfDOF(m, k, r, o, i, x - 1), T[x], r,
              DirichletFirst(m, k, i, x - 1), DirichletFirst(m, k, i, x))
    BY DOFGives
  <2> HIDE DEF parts, T, w, o, n
  <2> QED BY <2>1, <2>2, <2>3
<1>11. HasParts(parts, n)
  BY DEF HasParts
<1> HIDE DEF parts, T, w, o, n
<1>12. Gives(FlattenSeq(parts), Together(T, n), r, w[0], w[n])
  BY <1>1, <1>7, <1>9, <1>10, <1>11, FlattenGives
<1>13. DirichletListOf(m, k, r, o, i) = FlattenSeq(parts)
  BY DEF DirichletListOf, parts, n
<1>14. DirichletOf(m, k, i) = Together(T, n)
  BY DEF DirichletOf, T, n
<1> QED BY <1>8, <1>12, <1>13, <1>14 DEF o

LEMMA DirichletRanks ==
    ASSUME NEW m, IsProblem(m), NEW k \in LoadSteps(m), NEW i \in IntervalsIn(m)
    PROVE  \A t \in DirichletOf(m, k, i) :
                t[2] \in ranks(m, i) /\ t[3] \in ranks(m, i)
<1> SUFFICES ASSUME NEW t \in DirichletOf(m, k, i)
             PROVE  t[2] \in ranks(m, i) /\ t[3] \in ranks(m, i)
  OBVIOUS
<1> DEFINE p == RepeatedIn(m, k, i)
<1>1. PICK x \in 1..m.DOFs : t \in DirichletOfDOF(m, k, i)[x]
  BY DEF DirichletOf, Together
<1>2. PICK a \in 1..Len(p) : t \in DirichletPairs(m, k, i, x - 1)[a]
  BY <1>1 DEF DirichletOfDOF, Together
<1>3. PICK b, c : t \in OwnPairs(p[a], b, c)
  BY <1>2 DEF DirichletPairs
<1>4. t[2] = p[a] /\ t[3] = p[a]
  BY <1>3 DEF OwnPairs
<1>5. p[a] \in ranks(m, i)
  BY RepeatedFacts DEF IsProblem
<1> QED BY <1>4, <1>5

-----------------------------------------------------------------------------
(* The gluing multipliers of an interval.                                  *)

\* How many pairs of processes n domains need for a node.
PairCount(m, k, n) == IF m.steps[k].redundant THEN (n * (n - 1)) \div 2
                      ELSE n - 1

\* What the pairs beginning with one domain and with the next ones make.
LEMMA TriangleLength ==
    ASSUME NEW n \in Nat, n >= 1, NEW S, NEW parts,
           parts = [x \in 1..n |-> parts[x]],
           \A x \in 1..n : parts[x] \in Seq(S) /\ Len(parts[x]) = n - x
    PROVE  /\ FlattenSeq(parts) \in Seq(S)
           /\ Len(FlattenSeq(parts)) = (n * (n - 1)) \div 2
<1>1. parts \in [1..n -> Seq(S)] /\ Len(parts) = n
  <2>1. parts \in [1..n -> Seq(S)]
    OBVIOUS
  <2> QED BY <2>1, FunctionIsSeq
<1>2. PICK f : /\ f[1] = parts[1]
               /\ \A x \in 2..n : f[x] = f[x - 1] \o parts[x]
               /\ FlattenSeq(parts) = f[n]
  BY <1>1, FlattenFunction DEF Flattening
<1> DEFINE Q(x) == x * (2 * n - x - 1)
           T == {x \in 1..n : f[x] \in Seq(S) /\ 2 * Len(f[x]) = Q(x)}
<1>3. 1 \in T
  <2>1. 1 \in 1..n /\ Q(1) = 2 * (n - 1)
    OBVIOUS
  <2>2. f[1] \in Seq(S) /\ Len(f[1]) = n - 1
    BY <1>2, <2>1
  <2> HIDE DEF Q
  <2> QED BY <2>1, <2>2
<1>4. ASSUME NEW x \in 1..(n - 1), x \in T PROVE x + 1 \in T
  <2>1. x + 1 \in 2..n /\ x + 1 \in 1..n /\ (x + 1) - 1 = x
    OBVIOUS
  <2>2. /\ f[x + 1] = f[x] \o parts[x + 1] /\ f[x] \in Seq(S)
        /\ parts[x + 1] \in Seq(S) /\ Len(parts[x + 1]) = n - (x + 1)
    BY <1>2, <1>4, <2>1
  <2>3. f[x + 1] \in Seq(S) /\ Len(f[x + 1]) = Len(f[x]) + (n - (x + 1))
    <3>1. \A a, b \in Seq(S) : /\ a \o b \in Seq(S)
                               /\ Len(a \o b) = Len(a) + Len(b)
      OBVIOUS
    <3> QED BY <2>2, <3>1
  <2>4. Q(x + 1) = Q(x) + 2 * (n - (x + 1))
    <3>1. \A y, z \in Int : (y + 1) * (z - 1) = y * z - y + z - 1
      OBVIOUS
    <3>2. x \in Int /\ 2 * n - x - 1 \in Int
          /\ 2 * n - (x + 1) - 1 = (2 * n - x - 1) - 1
          /\ x * (2 * n - x - 1) \in Int
      OBVIOUS
    <3>3. Q(x + 1) = x * (2 * n - x - 1) - x + (2 * n - x - 1) - 1
      BY <3>1, <3>2
    <3> DEFINE Y == x * (2 * n - x - 1)
    <3> HIDE DEF Y
    <3>4. Y \in Int
      BY <3>2 DEF Y
    <3>5. Y - x + (2 * n - x - 1) - 1 = Y + 2 * (n - (x + 1))
      BY <3>4
    <3> QED BY <3>3, <3>5 DEF Y
  <2>5. 2 * Len(f[x]) = Q(x) /\ Len(f[x]) \in Nat
    BY <1>4, <2>2
  <2> HIDE DEF Q
  <2>6. 2 * Len(f[x + 1]) = Q(x + 1)
    BY <2>3, <2>4, <2>5
  <2> QED BY <2>1, <2>3, <2>6
<1>5. n \in T
  <2> HIDE DEF T
  <2>1. 1 \in Int /\ n \in Int /\ n \in 1..n
    OBVIOUS
  <2>2. \A x \in 1..n : x \in T
    BY <2>1, <1>3, <1>4, IntervalInduction
  <2> QED BY <2>1, <2>2
<1>6. f[n] \in Seq(S) /\ Len(f[n]) \in Nat /\ 2 * Len(f[n]) = n * (n - 1)
  <2>1. 2 * n - n - 1 = n - 1
    OBVIOUS
  <2> QED BY <1>5, <2>1
<1>7. \A y, z \in Int : 2 * y = z => z \div 2 = y
  OBVIOUS
<1>8. n * (n - 1) \in Int
  OBVIOUS
<1> QED BY <1>2, <1>6, <1>7, <1>8

LEMMA RankPairsFacts ==
    ASSUME NEW m, IsMesh(m), NEW i \in IntervalsIn(m), NEW k
    PROVE  LET p == RankPairsIn(m, k, i) IN
           /\ Len(p) = PairCount(m, k, Cardinality(i.domains)) /\ Len(p) \in Nat
           /\ DOMAIN p = 1..Len(p)
           /\ \A n \in 1..Len(p) : /\ p[n] = <<p[n][1], p[n][2]>>
                                   /\ p[n][1] \in ranks(m, i)
                                   /\ p[n][2] \in ranks(m, i)
<1> DEFINE n == Cardinality(i.domains)
           q == iranks(m, i)
           p == RankPairsIn(m, k, i)
           S == ranks(m, i) \X ranks(m, i)
<1>1. n \in Nat /\ n >= 1
  <2>1. n \in Nat \ {0}
    BY IntervalFacts
  <2> HIDE DEF n
  <2> QED BY <2>1
<1>2. /\ Len(q) = n /\ \A a \in 1..n : q[a] \in ranks(m, i)
  BY RanksOfInterval
<1>3. p \in Seq(S) /\ Len(p) = PairCount(m, k, n)
  <2>1. CASE m.steps[k].redundant
    <3> DEFINE row(j) == [l \in 1..(n - j - 1) |-> <<q[j + 1], q[j + 1 + l]>>]
               parts == [x \in 1..n |-> row(x - 1)]
    <3>1. p = FlattenSeq(parts)
      <4>1. p = FlattenSeq([x \in DOMAIN Upto(n) |-> row(Upto(n)[x])])
        BY <1>2, <2>1 DEF RankPairsIn, ForEach
      <4>2. DOMAIN Upto(n) = 1..n /\ \A x \in 1..n : Upto(n)[x] = x - 1
        BY <1>1, ForEachUpto
      <4> HIDE DEF row, p, n
      <4>3. [x \in DOMAIN Upto(n) |-> row(Upto(n)[x])] = parts
        BY <4>2
      <4> QED BY <4>1, <4>3
    <3>2. ASSUME NEW x \in 1..n
          PROVE  parts[x] \in Seq(S) /\ Len(parts[x]) = n - x
      <4> HIDE DEF n
      <4>1. n - x \in Nat /\ n - (x - 1) - 1 = n - x /\ (x - 1) + 1 = x
        BY <1>1
      <4>2. \A l \in 1..(n - x) : x + l \in 1..n
        BY <1>1
      <4>3. parts[x] = [l \in 1..(n - x) |-> <<q[x], q[x + l]>>]
        BY <4>1
      <4>4. \A l \in 1..(n - x) : <<q[x], q[x + l]>> \in S
        BY <1>2, <4>2
      <4> HIDE DEF S, q, parts
      <4>5. parts[x] \in [1..(n - x) -> S]
        BY <4>3, <4>4
      <4> QED BY <4>1, <4>5, FunctionIsSeq
    <3>3. parts = [x \in 1..n |-> parts[x]]
      OBVIOUS
    <3> HIDE DEF parts, n, S, p
    <3>4. /\ FlattenSeq(parts) \in Seq(S)
          /\ Len(FlattenSeq(parts)) = (n * (n - 1)) \div 2
      BY <1>1, <3>2, <3>3, TriangleLength
    <3> QED BY <2>1, <3>1, <3>4 DEF PairCount
  <2>2. CASE ~m.steps[k].redundant
    <3>1. p = [a \in 1..(n - 1) |-> <<q[a], q[a + 1]>>]
      BY <1>2, <2>2 DEF RankPairsIn
    <3> HIDE DEF n
    <3>2. n - 1 \in Nat /\ \A a \in 1..(n - 1) : a \in 1..n /\ a + 1 \in 1..n
      BY <1>1
    <3>3. \A a \in 1..(n - 1) : <<q[a], q[a + 1]>> \in S
      BY <1>2, <3>2
    <3> HIDE DEF S, q, p
    <3>4. p \in [1..(n - 1) -> S]
      BY <3>1, <3>3
    <3>5. p \in Seq(S) /\ Len(p) = n - 1
      BY <3>2, <3>4, FunctionIsSeq
    <3> QED BY <2>2, <3>5 DEF PairCount
  <2> QED BY <2>1, <2>2
<1>4. Len(p) \in Nat /\ DOMAIN p = 1..Len(p) /\ \A a \in 1..Len(p) : p[a] \in S
  <2> HIDE DEF p, S
  <2> QED BY <1>3
<1>5. \A s \in S : /\ s = <<s[1], s[2]>>
                   /\ s[1] \in ranks(m, i) /\ s[2] \in ranks(m, i)
  OBVIOUS
<1> HIDE DEF S, p, q
<1>6. \A a \in 1..Len(p) : /\ p[a] = <<p[a][1], p[a][2]>>
                           /\ p[a][1] \in ranks(m, i)
                           /\ p[a][2] \in ranks(m, i)
  BY <1>4, <1>5
<1> QED BY <1>3, <1>4, <1>6 DEF p

\* The nodes an interval has multipliers for, by DOF.
LEMMA WrittenFacts ==
    ASSUME NEW m, IsProblem(m), NEW k \in LoadSteps(m), NEW i \in IntervalsIn(m)
    PROVE  /\ WrittenIn(m, k, i) \in Nat
           /\ WrittenIn(m, k, i) = m.DOFs * NodeCount(m, i)
                - (IF m.steps[k].redundant THEN fixedIn(m, k, i) ELSE 0)
<1> DEFINE n == m.DOFs
           N == NodeCount(m, i)
           R == m.steps[k].redundant
           z == [j \in 1..n |-> FreeIn(m, k, i, j - 1)]
           gone(j) == IF R THEN CountsIn(m, k, i, j) ELSE 0
           T == {j \in 0..n : Sums(z)[j] + gone(j) = j * N}
<1>1. n \in Nat /\ IsMesh(m) /\ N \in Nat
  BY IntervalFacts DEF IsProblem
<1>2. /\ \A f \in 0..n : CountsIn(m, k, i, f) \in Nat
      /\ CountsIn(m, k, i, 0) = 0 /\ CountsIn(m, k, i, n) = fixedIn(m, k, i)
      /\ \A f \in 1..n : CountsIn(m, k, i, f) =
                CountsIn(m, k, i, f - 1) + CountIn(m, k, i, f - 1)
  BY CountFacts
<1>3. ASSUME NEW j \in 1..n
      PROVE  /\ z[j] \in Nat /\ CountIn(m, k, i, j - 1) \in Nat
             /\ z[j] = N - (IF R THEN CountIn(m, k, i, j - 1) ELSE 0)
  <2>1. j - 1 \in 0..(m.DOFs - 1)
    BY <1>1
  <2>2. /\ CountIn(m, k, i, j - 1) \in Nat
        /\ CountIn(m, k, i, j - 1) <= NodeCount(m, i)
        /\ FreeIn(m, k, i, j - 1) = NodeCount(m, i)
                - (IF m.steps[k].redundant THEN CountIn(m, k, i, j - 1) ELSE 0)
    BY <2>1, FixedSets
  <2>3. z[j] = FreeIn(m, k, i, j - 1)
    OBVIOUS
  <2> HIDE DEF z
  <2> QED BY <1>1, <2>2, <2>3
<1>4. WrittenIn(m, k, i) = Sums(z)[n]
  BY DEF WrittenIn, SumUpto
<1>5. z \in [1..n -> Nat]
  <2>1. z = [j \in 1..n |-> z[j]]
    OBVIOUS
  <2> HIDE DEF z
  <2> QED BY <1>3, <2>1
<1> HIDE DEF z, n, N
<1>6. /\ Sums(z) \in [0..n -> Nat] /\ Sums(z)[0] = 0
      /\ \A j \in 1..n : Sums(z)[j] = Sums(z)[j - 1] + z[j]
  BY <1>1, <1>5, SumsDef
<1>7. /\ gone(0) = 0 /\ \A j \in 0..n : gone(j) \in Nat
      /\ \A j \in 1..n : gone(j) =
            gone(j - 1) + (IF R THEN CountIn(m, k, i, j - 1) ELSE 0)
  BY <1>2
<1> HIDE DEF gone
<1>8. 0 \in T
  <2>1. 0 \in 0..n /\ 0 * N = 0
    BY <1>1
  <2> QED BY <1>6, <1>7, <2>1
<1>9. ASSUME NEW j \in 0..(n - 1), j \in T PROVE j + 1 \in T
  <2>1. j + 1 \in 1..n /\ j + 1 \in 0..n /\ (j + 1) - 1 = j /\ j \in 0..n
    BY <1>1
  <2>2. (j + 1) * N = j * N + N /\ j * N \in Int
    BY <1>1
  <2>3. Sums(z)[j + 1] = Sums(z)[j] + z[j + 1] /\ Sums(z)[j] \in Nat
    BY <1>6, <2>1
  <2>4. /\ z[j + 1] = N - (IF R THEN CountIn(m, k, i, j) ELSE 0)
        /\ CountIn(m, k, i, j) \in Nat
    BY <1>3, <2>1
  <2>5. gone(j + 1) = gone(j) + (IF R THEN CountIn(m, k, i, j) ELSE 0)
        /\ gone(j) \in Nat
    BY <1>7, <2>1
  <2>6. Sums(z)[j] + gone(j) = j * N
    BY <1>9
  <2>7. Sums(z)[j + 1] + gone(j + 1) = (j + 1) * N
    BY <1>1, <2>2, <2>3, <2>4, <2>5, <2>6
  <2> QED BY <2>1, <2>7
<1>10. n \in T
  <2> HIDE DEF T
  <2>1. 0 \in Int /\ n \in Int /\ n \in 0..n
    BY <1>1
  <2>2. \A j \in 0..n : j \in T
    BY <2>1, <1>8, <1>9, IntervalInduction
  <2> QED BY <2>1, <2>2
<1>11. n \in 0..n /\ n * N \in Int
  BY <1>1
<1>12. WrittenIn(m, k, i) \in Nat /\ gone(n) \in Nat
       /\ WrittenIn(m, k, i) = n * N - gone(n)
  BY <1>4, <1>6, <1>7, <1>10, <1>11
<1> QED BY <1>2, <1>12 DEF gone, n, N

\* All of these together are the size the interval got its numbers for.
LEMMA GluingSizeWritten ==
    ASSUME NEW m, IsProblem(m), NEW k \in LoadSteps(m), NEW i \in IntervalsIn(m)
    PROVE  SizeIn(m, k, "gluing", i) =
                WrittenIn(m, k, i) * Len(RankPairsIn(m, k, i))
<1> DEFINE n == Cardinality(i.domains)
           W == WrittenIn(m, k, i)
           all == m.DOFs * NodeCount(m, i)
           N == PairCount(m, k, n)
<1>1. Len(RankPairsIn(m, k, i)) = N
  BY RankPairsFacts DEF IsProblem
<1>2. W \in Nat /\ W = all - (IF m.steps[k].redundant THEN fixedIn(m, k, i) ELSE 0)
  BY WrittenFacts
<1>3. m.DOFs \in Nat /\ NodeCount(m, i) \in Nat /\ all \in Nat
  BY IntervalFacts DEF IsProblem
<1>4. SizeIn(m, k, "gluing", i) =
        IF n = 1 THEN 0
        ELSE IF m.steps[k].redundant
             THEN (all - fixedIn(m, k, i)) * ((n * (n - 1)) \div 2)
             ELSE all * (n - 1)
  BY DEF SizeIn, GluingSizeIn
<1> HIDE DEF n, W, all
<1>5. CASE n = 1
  <2>1. (n * (n - 1)) \div 2 = 0 /\ n - 1 = 0
    BY <1>5
  <2>2. N = 0
    BY <2>1 DEF PairCount
  <2>3. W * 0 = 0
    BY <1>2
  <2> QED BY <1>1, <1>4, <1>5, <2>2, <2>3 DEF W
<1>6. CASE n # 1 /\ m.steps[k].redundant
  <2>1. N = (n * (n - 1)) \div 2 /\ W = all - fixedIn(m, k, i)
    BY <1>2, <1>6 DEF PairCount
  <2> QED BY <1>1, <1>4, <1>6, <2>1 DEF W
<1>7. CASE n # 1 /\ ~m.steps[k].redundant
  <2>1. N = n - 1 /\ W = all
    BY <1>2, <1>3, <1>7 DEF PairCount
  <2> QED BY <1>1, <1>4, <1>7, <2>1 DEF W
<1> QED BY <1>5, <1>6, <1>7

\* Which two processes each gluing multiplier of an interval belongs to.
GluingNumber(p, first, n) == {<<first + n - 1, p[n][1], p[n][2]>>}
GluingOfNode(p, first) ==
    Together([n \in 1..Len(p) |-> GluingNumber(p, first, n)], Len(p))
GluingFirst(m, k, i) == TotalIn(m, k, "dirichlet") + OffsetIn(m, k, "gluing", i)
GluingOfNodes(m, k, i) ==
    [x \in 1..WrittenIn(m, k, i) |->
        GluingOfNode(RankPairsIn(m, k, i),
            GluingFirst(m, k, i) + (x - 1) * Len(RankPairsIn(m, k, i)))]
GluingOf(m, k, i) == Together(GluingOfNodes(m, k, i), WrittenIn(m, k, i))

GluingListOfNode(r, first, p) ==
    FlattenSeq([n \in DOMAIN p |-> GluingEntries(r, first, p, n)])
GluingListOf(m, k, r, first, i) ==
    FlattenSeq([x \in 1..WrittenIn(m, k, i) |->
        GluingListOfNode(r, first + (x - 1) * Len(RankPairsIn(m, k, i)),
                         RankPairsIn(m, k, i))])

LEMMA NodeGives ==
    ASSUME NEW p, NEW N \in Nat, N = Len(p), DOMAIN p = 1..N,
           \A n \in 1..N : /\ p[n] = <<p[n][1], p[n][2]>>
                           /\ p[n][1] \in Rank /\ p[n][2] \in Rank,
           NEW first \in Int, NEW r \in Rank
    PROVE  Gives(GluingListOfNode(r, first, p), GluingOfNode(p, first), r,
                 first, first + N)
<1> DEFINE parts == [n \in 1..N |-> GluingEntries(r, first, p, n)]
           T == [n \in 1..N |-> GluingNumber(p, first, n)]
           w == [n \in 0..N |-> first + n]
<1>1. w \in [0..N -> Int] /\ w[0] = first /\ w[N] = first + N
  <2>1. \A n \in 0..N : first + n \in Int
    OBVIOUS
  <2>2. 0 \in 0..N /\ N \in 0..N /\ first + 0 = first
    OBVIOUS
  <2> QED BY <2>1, <2>2
<1>2. ASSUME NEW n \in 1..N
      PROVE  /\ w[n - 1] = first + n - 1 /\ w[n] = (first + n - 1) + 1
             /\ w[n - 1] <= w[n] /\ first + n - 1 \in Int
  <2>1. n - 1 \in 0..N /\ n \in 0..N /\ first + (n - 1) = first + n - 1
        /\ first + n = (first + n - 1) + 1 /\ first + n - 1 \in Int
        /\ first + n - 1 <= (first + n - 1) + 1
    OBVIOUS
  <2>2. w[n - 1] = first + (n - 1) /\ w[n] = first + n
    BY <2>1
  <2> HIDE DEF w
  <2> QED BY <2>1, <2>2
<1>3. ASSUME NEW n \in 1..N PROVE Gives(parts[n], T[n], r, w[n - 1], w[n])
  <2> DEFINE g == first + n - 1
  <2>1. g \in Int /\ g = first + n - 1
    BY <1>2
  <2>2. parts[n] = GluingEntries(r, first, p, n)
        /\ T[n] = {<<g, p[n][1], p[n][2]>>}
    BY DEF GluingNumber
  <2>3. p[n] = <<p[n][1], p[n][2]>> /\ p[n][1] \in Rank /\ p[n][2] \in Rank
    OBVIOUS
  <2> HIDE DEF g
  <2>4. Gives(GluingEntries(r, first, p, n), {<<g, p[n][1], p[n][2]>>}, r, g, g + 1)
    BY <2>1, <2>3, OneNumber
  <2> HIDE DEF parts, T, w
  <2> QED BY <1>2, <2>1, <2>2, <2>4
<1>4. HasParts(parts, N)
  BY DEF HasParts
<1>5. GluingListOfNode(r, first, p) = FlattenSeq(parts)
  BY DEF GluingListOfNode
<1>6. GluingOfNode(p, first) = Together(T, N)
  BY DEF GluingOfNode
<1> HIDE DEF parts, T, w
<1>7. Gives(FlattenSeq(parts), Together(T, N), r, w[0], w[N])
  BY <1>1, <1>2, <1>3, <1>4, FlattenGives
<1> QED BY <1>1, <1>5, <1>6, <1>7

\* The gluing multipliers of an interval fill the numbers it was given.
LEMMA GluingGives ==
    ASSUME NEW m, IsProblem(m), NEW k \in LoadSteps(m), NEW i \in IntervalsIn(m),
           NEW r \in Rank, GluingFirst(m, k, i) \in Int
    PROVE  LET o == GluingFirst(m, k, i) IN
           Gives(GluingListOf(m, k, r, o, i), GluingOf(m, k, i), r,
                 o, o + SizeIn(m, k, "gluing", i))
<1> DEFINE o == GluingFirst(m, k, i)
           p == RankPairsIn(m, k, i)
           N == Len(p)
           W == WrittenIn(m, k, i)
           parts == [x \in 1..W |-> GluingListOfNode(r, o + (x - 1) * N, p)]
           T == GluingOfNodes(m, k, i)
           w == [x \in 0..W |-> o + x * N]
<1>1. W \in Nat /\ IsMesh(m) /\ o \in Int
  BY WrittenFacts DEF IsProblem
<1>2. /\ N \in Nat /\ DOMAIN p = 1..N
      /\ \A n \in 1..N : /\ p[n] = <<p[n][1], p[n][2]>>
                         /\ p[n][1] \in Rank /\ p[n][2] \in Rank
  <2>1. /\ N \in Nat /\ DOMAIN p = 1..N
        /\ \A n \in 1..N : /\ p[n] = <<p[n][1], p[n][2]>>
                           /\ p[n][1] \in ranks(m, i) /\ p[n][2] \in ranks(m, i)
    BY <1>1, RankPairsFacts
  <2>2. \A q \in ranks(m, i) : q \in Rank
    BY <1>1, OwnerFacts
  <2> HIDE DEF N, p
  <2> QED BY <2>1, <2>2
<1>3. SizeIn(m, k, "gluing", i) = W * N
  BY GluingSizeWritten
<1>4. parts = [x \in 1..W |-> parts[x]] /\ w = [x \in 0..W |-> o + x * N]
  OBVIOUS
<1>5. \A x \in 1..W : /\ parts[x] = GluingListOfNode(r, o + (x - 1) * N, p)
                      /\ T[x] = GluingOfNode(p, o + (x - 1) * N)
  BY DEF GluingOfNodes
<1>6. GluingListOf(m, k, r, o, i) = FlattenSeq(parts)
  BY DEF GluingListOf
<1>7. GluingOf(m, k, i) = Together(T, W)
  BY DEF GluingOf
<1> HIDE DEF W, N, p, o, parts, T, w
<1>8. \A x \in 0..W : x * N \in Nat /\ o + x * N \in Int
  BY <1>1, <1>2
<1>9. w \in [0..W -> Int] /\ w[0] = o /\ w[W] = o + W * N
  <2>1. 0 * N = 0 /\ 0 \in 0..W /\ W \in 0..W /\ o + 0 = o
    BY <1>1, <1>2
  <2> QED BY <1>4, <1>8, <2>1
<1>10. ASSUME NEW x \in 1..W
       PROVE  /\ w[x - 1] = o + (x - 1) * N /\ w[x - 1] \in Int
              /\ w[x] = (o + (x - 1) * N) + N /\ w[x - 1] <= w[x]
  <2>1. x - 1 \in 0..W /\ x \in 0..W
    BY <1>1
  <2>2. x * N = (x - 1) * N + N /\ (x - 1) * N \in Int
    BY <1>2, <2>1
  <2>3. w[x - 1] = o + (x - 1) * N /\ w[x] = o + x * N
    BY <1>4, <2>1
  <2> QED BY <1>1, <1>2, <2>2, <2>3
<1>11. ASSUME NEW x \in 1..W PROVE Gives(parts[x], T[x], r, w[x - 1], w[x])
  <2> DEFINE g == o + (x - 1) * N
  <2>1. g \in Int /\ w[x - 1] = g /\ w[x] = g + N
    BY <1>10
  <2>2. parts[x] = GluingListOfNode(r, g, p) /\ T[x] = GluingOfNode(p, g)
    BY <1>5
  <2> HIDE DEF g
  <2>3. N = Len(p)
    BY DEF N
  <2>4. Gives(GluingListOfNode(r, g, p), GluingOfNode(p, g), r, g, g + N)
    BY <1>2, <2>1, <2>3, NodeGives
  <2> QED BY <2>1, <2>2, <2>4
<1>12. HasParts(parts, W)
  BY <1>4 DEF HasParts
<1>13. Gives(FlattenSeq(parts), Together(T, W), r, w[0], w[W])
  BY <1>1, <1>9, <1>10, <1>11, <1>12, FlattenGives
<1> QED BY <1>3, <1>6, <1>7, <1>9, <1>13 DEF o

LEMMA GluingRanks ==
    ASSUME NEW m, IsProblem(m), NEW k \in LoadSteps(m), NEW i \in IntervalsIn(m)
    PROVE  \A t \in GluingOf(m, k, i) :
                t[2] \in ranks(m, i) /\ t[3] \in ranks(m, i)
<1> SUFFICES ASSUME NEW t \in GluingOf(m, k, i)
             PROVE  t[2] \in ranks(m, i) /\ t[3] \in ranks(m, i)
  OBVIOUS
<1> DEFINE p == RankPairsIn(m, k, i)
<1>1. PICK x \in 1..WrittenIn(m, k, i) : t \in GluingOfNodes(m, k, i)[x]
  BY DEF GluingOf, Together
<1>2. PICK first : t \in GluingOfNode(p, first)
  BY <1>1 DEF GluingOfNodes
<1>3. PICK n \in 1..Len(p) : t \in GluingNumber(p, first, n)
  BY <1>2 DEF GluingOfNode, Together
<1>4. t[2] = p[n][1] /\ t[3] = p[n][2]
  BY <1>3 DEF GluingNumber
<1>5. p[n][1] \in ranks(m, i) /\ p[n][2] \in ranks(m, i)
  BY RankPairsFacts DEF IsProblem
<1> QED BY <1>4, <1>5

-----------------------------------------------------------------------------
(* The numbers of all intervals together.                                  *)

\* Every number lies in the window of an interval.
LEMMA NumbersCovered ==
    ASSUME NEW m, IsProblem(m), NEW k \in LoadSteps(m), NEW g
    PROVE  /\ TotalIn(m, k, g) \in Nat
           /\ \A l \in 0..(TotalIn(m, k, g) - 1) : \E i \in IntervalsIn(m) :
                /\ OffsetIn(m, k, g, i) <= l
                /\ l < OffsetIn(m, k, g, i) + SizeIn(m, k, g, i)
<1> DEFINE L(q) == LocalSizeIn(m, k, g, q)
           y(n) == [a \in 1..n |-> L(a - 1)]
           all == y(Size)
           w == Sums(all)
<1>1. Size \in Nat /\ Size >= 1 /\ Size - 1 \in 0..Size /\ IsMesh(m)
  BY SizeAssumption DEF IsProblem
<1>2. \A q : L(q) \in Nat
  BY OwnOffsets
<1>3. all \in [1..Size -> Nat] /\ \A a \in 1..Size : all[a] = L(a - 1)
  BY <1>2
<1>4. \A q : FirstIn(m, k, g, q) = Sums(y(q))[q]
  BY DEF FirstIn, SumUpto
<1>5. ASSUME NEW q \in 0..Size PROVE FirstIn(m, k, g, q) = w[q]
  <2>1. y(q) = [a \in 1..q |-> all[a]]
    <3>1. \A a \in 1..q : a \in 1..Size
      BY <1>1
    <3>2. \A a \in 1..q : all[a] = L(a - 1)
      BY <1>3, <3>1
    <3> HIDE DEF all, L
    <3> QED BY <3>2
  <2> HIDE DEF all, y, L
  <2>2. Sums(y(q))[q] = Sums(all)[q]
    BY <1>1, <1>3, <2>1, SumsOfBeginnings
  <2> QED BY <1>4, <2>2
<1> HIDE DEF all, y, L
<1>6. /\ w \in [0..Size -> Nat] /\ w[0] = 0
      /\ \A a \in 1..Size : w[a] = w[a - 1] + all[a]
  BY <1>1, <1>3, SumsDef
<1> HIDE DEF w
<1>7. TotalIn(m, k, g) = w[Size] /\ TotalIn(m, k, g) \in Nat
  <2>1. TotalIn(m, k, g) = w[Size - 1] + L(Size - 1)
    BY <1>1, <1>5 DEF TotalIn, L
  <2>2. Size \in 1..Size /\ Size \in 0..Size
    BY <1>1
  <2> QED BY <1>3, <1>6, <2>1, <2>2
<1>8. ASSUME NEW l \in 0..(TotalIn(m, k, g) - 1)
      PROVE  \E i \in IntervalsIn(m) :
                /\ OffsetIn(m, k, g, i) <= l
                /\ l < OffsetIn(m, k, g, i) + SizeIn(m, k, g, i)
  <2>1. l \in Int /\ w[0] <= l /\ l < w[Size]
    BY <1>6, <1>7
  <2>2. w \in [0..Size -> Int] /\ \A a \in 1..Size : w[a - 1] <= w[a]
    <3>1. \A a \in 1..Size : a - 1 \in 0..Size /\ a \in 0..Size
      BY <1>1
    <3> QED BY <1>3, <1>6, <3>1
  <2>3. PICK a \in 1..Size : w[a - 1] <= l /\ l < w[a]
    BY <1>1, <2>1, <2>2, Windows
  <2> DEFINE q == a - 1
             s == OfIn(m, q, q)
             n == Len(s)
             v == OffsetsIn(m, k, g, q)
             F == FirstIn(m, k, g, q)
             sizes == [b \in DOMAIN s |-> SizeIn(m, k, g, s[b])]
  <2>4. q \in 0..Size /\ F = w[a - 1] /\ w[a] = F + L(q) /\ F \in Nat
    <3>1. a - 1 \in 0..Size
      BY <1>1
    <3>2. w[a] = w[a - 1] + all[a] /\ all[a] = L(a - 1)
      BY <1>3, <1>6
    <3> QED BY <1>5, <1>6, <3>1, <3>2
  <2>5. /\ InOrder(s, OwnedIn(m, q), BeforeIn(m)) /\ IsFiniteSet(OwnedIn(m, q))
        /\ StrictOrder(OwnedIn(m, q), BeforeIn(m))
        /\ OwnedIn(m, q) \in SUBSET IntervalsIn(m)
    BY <1>1, OwnInOrder
  <2> HIDE DEF q, F
  <2>6. Cardinality(OwnedIn(m, q)) = n /\ n \in Nat /\ s \in [1..n -> OwnedIn(m, q)]
        /\ DOMAIN s = 1..n
    <3>1. Cardinality(OwnedIn(m, q)) \in Nat
      BY <2>5, FS_CardinalityType
    <3>2. s \in [1..Cardinality(OwnedIn(m, q)) -> OwnedIn(m, q)]
      BY <2>5 DEF InOrder
    <3> HIDE DEF s
    <3> QED BY <3>1, <3>2, FunctionIsSeq
  <2>7. v = Sums(sizes) /\ L(q) = v[n]
    BY DEF OffsetsIn, L, LocalSizeIn
  <2>8. ASSUME NEW b \in 1..n
        PROVE  /\ s[b] \in OwnedIn(m, q) /\ s[b] \in IntervalsIn(m)
               /\ Owner(m, s[b]) = q /\ sizes[b] \in Nat
               /\ sizes[b] = SizeIn(m, k, g, s[b])
               /\ OffsetIn(m, k, g, s[b]) = F + v[b - 1]
    <3>1. s[b] \in OwnedIn(m, q) /\ s[b] \in IntervalsIn(m)
      BY <2>5, <2>6
    <3>2. Owner(m, s[b]) = q
      BY <3>1 DEF OwnedIn
    <3>3. sizes[b] = SizeIn(m, k, g, s[b])
      BY <2>6
    <3>4. sizes[b] \in Nat
      BY <3>1, <3>3, SizeType
    <3>5. Cardinality(InFrontOf(s, s[b])) = b - 1
      <4> HIDE DEF s, n
      <4> QED BY <2>5, <2>6, InFront
    <3>6. OffsetIn(m, k, g, s[b]) = F + v[b - 1]
      BY <3>2, <3>5 DEF OffsetIn, LocalOffsetIn, F
    <3> QED BY <3>1, <3>2, <3>3, <3>4, <3>6
  <2>9. sizes \in [1..n -> Nat]
    <3>1. sizes = [b \in 1..n |-> sizes[b]]
      BY <2>6
    <3> HIDE DEF sizes
    <3> QED BY <2>8, <3>1
  <2> HIDE DEF sizes, v, n, s
  <2>10. /\ v \in [0..n -> Nat] /\ v[0] = 0
         /\ \A b \in 1..n : v[b] = v[b - 1] + sizes[b]
    BY <2>6, <2>7, <2>9, SumsDef
  <2>11. v \in [0..n -> Int] /\ \A b \in 1..n : v[b - 1] <= v[b]
    <3>1. \A b \in 1..n : b - 1 \in 0..n /\ b \in 0..n
      BY <2>6
    <3>2. v \in [0..n -> Int]
      BY <2>10
    <3>3. ASSUME NEW b \in 1..n PROVE v[b - 1] <= v[b]
      <4>1. v[b - 1] \in Nat /\ sizes[b] \in Nat /\ v[b] = v[b - 1] + sizes[b]
        BY <2>9, <2>10, <3>1
      <4> QED BY <4>1
    <3> QED BY <3>2, <3>3
  <2>12. l - F \in Int /\ v[0] <= l - F /\ l - F < v[n]
    <3>1. v[n] \in Nat
      BY <2>6, <2>10
    <3> QED BY <2>1, <2>3, <2>4, <2>7, <2>10, <3>1
  <2>13. PICK b \in 1..n : v[b - 1] <= l - F /\ l - F < v[b]
    BY <2>6, <2>11, <2>12, Windows
  <2>14. v[b - 1] \in Nat /\ v[b] = v[b - 1] + SizeIn(m, k, g, s[b])
         /\ SizeIn(m, k, g, s[b]) \in Nat
    <3>1. b - 1 \in 0..n
      BY <2>6
    <3> QED BY <2>8, <2>10, <3>1
  <2>15. /\ OffsetIn(m, k, g, s[b]) <= l
         /\ l < OffsetIn(m, k, g, s[b]) + SizeIn(m, k, g, s[b])
    BY <2>1, <2>4, <2>8, <2>13, <2>14
  <2> QED BY <2>8, <2>15
<1> QED BY <1>7, <1>8

\* What a process lists for its intervals, one after the other, is its part of
\* the numbers of all intervals.
LEMMA MapGives ==
    ASSUME NEW m, IsProblem(m), NEW k \in LoadSteps(m), NEW g, NEW r \in Rank,
           NEW base \in Int, NEW list, NEW T,
           \A i \in IntervalsIn(m) :
                /\ Gives(list[i], T[i], r, base + OffsetIn(m, k, g, i),
                         base + OffsetIn(m, k, g, i) + SizeIn(m, k, g, i))
                /\ \A t \in T[i] : t[2] \in ranks(m, i) /\ t[3] \in ranks(m, i)
    PROVE  Gives(FlattenSeq([n \in DOMAIN pintervals(m, r) |->
                                list[pintervals(m, r)[n]]]),
                 UNION {T[i] : i \in IntervalsIn(m)}, r,
                 base, base + TotalIn(m, k, g))
<1> DEFINE I == IntervalsIn(m)
           p == pintervals(m, r)
           n == Len(p)
           all == UNION {T[i] : i \in I}
           parts == [a \in DOMAIN p |-> list[p[a]]]
           A == [a \in 1..n |-> EntriesOf(r, T[p[a]])]
           O(i) == OffsetIn(m, k, g, i)
           S(i) == SizeIn(m, k, g, i)
           tot == TotalIn(m, k, g)
           lo(i) == base + O(i)
           hi(i) == base + O(i) + S(i)
           top == base + tot
<1>1. IsMesh(m) /\ tot \in Nat
  BY NumbersCovered DEF IsProblem
<1>2. /\ n \in Nat /\ DOMAIN p = 1..n /\ p \in [1..n -> IntervalsOf(m, r)]
      /\ \A i \in IntervalsOf(m, r) : \E a \in 1..n : i = p[a]
      /\ \A a, b \in 1..n : p[a] = p[b] => a = b
  <2> DEFINE C == Cardinality(IntervalsOf(m, r))
  <2>1. InOrder(p, IntervalsOf(m, r), BeforeIn(m)) /\ IsFiniteSet(IntervalsOf(m, r))
        /\ StrictOrder(IntervalsOf(m, r), BeforeIn(m))
    <3>1. IsFiniteSet(I) /\ IntervalsOf(m, r) \in SUBSET I
      BY <1>1, IntervalsFinite DEF IntervalsOf
    <3> QED BY <1>1, <3>1, ArrangedInOrder, FS_Subset, BeforeIsOrder
  <2>2. C \in Nat
    BY <2>1, FS_CardinalityType
  <2>3. /\ p \in [1..C -> IntervalsOf(m, r)]
        /\ \A i \in IntervalsOf(m, r) : \E a \in 1..C : i = p[a]
        /\ \A a, b \in 1..C : p[a] = p[b] => a = b
    <3> HIDE DEF p
    <3>1. p \in [1..C -> IntervalsOf(m, r)]
      BY <2>1 DEF InOrder
    <3>2. \A a \in 1..C : Cardinality(InFrontOf(p, p[a])) = a - 1
      BY <2>1, InFront
    <3>3. \A a, b \in 1..C : p[a] = p[b] => a = b
      <4> HIDE DEF C
      <4>1. \A a, b \in 1..C : a - 1 = b - 1 => a = b
        OBVIOUS
      <4> QED BY <3>2, <4>1
    <3>4. \A i \in IntervalsOf(m, r) : \E a \in 1..C : i = p[a]
      BY <2>1 DEF InOrder
    <3> QED BY <3>1, <3>3, <3>4
  <2>4. n = C
    <3> HIDE DEF p, C
    <3> QED BY <2>2, <2>3, FunctionIsSeq
  <2> HIDE DEF p, n, C
  <2> QED BY <2>2, <2>3, <2>4
<1>3. \A i \in IntervalsOf(m, r) : i \in I
  BY DEF IntervalsOf
<1>4. ASSUME NEW i \in I
      PROVE  /\ O(i) \in Nat /\ S(i) \in Nat /\ O(i) + S(i) <= tot
             /\ \A j \in I : i # j => O(i) + S(i) <= O(j) \/ O(j) + S(j) <= O(i)
  BY OffsetsDisjoint, SizeType
<1>5. \A l \in 0..(tot - 1) : \E i \in I : O(i) <= l /\ l < O(i) + S(i)
  BY NumbersCovered
<1>6. ASSUME NEW i \in I
      PROVE  /\ Listing(list[i], EntriesOf(r, T[i]))
             /\ Numbers(T[i], lo(i), hi(i))
             /\ \A t \in T[i] : t[2] \in ranks(m, i) /\ t[3] \in ranks(m, i)
  BY DEF Gives
<1>7. \A a \in 1..n : parts[a] = list[p[a]]
  BY <1>2
<1> HIDE DEF O, S, tot, p, n
<1>8. /\ top \in Int /\ top = base + tot
       /\ \A i \in I : /\ lo(i) \in Int /\ hi(i) \in Int
                       /\ lo(i) = base + O(i) /\ hi(i) = base + O(i) + S(i)
                       /\ base <= lo(i) /\ hi(i) <= top
                       /\ \A j \in I : i # j => hi(i) <= lo(j) \/ hi(j) <= lo(i)
  BY <1>1, <1>4
<1> HIDE DEF lo, hi, top
<1>9. ASSUME NEW i \in I, NEW t \in T[i]
      PROVE  /\ t \in Int \X Rank \X Rank /\ t[1] \in Int
             /\ lo(i) <= t[1] /\ t[1] < hi(i)
             /\ base <= t[1] /\ t[1] < top
  <2>1. t \in Int \X Rank \X Rank /\ lo(i) <= t[1] /\ t[1] < hi(i)
    BY <1>6 DEF Numbers
  <2>2. t[1] \in Int
    BY <2>1
  <2> QED BY <1>8, <2>1, <2>2
<1>10. ASSUME NEW i \in I, NEW j \in I, NEW t \in T[i], NEW u \in T[j], i # j
      PROVE  t[1] # u[1]
  <2>1. hi(i) <= lo(j) \/ hi(j) <= lo(i)
    BY <1>10, <1>8
  <2> QED BY <1>9, <1>8, <2>1
<1>11. Numbers(all, base, top)
  <2>1. /\ all \subseteq Int \X Rank \X Rank
        /\ \A t \in all : base <= t[1] /\ t[1] < top
    BY <1>9
  <2>2. ASSUME NEW l \in base..(top - 1) PROVE \E t \in all : t[1] = l
    <3>1. l - base \in 0..(tot - 1)
      BY <1>1, <1>8
    <3>2. PICK i \in I : O(i) <= l - base /\ l - base < O(i) + S(i)
      BY <1>5, <3>1
    <3>3. l \in lo(i)..(hi(i) - 1)
      BY <1>4, <1>8, <3>1, <3>2
    <3>4. PICK t \in T[i] : t[1] = l
      BY <1>6, <3>3 DEF Numbers
    <3> QED BY <3>4
  <2>3. ASSUME NEW t \in all, NEW u \in all, t[1] = u[1] PROVE t = u
    <3>1. PICK i \in I : t \in T[i]
      OBVIOUS
    <3>2. PICK j \in I : u \in T[j]
      OBVIOUS
    <3>3. i = j
      BY <1>10, <2>3, <3>1, <3>2
    <3>4. Numbers(T[i], lo(i), hi(i))
      BY <1>6
    <3> QED BY <2>3, <3>1, <3>2, <3>3, <3>4 DEF Numbers
  <2> HIDE DEF all
  <2> QED BY <2>1, <2>2, <2>3 DEF Numbers
<1>12. Listing(FlattenSeq(parts), Together(A, n))
  <2>1. \A a \in 1..n : Listing(parts[a], A[a])
    <3>1. \A a \in 1..n : p[a] \in I /\ A[a] = EntriesOf(r, T[p[a]])
      BY <1>2, <1>3
    <3> HIDE DEF parts, A
    <3> QED BY <1>6, <1>7, <3>1
  <2>2. ASSUME NEW a \in 1..n, NEW b \in 1..n, a < b,
               NEW x \in A[a], NEW y \in A[b]
        PROVE  x[1] # y[1]
    <3>1. PICK t \in T[p[a]] : x = Entry(r, t)
      BY DEF EntriesOf
    <3>2. PICK u \in T[p[b]] : y = Entry(r, u)
      BY DEF EntriesOf
    <3>3. x[1] = t[1] /\ y[1] = u[1]
      BY <3>1, <3>2, EntryNumber
    <3>4. p[a] \in I /\ p[b] \in I /\ p[a] # p[b]
      <4>1. a # b
        BY <2>2
      <4> QED BY <1>2, <1>3, <4>1
    <3> QED BY <1>10, <3>3, <3>4
  <2>3. HasParts(parts, n)
    BY <1>2 DEF HasParts
  <2> HIDE DEF A, parts
  <2>4. \A a, b \in 1..n : a < b => \A x \in A[a] : \A y \in A[b] : x[1] # y[1]
    BY <2>2
  <2> QED BY <1>2, <2>1, <2>3, <2>4, FlattenListing
<1>13. Together(A, n) = EntriesOf(r, all)
  <2>1. ASSUME NEW x \in Together(A, n) PROVE x \in EntriesOf(r, all)
    <3>1. PICK a \in 1..n : x \in A[a]
      BY DEF Together
    <3>2. PICK t \in T[p[a]] : Has(r, t) /\ x = Entry(r, t)
      BY <3>1 DEF EntriesOf
    <3>3. p[a] \in I
      BY <1>2, <1>3
    <3>4. t \in all
      BY <3>2, <3>3
    <3> HIDE DEF all
    <3> QED BY <3>2, <3>4 DEF EntriesOf
  <2>2. ASSUME NEW x \in EntriesOf(r, all) PROVE x \in Together(A, n)
    <3>1. PICK t \in all : Has(r, t) /\ x = Entry(r, t)
      BY <2>2 DEF EntriesOf
    <3>2. PICK i \in I : t \in T[i]
      BY <3>1
    <3>3. i \in IntervalsOf(m, r)
      <4>1. r \in ranks(m, i)
        BY <1>6, <3>1, <3>2 DEF Has
      <4> QED BY <4>1 DEF IntervalsOf
    <3>4. PICK a \in 1..n : i = p[a]
      BY <1>2, <3>3
    <3>5. x \in A[a]
      BY <3>1, <3>2, <3>4 DEF EntriesOf
    <3> QED BY <3>5 DEF Together
  <2> QED BY <2>1, <2>2
<1> HIDE DEF all, parts, A
<1>14. Gives(FlattenSeq(parts), all, r, base, top)
  BY <1>11, <1>12, <1>13 DEF Gives
<1> QED BY <1>14 DEF parts, all, top, tot, p

DirichletNumbers(m, k) == UNION {DirichletOf(m, k, i) : i \in IntervalsIn(m)}
GluingNumbers(m, k) == UNION {GluingOf(m, k, i) : i \in IntervalsIn(m)}
AllNumbers(m, k) == DirichletNumbers(m, k) \cup GluingNumbers(m, k)

LEMMA DirichletMapGives ==
    ASSUME NEW m, IsProblem(m), NEW k \in LoadSteps(m), NEW r \in Rank, NEW off,
           \A i \in IntervalsOf(m, r) : off[i] = OffsetIn(m, k, "dirichlet", i)
    PROVE  Gives(DirichletMapOver(m, k, r, off, pintervals(m, r)),
                 DirichletNumbers(m, k), r, 0, TotalIn(m, k, "dirichlet"))
<1> DEFINE p == pintervals(m, r)
           o(i) == OffsetIn(m, k, "dirichlet", i)
           list == [i \in IntervalsIn(m) |-> DirichletListOf(m, k, r, o(i), i)]
           T == [i \in IntervalsIn(m) |-> DirichletOf(m, k, i)]
           tot == TotalIn(m, k, "dirichlet")
<1>1. ASSUME NEW i \in IntervalsIn(m)
      PROVE  /\ Gives(list[i], T[i], r, 0 + o(i), 0 + o(i) + SizeIn(m, k, "dirichlet", i))
             /\ \A t \in T[i] : t[2] \in ranks(m, i) /\ t[3] \in ranks(m, i)
  <2>1. o(i) \in Nat
    BY OffsetsDisjoint
  <2> DEFINE x == o(i)
  <2>2. 0 + x = x
    BY <2>1
  <2>3. Gives(DirichletListOf(m, k, r, x, i), DirichletOf(m, k, i), r,
              x, x + SizeIn(m, k, "dirichlet", i))
    BY DirichletGives
  <2>4. list[i] = DirichletListOf(m, k, r, x, i) /\ T[i] = DirichletOf(m, k, i)
    OBVIOUS
  <2>5. \A t \in DirichletOf(m, k, i) : t[2] \in ranks(m, i) /\ t[3] \in ranks(m, i)
    BY DirichletRanks
  <2> HIDE DEF x, list, T
  <2>6. Gives(list[i], T[i], r, 0 + x, 0 + x + SizeIn(m, k, "dirichlet", i))
    BY <2>2, <2>3, <2>4
  <2> QED BY <2>4, <2>5, <2>6 DEF x
<1>2. DirichletMapOver(m, k, r, off, p) =
        FlattenSeq([n \in DOMAIN p |-> list[p[n]]])
  <2>1. /\ DOMAIN Upto(m.DOFs) = 1..m.DOFs
        /\ \A x \in 1..m.DOFs : Upto(m.DOFs)[x] = x - 1
    BY ForEachUpto DEF IsProblem
  <2>2. \A n \in DOMAIN p : p[n] \in IntervalsOf(m, r)
    <3>1. InOrder(p, IntervalsOf(m, r), BeforeIn(m))
      BY ArrangedInOrder DEF IsProblem
    <3> HIDE DEF p
    <3> QED BY <3>1 DEF InOrder
  <2> DEFINE L(i) == FlattenSeq([x \in DOMAIN Upto(m.DOFs) |->
                        DirichletListOfDOF(m, k, r, off[i], i, Upto(m.DOFs)[x])])
  <2>3. DirichletMapOver(m, k, r, off, p) = FlattenSeq([n \in DOMAIN p |-> L(p[n])])
    BY Zenon DEF DirichletMapOver, ForEach, DirichletListOfDOF
  <2>4. ASSUME NEW n \in DOMAIN p PROVE L(p[n]) = list[p[n]]
    <3> DEFINE i == p[n]
    <3>1. i \in IntervalsOf(m, r) /\ i \in IntervalsIn(m)
      BY <2>2 DEF IntervalsOf
    <3>2. off[i] = o(i)
      BY <3>1
    <3> HIDE DEF i
    <3>3. L(i) = FlattenSeq([x \in 1..m.DOFs |->
                    DirichletListOfDOF(m, k, r, o(i), i, x - 1)])
      <4>1. [x \in DOMAIN Upto(m.DOFs) |->
                DirichletListOfDOF(m, k, r, off[i], i, Upto(m.DOFs)[x])]
            = [x \in 1..m.DOFs |-> DirichletListOfDOF(m, k, r, o(i), i, x - 1)]
        BY <2>1, <3>2
      <4> QED BY <4>1
    <3>4. L(i) = DirichletListOf(m, k, r, o(i), i)
      BY <3>3 DEF DirichletListOf
    <3>5. list[i] = DirichletListOf(m, k, r, o(i), i)
      BY <3>1
    <3> HIDE DEF L, list
    <3> QED BY <3>4, <3>5 DEF i
  <2> HIDE DEF L, list, p
  <2>5. [n \in DOMAIN p |-> L(p[n])] = [n \in DOMAIN p |-> list[p[n]]]
    BY <2>4
  <2> QED BY <2>3, <2>5
<1>3. DirichletNumbers(m, k) = UNION {T[i] : i \in IntervalsIn(m)}
  <2>1. \A i \in IntervalsIn(m) : T[i] = DirichletOf(m, k, i)
    OBVIOUS
  <2> HIDE DEF T
  <2> QED BY <2>1 DEF DirichletNumbers
<1> HIDE DEF list, T, o
<1>4. Gives(FlattenSeq([n \in DOMAIN pintervals(m, r) |->
                            list[pintervals(m, r)[n]]]),
            UNION {T[i] : i \in IntervalsIn(m)}, r, 0, 0 + TotalIn(m, k, "dirichlet"))
  BY <1>1, MapGives DEF o
<1>5. tot \in Nat
  BY NumbersCovered
<1> HIDE DEF tot
<1>6. 0 + tot = tot
  BY <1>5
<1> QED BY <1>2, <1>3, <1>4, <1>6 DEF tot

LEMMA GluingMapGives ==
    ASSUME NEW m, IsProblem(m), NEW k \in LoadSteps(m), NEW r \in Rank, NEW off,
           \A i \in IntervalsOf(m, r) : off[i] = GluingFirst(m, k, i)
    PROVE  LET D == TotalIn(m, k, "dirichlet") IN
           Gives(GluingMapOver(m, k, r, off, pintervals(m, r)),
                 GluingNumbers(m, k), r, D, D + TotalIn(m, k, "gluing"))
<1> DEFINE p == pintervals(m, r)
           D == TotalIn(m, k, "dirichlet")
           o(i) == GluingFirst(m, k, i)
           list == [i \in IntervalsIn(m) |-> GluingListOf(m, k, r, o(i), i)]
           T == [i \in IntervalsIn(m) |-> GluingOf(m, k, i)]
<1>0. D \in Nat /\ D \in Int
  BY NumbersCovered
<1>1. ASSUME NEW i \in IntervalsIn(m)
      PROVE  /\ Gives(list[i], T[i], r, D + OffsetIn(m, k, "gluing", i),
                      D + OffsetIn(m, k, "gluing", i) + SizeIn(m, k, "gluing", i))
             /\ \A t \in T[i] : t[2] \in ranks(m, i) /\ t[3] \in ranks(m, i)
  <2>1. OffsetIn(m, k, "gluing", i) \in Nat
    BY OffsetsDisjoint
  <2> DEFINE x == GluingFirst(m, k, i)
  <2>2. x = D + OffsetIn(m, k, "gluing", i) /\ x \in Int
    BY <1>0, <2>1 DEF GluingFirst
  <2>3. Gives(GluingListOf(m, k, r, x, i), GluingOf(m, k, i), r,
              x, x + SizeIn(m, k, "gluing", i))
    BY <2>2, GluingGives
  <2>4. list[i] = GluingListOf(m, k, r, x, i) /\ T[i] = GluingOf(m, k, i)
    OBVIOUS
  <2>5. \A t \in GluingOf(m, k, i) : t[2] \in ranks(m, i) /\ t[3] \in ranks(m, i)
    BY GluingRanks
  <2> HIDE DEF x, D, list, T
  <2> QED BY <2>2, <2>3, <2>4, <2>5
<1>2. GluingMapOver(m, k, r, off, p) =
        FlattenSeq([n \in DOMAIN p |-> list[p[n]]])
  <2>1. ASSUME NEW i \in IntervalsIn(m)
        PROVE  /\ DOMAIN Upto(WrittenIn(m, k, i)) = 1..WrittenIn(m, k, i)
               /\ \A x \in 1..WrittenIn(m, k, i) :
                    Upto(WrittenIn(m, k, i))[x] = x - 1
    BY WrittenFacts, ForEachUpto
  <2>2. \A n \in DOMAIN p : p[n] \in IntervalsOf(m, r)
    <3>1. InOrder(p, IntervalsOf(m, r), BeforeIn(m))
      BY ArrangedInOrder DEF IsProblem
    <3> HIDE DEF p
    <3> QED BY <3>1 DEF InOrder
  <2> DEFINE node(i, first, v) ==
                GluingListOfNode(r, first + v * Len(RankPairsIn(m, k, i)),
                                 RankPairsIn(m, k, i))
             up(i) == Upto(WrittenIn(m, k, i))
             L(i) == FlattenSeq([x \in DOMAIN up(i) |-> node(i, off[i], up(i)[x])])
  <2>3. GluingMapOver(m, k, r, off, p) = FlattenSeq([n \in DOMAIN p |-> L(p[n])])
    BY Zenon DEF GluingMapOver, ForEach, GluingListOfNode
  <2>4. ASSUME NEW n \in DOMAIN p PROVE L(p[n]) = list[p[n]]
    <3> DEFINE i == p[n]
    <3>1. i \in IntervalsOf(m, r) /\ i \in IntervalsIn(m)
      BY <2>2 DEF IntervalsOf
    <3>2. off[i] = o(i)
      BY <3>1
    <3> HIDE DEF i
    <3>3. L(i) = FlattenSeq([x \in 1..WrittenIn(m, k, i) |-> node(i, o(i), x - 1)])
      <4>1. /\ DOMAIN up(i) = 1..WrittenIn(m, k, i)
            /\ \A x \in 1..WrittenIn(m, k, i) : up(i)[x] = x - 1
        BY <2>1, <3>1
      <4> HIDE DEF up, node
      <4>2. [x \in DOMAIN up(i) |-> node(i, off[i], up(i)[x])]
            = [x \in 1..WrittenIn(m, k, i) |-> node(i, o(i), x - 1)]
        BY <3>2, <4>1
      <4> QED BY <4>2
    <3>4. L(i) = GluingListOf(m, k, r, o(i), i)
      BY <3>3 DEF GluingListOf
    <3>5. list[i] = GluingListOf(m, k, r, o(i), i)
      BY <3>1
    <3> HIDE DEF L, list
    <3> QED BY <3>4, <3>5 DEF i
  <2> HIDE DEF L, list, p
  <2>5. [n \in DOMAIN p |-> L(p[n])] = [n \in DOMAIN p |-> list[p[n]]]
    BY <2>4
  <2> QED BY <2>3, <2>5
<1>3. GluingNumbers(m, k) = UNION {T[i] : i \in IntervalsIn(m)}
  <2>1. \A i \in IntervalsIn(m) : T[i] = GluingOf(m, k, i)
    OBVIOUS
  <2> HIDE DEF T
  <2> QED BY <2>1 DEF GluingNumbers
<1> HIDE DEF list, T, D
<1>4. Gives(FlattenSeq([n \in DOMAIN pintervals(m, r) |->
                            list[pintervals(m, r)[n]]]),
            UNION {T[i] : i \in IntervalsIn(m)}, r, D, D + TotalIn(m, k, "gluing"))
  BY <1>0, <1>1, MapGives
<1> QED BY <1>2, <1>3, <1>4 DEF D

-----------------------------------------------------------------------------
(* What the map of a process holds after B1DirichletInsert and after       *)
(* B1GlueElements.                                                         *)

Written == {"scale", "solve", "reduce", "solved"}
MapsAt(r) ==
    /\ loc[r] = "glue" => Listing(B1clustersMap[r],
            EntriesOf(r, DirichletNumbers(problem, step[r])))
    /\ loc[r] \in Written => Listing(B1clustersMap[r],
            EntriesOf(r, AllNumbers(problem, step[r])))
MapsOK == /\ B1clustersMap = [r \in Rank |-> B1clustersMap[r]]
          /\ \A r \in Rank : MapsAt(r)

\* A process that changes nothing but its own place and its own map.
LEMMA MapsKept ==
    ASSUME MapsOK, PlacesOK, NEW r \in Rank, problem' = problem,
           NEW l, loc' = [loc EXCEPT ![r] = l],
           NEW k, step' = [step EXCEPT ![r] = k],
           NEW x, B1clustersMap' = [B1clustersMap EXCEPT ![r] = x],
           MapsAt(r)'
    PROVE  MapsOK'
<1>1. /\ loc = [p \in Rank |-> loc[p]] /\ step = [p \in Rank |-> step[p]]
      /\ B1clustersMap = [p \in Rank |-> B1clustersMap[p]]
  BY DEF PlacesOK, MapsOK
<1>2. \A p \in Rank : p # r => /\ loc'[p] = loc[p] /\ step'[p] = step[p]
                               /\ B1clustersMap'[p] = B1clustersMap[p]
  BY <1>1
<1>3. B1clustersMap' = [p \in Rank |-> B1clustersMap'[p]]
  BY <1>1
<1>4. ASSUME NEW p \in Rank, p # r PROVE MapsAt(p)'
  <2>1. MapsAt(p)
    BY DEF MapsOK
  <2> QED BY <1>2, <1>4, <2>1 DEF MapsAt
<1> QED BY <1>3, <1>4 DEF MapsOK

LEMMA InsertMaps ==
    ASSUME IInv, MapsOK, NEW r \in Rank, Insert(r)
    PROVE  MapsOK'
<1> DEFINE m == problem
           k == step[r]
           D == DirichletNumbers(m, k)
           tot == TotalIn(m, k, "dirichlet")
           off == intervalOffset[r].dirichlet
           x == IF size[r].dirichlet = 0 THEN <<>> ELSE DirichletMap(r)
<1>1. /\ loc[r] = "insert" /\ loc' = [loc EXCEPT ![r] = "glue"]
      /\ B1clustersMap' = [B1clustersMap EXCEPT ![r] = x]
      /\ problem' = problem /\ step' = step
  BY DEF Insert
<1>2. r \in Numbered /\ TypeOK /\ PlacesOK
  BY <1>1 DEF Numbered, IInv, TypeOK
<1>3. IsProblem(m) /\ IsMesh(m)
  BY <1>2, StateFacts
<1>4. /\ k \in LoadSteps(m) /\ size[r].dirichlet = tot
      /\ off = [i \in IntervalsOf(m, r) |-> OffsetIn(m, k, "dirichlet", i)]
  <2>1. /\ step[r] \in LoadSteps(problem)
        /\ intervalOffset[r].dirichlet = [i \in IntervalsOf(problem, r) |->
                OffsetIn(problem, step[r], "dirichlet", i)]
        /\ size[r] = [dirichlet |-> TotalIn(problem, step[r], "dirichlet"),
                      gluing |-> TotalIn(problem, step[r], "gluing")]
    BY <1>2, NumberedTogether
  <2>2. size[r].dirichlet = tot
    BY <2>1
  <2> QED BY <2>1, <2>2
<1>5. DirichletMap(r) = DirichletMapOver(m, k, r, off, pintervals(m, r))
  BY <1>2, MapsFromMesh
<1> HIDE DEF off
<1>6. Gives(DirichletMapOver(m, k, r, off, pintervals(m, r)), D, r, 0, tot)
  <2>1. \A i \in IntervalsOf(m, r) : off[i] = OffsetIn(m, k, "dirichlet", i)
    BY <1>4
  <2> QED BY <1>3, <1>4, <2>1, DirichletMapGives
<1>7. Listing(x, EntriesOf(r, D))
  <2>1. CASE tot = 0
    <3>1. \A t \in D : 0 <= t[1] /\ t[1] < tot /\ t[1] \in Int
      <4>1. D \subseteq Int \X Rank \X Rank
        BY <1>6 DEF Gives, Numbers
      <4>2. \A t \in D : 0 <= t[1] /\ t[1] < tot
        BY <1>6 DEF Gives, Numbers
      <4> HIDE DEF D
      <4> QED BY <4>1, <4>2
    <3> HIDE DEF D, tot
    <3>2. D = {}
      BY <2>1, <3>1
    <3>3. EntriesOf(r, D) = {}
      BY <3>2 DEF EntriesOf
    <3> QED BY <1>4, <2>1, <3>3, EmptyListing
  <2>2. CASE tot # 0
    <3>1. x = DirichletMapOver(m, k, r, off, pintervals(m, r))
      BY <1>4, <1>5, <2>2
    <3> QED BY <1>6, <3>1 DEF Gives
  <2> QED BY <2>1, <2>2
<1> HIDE DEF x
<1>8. step' = [step EXCEPT ![r] = k]
  BY <1>1, <1>2 DEF PlacesOK
<1>9. MapsAt(r)'
  <2>1. loc'[r] = "glue" /\ B1clustersMap'[r] = x
    BY <1>1, <1>2 DEF PlacesOK, MapsOK
  <2>2. "glue" \notin Written
    BY DEF Written
  <2> QED BY <1>1, <1>7, <2>1, <2>2 DEF MapsAt
<1> QED BY <1>1, <1>2, <1>8, <1>9, MapsKept

LEMMA AllNumbersGiven ==
    ASSUME NEW m, IsProblem(m), NEW k \in LoadSteps(m)
    PROVE  LET D == TotalIn(m, k, "dirichlet")
               G == TotalIn(m, k, "gluing")
           IN /\ D \in Nat /\ G \in Nat
              /\ Numbers(AllNumbers(m, k), 0, D + G)
              /\ \A t \in DirichletNumbers(m, k) : \A u \in GluingNumbers(m, k) :
                    t[1] # u[1]
<1> DEFINE D == TotalIn(m, k, "dirichlet")
           G == TotalIn(m, k, "gluing")
           S == DirichletNumbers(m, k)
           T == GluingNumbers(m, k)
           top == D + G
<1>1. D \in Nat /\ G \in Nat
  BY NumbersCovered
<1>2. PICK r : r \in Rank
  BY SizeAssumption DEF Rank
<1>3. Numbers(S, 0, D)
  <2> DEFINE o == [i \in IntervalsOf(m, r) |-> OffsetIn(m, k, "dirichlet", i)]
  <2>1. \A i \in IntervalsOf(m, r) : o[i] = OffsetIn(m, k, "dirichlet", i)
    OBVIOUS
  <2> HIDE DEF o
  <2>2. Gives(DirichletMapOver(m, k, r, o, pintervals(m, r)), S, r, 0, D)
    BY <1>2, <2>1, DirichletMapGives
  <2> QED BY <2>2 DEF Gives
<1>4. Numbers(T, D, top)
  <2> DEFINE o == [i \in IntervalsOf(m, r) |-> GluingFirst(m, k, i)]
  <2>1. \A i \in IntervalsOf(m, r) : o[i] = GluingFirst(m, k, i)
    OBVIOUS
  <2> HIDE DEF o
  <2>2. Gives(GluingMapOver(m, k, r, o, pintervals(m, r)), T, r, D, top)
    BY <1>2, <2>1, GluingMapGives
  <2> QED BY <2>2 DEF Gives
<1>5. top \in Int /\ top = D + G
  BY <1>1
<1> HIDE DEF D, G, S, T, top
<1>6. /\ \A t \in S : t \in Int \X Rank \X Rank /\ 0 <= t[1] /\ t[1] < D
      /\ \A t \in T : t \in Int \X Rank \X Rank /\ D <= t[1] /\ t[1] < top
  BY <1>3, <1>4 DEF Numbers
<1>7. /\ \A t \in S : t[1] \in Int /\ 0 <= t[1] /\ t[1] < D /\ t[1] < top
      /\ \A t \in T : t[1] \in Int /\ 0 <= t[1] /\ D <= t[1] /\ t[1] < top
  <2>1. \A t \in Int \X Rank \X Rank : t[1] \in Int
    OBVIOUS
  <2> QED BY <1>1, <1>5, <1>6, <2>1
<1>8. \A t \in S : \A u \in T : t[1] # u[1]
  BY <1>1, <1>7
<1>9. Numbers(S \cup T, 0, top)
  <2> DEFINE A == S \cup T
  <2>1. A \subseteq Int \X Rank \X Rank
    BY <1>6
  <2>2. \A t \in A : 0 <= t[1] /\ t[1] < top
    BY <1>7
  <2>3. ASSUME NEW l \in 0..(top - 1) PROVE \E t \in A : t[1] = l
    <3>1. CASE l < D
      <4>1. l \in 0..(D - 1)
        BY <1>1, <3>1
      <4> QED BY <1>3, <4>1 DEF Numbers
    <3>2. CASE ~(l < D)
      <4>1. l \in D..(top - 1)
        BY <1>1, <1>5, <3>2
      <4> QED BY <1>4, <4>1 DEF Numbers
    <3> QED BY <3>1, <3>2
  <2>4. ASSUME NEW t \in A, NEW u \in A, t[1] = u[1] PROVE t = u
    <3>1. (t \in S /\ u \in S) \/ (t \in T /\ u \in T)
      BY <1>8, <2>4
    <3> QED BY <1>3, <1>4, <2>4, <3>1 DEF Numbers
  <2> HIDE DEF A
  <2>5. Numbers(A, 0, top)
    BY <2>1, <2>2, <2>3, <2>4 DEF Numbers
  <2> QED BY <2>5 DEF A
<1>10. AllNumbers(m, k) = S \cup T
  BY DEF AllNumbers, S, T
<1> QED BY <1>1, <1>5, <1>8, <1>9, <1>10 DEF D, G, S, T, top

LEMMA GlueMaps ==
    ASSUME IInv, MapsOK, NEW r \in Rank, Glue(r)
    PROVE  MapsOK'
<1> DEFINE m == problem
           k == step[r]
           off == intervalOffset[r].gluing
           old == B1clustersMap[r]
           new == GluingMap(r)
           S == DirichletNumbers(m, k)
           T == GluingNumbers(m, k)
           l == IF Scaled(r) THEN "scale" ELSE "solve"
<1>1. /\ loc[r] = "glue" /\ loc' = [loc EXCEPT ![r] = l]
      /\ B1clustersMap' = [B1clustersMap EXCEPT ![r] = old \o new]
      /\ problem' = problem /\ step' = step
  BY DEF Glue
<1>2. r \in Numbered /\ TypeOK /\ PlacesOK
  BY <1>1 DEF Numbered, IInv, TypeOK
<1>3. IsProblem(m) /\ IsMesh(m)
  BY <1>2, StateFacts
<1>4. /\ k \in LoadSteps(m)
      /\ \A i \in IntervalsOf(m, r) : off[i] = GluingFirst(m, k, i)
  <2>1. /\ step[r] \in LoadSteps(problem)
        /\ intervalOffset[r].gluing = [i \in IntervalsOf(problem, r) |->
                TotalIn(problem, step[r], "dirichlet")
                    + OffsetIn(problem, step[r], "gluing", i)]
    BY <1>2, NumberedTogether
  <2> QED BY <2>1 DEF GluingFirst
<1>5. new = GluingMapOver(m, k, r, off, pintervals(m, r))
  BY <1>2, MapsFromMesh
<1> HIDE DEF off
<1>6. Listing(GluingMapOver(m, k, r, off, pintervals(m, r)), EntriesOf(r, T))
  BY <1>3, <1>4, GluingMapGives DEF Gives
<1>7. Listing(old, EntriesOf(r, S))
  BY <1>1 DEF MapsOK, MapsAt
<1>8. \A t \in S : \A u \in T : t[1] # u[1]
  BY <1>3, <1>4, AllNumbersGiven
<1> HIDE DEF S, T
<1>9. \A x \in EntriesOf(r, S) : \A y \in EntriesOf(r, T) : x[1] # y[1]
  <2> SUFFICES ASSUME NEW x \in EntriesOf(r, S), NEW y \in EntriesOf(r, T)
               PROVE  x[1] # y[1]
    OBVIOUS
  <2>1. PICK t \in S : x = Entry(r, t)
    BY DEF EntriesOf
  <2>2. PICK u \in T : y = Entry(r, u)
    BY DEF EntriesOf
  <2>3. x[1] = t[1] /\ y[1] = u[1]
    BY <2>1, <2>2, EntryNumber
  <2> QED BY <1>8, <2>3
<1>10. EntriesOf(r, S) \cup EntriesOf(r, T) = EntriesOf(r, S \cup T)
  BY DEF EntriesOf
<1> HIDE DEF old, new
<1>11. Listing(old \o new, EntriesOf(r, S \cup T))
  <2>1. Listing(new, EntriesOf(r, T))
    BY <1>5, <1>6
  <2>2. Listing(old \o new, EntriesOf(r, S) \cup EntriesOf(r, T))
    BY <1>7, <1>9, <2>1, ConcatListing
  <2> QED BY <1>10, <2>2
<1> DEFINE x == old \o new
<1>12. /\ Listing(x, EntriesOf(r, AllNumbers(m, k)))
       /\ B1clustersMap' = [B1clustersMap EXCEPT ![r] = x]
  BY <1>1, <1>11 DEF AllNumbers, S, T
<1> HIDE DEF x, l
<1>13. step' = [step EXCEPT ![r] = k]
  BY <1>1, <1>2 DEF PlacesOK
<1>14. MapsAt(r)'
  <2>1. loc'[r] = l /\ B1clustersMap'[r] = x
    BY <1>1, <1>2, <1>12 DEF PlacesOK, MapsOK
  <2>2. l # "glue"
    BY DEF l
  <2> QED BY <1>1, <1>12, <2>1, <2>2 DEF MapsAt
<1> QED BY <1>1, <1>2, <1>12, <1>13, <1>14, MapsKept

\* Any other step keeps the maps, and is taken before they are begun or after
\* they are complete.
LEMMA OtherMaps ==
    ASSUME IInv, MapsOK, NEW r \in Rank, problem' = problem,
           B1clustersMap' = B1clustersMap,
           NEW l, loc' = [loc EXCEPT ![r] = l],
           NEW k, step' = [step EXCEPT ![r] = k],
           l # "glue", l \in Written => loc[r] \in Written /\ k = step[r]
    PROVE  MapsOK'
<1>1. PlacesOK
  BY DEF IInv, TypeOK
<1>2. loc'[r] = l /\ step'[r] = k
  BY <1>1 DEF PlacesOK
<1>3. B1clustersMap' = [B1clustersMap EXCEPT ![r] = B1clustersMap[r]]
  BY DEF MapsOK
<1>4. MapsAt(r)'
  BY <1>2 DEF MapsOK, MapsAt
<1> QED BY <1>1, <1>3, <1>4, MapsKept

LEMMA MapsNext ==
    ASSUME IInv, MapsOK, [Next]_vars
    PROVE  MapsOK'
<1>1. PlacesOK
  BY DEF IInv, TypeOK
<1>2. \A r \in Rank : step = [step EXCEPT ![r] = step[r]]
  BY <1>1 DEF PlacesOK
<1>3. /\ "solve" \in Written /\ "scale" \in Written /\ "reduce" \in Written
      /\ "solved" \in Written
      /\ \A l \in {"scan", "offsets", "total", "count", "insert"} : l \notin Written
  BY DEF Written
<1>4. ASSUME NEW r \in Rank, Step(r) PROVE MapsOK'
  <2>1. CASE Count(r)
    <3>1. /\ loc' = [loc EXCEPT ![r] = "scan"] /\ problem' = problem
          /\ step' = step /\ B1clustersMap' = B1clustersMap
      BY <2>1 DEF Count, rows
    <3> QED BY <1>2, <1>3, <3>1, OtherMaps
  <2>2. CASE Scan(r)
    <3>1. /\ loc' = [loc EXCEPT ![r] = "offsets"] /\ problem' = problem
          /\ step' = step /\ B1clustersMap' = B1clustersMap
      BY <2>2 DEF Scan, rows
    <3> QED BY <1>2, <1>3, <3>1, OtherMaps
  <2>3. CASE SetOffsets(r)
    <3>1. /\ loc' = [loc EXCEPT ![r] = "total"] /\ problem' = problem
          /\ step' = step /\ B1clustersMap' = B1clustersMap
      BY <2>3 DEF SetOffsets, rows
    <3> QED BY <1>2, <1>3, <3>1, OtherMaps
  <2>4. CASE GetTotal(r)
    <3> DEFINE l == IF round[r] = "dirichlet" THEN "count" ELSE "insert"
    <3>1. /\ loc' = [loc EXCEPT ![r] = l] /\ problem' = problem
          /\ step' = step /\ B1clustersMap' = B1clustersMap
      BY <2>4 DEF GetTotal, rows
    <3>2. l # "glue" /\ l \notin Written
      BY <1>3
    <3> HIDE DEF l
    <3> QED BY <1>2, <3>1, <3>2, OtherMaps
  <2>5. CASE Insert(r)
    BY <2>5, InsertMaps
  <2>6. CASE Glue(r)
    BY <2>6, GlueMaps
  <2>7. CASE Scale(r)
    <3>1. /\ loc' = [loc EXCEPT ![r] = "solve"] /\ problem' = problem
          /\ step' = step /\ B1clustersMap' = B1clustersMap /\ loc[r] = "scale"
      BY <2>7 DEF Scale
    <3>2. loc[r] \in Written /\ "solve" # "glue"
      BY <1>3, <3>1
    <3> QED BY <1>2, <3>1, <3>2, OtherMaps
  <2>8. CASE SendLambdas(r)
    <3>1. /\ loc' = [loc EXCEPT ![r] = "reduce"] /\ problem' = problem
          /\ step' = step /\ B1clustersMap' = B1clustersMap /\ loc[r] = "solve"
      BY <2>8 DEF SendLambdas, rows
    <3>2. loc[r] \in Written /\ "reduce" # "glue"
      BY <1>3, <3>1
    <3> QED BY <1>2, <3>1, <3>2, OtherMaps
  <2>9. CASE ReduceLambdas(r)
    <3>1. /\ loc' = [loc EXCEPT ![r] = "solved"] /\ problem' = problem
          /\ step' = step /\ B1clustersMap' = B1clustersMap /\ loc[r] = "reduce"
      BY <2>9 DEF ReduceLambdas, rows
    <3>2. loc[r] \in Written /\ "solved" # "glue"
      BY <1>3, <3>1
    <3> QED BY <1>2, <3>1, <3>2, OtherMaps
  <2>10. CASE NextLoadStep(r)
    <3> DEFINE k == step[r] + 1
    <3>1. /\ loc' = [loc EXCEPT ![r] = "count"] /\ problem' = problem
          /\ step' = [step EXCEPT ![r] = k] /\ B1clustersMap' = B1clustersMap
      BY <2>10 DEF NextLoadStep, rows
    <3> HIDE DEF k
    <3> QED BY <1>3, <3>1, OtherMaps
  <2> QED BY <1>4, <2>1, <2>2, <2>3, <2>4, <2>5, <2>6, <2>7, <2>8, <2>9, <2>10
          DEF Step
<1>5. CASE UNCHANGED vars
  <2>1. /\ problem' = problem /\ step' = step /\ loc' = loc
        /\ B1clustersMap' = B1clustersMap
    BY <1>5 DEF vars, rows
  <2> QED BY <2>1 DEF MapsOK, MapsAt
<1> QED BY <1>4, <1>5 DEF Next, Done

LEMMA MapsInit == Init => MapsOK
  BY DEF Init, MapsOK, MapsAt, Written

\* The process that counts a number: the lower one of the two it belongs to.
Counting(t) == IF t[2] <= t[3] THEN t[2] ELSE t[3]

LEMMA CountingFilter ==
    ASSUME NEW t \in Int \X Rank \X Rank, NEW r \in Rank, Has(r, t)
    PROVE  LET e == Entry(r, t) IN
           (Len(e) > 2 => e[2] < e[3]) <=> r = Counting(t)
<1> DEFINE e == Entry(r, t)
           x == t[2]
           y == t[3]
           other == IF x = r THEN y ELSE x
<1>1. x \in Nat /\ y \in Nat /\ r \in Nat /\ (x = r \/ y = r)
  <2>1. x \in Rank /\ y \in Rank
    OBVIOUS
  <2>2. Rank \subseteq Nat
    BY SizeAssumption DEF Rank
  <2> QED BY <2>1, <2>2 DEF Has
<1>2. CASE x = r /\ y = r
  <2>1. e = <<t[1], r>>
    BY <1>2 DEF Entry
  <2>2. Len(e) = 2
    BY <2>1
  <2> QED BY <1>1, <1>2, <2>2 DEF Counting
<1>3. CASE ~(x = r /\ y = r)
  <2>1. e = <<t[1], r, other>>
    BY <1>3 DEF Entry
  <2>2. Len(e) = 3 /\ e[2] = r /\ e[3] = other
    BY <2>1
  <2>3. r < other <=> r = Counting(t)
    BY <1>1, <1>3 DEF Counting
  <2> QED BY <2>2, <2>3
<1> QED BY <1>2, <1>3

LEMMA CountedOnceFollows == IInv /\ MapsOK => CountedOnce
<1> DEFINE counted == UNION {{r} \X my_lamdas_ddot_filter(r) : r \in Rank}
           X(l) == {x \in counted : B1clustersMap[x[1]][x[2]][1] = l}
<1> SUFFICES ASSUME IInv, MapsOK, Glued,
                    NEW l \in 0..(size[0].dirichlet + size[0].gluing - 1)
             PROVE  Cardinality(X(l)) = 1
  BY DEF CountedOnce
<1> DEFINE m == problem
           k == step[0]
           D == TotalIn(m, k, "dirichlet")
           G == TotalIn(m, k, "gluing")
           T == AllNumbers(m, k)
           top == D + G
           big(r) == B1clustersMap[r]
<1>1. IsProblem(m) /\ 0 \in Rank
  <2>1. TypeOK
    BY DEF IInv
  <2>2. 0 \in Rank
    BY SizeAssumption DEF Rank
  <2> QED BY <2>1, <2>2, StateFacts
<1>2. \A r \in Rank : r \in Numbered /\ loc[r] \in Written
  BY DEF Glued, Numbered, Written
<1>3. /\ k \in LoadSteps(m) /\ \A r \in Rank : step[r] = k
      /\ size[0] = [dirichlet |-> D, gluing |-> G]
  <2>1. 0 \in Numbered
    BY <1>1, <1>2
  <2>2. /\ step[0] \in LoadSteps(problem)
        /\ \A q \in Numbered : step[q] = step[0]
        /\ size[0] = [dirichlet |-> TotalIn(problem, step[0], "dirichlet"),
                      gluing |-> TotalIn(problem, step[0], "gluing")]
    BY <2>1, NumberedTogether
  <2> QED BY <1>2, <2>2
<1>4. l \in 0..(top - 1)
  <2>1. size[0].dirichlet = D /\ size[0].gluing = G
    BY <1>3
  <2>2. D \in Nat /\ G \in Nat
    BY <1>1, <1>3, AllNumbersGiven
  <2> HIDE DEF D, G
  <2> QED BY <2>1, <2>2
<1>5. Numbers(T, 0, top)
  BY <1>1, <1>3, AllNumbersGiven
<1>6. ASSUME NEW r \in Rank
      PROVE  /\ big(r) \in Seq(Entries)
             /\ EntriesOf(r, T) = {big(r)[p] : p \in 1..Len(big(r))}
             /\ \A p, q \in 1..Len(big(r)) : p # q => big(r)[p][1] # big(r)[q][1]
  <2>1. Listing(B1clustersMap[r], EntriesOf(r, AllNumbers(m, step[r])))
    BY <1>2 DEF MapsOK, MapsAt
  <2>2. step[r] = k
    BY <1>3
  <2> HIDE DEF k
  <2> QED BY <2>1, <2>2 DEF Listing
<1>7. \A r \in Rank : DOMAIN big(r) = 1..Len(big(r))
  BY <1>6
<1> DEFINE Counts(r, p) == Len(big(r)[p]) > 2 => big(r)[p][2] < big(r)[p][3]
<1>8. \A r \in Rank : my_lamdas_ddot_filter(r) =
                            {p \in 1..Len(big(r)) : Counts(r, p)}
  BY <1>7 DEF my_lamdas_ddot_filter
<1> DEFINE F(r) == my_lamdas_ddot_filter(r)
<1>9. \A x \in X(l) : \E r \in Rank : \E p \in F(r) :
            x = <<r, p>> /\ big(r)[p][1] = l
  <2> SUFFICES ASSUME NEW x \in counted, B1clustersMap[x[1]][x[2]][1] = l
               PROVE  \E r \in Rank : \E p \in F(r) :
                            x = <<r, p>> /\ big(r)[p][1] = l
    OBVIOUS
  <2>1. PICK r \in Rank : x \in {r} \X F(r)
    OBVIOUS
  <2>2. PICK p \in F(r) : x = <<r, p>>
    BY <2>1
  <2> QED BY <2>2
<1>10. \A r \in Rank : \A p \in F(r) : big(r)[p][1] = l => <<r, p>> \in X(l)
  <2> SUFFICES ASSUME NEW r \in Rank, NEW p \in F(r), big(r)[p][1] = l
               PROVE  <<r, p>> \in X(l)
    OBVIOUS
  <2>1. <<r, p>> \in {r} \X F(r)
    OBVIOUS
  <2>2. <<r, p>> \in counted
    BY <2>1
  <2> QED BY <2>2
<1> HIDE DEF X, F, counted, m, k, D, G, top
<1>11. \A r \in Rank : F(r) = {p \in 1..Len(big(r)) : Counts(r, p)}
  BY <1>8 DEF F
<1> HIDE DEF big, T
<1>12. PICK t \in T : t[1] = l
  BY <1>4, <1>5 DEF Numbers
<1>13. /\ t \in Int \X Rank \X Rank /\ t[2] \in Rank /\ t[3] \in Rank
       /\ \A u \in T : u[1] = l => u = t
  <2>1. t \in Int \X Rank \X Rank
    BY <1>5, <1>12 DEF Numbers
  <2>2. \A u \in T : u[1] = t[1] => u = t
    BY <1>5, <1>12 DEF Numbers
  <2> QED BY <1>12, <2>1, <2>2
<1> DEFINE q == Counting(t)
<1>14. q \in Rank /\ Has(q, t)
  BY <1>13 DEF Counting, Has
<1> HIDE DEF q
<1>15. ASSUME NEW r \in Rank, NEW p \in 1..Len(big(r)), big(r)[p][1] = l
       PROVE  big(r)[p] = Entry(r, t) /\ Has(r, t) /\ (Counts(r, p) <=> r = q)
  <2>1. big(r)[p] \in EntriesOf(r, T)
    BY <1>6
  <2>2. PICK u \in T : Has(r, u) /\ big(r)[p] = Entry(r, u)
    BY <2>1 DEF EntriesOf
  <2>3. u = t
    BY <1>13, <1>15, <2>2, EntryNumber
  <2>4. big(r)[p] = Entry(r, t) /\ Has(r, t)
    BY <2>2, <2>3
  <2>5. LET e == Entry(r, t) IN (Len(e) > 2 => e[2] < e[3]) <=> r = Counting(t)
    BY <1>13, <2>4, CountingFilter
  <2> QED BY <2>4, <2>5 DEF q
<1>16. PICK a \in 1..Len(big(q)) : big(q)[a] = Entry(q, t)
  <2>1. Entry(q, t) \in EntriesOf(q, T)
    BY <1>12, <1>14 DEF EntriesOf
  <2> QED BY <1>6, <1>14, <2>1
<1>17. big(q)[a][1] = l
  BY <1>12, <1>16, EntryNumber
<1>18. <<q, a>> \in X(l)
  <2>1. Counts(q, a)
    BY <1>14, <1>15, <1>17
  <2> HIDE DEF Counts
  <2> QED BY <1>10, <1>11, <1>14, <1>17, <2>1
<1>19. ASSUME NEW x \in X(l) PROVE x = <<q, a>>
  <2>1. PICK r \in Rank : \E p \in F(r) : x = <<r, p>> /\ big(r)[p][1] = l
    BY <1>9
  <2>2. PICK p \in F(r) : x = <<r, p>> /\ big(r)[p][1] = l
    BY <2>1
  <2>3. p \in 1..Len(big(r)) /\ Counts(r, p)
    BY <1>11
  <2>4. r = q
    BY <1>15, <2>2, <2>3
  <2>5. p = a
    BY <1>6, <1>17, <2>2, <2>3, <2>4
  <2> QED BY <2>2, <2>4, <2>5
<1>20. X(l) = {<<q, a>>}
  BY <1>18, <1>19
<1> QED BY <1>20, FS_Singleton

\* The map of each process lists exactly its part of the numbers of its load
\* step, Dirichlet conditions first (B1DirichletInsert, B1GlueElements).
THEOREM MapsInvariance == Spec => []MapsOK
<1>1. Init => MapsOK
  BY MapsInit
<1>2. IInv /\ MapsOK /\ [Next]_vars => MapsOK'
  BY MapsNext
<1> QED BY <1>1, <1>2, Invariance, PTL DEF Spec

\* A scalar product over all processes counts each multiplier exactly once: of
\* the two processes a jump belongs to only the lower one counts it, and no
\* process lists a number twice (SetupCommunicationLayer in supercluster.h
\* over the map that equalityconstraints.cpp writes), in every load step and on
\* every mesh as IsMesh says.
THEOREM CountedOnceHolds == Spec => []CountedOnce
<1>1. IInv /\ MapsOK => CountedOnce
  BY CountedOnceFollows
<1> QED BY <1>1, Invariance, MapsInvariance, PTL
=============================================================================
