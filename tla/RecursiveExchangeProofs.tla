----------------------- MODULE RecursiveExchangeProofs ------------------------
(***************************************************************************)
(* allToAllWithDataSizeAndTarget delivers every packet exactly once, for   *)
(* any number of processes and any packets in the order of their targets.  *)
(*                                                                         *)
(* Processes are at different levels of the halving at the same time.  So  *)
(* the argument is about the level and not about the moment: RangeAt and   *)
(* HolderAt say in which range a process is and which process has a packet *)
(* at level k; the invariant says that what a process has is what these    *)
(* tables say for its own level, and that a message is what its sender has *)
(* for the other half at one level.  MessageLevel shows that a receiver    *)
(* cannot mistake it for that of another level, and AloneAtLast that       *)
(* ceil(log2(size)) levels leave every process alone in its range.         *)
(***************************************************************************)
EXTENDS RecursiveExchange, WellFoundedInduction, TLAPS

-----------------------------------------------------------------------------
(* Induction over numbers, as facts about sets of numbers.                 *)

LEMMA LeastNumber ==
    ASSUME NEW T, T \subseteq Nat, T # {}
    PROVE  \E m \in T : \A k \in T : m <= k
<1> DEFINE R == OpToRel(<, Nat)
<1>1. IsWellFoundedOn(R, Nat)
  BY NatLessThanWellFounded
<1>2. \A k, m \in Nat : <<k, m>> \in R <=> k < m
  BY DEF OpToRel
<1> HIDE DEF R
<1>3. PICK m \in T : \A k \in T : ~(<<k, m>> \in R)
  BY <1>1, WFMin
<1>4. ASSUME NEW k \in T PROVE m <= k
  <2>1. k \in Nat /\ m \in Nat
    OBVIOUS
  <2>2. ~(k < m)
    BY <1>2, <1>3, <2>1
  <2> QED BY <2>1, <2>2
<1> QED BY <1>4

LEMMA LeastOfSet ==
    ASSUME NEW T, T \subseteq Nat, T # {}
    PROVE  Min(T) \in T /\ \A k \in T : Min(T) <= k
  BY LeastNumber DEF Min

LEMMA IntervalInduction ==
    ASSUME NEW lo \in Int, NEW hi \in Int, NEW T,
           lo <= hi => lo \in T,
           \A i \in lo..(hi - 1) : i \in T => i + 1 \in T
    PROVE  \A i \in lo..hi : i \in T
<1> SUFFICES ASSUME NEW i \in lo..hi, i \notin T PROVE FALSE
  OBVIOUS
<1> DEFINE bad == {n \in Nat : lo + n <= hi /\ lo + n \notin T}
<1>1. i - lo \in bad
  <2>1. i - lo \in Nat /\ lo + (i - lo) = i
    OBVIOUS
  <2> QED BY <2>1
<1>2. PICK m \in bad : \A k \in bad : m <= k
  BY <1>1, LeastNumber
<1>3. m # 0
  <2>1. lo + 0 = lo /\ lo <= hi
    OBVIOUS
  <2> QED BY <2>1, <1>2
<1>4. m - 1 \in Nat /\ ~(m <= m - 1) /\ lo + (m - 1) \in lo..(hi - 1)
  BY <1>2, <1>3
<1>5. m - 1 \notin bad
  BY <1>2, <1>4
<1>6. lo + (m - 1) \in T
  BY <1>4, <1>5
<1>7. (lo + (m - 1)) + 1 \in T
  BY <1>4, <1>6
<1>8. (lo + (m - 1)) + 1 = lo + m
  BY <1>2
<1> QED BY <1>2, <1>7, <1>8

\* A recursive function exists.
Recursion(f, S, lo, hi, base, step) ==
    /\ f \in [lo..hi -> S] /\ f[lo] = base
    /\ \A i \in (lo + 1)..hi : f[i] = step[i][f[i - 1]]

LEMMA RecursiveFunction ==
    ASSUME NEW S, NEW lo \in Int, NEW hi \in Int, lo <= hi, NEW base \in S,
           NEW step \in [(lo + 1)..hi -> [S -> S]]
    PROVE  \E f : Recursion(f, S, lo, hi, base, step)
<1> DEFINE Is(f, n) == /\ f \in [lo..n -> S] /\ f[lo] = base
                       /\ \A i \in (lo + 1)..n : f[i] = step[i][f[i - 1]]
           T == {n \in lo..hi : \E f : Is(f, n)}
<1>1. lo \in T
  <2>1. lo \in lo..lo /\ (lo + 1)..lo = {}
    OBVIOUS
  <2> DEFINE f == [i \in lo..lo |-> base]
  <2>2. f \in [lo..lo -> S] /\ f[lo] = base
    BY <2>1
  <2>3. \A i \in (lo + 1)..lo : f[i] = step[i][f[i - 1]]
    BY <2>1
  <2>4. \E g : Is(g, lo)
    <3> HIDE DEF f
    <3> QED BY <2>2, <2>3
  <2>5. lo \in lo..hi
    OBVIOUS
  <2> QED BY <2>4, <2>5
<1>2. ASSUME NEW n \in lo..(hi - 1), n \in T PROVE n + 1 \in T
  <2>1. PICK f : Is(f, n)
    BY <1>2
  <2> DEFINE g == [i \in lo..(n + 1) |->
                    IF i = n + 1 THEN step[n + 1][f[n]] ELSE f[i]]
  <2>2. n \in lo..n /\ n + 1 \in (lo + 1)..hi /\ n + 1 \in lo..hi
    OBVIOUS
  <2>3. f[n] \in S /\ step[n + 1][f[n]] \in S
    BY <2>1, <2>2
  <2>4. g \in [lo..(n + 1) -> S]
    <3>1. \A i \in lo..(n + 1) : i # n + 1 => i \in lo..n
      OBVIOUS
    <3> QED BY <3>1, <2>1, <2>3
  <2>5. g[lo] = base
    BY <2>1
  <2>6. ASSUME NEW i \in (lo + 1)..(n + 1) PROVE g[i] = step[i][g[i - 1]]
    <3>1. i \in lo..(n + 1) /\ i - 1 \in lo..(n + 1) /\ i - 1 # n + 1
      OBVIOUS
    <3>2. g[i - 1] = f[i - 1]
      BY <3>1
    <3>3. CASE i = n + 1
      <4>1. i - 1 = n
        BY <3>3
      <4> QED BY <3>1, <3>2, <3>3, <4>1
    <3>4. CASE i # n + 1
      <4>1. i \in (lo + 1)..n
        BY <3>4
      <4> QED BY <3>1, <3>2, <3>4, <4>1, <2>1
    <3> QED BY <3>3, <3>4
  <2>7. Is(g, n + 1)
    BY <2>4, <2>5, <2>6
  <2> QED BY <2>2, <2>7
<1>3. \A n \in lo..hi : n \in T
  <2> HIDE DEF T
  <2> QED BY <1>1, <1>2, IntervalInduction
<1>4. hi \in T
  BY <1>3
<1> QED BY <1>4 DEF Recursion

-----------------------------------------------------------------------------
(* Buffers of packets, ordered by their targets.                           *)

AnyPacket == [from : Nat, to : Nat]

\* A buffer that has the packets of a set, each one once, ...
Enumerates(data, S) ==
    /\ data \in Seq(AnyPacket) /\ ToSet(data) = S
    /\ \A i, j \in 1..Len(data) : i # j => data[i] # data[j]

\* ... in the order of their targets.
Lists(data, S) ==
    /\ Enumerates(data, S)
    /\ \A i, j \in 1..Len(data) : i < j => data[i].to <= data[j].to

\* The targets in front of a place are below q, those behind it are not.
IsCut(data, c, q) ==
    /\ c \in 1..After(data)
    /\ \A i \in 1..(c - 1) : data[i].to < q
    /\ \A i \in c..Len(data) : q <= data[i].to

For(S, q) == {p \in S : p.to = q}

LEMMA PacketFacts ==
    ASSUME NEW data \in Seq(AnyPacket)
    PROVE  /\ Len(data) \in Nat
           /\ \A i \in 1..Len(data) :
                /\ data[i] \in AnyPacket /\ data[i].to \in Nat
                /\ data[i].from \in Nat /\ data[i].to \in Int
           /\ ToSet(data) = {data[i] : i \in 1..Len(data)}
<1>1. Len(data) \in Nat /\ DOMAIN data = 1..Len(data)
  OBVIOUS
<1>2. \A i \in 1..Len(data) : data[i] \in AnyPacket
  OBVIOUS
<1>3. \A p \in AnyPacket : p.to \in Nat /\ p.from \in Nat /\ p.to \in Int
  BY DEF AnyPacket
<1> QED BY <1>1, <1>2, <1>3 DEF ToSet

LEMMA MemberFacts ==
    ASSUME NEW data, NEW S, Enumerates(data, S), NEW p \in S
    PROVE  p \in AnyPacket /\ p.to \in Nat /\ p.from \in Nat /\ p.to \in Int
<1>1. data \in Seq(AnyPacket) /\ S = {data[i] : i \in 1..Len(data)}
  BY PacketFacts DEF Enumerates
<1>2. PICK i \in 1..Len(data) : p = data[i]
  BY <1>1
<1> QED BY <1>1, <1>2, PacketFacts

LEMMA MoveBefore ==
    ASSUME NEW data, NEW S, Lists(data, S), NEW q \in Int,
           NEW q0 \in Int, q0 <= q, NEW begin, IsCut(data, begin, q0)
    PROVE  /\ IsCut(data, movebefore(data, q, begin, After(data)), q)
           /\ begin <= movebefore(data, q, begin, After(data))
<1> DEFINE n == Len(data)
           T == {p \in begin..After(data) : p = After(data) \/ data[p].to >= q}
           m == movebefore(data, q, begin, After(data))
<1>1. data \in Seq(AnyPacket) /\ n \in Nat
  BY DEF Lists, Enumerates
<1>2. \A i \in 1..n : data[i].to \in Int
  BY <1>1, PacketFacts
<1>3. begin \in 1..(n + 1) /\ After(data) = n + 1
  BY DEF IsCut, After
<1>4. n + 1 \in T /\ T \subseteq Nat
  BY <1>1, <1>3
<1>6. m \in T /\ \A p \in T : m <= p
  <2> HIDE DEF T
  <2>1. m = Min(T)
    BY DEF movebefore, T
  <2> QED BY <2>1, <1>4, LeastOfSet
<1> HIDE DEF m
<1>7. m \in begin..(n + 1) /\ (m = n + 1 \/ data[m].to >= q)
  BY <1>3, <1>6
<1>8. ASSUME NEW i \in 1..(m - 1) PROVE data[i].to < q
  <2>1. i \in 1..n /\ ~(m <= i)
    BY <1>1, <1>3, <1>7
  <2>2. CASE i < begin
    <3>1. i \in 1..(begin - 1)
      BY <2>2, <1>3
    <3>2. data[i].to < q0
      BY <3>1 DEF IsCut
    <3> QED BY <3>2, <2>1, <1>2
  <2>3. CASE ~(i < begin)
    <3>1. i \in begin..(n + 1) /\ i # n + 1
      BY <2>1, <2>3, <1>1, <1>3
    <3>2. i \notin T
      BY <2>1, <1>6
    <3>3. ~(data[i].to >= q)
      BY <3>1, <3>2, <1>3
    <3> QED BY <3>3, <2>1, <1>2
  <2> QED BY <2>2, <2>3
<1>9. ASSUME NEW i \in m..n PROVE q <= data[i].to
  <2>1. m \in 1..n /\ i \in 1..n
    BY <1>1, <1>3, <1>7
  <2>2. q <= data[m].to
    BY <2>1, <1>2, <1>7
  <2>3. CASE i = m
    BY <2>2, <2>3
  <2>4. CASE i # m
    <3>1. m < i
      BY <2>1, <2>4
    <3>2. data[m].to <= data[i].to
      BY <3>1, <2>1 DEF Lists
    <3> QED BY <3>2, <2>1, <2>2, <1>2
  <2> QED BY <2>3, <2>4
<1>10. m \in 1..(n + 1)
  BY <1>1, <1>3, <1>7
<1>11. IsCut(data, m, q)
  BY <1>3, <1>8, <1>9, <1>10 DEF IsCut
<1> QED BY <1>7, <1>11 DEF m

\* A part between two cuts has the packets whose targets are between them.
LEMMA PartLists ==
    ASSUME NEW data, NEW S, Lists(data, S),
           NEW a, NEW b, NEW q \in Int, NEW r \in Int, a <= b,
           IsCut(data, a, q), IsCut(data, b, r)
    PROVE  Lists(Part(data, a, b), {p \in S : q <= p.to /\ p.to < r})
<1> DEFINE n == Len(data)
           part == Part(data, a, b)
           T == {p \in S : q <= p.to /\ p.to < r}
<1>1. data \in Seq(AnyPacket) /\ n \in Nat /\ S = {data[i] : i \in 1..n}
  BY PacketFacts DEF Lists, Enumerates
<1>2. \A i \in 1..n : data[i].to \in Int /\ data[i] \in AnyPacket
  BY <1>1, PacketFacts
<1>3. a \in 1..(n + 1) /\ b \in 1..(n + 1) /\ a \in Int /\ b \in Int
  BY <1>1 DEF IsCut, After
<1>4. /\ part \in Seq(AnyPacket) /\ Len(part) = b - a
      /\ \A i \in 1..(b - a) : /\ part[i] = data[a + i - 1]
                                /\ a + i - 1 \in a..(b - 1)
                                /\ a + i - 1 \in 1..n
  <2>1. part = [i \in 1..((b - 1) - a + 1) |-> data[a + i - 1]]
    BY <1>1, <1>3 DEF Part
  <2>2. (b - 1) - a + 1 = b - a /\ b - a \in Nat
    BY <1>3
  <2>3. part = [i \in 1..(b - a) |-> data[a + i - 1]]
    BY <2>1, <2>2
  <2>4. \A i \in 1..(b - a) : a + i - 1 \in a..(b - 1) /\ a + i - 1 \in 1..n
    BY <1>1, <1>3
  <2> QED BY <2>2, <2>3, <2>4, <1>2
<1> HIDE DEF part
<1>5. \A i, j \in 1..Len(part) : i # j => part[i] # part[j]
  <2> SUFFICES ASSUME NEW i \in 1..(b - a), NEW j \in 1..(b - a), i # j
               PROVE  part[i] # part[j]
    BY <1>4
  <2>1. a + i - 1 # a + j - 1
    BY <1>3
  <2> QED BY <2>1, <1>4 DEF Lists, Enumerates
<1>6. \A i, j \in 1..Len(part) : i < j => part[i].to <= part[j].to
  <2> SUFFICES ASSUME NEW i \in 1..(b - a), NEW j \in 1..(b - a), i < j
               PROVE  part[i].to <= part[j].to
    BY <1>4
  <2>1. a + i - 1 < a + j - 1
    BY <1>3
  <2> QED BY <2>1, <1>4 DEF Lists
<1>7. ToSet(part) = {part[i] : i \in 1..(b - a)}
  BY <1>4, PacketFacts
<1>8. ASSUME NEW i \in 1..(b - a) PROVE part[i] \in T
  <2>1. data[a + i - 1] \in S
    BY <1>1, <1>4
  <2>2. q <= data[a + i - 1].to
    <3>1. a + i - 1 \in a..n
      BY <1>3
    <3> QED BY <3>1 DEF IsCut
  <2>3. data[a + i - 1].to < r
    <3>1. a + i - 1 \in 1..(b - 1)
      BY <1>3
    <3> QED BY <3>1 DEF IsCut
  <2> QED BY <2>1, <2>2, <2>3, <1>4
<1>9. ASSUME NEW p \in T PROVE \E i \in 1..(b - a) : p = part[i]
  <2>1. PICK k \in 1..n : p = data[k]
    BY <1>1
  <2>2. ~(k < a)
    <3> SUFFICES ASSUME k < a PROVE FALSE
      OBVIOUS
    <3>1. k \in 1..(a - 1)
      BY <1>3
    <3>2. data[k].to < q
      BY <3>1 DEF IsCut
    <3> QED BY <3>2, <2>1, <1>2
  <2>3. k < b
    <3> SUFFICES ASSUME ~(k < b) PROVE FALSE
      OBVIOUS
    <3>1. k \in b..n
      BY <1>3
    <3>2. r <= data[k].to
      BY <3>1 DEF IsCut
    <3> QED BY <3>2, <2>1, <1>2
  <2>4. k - a + 1 \in 1..(b - a) /\ a + (k - a + 1) - 1 = k
    BY <2>2, <2>3, <1>3
  <2> QED BY <2>1, <2>4, <1>4
<1>10. ToSet(part) = T
  BY <1>7, <1>8, <1>9
<1> QED BY <1>4, <1>5, <1>6, <1>10 DEF Lists, Enumerates, part

LEMMA MoveBeforeInside ==
    ASSUME NEW n \in Nat, NEW begin \in 1..n, NEW data, NEW q
    PROVE  movebefore(data, q, begin, n) \in 1..n
<1> DEFINE T == {p \in begin..n : p = n \/ data[p].to >= q}
<1>1. n \in T /\ T \subseteq Nat
  OBVIOUS
<1>2. Min(T) \in T
  <2> HIDE DEF T
  <2> QED BY <1>1, LeastOfSet
<1> QED BY <1>2 DEF movebefore

\* The parts of a buffer have the packets for one target each.
LEMMA PartsLists ==
    ASSUME NEW data, NEW S, Lists(data, S),
           NEW first \in Int, NEW last \in Int, first <= last,
           NEW begin, IsCut(data, begin, first), NEW q \in first..last
    PROVE  Lists(Parts(data, first, last, begin, After(data))[q], For(S, q))
<1> DEFINE lo == first - 1
           n == After(data)
           Cuts(f) == [r \in lo..last |-> IF r = lo THEN begin
                            ELSE movebefore(data, r + 1, f[r - 1], n)]
           cut == CHOOSE f : f = Cuts(f)
<1>1. n \in Nat /\ begin \in 1..n /\ lo \in Int /\ lo <= last
  <2>1. data \in Seq(AnyPacket)
    BY DEF Lists, Enumerates
  <2> QED BY <2>1 DEF After, IsCut
<1>2. cut = Cuts(cut)
  <2> DEFINE step == [i \in (lo + 1)..last |->
                        [x \in 1..n |-> movebefore(data, i + 1, x, n)]]
  <2>1. step \in [(lo + 1)..last -> [1..n -> 1..n]]
    BY <1>1, MoveBeforeInside
  <2> HIDE DEF n, lo
  <2>2. PICK f \in [lo..last -> 1..n] :
            /\ f[lo] = begin
            /\ \A i \in (lo + 1)..last : f[i] = step[i][f[i - 1]]
    <3> DEFINE P == 1..n
    <3>1. begin \in P /\ step \in [(lo + 1)..last -> [P -> P]]
      BY <1>1, <2>1
    <3> HIDE DEF step, P
    <3>2. \E f : Recursion(f, P, lo, last, begin, step)
      BY <1>1, <3>1, RecursiveFunction
    <3> QED BY <3>2 DEF P, Recursion
  <2>3. ASSUME NEW i \in lo..last PROVE f[i] = Cuts(f)[i]
    <3>1. CASE i = lo
      BY <3>1, <2>2
    <3>2. CASE i # lo
      <4>1. i \in (lo + 1)..last /\ i - 1 \in lo..last
        BY <3>2, <1>1
      <4>2. f[i - 1] \in 1..n
        BY <4>1
      <4> QED BY <3>2, <4>1, <4>2, <2>2
    <3> QED BY <3>1, <3>2
  <2>4. f = Cuts(f)
    BY <2>3
  <2> QED BY <2>4
<1> HIDE DEF cut
<1>3. IsCut(data, cut[lo], lo + 1)
  <2>1. cut[lo] = begin /\ lo + 1 = first
    BY <1>1, <1>2
  <2> QED BY <2>1
<1>4. ASSUME NEW r \in first..last, IsCut(data, cut[r - 1], r)
      PROVE  IsCut(data, cut[r], r + 1) /\ cut[r - 1] <= cut[r]
  <2>1. cut[r] = movebefore(data, r + 1, cut[r - 1], n)
    BY <1>1, <1>2
  <2>2. r + 1 \in Int /\ r \in Int /\ r <= r + 1
    OBVIOUS
  <2> QED BY <1>4, <2>1, <2>2, MoveBefore
<1>5. \A r \in lo..last : IsCut(data, cut[r], r + 1)
  <2> DEFINE T == {r \in lo..last : IsCut(data, cut[r], r + 1)}
  <2>1. lo \in T
    BY <1>1, <1>3
  <2>2. ASSUME NEW r \in lo..(last - 1), r \in T PROVE r + 1 \in T
    <3>1. r + 1 \in first..last /\ r + 1 \in lo..last /\ (r + 1) - 1 = r
      BY <1>1
    <3>2. IsCut(data, cut[(r + 1) - 1], r + 1)
      BY <2>2, <3>1
    <3> QED BY <3>1, <3>2, <1>4
  <2>3. \A r \in lo..last : r \in T
    <3> HIDE DEF T, lo
    <3> QED BY <1>1, <2>1, <2>2, IntervalInduction
  <2> QED BY <2>3
<1>6. IsCut(data, cut[q - 1], q)
  <2>1. q - 1 \in lo..last /\ (q - 1) + 1 = q
    OBVIOUS
  <2> QED BY <2>1, <1>5
<1>7. IsCut(data, cut[q], q + 1) /\ cut[q - 1] <= cut[q]
  BY <1>4, <1>6
<1>8. Lists(Part(data, cut[q - 1], cut[q]), {p \in S : q <= p.to /\ p.to < q + 1})
  <2>1. q \in Int /\ q + 1 \in Int
    OBVIOUS
  <2> QED BY <1>6, <1>7, <2>1, PartLists
<1>9. {p \in S : q <= p.to /\ p.to < q + 1} = For(S, q)
  <2>1. \A p \in S : p.to \in Int
    BY MemberFacts DEF Lists
  <2> QED BY <2>1 DEF For
<1>10. Parts(data, first, last, begin, After(data))[q]
        = Part(data, cut[q - 1], cut[q])
  BY DEF Parts, cut
<1> QED BY <1>8, <1>9, <1>10

LEMMA ConcatEnumerates ==
    ASSUME NEW a, NEW b, NEW A, NEW B,
           Enumerates(a, A), Enumerates(b, B), A \cap B = {}
    PROVE  Enumerates(a \o b, A \cup B)
<1>1. a \in Seq(AnyPacket) /\ b \in Seq(AnyPacket) /\ Len(a) \in Nat /\ Len(b) \in Nat
  BY DEF Enumerates
<1> DEFINE c == a \o b
<1>2. /\ c \in Seq(AnyPacket) /\ Len(c) = Len(a) + Len(b)
      /\ \A i \in 1..Len(c) : c[i] = IF i <= Len(a) THEN a[i] ELSE b[i - Len(a)]
  BY <1>1
<1>3. /\ A = {a[i] : i \in 1..Len(a)} /\ B = {b[i] : i \in 1..Len(b)}
      /\ ToSet(c) = {c[i] : i \in 1..Len(c)}
  BY <1>1, <1>2, PacketFacts DEF Enumerates
<1> HIDE DEF c
<1>4. ASSUME NEW i \in 1..Len(c)
      PROVE  \/ i \in 1..Len(a) /\ c[i] = a[i] /\ c[i] \in A
             \/ /\ i - Len(a) \in 1..Len(b) /\ c[i] = b[i - Len(a)]
                /\ c[i] \in B
  BY <1>1, <1>2, <1>3
<1>5. ASSUME NEW p \in A \cup B PROVE \E i \in 1..Len(c) : p = c[i]
  <2>1. CASE p \in A
    <3>1. PICK i \in 1..Len(a) : p = a[i]
      BY <2>1, <1>3
    <3> QED BY <3>1, <1>1, <1>2
  <2>2. CASE p \in B
    <3>1. PICK i \in 1..Len(b) : p = b[i]
      BY <2>2, <1>3
    <3>2. /\ i + Len(a) \in 1..Len(c) /\ ~(i + Len(a) <= Len(a))
          /\ (i + Len(a)) - Len(a) = i
      BY <1>1, <1>2
    <3> QED BY <3>1, <3>2, <1>2
  <2> QED BY <2>1, <2>2
<1>6. ASSUME NEW i \in 1..Len(c), NEW j \in 1..Len(c), i # j PROVE c[i] # c[j]
  <2>1. i - Len(a) # j - Len(a)
    BY <1>1, <1>6
  <2> QED BY <2>1, <1>4, <1>6 DEF Enumerates
<1>7. ToSet(c) = A \cup B
  <2>1. \A i \in 1..Len(c) : c[i] \in A \cup B
    BY <1>4
  <2>2. ToSet(c) \subseteq A \cup B
    BY <2>1, <1>3
  <2>3. A \cup B \subseteq ToSet(c)
    BY <1>3, <1>5
  <2> QED BY <2>2, <2>3
<1> QED BY <1>2, <1>6, <1>7 DEF Enumerates, c

LEMMA ConcatLists ==
    ASSUME NEW a, NEW b, NEW A, NEW B,
           Lists(a, A), Lists(b, B), A \cap B = {},
           \A p \in A : \A q \in B : p.to <= q.to
    PROVE  Lists(a \o b, A \cup B)
<1>1. a \in Seq(AnyPacket) /\ b \in Seq(AnyPacket) /\ Len(a) \in Nat /\ Len(b) \in Nat
  BY DEF Lists, Enumerates
<1> DEFINE c == a \o b
<1>2. /\ Len(c) = Len(a) + Len(b)
      /\ \A i \in 1..Len(c) : c[i] = IF i <= Len(a) THEN a[i] ELSE b[i - Len(a)]
  BY <1>1
<1>3. A = {a[i] : i \in 1..Len(a)} /\ B = {b[i] : i \in 1..Len(b)}
  BY <1>1, PacketFacts DEF Lists, Enumerates
<1>4. Enumerates(c, A \cup B)
  BY ConcatEnumerates DEF Lists
<1> HIDE DEF c
<1>5. ASSUME NEW i \in 1..Len(c), NEW j \in 1..Len(c), i < j
      PROVE  c[i].to <= c[j].to
  <2>1. CASE j <= Len(a)
    <3>1. i \in 1..Len(a) /\ j \in 1..Len(a)
      BY <2>1, <1>1, <1>5
    <3> QED BY <3>1, <1>2, <1>5 DEF Lists
  <2>2. CASE ~(i <= Len(a))
    <3>1. /\ i - Len(a) \in 1..Len(b) /\ j - Len(a) \in 1..Len(b)
          /\ i - Len(a) < j - Len(a) /\ ~(j <= Len(a))
      BY <2>2, <1>1, <1>2, <1>5
    <3> QED BY <3>1, <2>2, <1>2 DEF Lists
  <2>3. CASE i <= Len(a) /\ ~(j <= Len(a))
    <3>1. i \in 1..Len(a) /\ j - Len(a) \in 1..Len(b)
      BY <2>3, <1>1, <1>2
    <3>2. a[i] \in A /\ b[j - Len(a)] \in B
      BY <3>1, <1>3
    <3> QED BY <3>2, <2>3, <1>2
  <2> QED BY <2>1, <2>2, <2>3
<1> QED BY <1>4, <1>5 DEF Lists, c

\* What FlattenSeq computes, place by place.
Flattening(f, parts) ==
    /\ f[1] = parts[1]
    /\ \A i \in 2..Len(parts) : f[i] = f[i - 1] \o parts[i]
    /\ FlattenSeq(parts) = f[Len(parts)]

LEMMA FlattenFunction ==
    ASSUME NEW parts \in Seq(Seq(AnyPacket)), Len(parts) >= 1
    PROVE  \E f : Flattening(f, parts)
<1> DEFINE n == Len(parts)
<1> n \in Nat /\ n >= 1
  OBVIOUS
<1> HIDE DEF n
<1> DEFINE Flat(f) == [i \in 1..n |->
                        IF i = 1 THEN parts[i] ELSE f[i - 1] \o parts[i]]
           g == CHOOSE f : f = Flat(f)
<1>1. \A i \in 1..n : parts[i] \in Seq(AnyPacket)
  BY DEF n
<1>2. g = Flat(g)
  <2> DEFINE P == Seq(AnyPacket)
             step == [i \in 2..n |-> [x \in P |-> x \o parts[i]]]
  <2>1. step \in [2..n -> [P -> P]] /\ parts[1] \in P
    BY <1>1
  <2>2. PICK f : Recursion(f, P, 1, n, parts[1], step)
    <3> HIDE DEF step, P
    <3>1. 1 + 1 = 2 /\ 1 \in Int /\ n \in Int /\ 1 <= n
      OBVIOUS
    <3>2. step \in [(1 + 1)..n -> [P -> P]]
      BY <2>1, <3>1
    <3> QED BY <2>1, <3>1, <3>2, RecursiveFunction
  <2>3. /\ f \in [1..n -> P] /\ f[1] = parts[1]
        /\ \A i \in 2..n : f[i] = step[i][f[i - 1]]
    <3>1. \A i \in 2..n : i \in (1 + 1)..n
      OBVIOUS
    <3> HIDE DEF step, P
    <3> QED BY <3>1, <2>2 DEF Recursion
  <2>4. ASSUME NEW i \in 1..n PROVE f[i] = Flat(f)[i]
    <3>1. CASE i = 1
      BY <3>1, <2>3
    <3>2. CASE i # 1
      <4>1. i \in 2..n /\ i - 1 \in 1..n
        BY <3>2
      <4>2. f[i - 1] \in P
        BY <4>1, <2>3
      <4>3. f[i] = f[i - 1] \o parts[i]
        BY <4>1, <4>2, <2>3
      <4> QED BY <3>2, <4>3
    <3> QED BY <3>1, <3>2
  <2>5. f = Flat(f)
    BY <2>3, <2>4
  <2> QED BY <2>5
<1>3. FlattenSeq(parts) = g[n]
  BY DEF FlattenSeq, n
<1> HIDE DEF g
<1>4. g[1] = parts[1] /\ \A i \in 2..n : g[i] = g[i - 1] \o parts[i]
  <2>1. 1 \in 1..n /\ \A i \in 2..n : i \in 1..n /\ i # 1
    OBVIOUS
  <2>2. \A i \in 1..n :
            g[i] = IF i = 1 THEN parts[i] ELSE g[i - 1] \o parts[i]
    BY <1>2
  <2> QED BY <2>1, <2>2
<1> QED BY <1>3, <1>4 DEF Flattening, n

LEMMA FlattenShort ==
    ASSUME NEW a \in Seq(AnyPacket), NEW b \in Seq(AnyPacket)
    PROVE  FlattenSeq(<<a>>) = a /\ FlattenSeq(<<a, b>>) = a \o b
<1>1. FlattenSeq(<<a>>) = a
  <2> DEFINE parts == <<a>>
  <2>1. parts \in Seq(Seq(AnyPacket)) /\ Len(parts) = 1 /\ parts[1] = a /\ 1 <= Len(parts)
    OBVIOUS
  <2> HIDE DEF parts
  <2>2. PICK f : Flattening(f, parts)
    BY <2>1, FlattenFunction
  <2>3. FlattenSeq(parts) = a
    BY <2>1, <2>2 DEF Flattening
  <2> QED BY <2>3 DEF parts
<1>2. FlattenSeq(<<a, b>>) = a \o b
  <2> DEFINE parts == <<a, b>>
  <2>1. /\ parts \in Seq(Seq(AnyPacket)) /\ Len(parts) = 2
        /\ Len(parts) >= 1
        /\ parts[1] = a /\ parts[2] = b /\ 2 \in 2..2 /\ 2 - 1 = 1
    OBVIOUS
  <2> HIDE DEF parts
  <2>2. PICK f : Flattening(f, parts)
    BY <2>1, FlattenFunction
  <2>3. FlattenSeq(parts) = f[2] /\ f[2] = f[2 - 1] \o parts[2] /\ f[1] = a
    BY <2>1, <2>2 DEF Flattening
  <2>4. FlattenSeq(parts) = a \o b
    BY <2>1, <2>3
  <2> QED BY <2>4 DEF parts
<1> QED BY <1>1, <1>2

\* Lists for ascending targets, one after the other, are one list.
LEMMA FlattenLists ==
    ASSUME NEW parts \in Seq(Seq(AnyPacket)), NEW n \in Nat, n >= 1,
           Len(parts) = n, NEW S,
           \A i \in 1..n : Lists(parts[i], S[i]),
           \A i, j \in 1..n : i < j =>
                \A p \in S[i] : \A q \in S[j] : p.to < q.to
    PROVE  Lists(FlattenSeq(parts), UNION {S[i] : i \in 1..n})
<1>1. PICK f : /\ f[1] = parts[1]
               /\ \A i \in 2..n : f[i] = f[i - 1] \o parts[i]
               /\ FlattenSeq(parts) = f[n]
  BY FlattenFunction DEF Flattening
<1> DEFINE U(k) == UNION {S[i] : i \in 1..k}
           T == {k \in 1..n : Lists(f[k], U(k))}
<1>2. \A i \in 1..n : \A p \in S[i] : p.to \in Int
  BY MemberFacts DEF Lists
<1>3. 1 \in T
  <2>1. 1 \in 1..n /\ 1..1 = {1}
    OBVIOUS
  <2>2. U(1) = S[1]
    BY <2>1
  <2> QED BY <1>1, <2>1, <2>2
<1>4. ASSUME NEW k \in 1..(n - 1), k \in T PROVE k + 1 \in T
  <2>1. k + 1 \in 2..n /\ k + 1 \in 1..n /\ (k + 1) - 1 = k /\ k \in 1..n
    OBVIOUS
  <2>2. f[k + 1] = f[k] \o parts[k + 1]
    BY <1>1, <2>1
  <2>3. \A p \in U(k) : \A q \in S[k + 1] :
            p.to < q.to /\ p.to \in Int /\ q.to \in Int
    <3> SUFFICES ASSUME NEW i \in 1..k, NEW p \in S[i], NEW q \in S[k + 1]
                 PROVE  p.to < q.to /\ p.to \in Int /\ q.to \in Int
      OBVIOUS
    <3>1. i \in 1..n /\ i < k + 1
      BY <2>1
    <3> QED BY <3>1, <2>1, <1>2
  <2>4. U(k + 1) = U(k) \cup S[k + 1]
    <3>1. 1..(k + 1) = 1..k \cup {k + 1}
      OBVIOUS
    <3> QED BY <3>1
  <2>5. Lists(f[k], U(k)) /\ Lists(parts[k + 1], S[k + 1])
    BY <1>4, <2>1
  <2> HIDE DEF U
  <2>6. /\ U(k) \cap S[k + 1] = {}
        /\ \A p \in U(k) : \A q \in S[k + 1] : p.to <= q.to
    BY <2>3, SMTT(20)
  <2>7. Lists(f[k] \o parts[k + 1], U(k) \cup S[k + 1])
    BY <2>5, <2>6, ConcatLists
  <2>8. Lists(f[k + 1], U(k + 1))
    BY <2>2, <2>4, <2>7
  <2> QED BY <2>1, <2>8
<1>5. n \in T
  <2> HIDE DEF T
  <2>1. 1 \in Int /\ n \in Int /\ n \in 1..n
    OBVIOUS
  <2>2. \A k \in 1..n : k \in T
    BY <2>1, <1>3, <1>4, IntervalInduction
  <2> QED BY <2>1, <2>2
<1> QED BY <1>1, <1>5

-----------------------------------------------------------------------------
(* What the processes do, as functions of the level alone: the range that  *)
(* process r of n is in, and the process that has the packet from s to t.  *)

Interval(n) == [left : 0..n, right : 0..n]
In(r, g) == g.left <= r /\ r < g.right

Middle(g) == LET n == g.right - g.left IN (g.left + (n \div 2)) + (n % 2)

Half(g, r) == IF r < Middle(g) THEN [g EXCEPT !.right = Middle(g)]
              ELSE [g EXCEPT !.left = Middle(g)]

RangeAt(n, r) ==
    LET f[k \in 0..n] == IF k = 0 THEN [left |-> 0, right |-> n]
                         ELSE Half(f[k - 1], r)
    IN f

\* The process to which h sends what is for the other half of its range.
Other(g, h) ==
    LET lower == Middle(g) - g.left
    IN IF h < Middle(g) THEN IF h + lower < g.right THEN h + lower ELSE Middle(g)
       ELSE h - lower

SameHalf(g, h, t) == h < Middle(g) <=> t < Middle(g)
Forward(g, h, t) == IF SameHalf(g, h, t) THEN h ELSE Other(g, h)

HolderAt(n, s, t) ==
    LET f[k \in 0..n] == IF k = 0 THEN s
                         ELSE Forward(RangeAt(n, t)[k - 1], f[k - 1], t)
    IN f

LEMMA Halving ==
    ASSUME NEW n \in Nat, n >= 1
    PROVE  /\ n \div 2 \in Int /\ n % 2 \in Int /\ (n \div 2) + (n % 2) \in Nat
           /\ n <= 2 * ((n \div 2) + (n % 2))
           /\ 2 * ((n \div 2) + (n % 2)) <= n + 1
<1>1. n % 2 \in 0..1
  OBVIOUS
<1>2. n = 2 * (n \div 2) + (n % 2) /\ n \div 2 \in Nat
  OBVIOUS
<1> DEFINE a == n \div 2
           b == n % 2
<1>3. a \in Nat /\ b \in 0..1 /\ n = 2 * a + b
  BY <1>1, <1>2
<1> HIDE DEF a, b
<1>4. a \in Int /\ b \in Int /\ a + b \in Nat /\ n <= 2 * (a + b) /\ 2 * (a + b) <= n + 1
  BY <1>3
<1> QED BY <1>4 DEF a, b

LEMMA MiddleFacts ==
    ASSUME NEW g, g.left \in Int, g.right \in Int, g.left < g.right
    PROVE  /\ Middle(g) \in Int /\ g.left < Middle(g) /\ Middle(g) <= g.right
           /\ g.right - Middle(g) <= Middle(g) - g.left
           /\ Middle(g) - g.left <= g.right - Middle(g) + 1
           /\ 2 * (Middle(g) - g.left) <= (g.right - g.left) + 1
           /\ g.left + 1 < g.right => Middle(g) < g.right
<1> DEFINE n == g.right - g.left
           a == n \div 2
           b == n % 2
<1>1. n \in Nat /\ n >= 1
  OBVIOUS
<1> HIDE DEF n
<1>2. /\ a \in Int /\ b \in Int /\ a + b \in Nat
      /\ n <= 2 * (a + b) /\ 2 * (a + b) <= n + 1
  BY <1>1, Halving
<1>3. Middle(g) = (g.left + a) + b
  BY DEF Middle, n
<1> HIDE DEF a, b
<1> QED BY <1>2, <1>3 DEF n

LEMMA HalfFacts ==
    ASSUME NEW n \in Nat, NEW r \in Int, NEW g \in Interval(n), In(r, g)
    PROVE  /\ Half(g, r) \in Interval(n) /\ In(r, Half(g, r))
           /\ g.left <= Half(g, r).left /\ Half(g, r).right <= g.right
           /\ 2 * (Half(g, r).right - Half(g, r).left) <= (g.right - g.left) + 1
           /\ \A q \in Int : In(q, Half(g, r)) =>
                SameHalf(g, q, r) /\ Half(g, q) = Half(g, r)
           /\ \A q \in Int : In(q, g) /\ SameHalf(g, q, r) => In(q, Half(g, r))
<1> DEFINE m == Middle(g)
<1>1. /\ g.left \in 0..n /\ g.right \in 0..n /\ g.left < g.right
      /\ g = [left |-> g.left, right |-> g.right]
  BY DEF Interval, In
<1>2. /\ m \in Int /\ g.left < m /\ m <= g.right
      /\ g.right - m <= m - g.left
      /\ 2 * (m - g.left) <= (g.right - g.left) + 1
  BY <1>1, MiddleFacts
<1> HIDE DEF m
<1>3. m \in 0..n
  BY <1>1, <1>2
<1>4. CASE r < m
  <2>1. Half(g, r) = [left |-> g.left, right |-> m]
    BY <1>1, <1>4 DEF Half, m
  <2>2. \A q \in Int : q < m => Half(g, q) = [left |-> g.left, right |-> m]
    BY <1>1 DEF Half, m
  <2>3. \A q : SameHalf(g, q, r) <=> q < m
    BY <1>4 DEF SameHalf, m
  <2> QED BY <1>1, <1>2, <1>3, <1>4, <2>1, <2>2, <2>3 DEF In, Interval
<1>5. CASE ~(r < m)
  <2>1. Half(g, r) = [left |-> m, right |-> g.right]
    BY <1>1, <1>5 DEF Half, m
  <2>2. \A q \in Int : ~(q < m) => Half(g, q) = [left |-> m, right |-> g.right]
    BY <1>1 DEF Half, m
  <2>3. \A q : SameHalf(g, q, r) <=> ~(q < m)
    BY <1>5 DEF SameHalf, m
  <2> QED BY <1>1, <1>2, <1>3, <1>5, <2>1, <2>2, <2>3 DEF In, Interval
<1> QED BY <1>4, <1>5

LEMMA RangeTable ==
    ASSUME NEW n \in Nat, NEW r \in 0..(n - 1)
    PROVE  /\ RangeAt(n, r)[0] = [left |-> 0, right |-> n]
           /\ \A k \in 0..(n - 1) :
                RangeAt(n, r)[k + 1] = Half(RangeAt(n, r)[k], r)
           /\ \A k \in 0..n : /\ RangeAt(n, r)[k] \in Interval(n)
                              /\ In(r, RangeAt(n, r)[k])
<1> DEFINE all == [left |-> 0, right |-> n]
           S == {g \in Interval(n) : In(r, g)}
           R(f) == [k \in 0..n |-> IF k = 0 THEN all ELSE Half(f[k - 1], r)]
           t == CHOOSE f : f = R(f)
<1>1. all \in S
  BY DEF Interval, In
<1>2. \A g \in S : Half(g, r) \in S
  BY HalfFacts
<1>3. t = R(t)
  <2> DEFINE step == [k \in 1..n |-> [g \in S |-> Half(g, r)]]
  <2>1. step \in [1..n -> [S -> S]]
    BY <1>2
  <2>2. PICK f : Recursion(f, S, 0, n, all, step)
    <3> HIDE DEF step, S, all
    <3>1. 0 \in Int /\ n \in Int /\ 0 <= n /\ 0 + 1 = 1
      OBVIOUS
    <3>2. step \in [(0 + 1)..n -> [S -> S]]
      BY <2>1, <3>1
    <3> QED BY <1>1, <3>1, <3>2, RecursiveFunction
  <2>3. /\ f \in [0..n -> S] /\ f[0] = all
        /\ \A k \in 1..n : f[k] = step[k][f[k - 1]]
    <3>1. \A k \in 1..n : k \in (0 + 1)..n
      OBVIOUS
    <3> HIDE DEF step, S, all
    <3> QED BY <2>2, <3>1 DEF Recursion
  <2>4. ASSUME NEW k \in 0..n PROVE f[k] = R(f)[k]
    <3>1. CASE k = 0
      BY <3>1, <2>3
    <3>2. CASE k # 0
      <4>1. k \in 1..n /\ k - 1 \in 0..n
        BY <3>2
      <4>2. f[k - 1] \in S
        BY <2>3, <4>1
      <4>3. f[k] = Half(f[k - 1], r)
        BY <2>3, <4>1, <4>2
      <4> QED BY <3>2, <4>3
    <3> QED BY <3>1, <3>2
  <2>5. f = R(f)
    BY <2>3, <2>4
  <2> QED BY <2>5
<1>4. RangeAt(n, r) = t
  BY DEF RangeAt
<1> HIDE DEF t
<1>5. t[0] = all
  BY <1>3
<1>6. ASSUME NEW k \in 0..(n - 1) PROVE t[k + 1] = Half(t[k], r)
  <2>1. k + 1 \in 0..n /\ k + 1 # 0 /\ (k + 1) - 1 = k
    OBVIOUS
  <2> QED BY <1>3, <2>1
<1>7. \A k \in 0..n : t[k] \in S
  <2> DEFINE T == {k \in 0..n : t[k] \in S}
  <2>1. 0 \in T
    BY <1>1, <1>5
  <2>2. \A k \in 0..(n - 1) : k \in T => k + 1 \in T
    BY <1>2, <1>6
  <2>3. \A k \in 0..n : k \in T
    <3> HIDE DEF T
    <3> QED BY <2>1, <2>2, IntervalInduction
  <2> QED BY <2>3
<1> QED BY <1>4, <1>5, <1>6, <1>7

\* Processes of one range agree on it.
LEMMA SameRange ==
    ASSUME NEW n \in Nat, NEW r \in 0..(n - 1), NEW q \in 0..(n - 1),
           NEW k \in 0..n, In(q, RangeAt(n, r)[k])
    PROVE  RangeAt(n, q)[k] = RangeAt(n, r)[k]
<1> DEFINE T == {i \in 0..n : In(q, RangeAt(n, r)[i]) =>
                                RangeAt(n, q)[i] = RangeAt(n, r)[i]}
<1>1. 0 \in T
  <2>1. RangeAt(n, q)[0] = [left |-> 0, right |-> n]
    BY RangeTable
  <2>2. RangeAt(n, r)[0] = [left |-> 0, right |-> n]
    BY RangeTable
  <2>3. 0 \in 0..n
    OBVIOUS
  <2> QED BY <2>1, <2>2, <2>3
<1>2. ASSUME NEW i \in 0..(n - 1), i \in T PROVE i + 1 \in T
  <2>1. i \in 0..n /\ i + 1 \in 0..n /\ r \in Int /\ q \in Int
    OBVIOUS
  <2> SUFFICES ASSUME In(q, RangeAt(n, r)[i + 1])
               PROVE  RangeAt(n, q)[i + 1] = RangeAt(n, r)[i + 1]
    BY <2>1
  <2> DEFINE g == RangeAt(n, r)[i]
  <2>2. /\ g \in Interval(n) /\ In(r, g)
        /\ RangeAt(n, r)[i + 1] = Half(g, r)
        /\ RangeAt(n, q)[i + 1] = Half(RangeAt(n, q)[i], q)
    BY <2>1, RangeTable
  <2>3. In(q, Half(g, r))
    BY <2>2
  <2>4. Half(g, q) = Half(g, r) /\ In(q, g)
    <3> HIDE DEF g
    <3>1. /\ Half(g, q) = Half(g, r) /\ Half(g, r) \in Interval(n)
          /\ g.left <= Half(g, r).left /\ Half(g, r).right <= g.right
      BY <2>1, <2>2, <2>3, HalfFacts
    <3> QED BY <2>1, <2>2, <2>3, <3>1 DEF In, Interval
  <2>5. RangeAt(n, q)[i] = g
    BY <1>2, <2>4
  <2> QED BY <2>2, <2>4, <2>5
<1>3. \A i \in 0..n : i \in T
  <2> HIDE DEF T
  <2>1. 0 \in Int /\ n \in Int
    OBVIOUS
  <2> QED BY <1>1, <1>2, <2>1, IntervalInduction
<1> QED BY <1>3

\* A range contains the later ones.
LEMMA NestedRanges ==
    ASSUME NEW n \in Nat, NEW r \in 0..(n - 1), NEW q \in Int,
           NEW i \in 0..n, NEW j \in i..n, In(q, RangeAt(n, r)[j])
    PROVE  In(q, RangeAt(n, r)[i])
<1> DEFINE T == {k \in i..n : In(q, RangeAt(n, r)[k]) => In(q, RangeAt(n, r)[i])}
<1>1. i \in T
  OBVIOUS
<1>2. ASSUME NEW k \in i..(n - 1), k \in T PROVE k + 1 \in T
  <2>1. k \in 0..(n - 1) /\ k \in 0..n /\ k + 1 \in i..n /\ r \in Int
    OBVIOUS
  <2> DEFINE g == RangeAt(n, r)[k]
  <2>2. g \in Interval(n) /\ In(r, g) /\ RangeAt(n, r)[k + 1] = Half(g, r)
    BY <2>1, RangeTable
  <2> HIDE DEF g
  <2>3. /\ Half(g, r) \in Interval(n)
        /\ g.left <= Half(g, r).left /\ Half(g, r).right <= g.right
    BY <2>1, <2>2, HalfFacts
  <2>4. In(q, Half(g, r)) => In(q, g)
    BY <2>2, <2>3 DEF In, Interval
  <2> QED BY <2>1, <2>2, <2>4, <1>2 DEF g
<1>3. \A k \in i..n : k \in T
  <2> HIDE DEF T
  <2> QED BY <1>1, <1>2, IntervalInduction
<1> QED BY <1>3

LEMMA OtherFacts ==
    ASSUME NEW n \in Nat, NEW g \in Interval(n), NEW h \in Int, In(h, g),
           g.left + 1 < g.right
    PROVE  /\ In(Other(g, h), g) /\ Other(g, h) \in Int
           /\ ~SameHalf(g, h, Other(g, h))
<1> DEFINE m == Middle(g)
<1>1. g.left \in Int /\ g.right \in Int /\ g.left <= h /\ h < g.right
  BY DEF Interval, In
<1>2. /\ m \in Int /\ g.left < m /\ m < g.right
      /\ g.right - m <= m - g.left /\ m - g.left <= g.right - m + 1
  BY <1>1, MiddleFacts
<1> HIDE DEF m
<1>3. Other(g, h) = IF h < m THEN IF h + (m - g.left) < g.right
                                  THEN h + (m - g.left) ELSE m
                    ELSE h - (m - g.left)
  BY DEF Other, m
<1>4. SameHalf(g, h, Other(g, h)) <=> (h < m <=> Other(g, h) < m)
  BY DEF SameHalf, m
<1> QED BY <1>1, <1>2, <1>3, <1>4 DEF In

LEMMA ForwardFacts ==
    ASSUME NEW n \in Nat, NEW g \in Interval(n),
           NEW h \in Int, In(h, g), NEW t \in Int, In(t, g)
    PROVE  In(Forward(g, h, t), Half(g, t)) /\ Forward(g, h, t) \in Int
<1>1. \A q \in Int : In(q, g) /\ SameHalf(g, q, t) => In(q, Half(g, t))
  BY HalfFacts
<1>2. CASE SameHalf(g, h, t)
  BY <1>1, <1>2 DEF Forward
<1>3. CASE ~SameHalf(g, h, t)
  <2>1. g.left \in Int /\ g.right \in Int /\ g.left <= h /\ h < g.right
    BY DEF Interval, In
  <2>2. g.left <= t /\ t < g.right
    BY DEF Interval, In
  <2>3. g.left + 1 < g.right
    BY <1>3, <2>1, <2>2 DEF SameHalf
  <2>4. /\ In(Other(g, h), g) /\ Other(g, h) \in Int
        /\ ~SameHalf(g, h, Other(g, h))
    BY <2>3, OtherFacts
  <2>5. SameHalf(g, Other(g, h), t)
    BY <1>3, <2>4 DEF SameHalf
  <2> QED BY <1>1, <1>3, <2>4, <2>5 DEF Forward
<1> QED BY <1>2, <1>3

\* A packet is always in the range of its target.
LEMMA HolderTable ==
    ASSUME NEW n \in Nat, NEW s \in 0..(n - 1), NEW t \in 0..(n - 1)
    PROVE  /\ HolderAt(n, s, t)[0] = s
           /\ \A k \in 0..(n - 1) : HolderAt(n, s, t)[k + 1]
                = Forward(RangeAt(n, t)[k], HolderAt(n, s, t)[k], t)
           /\ \A k \in 0..n : /\ HolderAt(n, s, t)[k] \in Int
                              /\ In(HolderAt(n, s, t)[k], RangeAt(n, t)[k])
<1> DEFINE H(f) == [k \in 0..n |-> IF k = 0 THEN s
                            ELSE Forward(RangeAt(n, t)[k - 1], f[k - 1], t)]
           u == CHOOSE f : f = H(f)
<1>1. \A k \in 0..n : /\ RangeAt(n, t)[k] \in Interval(n)
                      /\ In(t, RangeAt(n, t)[k])
  BY RangeTable
<1>2. u = H(u)
  <2> DEFINE step == [k \in 1..n |->
                        [h \in Int |-> Forward(RangeAt(n, t)[k - 1], h, t)]]
  <2>1. \A k \in 1..n : \A h \in Int : Forward(RangeAt(n, t)[k - 1], h, t) \in Int
    <3> SUFFICES ASSUME NEW k \in 1..n, NEW h \in Int
                 PROVE  Forward(RangeAt(n, t)[k - 1], h, t) \in Int
      OBVIOUS
    <3> DEFINE g == RangeAt(n, t)[k - 1]
    <3>1. k - 1 \in 0..n
      OBVIOUS
    <3>2. g \in Interval(n) /\ In(t, g)
      BY <1>1, <3>1
    <3> HIDE DEF g
    <3>3. g.left \in Int /\ g.right \in Int /\ g.left < g.right
      BY <3>2 DEF Interval, In
    <3>4. Middle(g) \in Int
      BY <3>3, MiddleFacts
    <3>5. Other(g, h) \in Int
      BY <3>3, <3>4 DEF Other
    <3>6. Forward(g, h, t) \in Int
      BY <3>5 DEF Forward
    <3> QED BY <3>6 DEF g
  <2>2. step \in [1..n -> [Int -> Int]]
    BY <2>1
  <2>3. PICK f : Recursion(f, Int, 0, n, s, step)
    <3> HIDE DEF step
    <3>1. 0 \in Int /\ n \in Int /\ 0 <= n /\ 0 + 1 = 1 /\ s \in Int
      OBVIOUS
    <3>2. step \in [(0 + 1)..n -> [Int -> Int]]
      BY <2>2, <3>1
    <3> QED BY <3>1, <3>2, RecursiveFunction
  <2>4. /\ f \in [0..n -> Int] /\ f[0] = s
        /\ \A k \in 1..n : f[k] = step[k][f[k - 1]]
    <3>1. \A k \in 1..n : k \in (0 + 1)..n
      OBVIOUS
    <3> HIDE DEF step
    <3> QED BY <2>3, <3>1 DEF Recursion
  <2>5. ASSUME NEW k \in 0..n PROVE f[k] = H(f)[k]
    <3>1. CASE k = 0
      BY <3>1, <2>4
    <3>2. CASE k # 0
      <4>1. k \in 1..n /\ k - 1 \in 0..n
        BY <3>2
      <4>2. f[k - 1] \in Int
        BY <2>4, <4>1
      <4>3. f[k] = Forward(RangeAt(n, t)[k - 1], f[k - 1], t)
        BY <2>4, <4>1, <4>2
      <4> QED BY <3>2, <4>3
    <3> QED BY <3>1, <3>2
  <2>6. f = H(f)
    BY <2>4, <2>5
  <2> QED BY <2>6
<1>4. HolderAt(n, s, t) = u
  BY DEF HolderAt
<1> HIDE DEF u
<1>5. u[0] = s
  BY <1>2
<1>6. ASSUME NEW k \in 0..(n - 1)
      PROVE  u[k + 1] = Forward(RangeAt(n, t)[k], u[k], t)
  <2>1. k + 1 \in 0..n /\ k + 1 # 0 /\ (k + 1) - 1 = k
    OBVIOUS
  <2> QED BY <1>2, <2>1
<1>7. \A k \in 0..n : u[k] \in Int /\ In(u[k], RangeAt(n, t)[k])
  <2> DEFINE T == {k \in 0..n : u[k] \in Int /\ In(u[k], RangeAt(n, t)[k])}
  <2>1. 0 \in T
    <3>1. 0 \in 0..n /\ s \in Int /\ 0 <= s /\ s < n
      OBVIOUS
    <3>2. RangeAt(n, t)[0] = [left |-> 0, right |-> n]
      BY RangeTable
    <3> QED BY <1>5, <3>1, <3>2 DEF In
  <2>2. ASSUME NEW k \in 0..(n - 1), k \in T PROVE k + 1 \in T
    <3>1. k \in 0..n /\ k + 1 \in 0..n /\ t \in Int
      OBVIOUS
    <3>2. /\ In(Forward(RangeAt(n, t)[k], u[k], t), Half(RangeAt(n, t)[k], t))
          /\ Forward(RangeAt(n, t)[k], u[k], t) \in Int
      BY <1>1, <2>2, <3>1, ForwardFacts, SMTT(20)
    <3>3. RangeAt(n, t)[k + 1] = Half(RangeAt(n, t)[k], t)
      BY RangeTable
    <3>4. u[k + 1] = Forward(RangeAt(n, t)[k], u[k], t)
      BY <1>6
    <3>5. u[k + 1] \in Int /\ In(u[k + 1], RangeAt(n, t)[k + 1])
      BY <3>2, <3>3, <3>4
    <3> QED BY <3>1, <3>5
  <2>3. \A k \in 0..n : k \in T
    <3> HIDE DEF T
    <3>1. 0 \in Int /\ n \in Int
      OBVIOUS
    <3> QED BY <2>1, <2>2, <3>1, IntervalInduction
  <2> QED BY <2>3
<1> QED BY <1>4, <1>5, <1>6, <1>7

\* Which process has, after a level, a packet for t that h had before it: of
\* the lower half a process without a partner gets nothing, ...
LEMMA ForwardLower ==
    ASSUME NEW n \in Nat, NEW g \in Interval(n), g.left + 1 < g.right,
           NEW r \in Int, In(r, g), r < Middle(g),
           NEW h \in Int, In(h, g), NEW t \in Int, In(t, g)
    PROVE  LET q == r + (Middle(g) - g.left)
           IN Forward(g, h, t) = r
                <=> t < Middle(g) /\ (h = r \/ (q < g.right /\ h = q))
<1> DEFINE m == Middle(g)
<1>1. /\ g.left \in Int /\ g.right \in Int /\ g.left <= h /\ h < g.right
      /\ g.left <= t /\ t < g.right /\ g.left <= r /\ r < g.right
  BY DEF Interval, In
<1>2. /\ m \in Int /\ g.left < m /\ m < g.right
      /\ g.right - m <= m - g.left /\ m - g.left <= g.right - m + 1
  BY <1>1, MiddleFacts
<1> HIDE DEF m
<1>3. Other(g, h) = IF h < m THEN IF h + (m - g.left) < g.right
                                  THEN h + (m - g.left) ELSE m
                    ELSE h - (m - g.left)
  BY DEF Other, m
<1>4. Forward(g, h, t) = IF (h < m <=> t < m) THEN h ELSE Other(g, h)
  BY DEF SameHalf, Forward, m
<1>5. r < m
  BY DEF m
<1>6. LET q == r + (m - g.left)
      IN Forward(g, h, t) = r <=> t < m /\ (h = r \/ (q < g.right /\ h = q))
  BY <1>1, <1>2, <1>3, <1>4, <1>5
<1> QED BY <1>6 DEF m

\* ... and of the upper half the first one may get packets from two.
LEMMA ForwardUpper ==
    ASSUME NEW n \in Nat, NEW g \in Interval(n), g.left + 1 < g.right,
           NEW r \in Int, In(r, g), ~(r < Middle(g)),
           NEW h \in Int, In(h, g), NEW t \in Int, In(t, g)
    PROVE  LET m == Middle(g)
           IN Forward(g, h, t) = r
                <=> /\ ~(t < m)
                    /\ \/ h = r \/ h = r - (m - g.left)
                       \/ m - g.left > g.right - m /\ r = m /\ h = m - 1
<1> DEFINE m == Middle(g)
<1>1. /\ g.left \in Int /\ g.right \in Int /\ g.left <= h /\ h < g.right
      /\ g.left <= t /\ t < g.right /\ g.left <= r /\ r < g.right
  BY DEF Interval, In
<1>2. /\ m \in Int /\ g.left < m /\ m < g.right
      /\ g.right - m <= m - g.left /\ m - g.left <= g.right - m + 1
  BY <1>1, MiddleFacts
<1> HIDE DEF m
<1>3. Other(g, h) = IF h < m THEN IF h + (m - g.left) < g.right
                                  THEN h + (m - g.left) ELSE m
                    ELSE h - (m - g.left)
  BY DEF Other, m
<1>4. Forward(g, h, t) = IF (h < m <=> t < m) THEN h ELSE Other(g, h)
  BY DEF SameHalf, Forward, m
<1>5. ~(r < m)
  BY DEF m
<1>6. Forward(g, h, t) = r
        <=> /\ ~(t < m)
            /\ \/ h = r \/ h = r - (m - g.left)
               \/ m - g.left > g.right - m /\ r = m /\ h = m - 1
  BY <1>1, <1>2, <1>3, <1>4, <1>5
<1> QED BY <1>6 DEF m

-----------------------------------------------------------------------------
(* The packets of a call, as functions of the level: c is what all         *)
(* processes send.                                                         *)

IsCase(c) ==
    /\ c \in Seq(Seq(AnyPacket)) /\ Len(c) \in Nat \ {0}
    /\ \A s \in 1..Len(c) : IsBuffer(c[s], s - 1, Len(c))

Sent(c) == UNION {ToSet(c[s]) : s \in 1..Len(c)}
At(c, p, k) == HolderAt(Len(c), p.from, p.to)[k]
Group(c, r, k) == RangeAt(Len(c), r)[k]

\* What process r has at level k, what of it is still in its send buffer, what
\* in the result, and what it sends away.
Mine(c, r, k) == {p \in Sent(c) : At(c, p, k) = r}
Kept(c, r, k) == {p \in Mine(c, r, k) : k = 0 \/ p.to # r}
Got(c, r, k) == {p \in Mine(c, r, k) : p.to = r}
Moving(c, r, k) ==
    {p \in Mine(c, r, k) : ~SameHalf(Group(c, r, k), r, p.to)}

LEMMA SentFacts ==
    ASSUME NEW c, IsCase(c), NEW p \in Sent(c)
    PROVE  /\ p \in AnyPacket /\ p.to \in 0..(Len(c) - 1)
           /\ p.from \in 0..(Len(c) - 1)
           /\ p \in ToSet(c[p.from + 1])
<1>1. PICK s \in 1..Len(c) : p \in ToSet(c[s])
  BY DEF Sent
<1>2. Len(c) \in Nat /\ s \in Int
  BY DEF IsCase
<1>3. c[s] \in Seq([from : {s - 1}, to : 0..(Len(c) - 1)])
  BY <1>1 DEF IsCase, IsBuffer
<1>4. p \in [from : {s - 1}, to : 0..(Len(c) - 1)]
  <2> DEFINE S == [from : {s - 1}, to : 0..(Len(c) - 1)]
             b == c[s]
  <2>1. b \in Seq(S) /\ p \in ToSet(b)
    BY <1>1, <1>3
  <2> HIDE DEF S, b
  <2>2. PICK i \in 1..Len(b) : p = b[i]
    BY <2>1 DEF ToSet
  <2>3. p \in S
    BY <2>1, <2>2
  <2> QED BY <2>3 DEF S
<1>5. /\ p.from = s - 1 /\ p.to \in 0..(Len(c) - 1)
      /\ p = [from |-> s - 1, to |-> p.to]
  BY <1>4
<1>6. p.from \in 0..(Len(c) - 1) /\ p.from + 1 = s
  BY <1>2, <1>5
<1> QED BY <1>1, <1>2, <1>5, <1>6 DEF AnyPacket

LEMMA PartnerFacts ==
    ASSUME NEW n \in Nat, NEW g \in Interval(n), g.left + 1 < g.right,
           NEW r \in Int, In(r, g)
    PROVE  LET m == Middle(g)
               lower == m - g.left
           IN /\ m \in Int /\ g.left < m /\ m < g.right
              /\ r < m /\ r + lower < g.right =>
                    /\ In(r + lower, g) /\ ~(r + lower < m)
                    /\ Other(g, r) = r + lower /\ Other(g, r + lower) = r
              /\ r < m /\ ~(r + lower < g.right) => Other(g, r) = m /\ r = m - 1
              /\ ~(r < m) =>
                    /\ In(r - lower, g) /\ r - lower < m
                    /\ Other(g, r) = r - lower /\ Other(g, r - lower) = r
              /\ lower > g.right - m =>
                    Other(g, m - 1) = m /\ In(m - 1, g) /\ m - 1 < m
<1> DEFINE m == Middle(g)
           lower == m - g.left
<1>1. g.left \in Int /\ g.right \in Int /\ g.left <= r /\ r < g.right
  BY DEF Interval, In
<1>2. /\ m \in Int /\ g.left < m /\ m < g.right
      /\ g.right - m <= m - g.left /\ m - g.left <= g.right - m + 1
  BY <1>1, MiddleFacts
<1> HIDE DEF m
<1>3. \A h : Other(g, h) = IF h < m THEN IF h + lower < g.right
                                         THEN h + lower ELSE m
                           ELSE h - lower
  BY DEF Other, m
<1>4. r < m /\ r + lower < g.right =>
        /\ In(r + lower, g) /\ ~(r + lower < m)
        /\ Other(g, r) = r + lower /\ Other(g, r + lower) = r
  BY <1>1, <1>2, <1>3 DEF In
<1>5. r < m /\ ~(r + lower < g.right) => Other(g, r) = m /\ r = m - 1
  BY <1>1, <1>2, <1>3 DEF In
<1>6. ~(r < m) => /\ In(r - lower, g) /\ r - lower < m
                  /\ Other(g, r) = r - lower /\ Other(g, r - lower) = r
  BY <1>1, <1>2, <1>3 DEF In
<1>7. lower > g.right - m => Other(g, m - 1) = m /\ In(m - 1, g) /\ m - 1 < m
  BY <1>1, <1>2, <1>3 DEF In
<1> QED BY <1>2, <1>4, <1>5, <1>6, <1>7 DEF m

LEMMA HolderNext ==
    ASSUME NEW c, IsCase(c), NEW p \in Sent(c), NEW r \in 0..(Len(c) - 1),
           NEW k \in 0..(Len(c) - 1)
    PROVE  LET g == Group(c, r, k)
           IN At(c, p, k + 1) = r
                <=> In(At(c, p, k), g) /\ Forward(g, At(c, p, k), p.to) = r
<1> DEFINE n == Len(c)
           g == Group(c, r, k)
           t == p.to
           h == At(c, p, k)
           gt == RangeAt(n, t)[k]
<1>1. n \in Nat /\ t \in 0..(n - 1) /\ p.from \in 0..(n - 1)
  BY SentFacts DEF IsCase
<1>2. k \in 0..n /\ k + 1 \in 0..n /\ r \in Int /\ t \in Int
  BY <1>1
<1>3. h \in Int /\ In(h, gt) /\ At(c, p, k + 1) = Forward(gt, h, t)
  BY <1>1, <1>2, HolderTable DEF At
<1>4. gt \in Interval(n) /\ In(t, gt)
  BY <1>1, <1>2, RangeTable
<1>5. g = RangeAt(n, r)[k]
  BY DEF Group
<1>6. In(r, gt) => g = gt
  BY <1>1, <1>2, <1>5, SameRange
<1>7. ASSUME In(h, g) PROVE g = gt
  <2>1. g \in Interval(n)
    BY <1>1, <1>2, <1>5, RangeTable
  <2>2. h \in 0..(n - 1)
    BY <1>1, <1>3, <1>7, <2>1 DEF In, Interval
  <2>3. RangeAt(n, h)[k] = g
    BY <1>1, <1>2, <1>5, <1>7, <2>2, SameRange
  <2>4. RangeAt(n, h)[k] = gt
    BY <1>1, <1>2, <1>3, <2>2, SameRange
  <2> QED BY <2>3, <2>4
<1>8. At(c, p, k + 1) = r => In(r, gt)
  <2>1. In(Forward(gt, h, t), Half(gt, t)) /\ Forward(gt, h, t) \in Int
    BY <1>1, <1>2, <1>3, <1>4, ForwardFacts
  <2>2. /\ Half(gt, t) \in Interval(n)
        /\ gt.left <= Half(gt, t).left /\ Half(gt, t).right <= gt.right
    BY <1>1, <1>2, <1>4, HalfFacts
  <2> HIDE DEF gt, h, t
  <2>3. In(Forward(gt, h, t), gt)
    BY <1>4, <2>1, <2>2 DEF In, Interval
  <2> QED BY <1>3, <2>3
<1>9. At(c, p, k + 1) = r <=> In(h, g) /\ Forward(g, h, t) = r
  BY <1>3, <1>6, <1>7, <1>8
<1> QED BY <1>9

\* A process and the targets of its packets are in one range.
LEMMA MineFacts ==
    ASSUME NEW c, IsCase(c), NEW r \in 0..(Len(c) - 1), NEW k \in 0..Len(c),
           NEW p \in Mine(c, r, k)
    PROVE  /\ p \in Sent(c) /\ p \in AnyPacket /\ p.to \in 0..(Len(c) - 1)
           /\ At(c, p, k) = r /\ In(p.to, Group(c, r, k)) /\ p.to \in Int
<1> DEFINE n == Len(c)
<1>1. p \in Sent(c) /\ At(c, p, k) = r
  BY DEF Mine
<1>2. n \in Nat /\ p.to \in 0..(n - 1) /\ p.from \in 0..(n - 1) /\ p \in AnyPacket
  BY <1>1, SentFacts DEF IsCase
<1>3. In(r, RangeAt(n, p.to)[k])
  BY <1>1, <1>2, HolderTable DEF At
<1>4. RangeAt(n, r)[k] = RangeAt(n, p.to)[k]
  BY <1>2, <1>3, SameRange
<1>5. In(p.to, RangeAt(n, p.to)[k])
  BY <1>2, RangeTable
<1> QED BY <1>1, <1>2, <1>4, <1>5 DEF Group

LEMMA GroupFacts ==
    ASSUME NEW c, IsCase(c), NEW r \in 0..(Len(c) - 1), NEW k \in 0..Len(c)
    PROVE  /\ Group(c, r, k) \in Interval(Len(c)) /\ In(r, Group(c, r, k))
           /\ Group(c, r, k).left \in Int /\ Group(c, r, k).right \in Int
           /\ Group(c, r, k).left <= r /\ r < Group(c, r, k).right
           /\ r \in Int /\ Len(c) \in Nat
           /\ k < Len(c) => Group(c, r, k + 1) = Half(Group(c, r, k), r)
<1> DEFINE n == Len(c)
<1>1. n \in Nat
  BY DEF IsCase
<1>2. /\ Group(c, r, k) \in Interval(n) /\ In(r, Group(c, r, k))
      /\ k \in 0..(n - 1) => Group(c, r, k + 1) = Half(Group(c, r, k), r)
  BY <1>1, RangeTable DEF Group
<1> QED BY <1>1, <1>2 DEF Interval, In

LEMMA SameGroup ==
    ASSUME NEW c, IsCase(c), NEW r \in 0..(Len(c) - 1), NEW k \in 0..Len(c),
           NEW s \in 0..(Len(c) - 1), In(s, Group(c, r, k))
    PROVE  Group(c, s, k) = Group(c, r, k)
<1> DEFINE n == Len(c)
<1>1. n \in Nat
  BY DEF IsCase
<1>2. In(s, RangeAt(n, r)[k])
  BY DEF Group
<1> HIDE DEF n
<1>3. RangeAt(n, s)[k] = RangeAt(n, r)[k]
  BY <1>1, <1>2, SameRange DEF n
<1> QED BY <1>3 DEF Group, n

LEMMA MineLower ==
    ASSUME NEW c, IsCase(c), NEW r \in 0..(Len(c) - 1),
           NEW k \in 0..(Len(c) - 1), NEW p,
           Group(c, r, k).left + 1 < Group(c, r, k).right,
           r < Middle(Group(c, r, k))
    PROVE  LET m == Middle(Group(c, r, k))
               q == r + (m - Group(c, r, k).left)
           IN p \in Mine(c, r, k + 1)
                <=> /\ p.to < m
                    /\ \/ p \in Mine(c, r, k)
                       \/ q < Group(c, r, k).right /\ p \in Mine(c, q, k)
<1> DEFINE g == Group(c, r, k)
           n == Len(c)
           m == Middle(g)
           q == r + (m - g.left)
<1>1. k \in 0..n
  BY DEF IsCase
<1>2. /\ g \in Interval(n) /\ In(r, g) /\ g.left \in Int /\ g.right \in Int
      /\ g.left <= r /\ r < g.right /\ r \in Int /\ n \in Nat
  BY <1>1, GroupFacts
<1>3. m \in Int /\ g.left < m /\ m < g.right /\ q \in Int
  BY <1>2, MiddleFacts
<1>4. q < g.right => In(q, g)
  BY <1>2, <1>3 DEF In
<1> SUFFICES ASSUME p \in Sent(c)
             PROVE  p \in Mine(c, r, k + 1)
                <=> /\ p.to < m
                    /\ \/ p \in Mine(c, r, k)
                       \/ q < g.right /\ p \in Mine(c, q, k)
  BY DEF Mine
<1> DEFINE h == At(c, p, k)
<1>5. h \in Int /\ p.to \in Int /\ p.to \in 0..(n - 1)
  <2>1. p.to \in 0..(n - 1) /\ p.from \in 0..(n - 1)
    BY SentFacts
  <2> QED BY <1>1, <1>2, <2>1, HolderTable DEF At
<1>6. ASSUME In(h, g) PROVE In(p.to, g)
  <2>1. h \in 0..(n - 1)
    BY <1>2, <1>5, <1>6 DEF In, Interval
  <2>2. p \in Mine(c, h, k)
    BY DEF Mine
  <2>3. In(p.to, Group(c, h, k))
    BY <1>1, <2>1, <2>2, MineFacts
  <2>4. Group(c, h, k) = g
    BY <1>1, <1>2, <1>6, <2>1, SameRange DEF Group
  <2> QED BY <2>3, <2>4
<1> HIDE DEF g
<1>7. At(c, p, k + 1) = r <=> In(h, g) /\ Forward(g, h, p.to) = r
  BY HolderNext DEF g
<1>8. In(h, g) => (Forward(g, h, p.to) = r
                    <=> p.to < m /\ (h = r \/ (q < g.right /\ h = q)))
  <2>1. g.left + 1 < g.right /\ r < Middle(g)
    BY DEF g
  <2> QED BY <1>2, <1>5, <1>6, <2>1, ForwardLower
<1>9. At(c, p, k + 1) = r <=> p.to < m /\ (h = r \/ (q < g.right /\ h = q))
  BY <1>2, <1>4, <1>7, <1>8
<1> QED BY <1>9 DEF Mine

LEMMA MineUpper ==
    ASSUME NEW c, IsCase(c), NEW r \in 0..(Len(c) - 1),
           NEW k \in 0..(Len(c) - 1), NEW p,
           Group(c, r, k).left + 1 < Group(c, r, k).right,
           ~(r < Middle(Group(c, r, k)))
    PROVE  LET g == Group(c, r, k)
               m == Middle(g)
           IN p \in Mine(c, r, k + 1)
                <=> /\ ~(p.to < m)
                    /\ \/ p \in Mine(c, r, k) \/ p \in Mine(c, r - (m - g.left), k)
                       \/ /\ m - g.left > g.right - m /\ r = m
                          /\ p \in Mine(c, m - 1, k)
<1> DEFINE g == Group(c, r, k)
           n == Len(c)
           m == Middle(g)
<1>1. k \in 0..n
  BY DEF IsCase
<1>2. /\ g \in Interval(n) /\ In(r, g) /\ g.left \in Int /\ g.right \in Int
      /\ g.left <= r /\ r < g.right /\ r \in Int /\ n \in Nat
  BY <1>1, GroupFacts
<1>3. /\ m \in Int /\ g.left < m /\ m < g.right
      /\ g.right - m <= m - g.left
  BY <1>2, MiddleFacts
<1>4. In(r - (m - g.left), g) /\ In(m - 1, g)
  BY <1>2, <1>3 DEF In
<1> SUFFICES ASSUME p \in Sent(c)
             PROVE  p \in Mine(c, r, k + 1)
                <=> /\ ~(p.to < m)
                    /\ \/ p \in Mine(c, r, k) \/ p \in Mine(c, r - (m - g.left), k)
                       \/ /\ m - g.left > g.right - m /\ r = m
                          /\ p \in Mine(c, m - 1, k)
  BY DEF Mine
<1> DEFINE h == At(c, p, k)
<1>5. h \in Int /\ p.to \in Int /\ p.to \in 0..(n - 1)
  <2>1. p.to \in 0..(n - 1) /\ p.from \in 0..(n - 1)
    BY SentFacts
  <2> QED BY <1>1, <1>2, <2>1, HolderTable DEF At
<1>6. ASSUME In(h, g) PROVE In(p.to, g)
  <2>1. h \in 0..(n - 1)
    BY <1>2, <1>5, <1>6 DEF In, Interval
  <2>2. p \in Mine(c, h, k)
    BY DEF Mine
  <2>3. In(p.to, Group(c, h, k))
    BY <1>1, <2>1, <2>2, MineFacts
  <2>4. Group(c, h, k) = g
    BY <1>1, <1>2, <1>6, <2>1, SameRange DEF Group
  <2> QED BY <2>3, <2>4
<1> HIDE DEF g
<1>7. At(c, p, k + 1) = r <=> In(h, g) /\ Forward(g, h, p.to) = r
  BY HolderNext DEF g
<1>8. In(h, g) => (Forward(g, h, p.to) = r
        <=> /\ ~(p.to < m)
            /\ \/ h = r \/ h = r - (m - g.left)
               \/ m - g.left > g.right - m /\ r = m /\ h = m - 1)
  <2>1. g.left + 1 < g.right /\ ~(r < Middle(g))
    BY DEF g
  <2> QED BY <1>2, <1>5, <1>6, <2>1, ForwardUpper
<1>9. At(c, p, k + 1) = r
        <=> /\ ~(p.to < m)
            /\ \/ h = r \/ h = r - (m - g.left)
               \/ m - g.left > g.right - m /\ r = m /\ h = m - 1
  BY <1>2, <1>4, <1>7, <1>8
<1> QED BY <1>9 DEF Mine

-----------------------------------------------------------------------------
(* Messages and merging.                                                   *)

\* What s sends to d at level k.
IsMessage(c, s, d, k, m) ==
    /\ k \in 0..(Len(c) - 1)
    /\ Group(c, s, k).left + 1 < Group(c, s, k).right
    /\ Other(Group(c, s, k), s) = d
    /\ Lists(m, Moving(c, s, k))

\* A process takes from another one at only one level: what it finds is of the
\* level it is at itself.
LEMMA MessageLevel ==
    ASSUME NEW c, IsCase(c), NEW r \in 0..(Len(c) - 1), NEW s \in 0..(Len(c) - 1),
           NEW k \in 0..(Len(c) - 1), NEW i \in 0..(Len(c) - 1), NEW m,
           Group(c, r, k).left + 1 < Group(c, r, k).right,
           In(s, Group(c, r, k)), Other(Group(c, r, k), s) = r,
           IsMessage(c, s, r, i, m)
    PROVE  i = k
<1> DEFINE n == Len(c)
           R(j) == RangeAt(n, s)[j]
<1>1. n \in Nat /\ k \in 0..n /\ k + 1 \in 0..n /\ i \in 0..n /\ i + 1 \in 0..n
      /\ r \in Int /\ s \in Int
  BY DEF IsCase
<1>2. R(k) = Group(c, r, k)
  BY <1>1, SameRange DEF Group
<1>3. ASSUME NEW j \in 0..(n - 1), R(j).left + 1 < R(j).right, Other(R(j), s) = r
      PROVE  In(r, R(j)) /\ ~In(r, R(j + 1))
  <2>1. j \in 0..n
    BY <1>1
  <2>2. R(j) \in Interval(n) /\ In(s, R(j)) /\ R(j + 1) = Half(R(j), s)
    BY <1>1, <2>1, RangeTable
  <2> HIDE DEF R
  <2>3. In(r, R(j)) /\ ~SameHalf(R(j), s, r)
    BY <1>1, <1>3, <2>2, OtherFacts
  <2>4. In(r, Half(R(j), s)) => SameHalf(R(j), r, s)
    BY <1>1, <2>2, HalfFacts
  <2> QED BY <2>2, <2>3, <2>4 DEF SameHalf
<1>4. In(r, R(k)) /\ ~In(r, R(k + 1))
  BY <1>2, <1>3
<1>5. In(r, R(i)) /\ ~In(r, R(i + 1))
  BY <1>3 DEF IsMessage, Group
<1>6. \A a \in 0..n : \A b \in a..n : In(r, R(b)) => In(r, R(a))
  BY <1>1, NestedRanges
<1> HIDE DEF R
<1>7. ~(k < i)
  <2>1. k < i => i \in (k + 1)..n
    BY <1>1
  <2> QED BY <2>1, <1>1, <1>4, <1>5, <1>6
<1>8. ~(i < k)
  <2>1. i < k => k \in (i + 1)..n
    BY <1>1
  <2> QED BY <2>1, <1>1, <1>4, <1>5, <1>6
<1> QED BY <1>1, <1>7, <1>8

\* The merged buffer has what was there and what arrived, but for the packets
\* of the process itself.
Merged(r, first, last, arrived, kept) ==
    FlattenSeq([i \in 1..(last - first + 1) |->
                    IF first + i - 1 = r THEN <<>>
                    ELSE arrived[first + i - 1] \o kept[first + i - 1]])

LEMMA MergeLists ==
    ASSUME NEW r \in Int, NEW first \in Int, NEW last \in Int, first <= last,
           NEW G, NEW K, G \cap K = {}, NEW arrived, NEW kept,
           \A q \in first..last : Enumerates(arrived[q], For(G, q)),
           \A q \in first..last : Lists(kept[q], For(K, q))
    PROVE  Lists(Merged(r, first, last, arrived, kept),
                 {p \in G \cup K : p.to \in first..last /\ p.to # r})
<1> DEFINE n == last - first + 1
           q(i) == first + i - 1
           S == [i \in 1..n |-> {p \in G \cup K : p.to = q(i) /\ p.to # r}]
           parts == [i \in 1..n |-> IF q(i) = r THEN <<>>
                                    ELSE arrived[q(i)] \o kept[q(i)]]
<1>1. n \in Nat /\ n >= 1 /\ \A i \in 1..n : q(i) \in first..last
  OBVIOUS
<1>2. ASSUME NEW i \in 1..n PROVE Lists(parts[i], S[i])
  <2>1. CASE q(i) = r
    <3>1. parts[i] = <<>> /\ S[i] = {}
      BY <2>1
    <3>2. Lists(<<>>, {})
      BY DEF Lists, Enumerates, ToSet
    <3> QED BY <3>1, <3>2
  <2>2. CASE q(i) # r
    <3> DEFINE Gi == For(G, q(i))
               Ki == For(K, q(i))
    <3>1. Enumerates(arrived[q(i)], Gi) /\ Enumerates(kept[q(i)], Ki)
      BY <1>1 DEF Lists
    <3>2. Gi \cap Ki = {}
      BY DEF For
    <3>3. S[i] = Gi \cup Ki
      BY <2>2 DEF For
    <3>4. parts[i] = arrived[q(i)] \o kept[q(i)]
      BY <2>2
    <3> HIDE DEF Gi, Ki
    <3>5. Enumerates(parts[i], S[i])
      <4>1. Enumerates(arrived[q(i)] \o kept[q(i)], Gi \cup Ki)
        BY <3>1, <3>2, ConcatEnumerates
      <4> QED BY <4>1, <3>3, <3>4
    <3>6. \A p \in S[i] : p.to = q(i)
      OBVIOUS
    <3> HIDE DEF S, parts
    <3>7. \A a \in 1..Len(parts[i]) : parts[i][a] \in S[i]
      BY <3>5, PacketFacts DEF Enumerates
    <3>8. \A a, b \in 1..Len(parts[i]) : parts[i][a].to <= parts[i][b].to
      BY <1>1, <3>6, <3>7
    <3> QED BY <3>5, <3>8 DEF Lists
  <2> QED BY <2>1, <2>2
<1>3. parts \in Seq(Seq(AnyPacket)) /\ Len(parts) = n
  <2>1. \A i \in 1..n : parts[i] \in Seq(AnyPacket)
    BY <1>2 DEF Lists, Enumerates
  <2> QED BY <1>1, <2>1
<1>4. \A i, j \in 1..n : i < j => \A x \in S[i] : \A y \in S[j] : x.to < y.to
  BY <1>1
<1>5. UNION {S[i] : i \in 1..n}
        = {p \in G \cup K : p.to \in first..last /\ p.to # r}
  <2>1. \A p : p.to \in first..last <=> \E i \in 1..n : p.to = q(i)
    <3> SUFFICES ASSUME NEW p
                 PROVE  p.to \in first..last <=> \E i \in 1..n : p.to = q(i)
      OBVIOUS
    <3>1. ASSUME p.to \in first..last PROVE \E i \in 1..n : p.to = q(i)
      <4>1. p.to - first + 1 \in 1..n /\ p.to = q(p.to - first + 1)
        BY <3>1
      <4> QED BY <4>1
    <3> QED BY <1>1, <3>1
  <2> QED BY <2>1
<1>6. Lists(FlattenSeq(parts), UNION {S[i] : i \in 1..n})
  <2> HIDE DEF parts, S, n
  <2> QED BY <1>1, <1>2, <1>3, <1>4, FlattenLists
<1> QED BY <1>5, <1>6 DEF Merged

LEMMA EndCuts ==
    ASSUME NEW data, NEW S, Lists(data, S), NEW lo \in Int, NEW hi \in Int,
           \A p \in S : lo <= p.to /\ p.to < hi
    PROVE  IsCut(data, 1, lo) /\ IsCut(data, After(data), hi)
<1>1. data \in Seq(AnyPacket) /\ S = {data[i] : i \in 1..Len(data)}
  BY PacketFacts DEF Lists, Enumerates
<1>2. Len(data) \in Nat
  BY <1>1
<1>3. \A i \in 1..Len(data) : lo <= data[i].to /\ data[i].to < hi
  BY <1>1
<1> QED BY <1>2, <1>3 DEF IsCut, After

LEMMA MovingKept ==
    ASSUME NEW c, IsCase(c), NEW r \in 0..(Len(c) - 1), NEW k \in 0..Len(c)
    PROVE  LET g == Group(c, r, k)
               m == Middle(g)
           IN /\ \A p \in Mine(c, r, k) : g.left <= p.to /\ p.to < g.right
              /\ r < m => Moving(c, r, k)
                    = {p \in Kept(c, r, k) : m <= p.to /\ p.to < g.right}
              /\ ~(r < m) => Moving(c, r, k)
                    = {p \in Kept(c, r, k) : g.left <= p.to /\ p.to < m}
<1> DEFINE g == Group(c, r, k)
           m == Middle(g)
<1>1. \A p \in Mine(c, r, k) : p.to \in Int /\ g.left <= p.to /\ p.to < g.right
  BY MineFacts DEF In
<1>2. g.left \in Int /\ g.right \in Int /\ g.left <= r /\ r < g.right /\ r \in Int
  BY GroupFacts
<1>3. m \in Int
  BY <1>2, MiddleFacts
<1>4. \A p : p \in Moving(c, r, k) <=> p \in Mine(c, r, k) /\ ~(r < m <=> p.to < m)
  BY DEF Moving, SameHalf
<1>5. \A p : p \in Kept(c, r, k) <=> p \in Mine(c, r, k) /\ (k = 0 \/ p.to # r)
  BY DEF Kept
<1>6. Moving(c, r, k) \subseteq Mine(c, r, k) /\ Kept(c, r, k) \subseteq Mine(c, r, k)
  BY DEF Moving, Kept
<1> HIDE DEF m, g
<1>7. ASSUME r < m
      PROVE  Moving(c, r, k) = {p \in Kept(c, r, k) : m <= p.to /\ p.to < g.right}
  BY <1>1, <1>2, <1>3, <1>4, <1>5, <1>6, <1>7
<1>8. ASSUME ~(r < m)
      PROVE  Moving(c, r, k) = {p \in Kept(c, r, k) : g.left <= p.to /\ p.to < m}
  BY <1>1, <1>2, <1>3, <1>4, <1>5, <1>6, <1>8
<1> QED BY <1>1, <1>7, <1>8 DEF m, g

LEMMA MovingSubset == \A c, r, k : /\ Moving(c, r, k) \subseteq Mine(c, r, k)
                                   /\ Kept(c, r, k) \subseteq Mine(c, r, k)
  BY DEF Moving, Kept

\* What is sent is what belongs to the other half.
LEMMA SentUp ==
    ASSUME NEW c, IsCase(c), NEW r \in 0..(Len(c) - 1), NEW k \in 0..Len(c),
           NEW snd, Lists(snd, Kept(c, r, k)), NEW q \in Int, NEW begin,
           IsCut(snd, begin, q), r < Middle(Group(c, r, k)),
           q <= Middle(Group(c, r, k))
    PROVE  Lists(Part(snd, movebefore(snd, Middle(Group(c, r, k)), begin, After(snd)),
                      After(snd)),
                 Moving(c, r, k))
<1> DEFINE g == Group(c, r, k)
           m == Middle(g)
           a == movebefore(snd, m, begin, After(snd))
           K == Kept(c, r, k)
<1>1. /\ g.left \in Int /\ g.right \in Int /\ g.left <= r /\ r < g.right /\ r \in Int
  BY GroupFacts
<1>2. m \in Int
  BY <1>1, MiddleFacts
<1>3. \A p \in K : g.left <= p.to /\ p.to < g.right
  BY MovingKept, MovingSubset
<1>4. Moving(c, r, k) = {p \in K : m <= p.to /\ p.to < g.right}
  BY MovingKept
<1>5. q <= m
  OBVIOUS
<1> HIDE DEF m, g, K
<1>6. IsCut(snd, 1, g.left) /\ IsCut(snd, After(snd), g.right)
  BY <1>1, <1>3, EndCuts DEF K
<1>7. IsCut(snd, a, m)
  BY <1>2, <1>5, MoveBefore DEF K
<1>8. a <= After(snd)
  <2>1. a \in 1..After(snd) /\ After(snd) \in 1..After(snd)
    BY <1>6, <1>7 DEF IsCut
  <2> QED BY <2>1
<1> HIDE DEF a
<1>9. Lists(Part(snd, a, After(snd)), {p \in K : m <= p.to /\ p.to < g.right})
  BY <1>1, <1>2, <1>6, <1>7, <1>8, PartLists DEF K
<1> QED BY <1>4, <1>9 DEF a, m, g

LEMMA SentDown ==
    ASSUME NEW c, IsCase(c), NEW r \in 0..(Len(c) - 1), NEW k \in 0..Len(c),
           NEW snd, Lists(snd, Kept(c, r, k)), ~(r < Middle(Group(c, r, k)))
    PROVE  LET a == movebefore(snd, Middle(Group(c, r, k)), 1, After(snd))
           IN /\ Lists(Part(snd, 1, a), Moving(c, r, k))
              /\ IsCut(snd, a, Middle(Group(c, r, k)))
<1> DEFINE g == Group(c, r, k)
           m == Middle(g)
           a == movebefore(snd, m, 1, After(snd))
           K == Kept(c, r, k)
<1>1. /\ g.left \in Int /\ g.right \in Int /\ g.left <= r /\ r < g.right /\ r \in Int
  BY GroupFacts
<1>2. m \in Int /\ g.left <= m
  BY <1>1, MiddleFacts
<1>3. \A p \in K : g.left <= p.to /\ p.to < g.right
  BY MovingKept, MovingSubset
<1>4. Moving(c, r, k) = {p \in K : g.left <= p.to /\ p.to < m}
  BY MovingKept
<1> HIDE DEF m, g, K
<1>5. IsCut(snd, 1, g.left)
  BY <1>1, <1>3, EndCuts DEF K
<1>6. IsCut(snd, a, m) /\ 1 <= a
  BY <1>1, <1>2, <1>5, MoveBefore DEF K
<1> HIDE DEF a
<1>7. Lists(Part(snd, 1, a), {p \in K : g.left <= p.to /\ p.to < m})
  BY <1>1, <1>2, <1>5, <1>6, PartLists DEF K
<1> QED BY <1>4, <1>6, <1>7 DEF a, m, g

LEMMA MergeStep ==
    ASSUME NEW c, IsCase(c), NEW r \in 0..(Len(c) - 1),
           NEW k \in 0..(Len(c) - 1), NEW first \in Int, NEW last \in Int,
           r \in first..last, NEW G, G \cap Mine(c, r, k) = {},
           \A p : p \in Mine(c, r, k + 1)
                    <=> p.to \in first..last /\ (p \in Mine(c, r, k) \/ p \in G),
           NEW arrived, NEW kept, NEW rbuf, Enumerates(rbuf, Got(c, r, k)),
           \A q \in first..last : Enumerates(arrived[q], For(G, q)),
           \A q \in first..last : Lists(kept[q], For(Kept(c, r, k), q))
    PROVE  /\ Lists(Merged(r, first, last, arrived, kept), Kept(c, r, k + 1))
           /\ Enumerates(rbuf \o arrived[r], Got(c, r, k + 1))
<1>1. r \in Int /\ first <= last /\ k + 1 # 0
  OBVIOUS
<1> DEFINE K == Kept(c, r, k)
           GK == {p \in G \cup K : p.to \in first..last /\ p.to # r}
<1>2. GK = Kept(c, r, k + 1)
  <2>1. \A p : p \in K <=> p \in Mine(c, r, k) /\ (k = 0 \/ p.to # r)
    BY DEF Kept
  <2>2. \A p : p \in Kept(c, r, k + 1) <=> p \in Mine(c, r, k + 1) /\ p.to # r
    BY <1>1 DEF Kept
  <2> HIDE DEF K
  <2>3. \A p : p \in GK <=> p \in Kept(c, r, k + 1)
    BY <2>1, <2>2
  <2> HIDE DEF GK
  <2> QED BY <2>3
<1>3. G \cap K = {}
  BY MovingSubset
<1>4. Lists(Merged(r, first, last, arrived, kept), GK)
  <2>1. \A q \in first..last : Lists(kept[q], For(K, q))
    OBVIOUS
  <2> HIDE DEF K
  <2> QED BY <1>1, <1>3, <2>1, MergeLists
<1> DEFINE Gr == For(G, r)
<1>5. Got(c, r, k + 1) = Got(c, r, k) \cup Gr
  <2>1. \A p : p \in Got(c, r, k) <=> p \in Mine(c, r, k) /\ p.to = r
    BY DEF Got
  <2>2. \A p : p \in Got(c, r, k + 1) <=> p \in Mine(c, r, k + 1) /\ p.to = r
    BY DEF Got
  <2>3. \A p : p \in Got(c, r, k + 1) <=> p \in Got(c, r, k) \cup Gr
    BY <2>1, <2>2 DEF For
  <2> HIDE DEF Gr
  <2> QED BY <2>3
<1>6. Got(c, r, k) \cap Gr = {}
  BY DEF Got, For
<1>7. Enumerates(arrived[r], Gr)
  OBVIOUS
<1> HIDE DEF Gr
<1>8. Enumerates(rbuf \o arrived[r], Got(c, r, k) \cup Gr)
  BY <1>6, <1>7, ConcatEnumerates
<1> QED BY <1>2, <1>4, <1>5, <1>8

\* A process of the lower half merges what its partner sent.
LEMMA MergeLower ==
    ASSUME NEW c, IsCase(c), NEW r \in 0..(Len(c) - 1),
           NEW k \in 0..(Len(c) - 1), NEW g, g = Group(c, r, k),
           g.left + 1 < g.right, r < Middle(g),
           NEW q, q = r + (Middle(g) - g.left), q < g.right,
           NEW snd, Lists(snd, Kept(c, r, k)),
           NEW rbuf, Enumerates(rbuf, Got(c, r, k)),
           NEW data, Lists(data, Moving(c, q, k)),
           NEW arrived, NEW kept,
           arrived = Parts(data, g.left, Middle(g) - 1, 1, After(data)),
           kept = Parts(snd, g.left, Middle(g) - 1, 1, After(snd))
    PROVE  /\ Lists(Merged(r, g.left, Middle(g) - 1, arrived, kept),
                    Kept(c, r, k + 1))
           /\ Enumerates(rbuf \o arrived[r], Got(c, r, k + 1))
<1> DEFINE m == Middle(g)
           n == Len(c)
           last == m - 1
           G == Moving(c, q, k)
           K == Kept(c, r, k)
<1>1. k \in 0..n /\ n \in Nat
  BY DEF IsCase
<1>2. /\ g \in Interval(n) /\ g.left \in Int /\ g.right \in Int
      /\ g.left <= r /\ r < g.right /\ r \in Int /\ In(r, g)
  BY <1>1, GroupFacts
<1>3. m \in Int /\ g.left < m /\ m < g.right /\ In(q, g) /\ ~(q < m)
  BY <1>1, <1>2, PartnerFacts
<1>4. q \in 0..(n - 1) /\ q # r /\ q \in Int
  BY <1>1, <1>2, <1>3 DEF In, Interval
<1>5. Group(c, q, k) = g
  BY <1>1, <1>3, <1>4, SameRange DEF Group
<1>6. \A p \in Mine(c, r, k) \cup Mine(c, q, k) : p.to \in Int /\ g.left <= p.to
  BY <1>1, <1>4, <1>5, MineFacts DEF In
<1>7. G \subseteq Mine(c, q, k) /\ \A p : p \in G <=> p \in Mine(c, q, k) /\ p.to < m
  BY <1>3, <1>5 DEF Moving, SameHalf
<1>8. G \cap Mine(c, r, k) = {}
  BY <1>4, <1>7 DEF Mine
<1>9. \A p : p \in Mine(c, r, k + 1)
        <=> p.to < m /\ (p \in Mine(c, r, k) \/ p \in Mine(c, q, k))
  BY MineLower
<1>10. \A p : p \in Mine(c, r, k + 1)
         <=> p.to \in g.left..last /\ (p \in Mine(c, r, k) \/ p \in G)
  <2> HIDE DEF G, m
  <2>1. \A i \in Int : i \in g.left..last <=> g.left <= i /\ i < m
    BY <1>2, <1>3
  <2>2. ASSUME NEW p, p.to \in g.left..last PROVE p.to < m
    BY <1>2, <1>3, <2>2
  <2> QED BY <2>1, <2>2, <1>6, <1>7, <1>9
<1>11. last \in Int /\ g.left <= last /\ r \in g.left..last /\ r < m
  BY <1>2, <1>3
<1>12. ASSUME NEW t \in g.left..last
       PROVE  /\ Enumerates(arrived[t], For(G, t))
              /\ Lists(kept[t], For(K, t))
  <2>1. \A p \in G : g.left <= p.to /\ p.to < g.right
    <3>1. \A p \in G : p.to < m
      BY <1>7
    <3> HIDE DEF G, m
    <3> QED BY <3>1, <1>2, <1>3, <1>6, <1>7
  <2>2. \A p \in K : g.left <= p.to /\ p.to < g.right
    BY <1>1, MovingKept, MovingSubset
  <2> HIDE DEF G, K, m
  <2>3. IsCut(data, 1, g.left)
    BY <1>2, <2>1, EndCuts DEF G
  <2>4. IsCut(snd, 1, g.left)
    BY <1>2, <2>2, EndCuts DEF K
  <2>5. Lists(arrived[t], For(G, t))
    BY <1>2, <1>11, <2>3, PartsLists DEF G, m
  <2>6. Lists(kept[t], For(K, t))
    BY <1>2, <1>11, <2>4, PartsLists DEF K, m
  <2> QED BY <2>5, <2>6 DEF Lists
<1> HIDE DEF G, m
<1>13. /\ Lists(Merged(r, g.left, last, arrived, kept), Kept(c, r, k + 1))
       /\ Enumerates(rbuf \o arrived[r], Got(c, r, k + 1))
  <2> HIDE DEF last
  <2> QED BY <1>2, <1>8, <1>10, <1>11, <1>12, MergeStep
<1> QED BY <1>13 DEF m

\* A process of the upper half merges what its partner sent and, if it is the
\* first one of a smaller half, what the process without a partner sent.
FromLower(c, r, k) ==
    LET g == Group(c, r, k)
        m == Middle(g)
        q == r - (m - g.left)
    IN Moving(c, q, k) \cup (IF m - g.left > g.right - m /\ r = m
                             THEN Moving(c, m - 1, k) ELSE {})

LEMMA LowerMoving ==
    ASSUME NEW c, IsCase(c), NEW r \in 0..(Len(c) - 1),
           NEW k \in 0..(Len(c) - 1), NEW g, g = Group(c, r, k),
           g.left + 1 < g.right, NEW s \in Int, In(s, g), s < Middle(g)
    PROVE  /\ s \in 0..(Len(c) - 1)
           /\ Group(c, s, k) = g
           /\ \A p : p \in Moving(c, s, k)
                        <=> p \in Mine(c, s, k) /\ ~(p.to < Middle(g))
           /\ \A p \in Moving(c, s, k) :
                p.to \in Int /\ Middle(g) <= p.to /\ p.to < g.right
<1> DEFINE n == Len(c)
<1>1. k \in 0..n /\ n \in Nat
  BY DEF IsCase
<1>2. g \in Interval(n) /\ g.left \in Int /\ g.right \in Int /\ g.left < g.right
  BY <1>1, GroupFacts
<1>3. s \in 0..(n - 1)
  BY <1>1, <1>2 DEF In, Interval
<1>4. Group(c, s, k) = g
  BY <1>1, <1>3, SameRange DEF Group
<1>5. \A p : p \in Moving(c, s, k)
                <=> p \in Mine(c, s, k) /\ ~(p.to < Middle(g))
  BY <1>4 DEF Moving, SameHalf
<1>6. \A p \in Mine(c, s, k) : p.to \in Int /\ p.to < g.right
  BY <1>1, <1>3, <1>4, MineFacts DEF In
<1>7. Middle(g) \in Int
  BY <1>2, MiddleFacts
<1>8. \A p \in Moving(c, s, k) :
        p.to \in Int /\ Middle(g) <= p.to /\ p.to < g.right
  BY <1>5, <1>6, <1>7
<1> QED BY <1>3, <1>4, <1>5, <1>8

LEMMA MergeUpperHalf ==
    ASSUME NEW c, IsCase(c), NEW r \in 0..(Len(c) - 1),
           NEW k \in 0..(Len(c) - 1), NEW g, g = Group(c, r, k),
           g.left + 1 < g.right, ~(r < Middle(g)),
           NEW snd, Lists(snd, Kept(c, r, k)),
           NEW rbuf, Enumerates(rbuf, Got(c, r, k)),
           NEW arrived, NEW kept,
           \A t \in Middle(g)..(g.right - 1) :
                Enumerates(arrived[t], For(FromLower(c, r, k), t)),
           kept = Parts(snd, Middle(g), g.right - 1,
                        movebefore(snd, Middle(g), 1, After(snd)), After(snd))
    PROVE  /\ Lists(Merged(r, Middle(g), g.right - 1, arrived, kept),
                    Kept(c, r, k + 1))
           /\ Enumerates(rbuf \o arrived[r], Got(c, r, k + 1))
<1> DEFINE m == Middle(g)
           n == Len(c)
           q == r - (m - g.left)
           odd == m - g.left > g.right - m /\ r = m
           last == g.right - 1
           G == FromLower(c, r, k)
<1>1. k \in 0..n /\ n \in Nat
  BY DEF IsCase
<1>2. /\ g \in Interval(n) /\ g.left \in Int /\ g.right \in Int
      /\ g.left <= r /\ r < g.right /\ r \in Int /\ In(r, g)
  BY <1>1, GroupFacts
<1>3. /\ m \in Int /\ g.left < m /\ m < g.right /\ In(q, g) /\ q < m
      /\ odd => In(m - 1, g) /\ m - 1 < m
  BY <1>1, <1>2, PartnerFacts
<1>4. q \in Int /\ m - 1 \in Int
  BY <1>2, <1>3
<1>5. /\ \A p : p \in Moving(c, q, k) <=> p \in Mine(c, q, k) /\ ~(p.to < m)
      /\ \A p \in Moving(c, q, k) : p.to \in Int /\ m <= p.to /\ p.to < g.right
  BY <1>3, <1>4, LowerMoving
<1>6. odd =>
      /\ \A p : p \in Moving(c, m - 1, k) <=> p \in Mine(c, m - 1, k) /\ ~(p.to < m)
      /\ \A p \in Moving(c, m - 1, k) :
            p.to \in Int /\ m <= p.to /\ p.to < g.right
  BY <1>3, <1>4, LowerMoving
<1>7. \A p : p \in G <=>
        p \in Moving(c, q, k) \/ (odd /\ p \in Moving(c, m - 1, k))
  <2>1. G = Moving(c, q, k) \cup (IF odd THEN Moving(c, m - 1, k) ELSE {})
    BY DEF FromLower
  <2> HIDE DEF G, q, m
  <2>2. CASE odd
    BY <2>1, <2>2
  <2>3. CASE ~odd
    BY <2>1, <2>3
  <2> QED BY <2>2, <2>3
<1> HIDE DEF G
<1>8. G \cap Mine(c, r, k) = {}
  <2>1. q # r /\ (odd => m - 1 # r)
    BY <1>2, <1>3
  <2> HIDE DEF q, odd, m
  <2> QED BY <1>5, <1>6, <1>7, <2>1 DEF Mine
<1>9. \A p : p \in Mine(c, r, k + 1)
        <=> /\ ~(p.to < m)
            /\ \/ p \in Mine(c, r, k)
               \/ p \in Mine(c, q, k)
               \/ odd /\ p \in Mine(c, m - 1, k)
  BY MineUpper
<1>10. \A p \in Mine(c, r, k) : p.to \in Int /\ p.to < g.right
  BY <1>1, MineFacts DEF In
<1>11. \A p : p \in Mine(c, r, k + 1)
         <=> p.to \in m..last /\ (p \in Mine(c, r, k) \/ p \in G)
  <2> HIDE DEF m, q
  <2>1. \A i \in Int : i \in m..last <=> ~(i < m) /\ i < g.right
    BY <1>2, <1>3
  <2>2. ASSUME NEW p, p.to \in m..last PROVE ~(p.to < m)
    BY <1>2, <1>3, <2>2
  <2>3. \A p \in Mine(c, r, k) \cup G : p.to \in Int /\ p.to < g.right
    BY <1>5, <1>6, <1>7, <1>10
  <2>4. \A p : ~(p.to < m) => (p \in G <=>
                p \in Mine(c, q, k) \/ (odd /\ p \in Mine(c, m - 1, k)))
    <3> SUFFICES ASSUME NEW p, ~(p.to < m)
                 PROVE  p \in G <=>
                    p \in Mine(c, q, k) \/ (odd /\ p \in Mine(c, m - 1, k))
      OBVIOUS
    <3>1. p \in Moving(c, q, k) <=> p \in Mine(c, q, k)
      BY <1>5
    <3>2. odd => (p \in Moving(c, m - 1, k) <=> p \in Mine(c, m - 1, k))
      BY <1>6
    <3> QED BY <3>1, <3>2, <1>7
  <2>5. \A p : p \in Mine(c, r, k + 1)
        <=> ~(p.to < m) /\ (p \in Mine(c, r, k) \/ p \in G)
    <3> SUFFICES ASSUME NEW p
                 PROVE  p \in Mine(c, r, k + 1)
                            <=> ~(p.to < m) /\ (p \in Mine(c, r, k) \/ p \in G)
      OBVIOUS
    <3> QED BY <1>9, <2>4
  <2> QED BY <2>1, <2>2, <2>3, <2>5
<1>12. last \in Int /\ m <= last /\ r \in m..last
  BY <1>2, <1>3
<1>13. \A t \in m..last : Lists(kept[t], For(Kept(c, r, k), t))
  <2> DEFINE a == movebefore(snd, m, 1, After(snd))
  <2>1. IsCut(snd, a, m)
    BY <1>1, SentDown
  <2> HIDE DEF m, last
  <2>2. ASSUME NEW t \in m..last
        PROVE  Lists(Parts(snd, m, last, a, After(snd))[t], For(Kept(c, r, k), t))
    <3> HIDE DEF a
    <3> QED BY <1>3, <1>12, <2>1, PartsLists
  <2> QED BY <2>2 DEF m, last
<1>14. \A t \in m..last : Enumerates(arrived[t], For(G, t))
  BY DEF G
<1> HIDE DEF m, last
<1>15. /\ Lists(Merged(r, m, last, arrived, kept), Kept(c, r, k + 1))
       /\ Enumerates(rbuf \o arrived[r], Got(c, r, k + 1))
  BY <1>3, <1>8, <1>11, <1>12, <1>13, <1>14, MergeStep
<1> QED BY <1>15 DEF m, last

-----------------------------------------------------------------------------
(* After ceil(log2(size)) levels every process is alone in its range.      *)

LEMMA PowerFacts ==
    ASSUME size \in Nat
    PROVE  /\ power[0] = 1
           /\ \A l \in 0..(size - 1) : power[l + 1] = 2 * power[l]
           /\ \A l \in 0..size : power[l] \in Nat /\ l + 1 <= power[l]
<1> DEFINE n == size
           P(f) == [l \in 0..n |-> IF l = 0 THEN 1 ELSE 2 * f[l - 1]]
<1>1. power = P(power)
  <2> DEFINE step == [l \in 1..n |-> [x \in Nat |-> 2 * x]]
             t == CHOOSE f : f = P(f)
  <2>1. step \in [1..n -> [Nat -> Nat]]
    OBVIOUS
  <2> HIDE DEF n
  <2>2. PICK f : Recursion(f, Nat, 0, n, 1, step)
    <3> HIDE DEF step
    <3>1. 0 \in Int /\ n \in Int /\ 0 <= n /\ 0 + 1 = 1 /\ 1 \in Nat
      BY DEF n
    <3>2. step \in [(0 + 1)..n -> [Nat -> Nat]]
      BY <2>1, <3>1
    <3> QED BY <3>1, <3>2, RecursiveFunction
  <2>3. /\ f \in [0..n -> Nat] /\ f[0] = 1
        /\ \A l \in 1..n : f[l] = step[l][f[l - 1]]
    <3>1. \A l \in 1..n : l \in (0 + 1)..n
      OBVIOUS
    <3> HIDE DEF step
    <3> QED BY <2>2, <3>1 DEF Recursion
  <2>4. ASSUME NEW l \in 0..n PROVE f[l] = P(f)[l]
    <3>1. CASE l = 0
      BY <3>1, <2>3
    <3>2. CASE l # 0
      <4>1. l \in 1..n /\ l - 1 \in 0..n
        BY <3>2 DEF n
      <4>2. f[l - 1] \in Nat
        BY <2>3, <4>1
      <4>3. f[l] = 2 * f[l - 1]
        BY <2>3, <4>1, <4>2
      <4> QED BY <3>2, <4>3
    <3> QED BY <3>1, <3>2
  <2>5. f = P(f)
    BY <2>3, <2>4
  <2>6. t = P(t)
    BY <2>5
  <2> QED BY <2>6 DEF power, n
<1> HIDE DEF n
<1>2. n \in Nat
  BY DEF n
<1>3. power[0] = 1
  BY <1>1, <1>2
<1>4. \A l \in 0..(n - 1) : power[l + 1] = 2 * power[l]
  <2> SUFFICES ASSUME NEW l \in 0..(n - 1) PROVE power[l + 1] = 2 * power[l]
    OBVIOUS
  <2>1. l + 1 \in 0..n /\ l + 1 # 0 /\ (l + 1) - 1 = l
    BY <1>2
  <2> QED BY <1>1, <2>1
<1>5. \A l \in 0..n : power[l] \in Nat /\ l + 1 <= power[l]
  <2> DEFINE T == {l \in 0..n : power[l] \in Nat /\ l + 1 <= power[l]}
  <2>1. 0 \in T
    BY <1>2, <1>3
  <2>2. \A l \in 0..(n - 1) : l \in T => l + 1 \in T
    BY <1>2, <1>4
  <2>3. \A l \in 0..n : l \in T
    <3> HIDE DEF T
    <3> QED BY <1>2, <2>1, <2>2, IntervalInduction
  <2> QED BY <2>3
<1> QED BY <1>3, <1>4, <1>5 DEF n

LEMMA LevelsFacts ==
    ASSUME size \in Nat
    PROVE  levels \in 0..size /\ size <= power[levels]
<1> DEFINE T == {l \in 0..size : power[l] >= size}
<1>1. \A l \in 0..size : power[l] \in Nat /\ l + 1 <= power[l]
  BY PowerFacts
<1>2. size \in T /\ T \subseteq Nat
  BY <1>1
<1>3. PICK l \in T : \A k \in T : l <= k
  <2> HIDE DEF T
  <2> QED BY <1>2, LeastNumber
<1>4. ASSUME NEW k \in 0..(l - 1) PROVE power[k] < size
  <2>1. k \in 0..size /\ ~(l <= k)
    BY <1>3
  <2>2. k \notin T
    BY <1>3, <2>1
  <2> QED BY <1>1, <2>1, <2>2
<1>5. \E x \in 0..size :
            power[x] >= size /\ \A k \in 0..(x - 1) : power[k] < size
  BY <1>3, <1>4
<1>6. levels \in 0..size /\ power[levels] >= size
  BY <1>5 DEF levels
<1> QED BY <1>1, <1>6

LEMMA AloneAtLast ==
    ASSUME size \in Nat, NEW r \in Rank, NEW k \in levels..size
    PROVE  ~(RangeAt(size, r)[k].left + 1 < RangeAt(size, r)[k].right)
<1> DEFINE R(i) == RangeAt(size, r)[i]
           n == size
<1>1. levels \in 0..n /\ n <= power[levels] /\ r \in 0..(n - 1) /\ r \in Int
  BY LevelsFacts DEF Rank
<1>2. \A i \in 0..n : R(i) \in Interval(n) /\ In(r, R(i))
  BY <1>1, RangeTable
<1>3. \A i \in 0..(n - 1) : R(i + 1) = Half(R(i), r)
  BY <1>1, RangeTable
<1>4. R(0) = [left |-> 0, right |-> n]
  BY <1>1, RangeTable
<1>5. \A i \in 0..levels : R(i).right - R(i).left <= power[levels - i]
  <2> DEFINE T == {i \in 0..levels : R(i).right - R(i).left <= power[levels - i]}
  <2>1. 0 \in T
    BY <1>1, <1>4
  <2>2. ASSUME NEW i \in 0..(levels - 1), i \in T PROVE i + 1 \in T
    <3>1. i \in 0..n /\ i \in 0..(n - 1) /\ i + 1 \in 0..levels
      BY <1>1
    <3> DEFINE j == levels - (i + 1)
    <3>2. j \in 0..(n - 1) /\ j \in 0..n /\ j + 1 = levels - i
      BY <1>1
    <3>3. power[j + 1] = 2 * power[j] /\ power[j] \in Nat
      BY <3>2, PowerFacts
    <3> HIDE DEF j
    <3>4. R(i).right - R(i).left <= 2 * power[j]
      BY <2>2, <3>2, <3>3
    <3> HIDE DEF R
    <3>5. R(i + 1) = Half(R(i), r) /\ R(i) \in Interval(n) /\ In(r, R(i))
      BY <1>2, <1>3, <3>1
    <3>6. /\ 2 * (R(i + 1).right - R(i + 1).left) <= (R(i).right - R(i).left) + 1
          /\ R(i + 1) \in Interval(n)
      BY <1>1, <3>5, HalfFacts
    <3>7. R(i + 1).right - R(i + 1).left <= power[j]
      BY <3>3, <3>4, <3>5, <3>6 DEF Interval
    <3> QED BY <3>1, <3>7 DEF j
  <2>3. \A i \in 0..levels : i \in T
    <3> HIDE DEF T
    <3> QED BY <1>1, <2>1, <2>2, IntervalInduction
  <2> QED BY <2>3
<1>6. R(levels).right - R(levels).left <= 1
  <2>1. levels \in 0..levels /\ levels - levels = 0
    BY <1>1
  <2> QED BY <1>5, <2>1, PowerFacts
<1>7. k \in 0..n /\ k \in levels..n
  BY <1>1
<1>8. \A q \in Int : In(q, R(k)) => In(q, R(levels))
  BY <1>1, <1>7, NestedRanges
<1>9. R(k) \in Interval(n) /\ R(levels) \in Interval(n)
  BY <1>1, <1>2, <1>7
<1> SUFFICES ASSUME R(k).left + 1 < R(k).right PROVE FALSE
  OBVIOUS
<1> HIDE DEF R
<1>10. R(k).left \in Int /\ R(k).left + 1 \in Int
  BY <1>9 DEF Interval
<1>11. In(R(k).left, R(k)) /\ In(R(k).left + 1, R(k))
  BY <1>9, <1>10 DEF In, Interval
<1>12. In(R(k).left, R(levels)) /\ In(R(k).left + 1, R(levels))
  BY <1>8, <1>10, <1>11
<1> QED BY <1>6, <1>9, <1>10, <1>12 DEF In, Interval

-----------------------------------------------------------------------------
(* The invariant.                                                          *)

LowerPlaces == {"sendUp", "receiveDown"}
UpperPlaces == {"answer", "sendDown", "receiveExtra"}
Places == {"split", "sendExtra", "returned"} \cup LowerPlaces \cup UpperPlaces

\* What process r has at place l of level k depends on nothing else.
ProcessInv(c, r, l, k, snd, rcv, rbuf) ==
    LET g == Group(c, r, k)
        m == Middle(g)
    IN /\ k \in 0..Len(c)
       /\ Lists(snd, Kept(c, r, k)) /\ Enumerates(rbuf, Got(c, r, k))
       /\ l \in LowerPlaces \cup UpperPlaces =>
            k < Len(c) /\ g.left + 1 < g.right
       /\ l \in LowerPlaces => r < m /\ r + (m - g.left) < g.right
       /\ l \in UpperPlaces =>
            ~(r < m) /\ Lists(rcv, Moving(c, r - (m - g.left), k))
       /\ l = "receiveExtra" => m - g.left > g.right - m /\ r = m
       /\ l = "returned" => ~(g.left + 1 < g.right)

Types ==
    /\ sBuffer \in Cases
    /\ loc \in [Rank -> Places] /\ level \in [Rank -> Nat]
    /\ range = [r \in Rank |-> Group(sBuffer, r, level[r])]
    /\ send \in [Rank -> Seq(AnyPacket)] /\ recv \in [Rank -> Seq(AnyPacket)]
    /\ rBuffer \in [Rank -> Seq(AnyPacket)]

Processes ==
    \A r \in Rank : ProcessInv(sBuffer, r, loc[r], level[r], send[r], recv[r],
                               rBuffer[r])

Messages ==
    /\ channel \in [Rank \X Rank -> Seq(Seq(AnyPacket))]
    /\ \A s, d \in Rank : \A i \in 1..Len(channel[<<s, d>>]) :
        \E k \in Nat : IsMessage(sBuffer, s, d, k, channel[<<s, d>>][i])

IInv == Types /\ Processes /\ Messages

LEMMA CaseFacts ==
    ASSUME Types
    PROVE  /\ IsCase(sBuffer) /\ size = Len(sBuffer) /\ size \in Nat
           /\ Rank = 0..(Len(sBuffer) - 1)
<1>1. /\ sBuffer \in Seq(Seq([from : Nat, to : Nat])) /\ Len(sBuffer) \in 1..MaxSize
      /\ \A s \in DOMAIN sBuffer : IsBuffer(sBuffer[s], s - 1, Len(sBuffer))
  BY CasesAssumption DEF Types
<1>2. Len(sBuffer) \in Nat \ {0} /\ DOMAIN sBuffer = 1..Len(sBuffer)
  BY <1>1
<1> QED BY <1>1, <1>2 DEF IsCase, AnyPacket, size, Rank

LEMMA Names ==
    ASSUME Types, NEW r \in Rank
    PROVE  LET g == Group(sBuffer, r, level[r])
           IN /\ left(r) = g.left /\ right(r) = g.right /\ mid(r) = Middle(g)
              /\ IsLower(r) <=> r < Middle(g)
              /\ HasPartner(r) <=> r + (Middle(g) - g.left) < g.right
              /\ Partner(r) = IF r < Middle(g) THEN r + (Middle(g) - g.left)
                              ELSE r - (Middle(g) - g.left)
              /\ Odd(r) <=> Middle(g) - g.left > g.right - Middle(g)
              /\ Splits(r) <=> /\ loc[r] = "split" /\ level[r] < levels
                               /\ g.left + 1 < g.right
<1> DEFINE g == Group(sBuffer, r, level[r])
<1>1. range[r] = g
  BY DEF Types
<1> HIDE DEF g
<1>2. left(r) = g.left /\ right(r) = g.right
  BY <1>1 DEF left, right
<1>3. mid(r) = Middle(g)
  BY <1>2 DEF mid, Middle
<1> QED BY <1>2, <1>3 DEF IsLower, HasPartner, Partner, Odd, Splits, g

LEMMA NextLevelFacts ==
    ASSUME Types, NEW r \in Rank, level[r] < size, NextLevel(r)
    PROVE  /\ level' = [level EXCEPT ![r] = level[r] + 1]
           /\ range' = [range EXCEPT ![r] = Group(sBuffer, r, level[r] + 1)]
<1> DEFINE g == Group(sBuffer, r, level[r])
<1>1. range[r] = g /\ mid(r) = Middle(g) /\ (IsLower(r) <=> r < Middle(g))
      /\ level[r] \in Nat
  BY Names DEF Types
<1>2. level[r] \in 0..(Len(sBuffer) - 1) /\ level[r] \in 0..Len(sBuffer)
      /\ level[r] < Len(sBuffer)
  BY <1>1, CaseFacts
<1>3. Group(sBuffer, r, level[r] + 1) = Half(g, r)
  BY <1>2, CaseFacts, GroupFacts
<1> HIDE DEF g
<1>4. range' = [range EXCEPT ![r] =
                    IF IsLower(r) THEN [range[r] EXCEPT !.right = mid(r)]
                    ELSE [range[r] EXCEPT !.left = mid(r)]]
  BY DEF NextLevel
<1>5. range' = [range EXCEPT ![r] = Half(g, r)]
  BY <1>1, <1>4 DEF Half
<1> QED BY <1>3, <1>5 DEF NextLevel

\* A step of one process.
LEMMA OneProcess ==
    ASSUME Types, Processes, NEW r \in Rank, NEW l \in Places, NEW k \in Nat,
           NEW snd \in Seq(AnyPacket), NEW rcv \in Seq(AnyPacket),
           NEW rbuf \in Seq(AnyPacket),
           UNCHANGED sBuffer,
           loc' = [loc EXCEPT ![r] = l], level' = [level EXCEPT ![r] = k],
           range' = [range EXCEPT ![r] = Group(sBuffer, r, k)],
           send' = [send EXCEPT ![r] = snd], recv' = [recv EXCEPT ![r] = rcv],
           rBuffer' = [rBuffer EXCEPT ![r] = rbuf],
           ProcessInv(sBuffer, r, l, k, snd, rcv, rbuf)
    PROVE  Types' /\ Processes'
<1>1. Rank' = Rank
  BY DEF Rank, size
<1>2. /\ loc \in [Rank -> Places] /\ level \in [Rank -> Nat]
      /\ range = [q \in Rank |-> Group(sBuffer, q, level[q])]
      /\ send \in [Rank -> Seq(AnyPacket)] /\ recv \in [Rank -> Seq(AnyPacket)]
      /\ rBuffer \in [Rank -> Seq(AnyPacket)] /\ sBuffer \in Cases
  BY DEF Types
<1>3. /\ loc' \in [Rank -> Places] /\ level' \in [Rank -> Nat]
      /\ send' \in [Rank -> Seq(AnyPacket)] /\ recv' \in [Rank -> Seq(AnyPacket)]
      /\ rBuffer' \in [Rank -> Seq(AnyPacket)]
  BY <1>2
<1>4. range' = [q \in Rank |-> Group(sBuffer, q, level'[q])]
  BY <1>2
<1>5. Types'
  BY <1>1, <1>2, <1>3, <1>4 DEF Types
<1>6. ASSUME NEW q \in Rank
      PROVE  ProcessInv(sBuffer, q, loc'[q], level'[q], send'[q], recv'[q],
                        rBuffer'[q])
  <2>1. CASE q = r
    BY <1>2, <2>1
  <2>2. CASE q # r
    <3>1. ProcessInv(sBuffer, q, loc[q], level[q], send[q], recv[q], rBuffer[q])
      BY DEF Processes
    <3> QED BY <1>2, <2>2, <3>1
  <2> QED BY <2>1, <2>2
<1>7. Processes'
  BY <1>1, <1>6 DEF Processes
<1> QED BY <1>5, <1>7

LEMMA PostMessage ==
    ASSUME Types, Messages, NEW r \in Rank, NEW d \in Rank, NEW data, NEW k \in Nat,
           IsMessage(sBuffer, r, d, k, data), Post(r, d, data), UNCHANGED sBuffer
    PROVE  Messages'
<1>1. Rank' = Rank
  BY DEF Rank, size
<1>2. data \in Seq(AnyPacket) /\ <<r, d>> \in Rank \X Rank
  BY DEF IsMessage, Lists, Enumerates
<1>3. channel \in [Rank \X Rank -> Seq(Seq(AnyPacket))]
  BY DEF Messages
<1>4. channel' = [channel EXCEPT ![<<r, d>>] = Append(channel[<<r, d>>], data)]
  BY DEF Post
<1>5. channel' \in [Rank \X Rank -> Seq(Seq(AnyPacket))]
  BY <1>2, <1>3, <1>4
<1>6. ASSUME NEW s \in Rank, NEW e \in Rank, NEW i \in 1..Len(channel'[<<s, e>>])
      PROVE  \E j \in Nat : IsMessage(sBuffer, s, e, j, channel'[<<s, e>>][i])
  <2>1. CASE <<s, e>> # <<r, d>>
    <3>1. channel'[<<s, e>>] = channel[<<s, e>>]
      BY <1>3, <1>4, <2>1
    <3> QED BY <3>1 DEF Messages
  <2>2. CASE <<s, e>> = <<r, d>>
    <3> DEFINE ch == channel[<<r, d>>]
    <3>1. ch \in Seq(Seq(AnyPacket))
      BY <1>2, <1>3
    <3>2. channel'[<<s, e>>] = Append(ch, data) /\ s = r /\ e = d
      BY <1>2, <1>3, <1>4, <2>2
    <3>3. \A j \in 1..Len(ch) : \E x \in Nat : IsMessage(sBuffer, r, d, x, ch[j])
      BY DEF Messages
    <3> HIDE DEF ch
    <3>4. CASE i = Len(ch) + 1
      <4>1. channel'[<<s, e>>][i] = data
        BY <1>2, <3>1, <3>2, <3>4
      <4> QED BY <3>2, <4>1
    <3>5. CASE i # Len(ch) + 1
      <4>1. i \in 1..Len(ch) /\ channel'[<<s, e>>][i] = ch[i]
        BY <1>2, <3>1, <3>2, <3>5
      <4> QED BY <3>2, <3>3, <4>1
    <3> QED BY <3>4, <3>5
  <2> QED BY <2>1, <2>2
<1> QED BY <1>1, <1>5, <1>6 DEF Messages

LEMMA TakeMessage ==
    ASSUME Types, Messages, NEW s \in Rank, NEW r \in Rank, Take(s, r),
           UNCHANGED sBuffer
    PROVE  /\ Messages'
           /\ \E k \in Nat : IsMessage(sBuffer, s, r, k, Head(channel[<<s, r>>]))
<1> DEFINE ch == channel[<<s, r>>]
<1>1. Rank' = Rank
  BY DEF Rank, size
<1>2. channel \in [Rank \X Rank -> Seq(Seq(AnyPacket))]
  BY DEF Messages
<1>3. ch \in Seq(Seq(AnyPacket)) /\ ch # <<>>
  BY <1>2 DEF Take
<1>4. \A j \in 1..Len(ch) : \E x \in Nat : IsMessage(sBuffer, s, r, x, ch[j])
  BY DEF Messages
<1>5. channel' = [channel EXCEPT ![<<s, r>>] = Tail(ch)]
  BY DEF Take
<1> HIDE DEF ch
<1>6. /\ 1 \in 1..Len(ch) /\ Head(ch) = ch[1] /\ Tail(ch) \in Seq(Seq(AnyPacket))
      /\ \A i \in 1..Len(Tail(ch)) : i + 1 \in 1..Len(ch) /\ Tail(ch)[i] = ch[i + 1]
  BY <1>3
<1>7. channel' \in [Rank \X Rank -> Seq(Seq(AnyPacket))]
  BY <1>2, <1>5, <1>6
<1>8. ASSUME NEW q \in Rank, NEW e \in Rank, NEW i \in 1..Len(channel'[<<q, e>>])
      PROVE  \E j \in Nat : IsMessage(sBuffer, q, e, j, channel'[<<q, e>>][i])
  <2>1. CASE <<q, e>> # <<s, r>>
    <3>1. channel'[<<q, e>>] = channel[<<q, e>>]
      BY <1>2, <1>5, <2>1
    <3> QED BY <3>1 DEF Messages
  <2>2. CASE <<q, e>> = <<s, r>>
    <3>1. channel'[<<q, e>>] = Tail(ch) /\ q = s /\ e = r
      BY <1>2, <1>5, <2>2
    <3> QED BY <1>4, <1>6, <3>1
  <2> QED BY <2>1, <2>2
<1>9. \E k \in Nat : IsMessage(sBuffer, s, r, k, Head(ch))
  BY <1>4, <1>6
<1> QED BY <1>1, <1>7, <1>8, <1>9 DEF Messages, ch

-----------------------------------------------------------------------------
(* The steps.                                                              *)

\* What arrived for q, of one or two messages.
Joined(got, q) == FlattenSeq([m \in DOMAIN got |-> got[m][q]])

Arrives(got, r, first, last, arrived) ==
    /\ Joined(got, r) = arrived[r]
    /\ \A i \in 1..(last - first + 1) :
            Joined(got, first + i - 1) = arrived[first + i - 1]

Delivers(r, first, last, arrived, kept) ==
    /\ send' = [send EXCEPT ![r] = Merged(r, first, last, arrived, kept)]
    /\ rBuffer' = [rBuffer EXCEPT ![r] = rBuffer[r] \o arrived[r]]

LEMMA MergeResult ==
    ASSUME NEW r, NEW first, NEW last, NEW got, NEW kept, NEW arrived,
           Arrives(got, r, first, last, arrived), Merge(r, first, last, got, kept)
    PROVE  Delivers(r, first, last, arrived, kept)
<1> DEFINE Arrived(q) == Joined(got, q)
           Onward(q) == IF q = r THEN <<>> ELSE Arrived(q) \o kept[q]
           n == last - first + 1
           new == [i \in 1..n |-> Onward(first + i - 1)]
           old == [i \in 1..n |-> IF first + i - 1 = r THEN <<>>
                        ELSE arrived[first + i - 1] \o kept[first + i - 1]]
<1>1. /\ send' = [send EXCEPT ![r] = FlattenSeq(new)]
      /\ rBuffer' = [rBuffer EXCEPT ![r] = rBuffer[r] \o Arrived(r)]
  BY DEF Merge, Joined
<1>2. /\ Arrived(r) = arrived[r]
      /\ \A i \in 1..n : Arrived(first + i - 1) = arrived[first + i - 1]
  BY DEF Arrives
<1> HIDE DEF Arrived
<1>3. new = old
  <2> SUFFICES ASSUME NEW i \in 1..n
               PROVE  Onward(first + i - 1) = IF first + i - 1 = r THEN <<>>
                        ELSE arrived[first + i - 1] \o kept[first + i - 1]
    OBVIOUS
  <2> QED BY <1>2
<1>4. Merged(r, first, last, arrived, kept) = FlattenSeq(old)
  BY DEF Merged
<1> HIDE DEF new, old
<1> QED BY <1>1, <1>2, <1>3, <1>4 DEF Delivers

LEMMA OneArrived ==
    ASSUME NEW a, NEW q, a[q] \in Seq(AnyPacket), NEW got, got = <<a>>
    PROVE  Joined(got, q) = a[q]
<1>1. [m \in DOMAIN got |-> got[m][q]] = <<a[q]>>
  OBVIOUS
<1>2. FlattenSeq(<<a[q]>>) = a[q]
  <2> DEFINE x == a[q]
  <2> x \in Seq(AnyPacket)
    OBVIOUS
  <2> HIDE DEF x
  <2>1. FlattenSeq(<<x>>) = x
    BY FlattenShort
  <2> QED BY <2>1 DEF x
<1> QED BY <1>1, <1>2 DEF Joined

LEMMA TwoArrived ==
    ASSUME NEW a, NEW b, NEW q, a[q] \in Seq(AnyPacket), b[q] \in Seq(AnyPacket),
           NEW got, got = <<a, b>>
    PROVE  Joined(got, q) = a[q] \o b[q]
<1>1. [m \in DOMAIN got |-> got[m][q]] = <<a[q], b[q]>>
  OBVIOUS
<1>2. FlattenSeq(<<a[q], b[q]>>) = a[q] \o b[q]
  <2> DEFINE x == a[q]
             y == b[q]
  <2> x \in Seq(AnyPacket) /\ y \in Seq(AnyPacket)
    OBVIOUS
  <2> HIDE DEF x, y
  <2>1. FlattenSeq(<<x, y>>) = x \o y
    BY FlattenShort
  <2> QED BY <2>1 DEF x, y
<1> QED BY <1>1, <1>2 DEF Joined

\* What a process sends is a message of its level.
LEMMA OtherIsProcess ==
    ASSUME NEW c, IsCase(c), NEW r \in 0..(Len(c) - 1),
           NEW k \in 0..(Len(c) - 1), NEW g, g = Group(c, r, k),
           g.left + 1 < g.right
    PROVE  Other(g, r) \in 0..(Len(c) - 1)
<1>1. k \in 0..Len(c)
  BY DEF IsCase
<1>2. /\ g \in Interval(Len(c)) /\ In(r, g) /\ r \in Int /\ Len(c) \in Nat
      /\ g.left \in Int /\ g.right \in Int /\ g.left <= r /\ r < g.right
  BY <1>1, GroupFacts
<1>3. 0 <= g.left /\ g.right <= Len(c)
  BY <1>2 DEF Interval
<1>4. Other(g, r) \in Int /\ g.left <= Other(g, r) /\ Other(g, r) < g.right
  <2> DEFINE m == Middle(g)
  <2>1. /\ m \in Int /\ g.left < m /\ m < g.right
        /\ g.right - m <= m - g.left /\ m - g.left <= g.right - m + 1
    BY <1>2, MiddleFacts, SMTT(20)
  <2>2. Other(g, r) = IF r < m THEN IF r + (m - g.left) < g.right
                                    THEN r + (m - g.left) ELSE m
                      ELSE r - (m - g.left)
    BY DEF Other
  <2> HIDE DEF m
  <2> DEFINE x == g.left
             y == g.right
  <2>3. x \in Int /\ y \in Int /\ x <= r /\ r < y
    BY <1>2
  <2>4. /\ m \in Int /\ x < m /\ m < y
        /\ y - m <= m - x /\ m - x <= y - m + 1
        /\ Other(g, r) = IF r < m THEN IF r + (m - x) < y THEN r + (m - x) ELSE m
                         ELSE r - (m - x)
    BY <2>1, <2>2
  <2>5. SUFFICES Other(g, r) \in Int /\ x <= Other(g, r) /\ Other(g, r) < y
    OBVIOUS
  <2> HIDE DEF x, y
  <2> QED BY <1>2, <2>3, <2>4
<1> QED BY <1>2, <1>3, <1>4

LEMMA UpMessage ==
    ASSUME NEW c, IsCase(c), NEW r \in 0..(Len(c) - 1),
           NEW k \in 0..(Len(c) - 1), NEW g, g = Group(c, r, k),
           g.left + 1 < g.right, r < Middle(g), NEW snd,
           Lists(snd, Kept(c, r, k))
    PROVE  IsMessage(c, r, Other(g, r), k,
                     Part(snd, movebefore(snd, Middle(g), 1, After(snd)), After(snd)))
<1>1. k \in 0..Len(c)
  BY DEF IsCase
<1>2. g.left \in Int /\ g.right \in Int /\ g.left <= r /\ r < g.right /\ r \in Int
  BY <1>1, GroupFacts
<1>3. \A p \in Kept(c, r, k) : g.left <= p.to /\ p.to < g.right
  BY <1>1, MovingKept, MovingSubset
<1>4. IsCut(snd, 1, g.left)
  BY <1>2, <1>3, EndCuts
<1>5. g.left <= Middle(g)
  BY <1>2, MiddleFacts
<1>6. Lists(Part(snd, movebefore(snd, Middle(g), 1, After(snd)), After(snd)),
            Moving(c, r, k))
  BY <1>1, <1>2, <1>4, <1>5, SentUp
<1> QED BY <1>6 DEF IsMessage

LEMMA DownMessage ==
    ASSUME NEW c, IsCase(c), NEW r \in 0..(Len(c) - 1),
           NEW k \in 0..(Len(c) - 1), NEW g, g = Group(c, r, k),
           g.left + 1 < g.right, ~(r < Middle(g)), NEW snd,
           Lists(snd, Kept(c, r, k))
    PROVE  IsMessage(c, r, Other(g, r), k,
                     Part(snd, 1, movebefore(snd, Middle(g), 1, After(snd))))
<1>1. k \in 0..Len(c)
  BY DEF IsCase
<1>2. Lists(Part(snd, 1, movebefore(snd, Middle(g), 1, After(snd))), Moving(c, r, k))
  BY <1>1, SentDown
<1> QED BY <1>2 DEF IsMessage

\* The process without a partner keeps what is in front of its own packets.
LEMMA ExtraMessage ==
    ASSUME NEW c, IsCase(c), NEW r \in 0..(Len(c) - 1),
           NEW k \in 0..(Len(c) - 1), NEW g, g = Group(c, r, k),
           g.left + 1 < g.right, r < Middle(g),
           ~(r + (Middle(g) - g.left) < g.right), NEW snd,
           Lists(snd, Kept(c, r, k)), NEW my, my = movebefore(snd, r, 1, After(snd))
    PROVE  /\ IsMessage(c, r, Other(g, r), k,
                  Part(snd, movebefore(snd, Middle(g), my, After(snd)), After(snd)))
           /\ Other(g, r) = Middle(g)
           /\ Lists(Part(snd, 1, my), Kept(c, r, k + 1))
           /\ Got(c, r, k + 1) = Got(c, r, k)
<1> DEFINE m == Middle(g)
<1>1. k \in 0..Len(c)
  BY DEF IsCase
<1>2. /\ g \in Interval(Len(c)) /\ In(r, g)
      /\ g.left \in Int /\ g.right \in Int /\ g.left <= r /\ r < g.right /\ r \in Int
  BY <1>1, GroupFacts
<1>3. \A p \in Kept(c, r, k) : g.left <= p.to /\ p.to < g.right
  BY <1>1, MovingKept, MovingSubset
<1>4. IsCut(snd, 1, g.left)
  BY <1>2, <1>3, EndCuts
<1>5. m \in Int /\ Other(g, r) = m /\ r = m - 1
  BY <1>1, <1>2, PartnerFacts DEF IsCase
<1>6. IsCut(snd, my, r) /\ 1 <= my
  BY <1>2, <1>4, MoveBefore
<1>7. Lists(Part(snd, movebefore(snd, m, my, After(snd)), After(snd)),
            Moving(c, r, k))
  BY <1>1, <1>2, <1>5, <1>6, SentUp
<1>8. Lists(Part(snd, 1, my), {p \in Kept(c, r, k) : g.left <= p.to /\ p.to < r})
  BY <1>2, <1>4, <1>6, PartLists
<1>9. \A p : p \in Mine(c, r, k + 1) <=> p.to < m /\ p \in Mine(c, r, k)
  BY <1>1, MineLower
<1>10. \A p : p \in Mine(c, r, k) => p.to \in Int /\ g.left <= p.to
  BY <1>1, MineFacts, MovingKept
<1>11. \A p : /\ p \in Kept(c, r, k) <=> p \in Mine(c, r, k) /\ (k = 0 \/ p.to # r)
              /\ p \in Kept(c, r, k + 1) <=> p \in Mine(c, r, k + 1) /\ p.to # r
  BY DEF Kept
<1>12. {p \in Kept(c, r, k) : g.left <= p.to /\ p.to < r} = Kept(c, r, k + 1)
  <2> HIDE DEF m
  <2>1. \A p : p \in Kept(c, r, k + 1)
                 <=> p \in Kept(c, r, k) /\ g.left <= p.to /\ p.to < r
    BY <1>2, <1>5, <1>9, <1>10, <1>11
  <2> QED BY <2>1
<1>13. Got(c, r, k + 1) = Got(c, r, k)
  <2>1. r < m
    OBVIOUS
  <2> HIDE DEF m
  <2>2. \A p : p \in Got(c, r, k + 1) <=> p \in Got(c, r, k)
    BY <1>9, <2>1 DEF Got
  <2> QED BY <2>2 DEF Got
<1> QED BY <1>5, <1>7, <1>8, <1>12, <1>13 DEF IsMessage

LEMMA ProcessFacts ==
    ASSUME Types, Processes, NEW r \in Rank
    PROVE  LET k == level[r]
               g == Group(sBuffer, r, k)
           IN /\ IsCase(sBuffer) /\ r \in 0..(Len(sBuffer) - 1) /\ r \in Int
              /\ size = Len(sBuffer) /\ size \in Nat /\ k \in Nat
              /\ Rank = 0..(Len(sBuffer) - 1)
              /\ k \in 0..Len(sBuffer) /\ g \in Interval(Len(sBuffer)) /\ In(r, g)
              /\ g.left \in Int /\ g.right \in Int /\ g.left <= r /\ r < g.right
              /\ loc[r] \in Places /\ send[r] \in Seq(AnyPacket)
              /\ recv[r] \in Seq(AnyPacket) /\ rBuffer[r] \in Seq(AnyPacket)
              /\ loc = [loc EXCEPT ![r] = loc[r]]
              /\ level = [level EXCEPT ![r] = k]
              /\ range = [range EXCEPT ![r] = g]
              /\ send = [send EXCEPT ![r] = send[r]]
              /\ recv = [recv EXCEPT ![r] = recv[r]]
              /\ rBuffer = [rBuffer EXCEPT ![r] = rBuffer[r]]
              /\ Lists(send[r], Kept(sBuffer, r, k))
              /\ Enumerates(rBuffer[r], Got(sBuffer, r, k))
              /\ Splits(r) \/ loc[r] \in LowerPlaces \cup UpperPlaces =>
                    k \in 0..(Len(sBuffer) - 1) /\ k < size /\ g.left + 1 < g.right
<1> DEFINE k == level[r]
           g == Group(sBuffer, r, k)
<1>1. /\ IsCase(sBuffer) /\ r \in 0..(Len(sBuffer) - 1) /\ r \in Int
      /\ size = Len(sBuffer) /\ size \in Nat /\ Rank = 0..(Len(sBuffer) - 1)
  BY CaseFacts
<1>2. /\ loc[r] \in Places /\ send[r] \in Seq(AnyPacket)
      /\ recv[r] \in Seq(AnyPacket) /\ rBuffer[r] \in Seq(AnyPacket) /\ k \in Nat
      /\ loc = [loc EXCEPT ![r] = loc[r]]
      /\ level = [level EXCEPT ![r] = k]
      /\ send = [send EXCEPT ![r] = send[r]]
      /\ recv = [recv EXCEPT ![r] = recv[r]]
      /\ rBuffer = [rBuffer EXCEPT ![r] = rBuffer[r]]
  BY DEF Types
<1>3. range = [range EXCEPT ![r] = g]
  BY DEF Types
<1>4. ProcessInv(sBuffer, r, loc[r], k, send[r], recv[r], rBuffer[r])
  BY DEF Processes
<1>5. /\ k \in 0..Len(sBuffer)
      /\ Lists(send[r], Kept(sBuffer, r, k))
      /\ Enumerates(rBuffer[r], Got(sBuffer, r, k))
      /\ loc[r] \in LowerPlaces \cup UpperPlaces =>
            k < Len(sBuffer) /\ g.left + 1 < g.right
  BY <1>4 DEF ProcessInv
<1>6. /\ g \in Interval(Len(sBuffer)) /\ In(r, g)
      /\ g.left \in Int /\ g.right \in Int /\ g.left <= r /\ r < g.right
  BY <1>1, <1>5, GroupFacts
<1>7. Splits(r) => k < levels /\ g.left + 1 < g.right
  BY Names
<1>8. levels \in 0..size
  BY <1>1, LevelsFacts
<1> HIDE DEF k, g
<1>9. Splits(r) \/ loc[r] \in LowerPlaces \cup UpperPlaces =>
        k \in 0..(Len(sBuffer) - 1) /\ k < size /\ g.left + 1 < g.right
  BY <1>1, <1>2, <1>5, <1>7, <1>8
<1> QED BY <1>1, <1>2, <1>3, <1>5, <1>6, <1>9 DEF k, g

LEMMA SendExtraStep ==
    ASSUME IInv, NEW r \in Rank, SendExtra(r)
    PROVE  IInv'
<1> DEFINE c == sBuffer
           k == level[r]
           g == Group(sBuffer, r, k)
           my == movebefore(send[r], r, 1, After(send[r]))
           data == Part(send[r], movebefore(send[r], mid(r), my, After(send[r])),
                        After(send[r]))
<1>1. Types /\ Processes /\ Messages
  BY DEF IInv
<1>2. /\ Splits(r) /\ IsLower(r) /\ ~HasPartner(r)
      /\ Post(r, mid(r), data) /\ send' = [send EXCEPT ![r] = Part(send[r], 1, my)]
      /\ NextLevel(r) /\ loc' = [loc EXCEPT ![r] = "sendExtra"]
      /\ UNCHANGED <<sBuffer, recv, rBuffer>>
  BY DEF SendExtra
<1>3. /\ mid(r) = Middle(g) /\ r < Middle(g)
      /\ ~(r + (Middle(g) - g.left) < g.right)
  BY <1>1, <1>2, Names
<1>4. /\ IsCase(c) /\ r \in 0..(Len(c) - 1) /\ k \in 0..(Len(c) - 1)
      /\ g.left + 1 < g.right /\ k < size /\ k \in Nat /\ Rank = 0..(Len(c) - 1)
      /\ Lists(send[r], Kept(c, r, k)) /\ Enumerates(rBuffer[r], Got(c, r, k))
  BY <1>1, <1>2, ProcessFacts
<1>5. /\ IsMessage(c, r, Other(g, r), k, data)
      /\ Other(g, r) = Middle(g)
      /\ Lists(Part(send[r], 1, my), Kept(c, r, k + 1))
      /\ Got(c, r, k + 1) = Got(c, r, k)
  <2> DEFINE m == Middle(g)
             snd == send[r]
  <2>1. data = Part(snd, movebefore(snd, m, my, After(snd)), After(snd))
    BY <1>3
  <2>2. r < m /\ ~(r + (m - g.left) < g.right) /\ Lists(snd, Kept(c, r, k))
    BY <1>3, <1>4
  <2>3. my = movebefore(snd, r, 1, After(snd))
    OBVIOUS
  <2> HIDE DEF my, snd, data, k
  <2>4. /\ IsMessage(c, r, Other(g, r), k, Part(snd, movebefore(snd, m, my, After(snd)),
                                               After(snd)))
        /\ Other(g, r) = m /\ Lists(Part(snd, 1, my), Kept(c, r, k + 1))
        /\ Got(c, r, k + 1) = Got(c, r, k)
    BY <1>4, <2>2, <2>3, ExtraMessage
  <2> QED BY <2>1, <2>4 DEF snd
<1>6. Other(g, r) \in Rank
  BY <1>4, OtherIsProcess
<1>7. Messages'
  BY <1>1, <1>2, <1>3, <1>4, <1>5, <1>6, PostMessage
<1>8. /\ level' = [level EXCEPT ![r] = k + 1]
      /\ range' = [range EXCEPT ![r] = Group(c, r, k + 1)]
  BY <1>1, <1>2, <1>4, NextLevelFacts
<1>9. ProcessInv(c, r, "sendExtra", k + 1, Part(send[r], 1, my), recv[r], rBuffer[r])
  <2>1. k + 1 \in 0..Len(c)
    BY <1>4 DEF IsCase
  <2> QED BY <1>4, <1>5, <2>1 DEF ProcessInv, LowerPlaces, UpperPlaces
<1>10. /\ Part(send[r], 1, my) \in Seq(AnyPacket) /\ k + 1 \in Nat
       /\ "sendExtra" \in Places /\ recv[r] \in Seq(AnyPacket)
       /\ rBuffer[r] \in Seq(AnyPacket)
       /\ recv = [recv EXCEPT ![r] = recv[r]]
       /\ rBuffer = [rBuffer EXCEPT ![r] = rBuffer[r]]
  BY <1>1, <1>4, <1>5, ProcessFacts DEF Lists, Enumerates, Places
<1>11. /\ recv' = [recv EXCEPT ![r] = recv[r]]
       /\ rBuffer' = [rBuffer EXCEPT ![r] = rBuffer[r]]
  BY <1>2, <1>10
<1> HIDE DEF data, my, k
<1>12. Types' /\ Processes'
  BY <1>1, <1>2, <1>8, <1>9, <1>10, <1>11, OneProcess
<1> QED BY <1>7, <1>12 DEF IInv

\* A step that changes the place of a process and what it has received.
LEMMA PlaceStep ==
    ASSUME NEW r \in Rank, NEW l \in Places, Types, Processes,
           loc' = [loc EXCEPT ![r] = l],
           UNCHANGED <<sBuffer, range, level, send, rBuffer>>,
           recv' \in [Rank -> Seq(AnyPacket)],
           \A q \in Rank : q # r => recv'[q] = recv[q],
           ProcessInv(sBuffer, r, l, level[r], send[r], recv'[r], rBuffer[r])
    PROVE  Types' /\ Processes'
<1>1. Rank' = Rank
  BY DEF Rank, size
<1>2. loc \in [Rank -> Places]
  BY DEF Types
<1>3. loc' \in [Rank -> Places]
  BY <1>2
<1>4. Types'
  BY <1>1, <1>3 DEF Types
<1>5. ASSUME NEW q \in Rank
      PROVE  ProcessInv(sBuffer, q, loc'[q], level[q], send[q], recv'[q], rBuffer[q])
  <2>1. CASE q = r
    BY <1>2, <2>1
  <2>2. CASE q # r
    BY <1>2, <2>2 DEF Processes
  <2> QED BY <2>1, <2>2
<1>6. Processes'
  BY <1>1, <1>5 DEF Processes
<1> QED BY <1>4, <1>6

LEMMA SendUpStep ==
    ASSUME IInv, NEW r \in Rank, SendUp(r)
    PROVE  IInv'
<1> DEFINE c == sBuffer
           k == level[r]
           g == Group(sBuffer, r, k)
           data == Part(send[r], movebefore(send[r], Middle(g), 1, After(send[r])),
                        After(send[r]))
<1>1. Types /\ Processes /\ Messages
  BY DEF IInv
<1>2. /\ Splits(r) /\ IsLower(r) /\ HasPartner(r)
      /\ Post(r, Partner(r), Part(send[r], Upper(r), After(send[r])))
      /\ loc' = [loc EXCEPT ![r] = "sendUp"]
      /\ UNCHANGED <<sBuffer, range, level, send, recv, rBuffer>>
  BY DEF SendUp
<1>3. /\ mid(r) = Middle(g) /\ r < Middle(g)
      /\ r + (Middle(g) - g.left) < g.right
      /\ Partner(r) = r + (Middle(g) - g.left)
  BY <1>1, <1>2, Names
<1>4. /\ IsCase(c) /\ r \in 0..(Len(c) - 1) /\ k \in 0..(Len(c) - 1)
      /\ g.left + 1 < g.right /\ k \in Nat /\ Rank = 0..(Len(c) - 1)
      /\ k < Len(c) /\ k \in 0..Len(c)
      /\ Lists(send[r], Kept(c, r, k)) /\ Enumerates(rBuffer[r], Got(c, r, k))
  BY <1>1, <1>2, ProcessFacts
<1>5. Part(send[r], Upper(r), After(send[r])) = data
  BY <1>3 DEF Upper
<1>6. Partner(r) = Other(g, r)
  BY <1>3 DEF Other
<1>7. IsMessage(c, r, Other(g, r), k, data) /\ Other(g, r) \in Rank
  BY <1>3, <1>4, UpMessage, OtherIsProcess
<1>8. Messages'
  BY <1>1, <1>2, <1>4, <1>5, <1>6, <1>7, PostMessage
<1>9. ProcessInv(c, r, "sendUp", k, send[r], recv[r], rBuffer[r])
  BY <1>3, <1>4 DEF ProcessInv, LowerPlaces, UpperPlaces
<1>10. Types' /\ Processes'
  BY <1>1, <1>2, <1>9, PlaceStep DEF Places, LowerPlaces, Types
<1> QED BY <1>8, <1>10 DEF IInv

LEMMA SendDownStep ==
    ASSUME IInv, NEW r \in Rank, SendDown(r)
    PROVE  IInv'
<1> DEFINE c == sBuffer
           k == level[r]
           g == Group(sBuffer, r, k)
           data == Part(send[r], 1,
                        movebefore(send[r], Middle(g), 1, After(send[r])))
<1>1. Types /\ Processes /\ Messages
  BY DEF IInv
<1>2. /\ loc[r] = "answer" /\ Post(r, Partner(r), Part(send[r], 1, Upper(r)))
      /\ loc' = [loc EXCEPT ![r] = "sendDown"]
      /\ UNCHANGED <<sBuffer, range, level, send, recv, rBuffer>>
  BY DEF SendDown
<1>3. ProcessInv(c, r, "answer", k, send[r], recv[r], rBuffer[r])
  BY <1>1, <1>2 DEF Processes
<1>4. "answer" \in UpperPlaces /\ "sendDown" \in UpperPlaces
      /\ "sendDown" \in Places /\ "sendDown" \notin LowerPlaces
  BY DEF UpperPlaces, Places, LowerPlaces
<1>5. ~(r < Middle(g))
  BY <1>3, <1>4 DEF ProcessInv
<1>6. /\ mid(r) = Middle(g) /\ Partner(r) = r - (Middle(g) - g.left)
  BY <1>1, <1>5, Names
<1>7. /\ IsCase(c) /\ r \in 0..(Len(c) - 1) /\ k \in 0..(Len(c) - 1)
      /\ g.left + 1 < g.right /\ k \in Nat /\ Rank = 0..(Len(c) - 1)
      /\ Lists(send[r], Kept(c, r, k))
  BY <1>1, <1>2, <1>4, ProcessFacts
<1>8. Part(send[r], 1, Upper(r)) = data
  BY <1>6 DEF Upper
<1>9. Partner(r) = Other(g, r)
  BY <1>5, <1>6 DEF Other
<1>10. IsMessage(c, r, Other(g, r), k, data) /\ Other(g, r) \in Rank
  BY <1>5, <1>7, DownMessage, OtherIsProcess
<1>11. Messages'
  BY <1>1, <1>2, <1>7, <1>8, <1>9, <1>10, PostMessage
<1>12. ProcessInv(c, r, "sendDown", k, send[r], recv[r], rBuffer[r])
  BY <1>3, <1>4 DEF ProcessInv
<1>13. Types' /\ Processes'
  BY <1>1, <1>2, <1>4, <1>12, PlaceStep DEF Types
<1> QED BY <1>11, <1>13 DEF IInv

\* What a process takes is the message of its own level.
LEMMA TakeStep ==
    ASSUME IInv, NEW r \in Rank, NEW s \in Rank, Take(s, r), UNCHANGED sBuffer,
           NEW k, k = level[r], k \in 0..(Len(sBuffer) - 1),
           NEW g, g = Group(sBuffer, r, k), g.left + 1 < g.right,
           In(s, g), Other(g, s) = r
    PROVE  /\ Messages'
           /\ Lists(Head(channel[<<s, r>>]), Moving(sBuffer, s, k))
<1>1. Types /\ Messages
  BY DEF IInv
<1>2. /\ Messages'
      /\ \E j \in Nat : IsMessage(sBuffer, s, r, j, Head(channel[<<s, r>>]))
  BY <1>1, TakeMessage
<1>3. PICK j \in Nat : IsMessage(sBuffer, s, r, j, Head(channel[<<s, r>>]))
  BY <1>2
<1>4. /\ IsCase(sBuffer) /\ r \in 0..(Len(sBuffer) - 1)
      /\ s \in 0..(Len(sBuffer) - 1) /\ j \in 0..(Len(sBuffer) - 1)
  BY <1>1, <1>3, CaseFacts DEF IsMessage
<1>5. j = k
  BY <1>3, <1>4, MessageLevel
<1> QED BY <1>2, <1>3, <1>5 DEF IsMessage

LEMMA ReceiveUpStep ==
    ASSUME IInv, NEW r \in Rank, ReceiveUp(r)
    PROVE  IInv'
<1> DEFINE c == sBuffer
           k == level[r]
           g == Group(sBuffer, r, k)
           s == r - (Middle(g) - g.left)
           data == Head(channel[<<Partner(r), r>>])
<1>1. Types /\ Processes /\ Messages
  BY DEF IInv
<1>2. /\ Splits(r) /\ ~IsLower(r) /\ Take(Partner(r), r)
      /\ recv' = [recv EXCEPT ![r] = data]
      /\ loc' = [loc EXCEPT ![r] = "answer"]
      /\ UNCHANGED <<sBuffer, range, level, send, rBuffer>>
  BY DEF ReceiveUp
<1>3. ~(r < Middle(g)) /\ Partner(r) = s
  BY <1>1, <1>2, Names
<1>4. /\ IsCase(c) /\ r \in 0..(Len(c) - 1) /\ k \in 0..(Len(c) - 1)
      /\ g.left + 1 < g.right /\ k \in 0..Len(c) /\ Rank = 0..(Len(c) - 1)
      /\ k < Len(c) /\ g \in Interval(Len(c)) /\ In(r, g) /\ r \in Int
      /\ size = Len(c) /\ size \in Nat
      /\ Lists(send[r], Kept(c, r, k)) /\ Enumerates(rBuffer[r], Got(c, r, k))
  BY <1>1, <1>2, ProcessFacts
<1>5. In(s, g) /\ Other(g, r) = s /\ Other(g, s) = r
  BY <1>3, <1>4, PartnerFacts
<1>6. s \in Rank
  BY <1>4, <1>5, OtherIsProcess
<1>7. Messages' /\ Lists(data, Moving(c, s, k))
  BY <1>2, <1>3, <1>4, <1>5, <1>6, TakeStep
<1>8. "answer" \in Places /\ "answer" \in UpperPlaces /\ "answer" \notin LowerPlaces
  BY DEF Places, UpperPlaces, LowerPlaces
<1>9. ProcessInv(c, r, "answer", k, send[r], data, rBuffer[r])
  BY <1>3, <1>4, <1>7, <1>8 DEF ProcessInv
<1>10. data \in Seq(AnyPacket) /\ recv \in [Rank -> Seq(AnyPacket)]
  BY <1>1, <1>7 DEF Lists, Enumerates, Types
<1>11. /\ recv' \in [Rank -> Seq(AnyPacket)] /\ recv'[r] = data
       /\ \A q \in Rank : q # r => recv'[q] = recv[q]
  BY <1>2, <1>10
<1> HIDE DEF data, k
<1>12. Types' /\ Processes'
  BY <1>1, <1>2, <1>8, <1>9, <1>11, PlaceStep DEF k
<1> QED BY <1>7, <1>12 DEF IInv

\* Nothing is sent or received.
LEMMA ReturnsStep ==
    ASSUME IInv, NEW r \in Rank, NEW l \in Places, loc' = [loc EXCEPT ![r] = l],
           UNCHANGED <<sBuffer, range, level, send, recv, rBuffer, channel>>,
           ProcessInv(sBuffer, r, l, level[r], send[r], recv[r], rBuffer[r])
    PROVE  IInv'
<1>1. Types /\ Processes /\ Messages
  BY DEF IInv
<1>2. Messages'
  BY <1>1 DEF Messages, Rank, size
<1>3. Types' /\ Processes'
  BY <1>1, PlaceStep DEF Types
<1> QED BY <1>2, <1>3 DEF IInv

LEMMA ReturnStep ==
    ASSUME IInv, NEW r \in Rank, Return(r)
    PROVE  IInv'
<1> DEFINE c == sBuffer
           k == level[r]
           g == Group(sBuffer, r, k)
<1>1. Types /\ Processes
  BY DEF IInv
<1>2. /\ loc[r] = "split" /\ ~Splits(r) /\ loc' = [loc EXCEPT ![r] = "returned"]
      /\ UNCHANGED <<sBuffer, range, level, send, recv, rBuffer, channel>>
  BY DEF Return
<1>3. ~(k < levels /\ g.left + 1 < g.right)
  BY <1>1, <1>2, Names
<1>4. /\ IsCase(c) /\ r \in 0..(Len(c) - 1) /\ k \in 0..Len(c) /\ k \in Nat
      /\ size = Len(c) /\ size \in Nat
      /\ Lists(send[r], Kept(c, r, k)) /\ Enumerates(rBuffer[r], Got(c, r, k))
  BY <1>1, <1>2, ProcessFacts
<1>5. ~(g.left + 1 < g.right)
  <2>1. CASE k < levels
    BY <1>3, <2>1
  <2>2. CASE ~(k < levels)
    <3>1. levels \in 0..size
      BY <1>4, LevelsFacts
    <3>2. k \in levels..size
      BY <1>4, <2>2, <3>1
    <3> QED BY <1>4, <3>2, AloneAtLast DEF Group
  <2> QED BY <2>1, <2>2
<1>6. "returned" \in Places /\ "returned" \notin LowerPlaces \cup UpperPlaces
  BY DEF Places, UpperPlaces, LowerPlaces
<1>7. "returned" # "receiveExtra"
  OBVIOUS
<1>8. ProcessInv(c, r, "returned", k, send[r], recv[r], rBuffer[r])
  BY <1>4, <1>5, <1>6, <1>7 DEF ProcessInv
<1> QED BY <1>2, <1>6, <1>8, ReturnsStep

LEMMA SendReturnsStep ==
    ASSUME IInv, NEW r \in Rank,
           UNCHANGED <<sBuffer, range, level, send, recv, rBuffer, channel>>,
           \/ loc[r] = "sendExtra" /\ loc' = [loc EXCEPT ![r] = "split"]
           \/ loc[r] = "sendUp" /\ loc' = [loc EXCEPT ![r] = "receiveDown"]
           \/ /\ loc[r] = "sendDown" /\ Odd(r) /\ r = mid(r)
              /\ loc' = [loc EXCEPT ![r] = "receiveExtra"]
    PROVE  IInv'
<1> DEFINE c == sBuffer
           k == level[r]
           g == Group(sBuffer, r, k)
           Inv(l) == ProcessInv(c, r, l, k, send[r], recv[r], rBuffer[r])
<1>1. Types /\ Processes
  BY DEF IInv
<1>2. Inv(loc[r])
  BY <1>1 DEF Processes
<1>3. {"split", "sendUp", "receiveDown", "sendDown", "receiveExtra"} \subseteq Places
  BY DEF Places, LowerPlaces, UpperPlaces
<1>4. CASE loc[r] = "sendExtra" /\ loc' = [loc EXCEPT ![r] = "split"]
  <2>1. Inv("split")
    BY <1>2, <1>4 DEF ProcessInv, LowerPlaces, UpperPlaces
  <2> QED BY <1>3, <1>4, <2>1, ReturnsStep
<1>5. CASE loc[r] = "sendUp" /\ loc' = [loc EXCEPT ![r] = "receiveDown"]
  <2>1. Inv("receiveDown")
    BY <1>2, <1>5 DEF ProcessInv, LowerPlaces, UpperPlaces
  <2> QED BY <1>3, <1>5, <2>1, ReturnsStep
<1>6. CASE /\ loc[r] = "sendDown" /\ Odd(r) /\ r = mid(r)
           /\ loc' = [loc EXCEPT ![r] = "receiveExtra"]
  <2>1. Middle(g) - g.left > g.right - Middle(g) /\ r = Middle(g)
    BY <1>1, <1>6, Names
  <2>2. Inv("receiveExtra")
    BY <1>2, <1>6, <2>1 DEF ProcessInv, LowerPlaces, UpperPlaces
  <2> QED BY <1>3, <1>6, <2>2, ReturnsStep
<1> QED BY <1>4, <1>5, <1>6

\* Both halves go on with what they have merged.
LEMMA MergedStep ==
    ASSUME IInv, NEW r \in Rank, NextLevel(r), loc[r] \in LowerPlaces \cup UpperPlaces,
           loc' = [loc EXCEPT ![r] = "split"], UNCHANGED sBuffer,
           NEW rcv \in Seq(AnyPacket), recv' = [recv EXCEPT ![r] = rcv],
           NEW snd, send' = [send EXCEPT ![r] = snd],
           NEW rbuf, rBuffer' = [rBuffer EXCEPT ![r] = rbuf],
           Lists(snd, Kept(sBuffer, r, level[r] + 1)),
           Enumerates(rbuf, Got(sBuffer, r, level[r] + 1))
    PROVE  Types' /\ Processes'
<1> DEFINE c == sBuffer
           k == level[r] + 1
<1>1. Types /\ Processes
  BY DEF IInv
<1>2. /\ IsCase(c) /\ level[r] \in 0..(Len(c) - 1) /\ level[r] < size
  BY <1>1, ProcessFacts
<1>3. k \in Nat /\ k \in 0..Len(c)
  BY <1>2 DEF IsCase
<1>4. /\ level' = [level EXCEPT ![r] = k]
      /\ range' = [range EXCEPT ![r] = Group(c, r, k)]
  BY <1>1, <1>2, NextLevelFacts
<1>5. "split" \in Places /\ "split" \notin LowerPlaces \cup UpperPlaces
      /\ "split" # "receiveExtra" /\ "split" # "returned"
  BY DEF Places, UpperPlaces, LowerPlaces
<1>6. snd \in Seq(AnyPacket) /\ rbuf \in Seq(AnyPacket)
  BY DEF Lists, Enumerates
<1>7. ProcessInv(c, r, "split", k, snd, rcv, rbuf)
  BY <1>3, <1>5 DEF ProcessInv
<1> QED BY <1>1, <1>3, <1>4, <1>5, <1>6, <1>7, OneProcess

LEMMA ReceiveDownStep ==
    ASSUME IInv, NEW r \in Rank, ReceiveDown(r)
    PROVE  IInv'
<1> DEFINE c == sBuffer
           k == level[r]
           g == Group(sBuffer, r, k)
           m == Middle(g)
           s == r + (m - g.left)
           data == Head(channel[<<Partner(r), r>>])
           arrived == Parts(data, g.left, m - 1, 1, After(data))
           kept == Parts(send[r], g.left, m - 1, 1, After(send[r]))
<1>1. Types /\ Processes /\ Messages
  BY DEF IInv
<1>2. /\ loc[r] = "receiveDown" /\ Take(Partner(r), r)
      /\ Merge(r, left(r), mid(r) - 1,
               <<Parts(data, left(r), mid(r) - 1, 1, After(data))>>,
               Parts(send[r], left(r), mid(r) - 1, 1, After(send[r])))
      /\ NextLevel(r) /\ loc' = [loc EXCEPT ![r] = "split"]
      /\ UNCHANGED <<sBuffer, recv>>
  BY DEF ReceiveDown
<1>3. "receiveDown" \in LowerPlaces
  BY DEF LowerPlaces
<1>4. r < m /\ s < g.right
  <2>1. ProcessInv(c, r, "receiveDown", k, send[r], recv[r], rBuffer[r])
    BY <1>1, <1>2 DEF Processes
  <2> QED BY <1>3, <2>1 DEF ProcessInv
<1>5. Partner(r) = s /\ left(r) = g.left /\ mid(r) = m
  BY <1>1, <1>4, Names
<1>6. /\ IsCase(c) /\ r \in 0..(Len(c) - 1) /\ k \in 0..(Len(c) - 1)
      /\ g.left + 1 < g.right /\ Rank = 0..(Len(c) - 1)
      /\ k \in 0..Len(c) /\ g \in Interval(Len(c)) /\ In(r, g) /\ r \in Int
      /\ g.left \in Int /\ g.right \in Int /\ g.left <= r /\ r < g.right
      /\ size = Len(c) /\ size \in Nat /\ recv[r] \in Seq(AnyPacket)
      /\ recv = [recv EXCEPT ![r] = recv[r]]
      /\ Lists(send[r], Kept(c, r, k)) /\ Enumerates(rBuffer[r], Got(c, r, k))
  BY <1>1, <1>2, <1>3, ProcessFacts
<1>7. /\ In(s, g) /\ ~(s < m) /\ Other(g, r) = s /\ Other(g, s) = r /\ m \in Int
      /\ g.left < m
  BY <1>4, <1>6, PartnerFacts
<1>8. s \in Rank
  BY <1>6, <1>7, OtherIsProcess
<1>9. Messages' /\ Lists(data, Moving(c, s, k))
  BY <1>2, <1>5, <1>6, <1>7, <1>8, TakeStep
<1>10. /\ Lists(Merged(r, g.left, m - 1, arrived, kept), Kept(c, r, k + 1))
       /\ Enumerates(rBuffer[r] \o arrived[r], Got(c, r, k + 1))
  BY <1>4, <1>6, <1>9, MergeLower
<1>11. ASSUME NEW q \in (g.left)..(m - 1) PROVE arrived[q] \in Seq(AnyPacket)
  <2>1. \A p \in Moving(c, s, k) : g.left <= p.to /\ p.to < g.right
    <3>1. Group(c, s, k) = g
      <4>1. s \in 0..(Len(c) - 1) /\ Len(c) \in Nat
        BY <1>6, <1>8
      <4>2. In(s, Group(c, r, k))
        BY <1>7
      <4> HIDE DEF s, k
      <4> QED BY <1>6, <4>1, <4>2, SameGroup
    <3>2. \A p \in Mine(c, s, k) : g.left <= p.to /\ p.to < g.right
      BY <1>6, <1>8, <3>1, MovingKept
    <3> QED BY <3>2, MovingSubset
  <2>2. IsCut(data, 1, g.left)
    BY <1>6, <1>9, <2>1, EndCuts
  <2>3. g.left \in Int /\ m - 1 \in Int /\ g.left <= m - 1
    BY <1>6, <1>7
  <2>4. Lists(arrived[q], For(Moving(c, s, k), q))
    BY <1>9, <2>2, <2>3, PartsLists
  <2> QED BY <2>4 DEF Lists, Enumerates
<1> DEFINE got == <<arrived>>
<1>12. \A q \in (g.left)..(m - 1) : Joined(got, q) = arrived[q]
  BY <1>11, OneArrived
<1>13. Merge(r, g.left, m - 1, got, kept)
  BY <1>2, <1>5
<1>14. g.left \in Int /\ m - 1 \in Int /\ r \in (g.left)..(m - 1)
  BY <1>4, <1>6, <1>7
<1> HIDE DEF got, kept, arrived, data, m, s, k
<1>15. Arrives(got, r, g.left, m - 1, arrived)
  BY <1>12, <1>14 DEF Arrives
<1>16. Delivers(r, g.left, m - 1, arrived, kept)
  BY <1>13, <1>15, MergeResult
<1>17. /\ send' = [send EXCEPT ![r] = Merged(r, g.left, m - 1, arrived, kept)]
       /\ rBuffer' = [rBuffer EXCEPT ![r] = rBuffer[r] \o arrived[r]]
  BY <1>16 DEF Delivers
<1>18. recv' = [recv EXCEPT ![r] = recv[r]]
  BY <1>2, <1>6
<1>19. Types' /\ Processes'
  BY <1>2, <1>3, <1>6, <1>10, <1>17, <1>18, MergedStep DEF k
<1> QED BY <1>9, <1>19 DEF IInv

\* The parts of what arrives in the upper half.
LEMMA LowerParts ==
    ASSUME NEW c, IsCase(c), NEW r \in 0..(Len(c) - 1),
           NEW k \in 0..(Len(c) - 1), NEW g, g = Group(c, r, k),
           g.left + 1 < g.right, NEW s \in Int, In(s, g), s < Middle(g),
           NEW data, Lists(data, Moving(c, s, k)),
           NEW t \in (Middle(g))..(g.right - 1)
    PROVE  LET part == Parts(data, Middle(g), g.right - 1, 1, After(data))[t]
           IN part \in Seq(AnyPacket) /\ Enumerates(part, For(Moving(c, s, k), t))
<1> DEFINE m == Middle(g)
<1>1. k \in 0..Len(c) /\ Len(c) \in Nat
  BY DEF IsCase
<1>2. g \in Interval(Len(c)) /\ In(r, g) /\ r \in Int /\ g.left \in Int /\ g.right \in Int
  BY <1>1, GroupFacts
<1>3. m \in Int /\ m < g.right
  BY <1>1, <1>2, PartnerFacts
<1>4. \A p \in Moving(c, s, k) : m <= p.to /\ p.to < g.right
  BY LowerMoving
<1>5. IsCut(data, 1, m)
  BY <1>2, <1>3, <1>4, EndCuts
<1>6. m \in Int /\ g.right - 1 \in Int /\ m <= g.right - 1
  BY <1>2, <1>3
<1>7. Lists(Parts(data, m, g.right - 1, 1, After(data))[t], For(Moving(c, s, k), t))
  BY <1>5, <1>6, PartsLists
<1> QED BY <1>7 DEF Lists, Enumerates

LEMMA OneMessage ==
    ASSUME NEW c, IsCase(c), NEW r \in 0..(Len(c) - 1),
           NEW k \in 0..(Len(c) - 1), NEW g, g = Group(c, r, k),
           g.left + 1 < g.right, ~(r < Middle(g)),
           ~(Middle(g) - g.left > g.right - Middle(g) /\ r = Middle(g)),
           NEW data, Lists(data, Moving(c, r - (Middle(g) - g.left), k)),
           NEW t \in (Middle(g))..(g.right - 1)
    PROVE  LET part == Parts(data, Middle(g), g.right - 1, 1, After(data))[t]
           IN part \in Seq(AnyPacket) /\ Enumerates(part, For(FromLower(c, r, k), t))
<1> DEFINE m == Middle(g)
           q == r - (m - g.left)
<1>1. k \in 0..Len(c) /\ Len(c) \in Nat
  BY DEF IsCase
<1>2. g \in Interval(Len(c)) /\ In(r, g) /\ r \in Int /\ g.left \in Int
  BY <1>1, GroupFacts
<1>3. m \in Int /\ In(q, g) /\ q < m
  BY <1>1, <1>2, PartnerFacts
<1>4. q \in Int
  BY <1>2, <1>3
<1>5. FromLower(c, r, k) = Moving(c, q, k)
  BY DEF FromLower
<1> HIDE DEF q
<1> QED BY <1>3, <1>4, <1>5, LowerParts DEF q

LEMMA TwoMessages ==
    ASSUME NEW c, IsCase(c), NEW r \in 0..(Len(c) - 1),
           NEW k \in 0..(Len(c) - 1), NEW g, g = Group(c, r, k),
           g.left + 1 < g.right,
           Middle(g) - g.left > g.right - Middle(g), r = Middle(g),
           NEW data, Lists(data, Moving(c, r - (Middle(g) - g.left), k)),
           NEW extra, Lists(extra, Moving(c, Middle(g) - 1, k)),
           NEW t \in (Middle(g))..(g.right - 1)
    PROVE  LET a == Parts(data, Middle(g), g.right - 1, 1, After(data))[t]
               b == Parts(extra, Middle(g), g.right - 1, 1, After(extra))[t]
           IN /\ a \in Seq(AnyPacket) /\ b \in Seq(AnyPacket)
              /\ Enumerates(a \o b, For(FromLower(c, r, k), t))
<1> DEFINE m == Middle(g)
           q == r - (m - g.left)
           e == m - 1
           a == Parts(data, m, g.right - 1, 1, After(data))[t]
           b == Parts(extra, m, g.right - 1, 1, After(extra))[t]
<1>1. k \in 0..Len(c) /\ Len(c) \in Nat
  BY DEF IsCase
<1>2. g \in Interval(Len(c)) /\ In(r, g) /\ r \in Int /\ g.left \in Int /\ g.right \in Int
  BY <1>1, GroupFacts
<1>3. m \in Int /\ In(q, g) /\ q < m /\ In(e, g) /\ e < m /\ m < g.right
  BY <1>1, <1>2, PartnerFacts, SMTT(20)
<1>4. q \in Int /\ e \in Int /\ q # e
  <2> DEFINE x == g.left
             y == g.right
  <2>1. m - x > y - m /\ r = m /\ m < y /\ m \in Int /\ x \in Int /\ y \in Int
    BY <1>2, <1>3
  <2>2. q = r - (m - x)
    OBVIOUS
  <2> HIDE DEF m, x, y, q
  <2>3. m - 1 \in Int /\ q \in Int /\ q # m - 1
    BY <2>1, <2>2
  <2> QED BY <2>3
<1>5. FromLower(c, r, k) = Moving(c, q, k) \cup Moving(c, e, k)
  BY DEF FromLower
<1>6. a \in Seq(AnyPacket) /\ Enumerates(a, For(Moving(c, q, k), t))
  <2> HIDE DEF q
  <2> QED BY <1>3, <1>4, LowerParts DEF q
<1>7. b \in Seq(AnyPacket) /\ Enumerates(b, For(Moving(c, e, k), t))
  <2> HIDE DEF e
  <2> QED BY <1>3, <1>4, LowerParts DEF e
<1>8. For(Moving(c, q, k), t) \cap For(Moving(c, e, k), t) = {}
  <2> HIDE DEF q, e
  <2> QED BY <1>4, MovingSubset DEF For, Mine
<1>9. For(FromLower(c, r, k), t)
        = For(Moving(c, q, k), t) \cup For(Moving(c, e, k), t)
  <2> HIDE DEF q, e
  <2> QED BY <1>5 DEF For
<1>10. Enumerates(a \o b, For(FromLower(c, r, k), t))
  <2> DEFINE A == For(Moving(c, q, k), t)
             B == For(Moving(c, e, k), t)
  <2>1. Enumerates(a, A) /\ Enumerates(b, B) /\ A \cap B = {}
    BY <1>6, <1>7, <1>8
  <2> HIDE DEF A, B, a, b
  <2>2. Enumerates(a \o b, A \cup B)
    BY <2>1, ConcatEnumerates
  <2> QED BY <1>9, <2>2 DEF A, B
<1> QED BY <1>6, <1>7, <1>10

\* The parts of the messages that an upper process merges.
PartsOf(messages, first, last) ==
    [i \in DOMAIN messages |->
        Parts(messages[i], first, last, 1, After(messages[i]))]

UpperFacts(r, g) ==
    /\ g = Group(sBuffer, r, level[r]) /\ ~(r < Middle(g))
    /\ mid(r) = Middle(g) /\ left(r) = g.left /\ right(r) = g.right
    /\ Partner(r) = r - (Middle(g) - g.left)
    /\ Odd(r) <=> Middle(g) - g.left > g.right - Middle(g)
    /\ g.left + 1 < g.right /\ g.left \in Int /\ g.right \in Int
    /\ Middle(g) \in Int /\ r \in (Middle(g))..(g.right - 1)
    /\ IsCase(sBuffer) /\ r \in 0..(Len(sBuffer) - 1) /\ r \in Int
    /\ level[r] \in 0..(Len(sBuffer) - 1) /\ g \in Interval(Len(sBuffer))
    /\ In(r, g) /\ Rank = 0..(Len(sBuffer) - 1)
    /\ Lists(recv[r], Moving(sBuffer, r - (Middle(g) - g.left), level[r]))

LEMMA UpperProcess ==
    ASSUME IInv, NEW r \in Rank, loc[r] \in UpperPlaces
    PROVE  UpperFacts(r, Group(sBuffer, r, level[r]))
<1> DEFINE c == sBuffer
           k == level[r]
           g == Group(sBuffer, r, k)
           m == Middle(g)
<1>1. Types /\ Processes
  BY DEF IInv
<1>2. ProcessInv(c, r, loc[r], k, send[r], recv[r], rBuffer[r])
  BY <1>1 DEF Processes
<1>3. ~(r < m) /\ Lists(recv[r], Moving(c, r - (m - g.left), k))
  BY <1>2 DEF ProcessInv
<1>4. /\ IsCase(c) /\ r \in 0..(Len(c) - 1) /\ k \in 0..(Len(c) - 1)
      /\ g.left + 1 < g.right /\ Rank = 0..(Len(c) - 1)
      /\ g \in Interval(Len(c)) /\ In(r, g) /\ r \in Int
      /\ g.left \in Int /\ g.right \in Int /\ g.left <= r /\ r < g.right
      /\ size = Len(c) /\ size \in Nat
  BY <1>1, ProcessFacts
<1>5. m \in Int
  BY <1>4, PartnerFacts
<1>6. /\ mid(r) = m /\ left(r) = g.left /\ right(r) = g.right
      /\ Partner(r) = r - (m - g.left) /\ (Odd(r) <=> m - g.left > g.right - m)
  BY <1>1, <1>3, Names
<1> HIDE DEF m
<1>7. r \in m..(g.right - 1)
  BY <1>3, <1>4, <1>5
<1> QED BY <1>3, <1>4, <1>5, <1>6, <1>7 DEF UpperFacts, m

LEMMA MergeUpperStep ==
    ASSUME IInv, NEW r \in Rank, loc[r] \in UpperPlaces, NEW messages,
           MergeUpper(r, messages), NEW g, UpperFacts(r, g), NEW arrived,
           \A t \in (Middle(g))..(g.right - 1) :
              /\ Joined(PartsOf(messages, Middle(g), g.right - 1), t) = arrived[t]
              /\ Enumerates(arrived[t], For(FromLower(sBuffer, r, level[r]), t))
    PROVE  Types' /\ Processes'
<1> DEFINE c == sBuffer
           k == level[r]
           m == Middle(g)
           last == g.right - 1
           got == PartsOf(messages, m, last)
           kept == Parts(send[r], m, last, movebefore(send[r], m, 1, After(send[r])),
                         After(send[r]))
<1>1. /\ Merge(r, mid(r), right(r) - 1, PartsOf(messages, mid(r), right(r) - 1),
               Parts(send[r], mid(r), right(r) - 1, Upper(r), After(send[r])))
      /\ NextLevel(r) /\ loc' = [loc EXCEPT ![r] = "split"]
      /\ recv' = [recv EXCEPT ![r] = <<>>] /\ UNCHANGED sBuffer
  BY DEF MergeUpper, PartsOf
<1>2. /\ g = Group(c, r, k) /\ ~(r < m) /\ mid(r) = m /\ right(r) = g.right
      /\ g.left + 1 < g.right /\ g.left \in Int /\ g.right \in Int /\ m \in Int
      /\ r \in m..last /\ IsCase(c) /\ r \in 0..(Len(c) - 1)
      /\ k \in 0..(Len(c) - 1) /\ r \in Int
  BY DEF UpperFacts
<1>3. Merge(r, m, last, got, kept)
  BY <1>1, <1>2 DEF Upper
<1>4. Lists(send[r], Kept(c, r, k)) /\ Enumerates(rBuffer[r], Got(c, r, k))
  BY ProcessFacts DEF IInv
<1>5. /\ Lists(Merged(r, m, last, arrived, kept), Kept(c, r, k + 1))
      /\ Enumerates(rBuffer[r] \o arrived[r], Got(c, r, k + 1))
  BY <1>2, <1>4, MergeUpperHalf
<1>6. \A t \in m..last : Joined(got, t) = arrived[t]
  OBVIOUS
<1>7. last \in Int
  BY <1>2
<1> HIDE DEF got, kept, m, last, k
<1>8. Arrives(got, r, m, last, arrived)
  BY <1>2, <1>6, <1>7 DEF Arrives
<1>9. Delivers(r, m, last, arrived, kept)
  BY <1>3, <1>8, MergeResult
<1>10. /\ send' = [send EXCEPT ![r] = Merged(r, m, last, arrived, kept)]
       /\ rBuffer' = [rBuffer EXCEPT ![r] = rBuffer[r] \o arrived[r]]
  BY <1>9 DEF Delivers
<1>11. <<>> \in Seq(AnyPacket) /\ loc[r] \in LowerPlaces \cup UpperPlaces
  OBVIOUS
<1> QED BY <1>1, <1>5, <1>10, <1>11, MergedStep DEF k

LEMMA SendDownReturnsStep ==
    ASSUME IInv, NEW r \in Rank, loc[r] = "sendDown", ~(Odd(r) /\ r = mid(r)),
           MergeUpper(r, <<recv[r]>>), UNCHANGED channel
    PROVE  IInv'
<1> DEFINE c == sBuffer
           k == level[r]
           g == Group(sBuffer, r, k)
           m == Middle(g)
           data == recv[r]
           messages == <<data>>
           arrived == Parts(data, m, g.right - 1, 1, After(data))
<1>1. loc[r] \in UpperPlaces
  BY DEF UpperPlaces
<1>2. UpperFacts(r, g)
  BY <1>1, UpperProcess
<1>3. /\ ~(r < m) /\ ~(m - g.left > g.right - m /\ r = m)
      /\ g.left + 1 < g.right /\ IsCase(c) /\ r \in 0..(Len(c) - 1)
      /\ k \in 0..(Len(c) - 1) /\ Lists(data, Moving(c, r - (m - g.left), k))
  BY <1>2 DEF UpperFacts
<1>4. \A t \in m..(g.right - 1) :
        /\ arrived[t] \in Seq(AnyPacket)
        /\ Enumerates(arrived[t], For(FromLower(c, r, k), t))
  BY <1>3, OneMessage
<1>5. PartsOf(messages, m, g.right - 1) = <<arrived>>
  BY DEF PartsOf
<1>6. \A t \in m..(g.right - 1) : Joined(<<arrived>>, t) = arrived[t]
  BY <1>4, OneArrived
<1>7. MergeUpper(r, messages)
  OBVIOUS
<1> HIDE DEF arrived, messages, data, g, k, m
<1>8. \A t \in m..(g.right - 1) :
        /\ Joined(PartsOf(messages, m, g.right - 1), t) = arrived[t]
        /\ Enumerates(arrived[t], For(FromLower(c, r, k), t))
  BY <1>4, <1>5, <1>6
<1>9. Types' /\ Processes'
  BY <1>1, <1>2, <1>7, <1>8, MergeUpperStep DEF k, m
<1>10. Messages'
  BY DEF IInv, Messages, Rank, size, MergeUpper
<1> QED BY <1>9, <1>10 DEF IInv

LEMMA ReceiveExtraStep ==
    ASSUME IInv, NEW r \in Rank, ReceiveExtra(r)
    PROVE  IInv'
<1> DEFINE c == sBuffer
           k == level[r]
           g == Group(sBuffer, r, k)
           m == Middle(g)
           s == m - 1
           data == recv[r]
           extra == Head(channel[<<s, r>>])
           messages == <<data, extra>>
           a == Parts(data, m, g.right - 1, 1, After(data))
           b == Parts(extra, m, g.right - 1, 1, After(extra))
           arrived == [t \in m..(g.right - 1) |-> a[t] \o b[t]]
<1>1. /\ loc[r] = "receiveExtra" /\ Take(mid(r) - 1, r)
      /\ MergeUpper(r, <<recv[r], Head(channel[<<mid(r) - 1, r>>])>>)
  BY DEF ReceiveExtra
<1>2. loc[r] \in UpperPlaces
  BY <1>1 DEF UpperPlaces
<1>3. UpperFacts(r, g)
  BY <1>2, UpperProcess
<1>4. ProcessInv(c, r, "receiveExtra", k, send[r], recv[r], rBuffer[r])
  BY <1>1 DEF Processes, IInv
<1>5. m - g.left > g.right - m /\ r = m
  BY <1>4 DEF ProcessInv
<1>6. /\ mid(r) = m /\ g.left + 1 < g.right /\ IsCase(c) /\ r \in 0..(Len(c) - 1)
      /\ k \in 0..(Len(c) - 1) /\ Lists(data, Moving(c, r - (m - g.left), k))
      /\ g \in Interval(Len(c)) /\ In(r, g) /\ r \in Int /\ m \in Int
      /\ Rank = 0..(Len(c) - 1) /\ g.left \in Int /\ g.right \in Int
  BY <1>3 DEF UpperFacts
<1>7. Len(c) \in Nat
  BY <1>6 DEF IsCase
<1>8. Other(g, s) = r /\ In(s, g) /\ s < m
  BY <1>5, <1>6, <1>7, PartnerFacts
<1>9. s \in Rank
  BY <1>6, <1>7, <1>8 DEF In, Interval
<1>10. UNCHANGED sBuffer
  BY <1>1 DEF MergeUpper
<1>11. Messages' /\ Lists(extra, Moving(c, s, k))
  BY <1>1, <1>6, <1>8, <1>9, <1>10, TakeStep
<1>12. \A t \in m..(g.right - 1) :
        /\ a[t] \in Seq(AnyPacket) /\ b[t] \in Seq(AnyPacket)
        /\ Enumerates(a[t] \o b[t], For(FromLower(c, r, k), t))
  BY <1>5, <1>6, <1>11, TwoMessages
<1>13. PartsOf(messages, m, g.right - 1) = <<a, b>>
  BY DEF PartsOf
<1>14. MergeUpper(r, messages)
  BY <1>1, <1>6
<1> HIDE DEF a, b, messages, data, extra, g, k, s, m
<1>15. \A t \in m..(g.right - 1) : Joined(<<a, b>>, t) = a[t] \o b[t]
  BY <1>12, TwoArrived
<1>16. \A t \in m..(g.right - 1) : arrived[t] = a[t] \o b[t]
  OBVIOUS
<1> HIDE DEF arrived
<1>17. \A t \in m..(g.right - 1) :
        /\ Joined(PartsOf(messages, m, g.right - 1), t) = arrived[t]
        /\ Enumerates(arrived[t], For(FromLower(c, r, k), t))
  BY <1>12, <1>13, <1>15, <1>16
<1>18. Types' /\ Processes'
  BY <1>2, <1>3, <1>14, <1>17, MergeUpperStep DEF k, m
<1> QED BY <1>11, <1>18 DEF IInv

-----------------------------------------------------------------------------
(* The invariant holds, and what it says at the end.                       *)

LEMMA CasesAreCases ==
    ASSUME NEW c \in Cases
    PROVE  IsCase(c)
<1>1. /\ c \in Seq(Seq([from : Nat, to : Nat])) /\ Len(c) \in 1..MaxSize
      /\ \A s \in DOMAIN c : IsBuffer(c[s], s - 1, Len(c))
  BY CasesAssumption
<1>2. Len(c) \in Nat \ {0} /\ DOMAIN c = 1..Len(c)
  BY <1>1
<1> QED BY <1>1, <1>2 DEF IsCase, AnyPacket

\* At the beginning a process has what it sends.
LEMMA FirstLevel ==
    ASSUME NEW c, IsCase(c), NEW r \in 0..(Len(c) - 1), NEW b, b = c[r + 1]
    PROVE  /\ Lists(b, Kept(c, r, 0)) /\ Kept(c, r, 0) = ToSet(b)
           /\ \A p \in ToSet(b) : p.to \in 0..(Len(c) - 1)
           /\ \A p : p \in Got(c, r, 0) <=> p \in ToSet(b) /\ p.to = r
           /\ Group(c, r, 0) = [left |-> 0, right |-> Len(c)]
<1> DEFINE n == Len(c)
<1>1. n \in Nat /\ r + 1 \in 1..n /\ r \in Int
  BY DEF IsCase
<1>2. IsBuffer(b, (r + 1) - 1, n) /\ b \in Seq(AnyPacket)
  BY <1>1 DEF IsCase
<1>3. (r + 1) - 1 = r
  BY <1>1
<1>4. /\ b \in Seq([from : {r}, to : 0..(n - 1)])
      /\ \A i, j \in 1..Len(b) : i < j => b[i].to < b[j].to
  BY <1>2, <1>3 DEF IsBuffer
<1>5. \A i \in 1..Len(b) : b[i] \in [from : {r}, to : 0..(n - 1)]
  <2> DEFINE S == [from : {r}, to : 0..(n - 1)]
  <2>1. b \in Seq(S)
    BY <1>4
  <2> HIDE DEF S
  <2>2. \A i \in 1..Len(b) : b[i] \in S
    BY <2>1
  <2> QED BY <2>2 DEF S
<1>6. ToSet(b) = {b[i] : i \in 1..Len(b)} /\ Len(b) \in Nat
      /\ \A i \in 1..Len(b) : b[i].to \in Int
  BY <1>2, PacketFacts
<1>7. \A p \in ToSet(b) : p.from = r /\ p.to \in 0..(n - 1)
  BY <1>5, <1>6
<1>8. Mine(c, r, 0) = ToSet(b)
  <2>1. ASSUME NEW p \in Sent(c) PROVE At(c, p, 0) = p.from
    BY <1>1, <2>1, SentFacts, HolderTable DEF At
  <2>2. ASSUME NEW p \in Mine(c, r, 0) PROVE p \in ToSet(b)
    <3>1. p \in Sent(c) /\ At(c, p, 0) = r
      BY DEF Mine
    <3> QED BY <2>1, <3>1, SentFacts
  <2>3. ASSUME NEW p \in ToSet(b) PROVE p \in Mine(c, r, 0)
    <3>1. p \in Sent(c)
      BY <1>1 DEF Sent
    <3> QED BY <1>7, <2>1, <3>1 DEF Mine
  <2> QED BY <2>2, <2>3
<1>9. Kept(c, r, 0) = ToSet(b)
  BY <1>8 DEF Kept
<1>10. \A p : p \in Got(c, r, 0) <=> p \in ToSet(b) /\ p.to = r
  BY <1>8 DEF Got
<1>11. Enumerates(b, ToSet(b))
  <2>1. ASSUME NEW i \in 1..Len(b), NEW j \in 1..Len(b), i # j PROVE b[i] # b[j]
    <3>1. i < j \/ j < i
      BY <1>6, <2>1
    <3>2. b[i].to < b[j].to \/ b[j].to < b[i].to
      BY <1>4, <3>1
    <3>3. b[i].to \in Int /\ b[j].to \in Int
      BY <1>6
    <3> HIDE DEF n
    <3> QED BY <3>2, <3>3
  <2> QED BY <1>2, <2>1 DEF Enumerates
<1>12. Lists(b, ToSet(b))
  <2>1. \A i, j \in 1..Len(b) : i < j => b[i].to <= b[j].to
    BY <1>4, <1>6
  <2> QED BY <1>11, <2>1 DEF Lists
<1>13. Group(c, r, 0) = [left |-> 0, right |-> n]
  BY <1>1, RangeTable DEF Group
<1> QED BY <1>7, <1>9, <1>10, <1>12, <1>13

\* Its own packets are delivered at once.
LEMMA FirstDelivered ==
    ASSUME NEW c, IsCase(c), NEW r \in 0..(Len(c) - 1), NEW b, b = c[r + 1],
           NEW begin, begin = movebefore(b, r, 1, After(b)),
           NEW end, end = movebefore(b, r + 1, begin, After(b))
    PROVE  Enumerates(Part(b, begin, end), Got(c, r, 0))
<1> DEFINE n == Len(c)
<1>1. n \in Nat /\ r \in Int /\ r + 1 \in Int /\ 0 <= r /\ r <= r + 1
  BY DEF IsCase
<1>2. /\ Lists(b, ToSet(b)) /\ \A p \in ToSet(b) : p.to \in 0..(n - 1)
      /\ \A p : p \in Got(c, r, 0) <=> p \in ToSet(b) /\ p.to = r
  BY FirstLevel
<1>3. IsCut(b, 1, 0)
  <2>1. \A p \in ToSet(b) : 0 <= p.to /\ p.to < n
    BY <1>1, <1>2
  <2> QED BY <1>1, <1>2, <2>1, EndCuts
<1>4. IsCut(b, begin, r)
  BY <1>1, <1>2, <1>3, MoveBefore
<1>5. IsCut(b, end, r + 1) /\ begin <= end
  BY <1>1, <1>2, <1>4, MoveBefore
<1>6. Lists(Part(b, begin, end), {p \in ToSet(b) : r <= p.to /\ p.to < r + 1})
  BY <1>1, <1>2, <1>4, <1>5, PartLists
<1>7. {p \in ToSet(b) : r <= p.to /\ p.to < r + 1} = Got(c, r, 0)
  <2>1. \A p \in ToSet(b) : p.to \in Int
    BY <1>1, <1>2
  <2>2. \A p : p \in Got(c, r, 0) <=> p \in ToSet(b) /\ r <= p.to /\ p.to < r + 1
    BY <1>1, <1>2, <2>1
  <2> QED BY <2>2
<1> QED BY <1>6, <1>7 DEF Lists

LEMMA InitInv == Init => IInv
<1> SUFFICES ASSUME Init PROVE IInv
  OBVIOUS
<1> DEFINE c == sBuffer
<1>1. c \in Cases /\ IsCase(c) /\ Len(c) \in Nat /\ Rank = 0..(Len(c) - 1)
  BY CasesAreCases DEF Init, IsCase, Rank, size
<1>2. /\ loc = [r \in Rank |-> "split"] /\ level = [r \in Rank |-> 0]
      /\ range = [r \in Rank |-> [left |-> 0, right |-> Len(c)]]
      /\ send = [r \in Rank |-> c[r + 1]] /\ recv = [r \in Rank |-> <<>>]
      /\ channel = [q \in Rank \X Rank |-> <<>>]
  BY DEF Init, size
<1>3. ASSUME NEW r \in Rank
      PROVE  /\ c[r + 1] \in Seq(AnyPacket) /\ Lists(c[r + 1], Kept(c, r, 0))
             /\ Enumerates(rBuffer[r], Got(c, r, 0))
             /\ Group(c, r, 0) = [left |-> 0, right |-> Len(c)]
  <2> DEFINE b == c[r + 1]
             begin == movebefore(b, r, 1, After(b))
             end == movebefore(b, r + 1, begin, After(b))
  <2>1. r \in 0..(Len(c) - 1) /\ send[r] = b
    BY <1>1, <1>2
  <2>2. rBuffer[r] = Part(b, begin, end)
    BY <2>1 DEF Init
  <2>3. Enumerates(Part(b, begin, end), Got(c, r, 0))
    BY <1>1, <2>1, FirstDelivered
  <2>4. Lists(b, Kept(c, r, 0)) /\ Group(c, r, 0) = [left |-> 0, right |-> Len(c)]
    BY <1>1, <2>1, FirstLevel
  <2> QED BY <2>2, <2>3, <2>4 DEF Lists, Enumerates
<1>4. Types
  <2>1. rBuffer \in [Rank -> Seq(AnyPacket)]
    <3>1. rBuffer = [r \in Rank |-> rBuffer[r]]
      BY DEF Init
    <3> QED BY <1>3, <3>1 DEF Enumerates
  <2>2. range = [r \in Rank |-> Group(c, r, level[r])]
    BY <1>2, <1>3
  <2>3. loc \in [Rank -> Places] /\ level \in [Rank -> Nat]
    BY <1>2 DEF Places
  <2>4. send \in [Rank -> Seq(AnyPacket)] /\ recv \in [Rank -> Seq(AnyPacket)]
    BY <1>2, <1>3
  <2> QED BY <1>1, <2>1, <2>2, <2>3, <2>4 DEF Types
<1>5. Processes
  <2> SUFFICES ASSUME NEW r \in Rank
               PROVE  ProcessInv(c, r, loc[r], level[r], send[r], recv[r], rBuffer[r])
    BY DEF Processes
  <2>1. ProcessInv(c, r, "split", 0, c[r + 1], <<>>, rBuffer[r])
    BY <1>1, <1>3 DEF ProcessInv, LowerPlaces, UpperPlaces
  <2> QED BY <1>2, <2>1
<1>6. Messages
  BY <1>2 DEF Messages
<1> QED BY <1>4, <1>5, <1>6 DEF IInv

LEMMA NextInv == IInv /\ [Next]_vars => IInv'
<1> SUFFICES ASSUME IInv, [Next]_vars PROVE IInv'
  OBVIOUS
<1>1. CASE UNCHANGED vars
  BY <1>1 DEF IInv, Types, Processes, Messages, Rank, size, vars
<1>2. ASSUME NEW r \in Rank, Work(r) PROVE IInv'
  BY <1>2, SendExtraStep, SendUpStep, ReceiveDownStep, ReceiveUpStep,
     SendDownStep, ReceiveExtraStep, ReturnStep DEF Work
<1>3. ASSUME NEW r \in Rank, SendReturns(r) PROVE IInv'
  BY <1>3, SendReturnsStep, SendDownReturnsStep DEF SendReturns
<1> QED BY <1>1, <1>2, <1>3 DEF Next, Done

\* What a process has at every place of allToAllWithDataSizeAndTarget is given
\* by its level alone, and a message is that of the level it was sent at.
THEOREM Invariance == Spec => []IInv
<1> QED BY InitInv, NextInv, PTL DEF Spec

LEMMA DeliveredAtEnd == IInv => EveryPacketDelivered
<1> SUFFICES ASSUME IInv, NEW r \in Rank, loc[r] = "returned"
             PROVE  ToSet(rBuffer[r]) = PacketsFor(r) /\ IsInjective(rBuffer[r])
  BY DEF EveryPacketDelivered
<1> DEFINE c == sBuffer
           k == level[r]
           g == Group(sBuffer, r, k)
<1>1. Types /\ Processes
  BY DEF IInv
<1>2. ProcessInv(c, r, "returned", k, send[r], recv[r], rBuffer[r])
  BY <1>1 DEF Processes
<1>3. ~(g.left + 1 < g.right) /\ k \in 0..Len(c)
  BY <1>2 DEF ProcessInv
<1>4. /\ IsCase(c) /\ r \in 0..(Len(c) - 1) /\ Rank = 0..(Len(c) - 1) /\ r \in Int
      /\ Enumerates(rBuffer[r], Got(c, r, k))
      /\ g.left \in Int /\ g.right \in Int /\ g.left <= r /\ r < g.right
  BY <1>1, ProcessFacts
<1>5. g.left = r /\ g.right = r + 1
  BY <1>3, <1>4
<1>6. ASSUME NEW p \in PacketsFor(r) PROVE p \in Got(c, r, k)
  <2>1. /\ p \in Packet /\ p.to = r
        /\ \E i \in DOMAIN c[p.from + 1] : c[p.from + 1][i] = p
    BY DEF PacketsFor
  <2>2. p.from \in 0..(Len(c) - 1) /\ Len(c) \in Nat
    BY <1>4, <2>1 DEF Packet, IsCase
  <2>3. p.from + 1 \in 1..Len(c) /\ p \in ToSet(c[p.from + 1])
    BY <2>1, <2>2 DEF ToSet
  <2>4. p \in Sent(c)
    BY <2>3 DEF Sent
  <2>5. At(c, p, k) \in Int /\ In(At(c, p, k), g)
    BY <1>3, <1>4, <2>1, <2>2, HolderTable DEF At, Group
  <2>6. At(c, p, k) = r
    BY <1>4, <1>5, <2>5 DEF In
  <2> QED BY <2>1, <2>4, <2>6 DEF Got, Mine
<1>7. ASSUME NEW p \in Got(c, r, k) PROVE p \in PacketsFor(r)
  <2>1. p \in Sent(c) /\ p.to = r
    BY DEF Got, Mine
  <2>2. /\ p \in AnyPacket /\ p.to \in 0..(Len(c) - 1) /\ p.from \in 0..(Len(c) - 1)
        /\ p \in ToSet(c[p.from + 1])
    BY <1>4, <2>1, SentFacts
  <2>3. p \in Packet
    BY <1>4, <2>2 DEF Packet, AnyPacket
  <2>4. \E i \in DOMAIN c[p.from + 1] : c[p.from + 1][i] = p
    BY <2>2 DEF ToSet
  <2> QED BY <2>1, <2>3, <2>4 DEF PacketsFor
<1>8. ToSet(rBuffer[r]) = PacketsFor(r)
  BY <1>4, <1>6, <1>7 DEF Enumerates
<1>9. IsInjective(rBuffer[r])
  BY <1>4 DEF Enumerates, IsInjective
<1> QED BY <1>8, <1>9

\* When allToAllWithDataSizeAndTarget returns, a process has exactly the packets
\* addressed to it, each one once, for any number of processes.
THEOREM EveryPacketDeliveredHolds == Spec => []EveryPacketDelivered
<1> QED BY Invariance, DeliveredAtEnd, PTL
=============================================================================
