---------------------------- MODULE Distributions -----------------------------
(***************************************************************************)
(* Distributions of a global sequence over processes: process r of a group *)
(* owns the places d[r] .. d[r + 1] - 1.  They are what getDistribution    *)
(* gathers from the sizes of the processes, what tarray::distribute cuts   *)
(* a sequence into, and what Communication::balance translates between.    *)
(***************************************************************************)
EXTENDS Integers, FiniteSetsExt

CONSTANT Size           \* MPIGroup::size

Rank == 0..(Size - 1)

ASSUME SizeAssumption == Size \in Nat \ {0}

\* Process r owns nothing where d[r] = d[r + 1].
IsDistribution(d) ==
    /\ d \in [0..Size -> Nat]
    /\ d[0] = 0
    /\ \A i, j \in 0..Size : i <= j => d[i] <= d[j]

\* The position std::lower_bound(d.begin(), d.end(), x) returns: the elements
\* before it, and no others, are less than x.
IsLowerBound(d, x, i) ==
    /\ i \in 0..(Size + 1)
    /\ \A j \in 0..Size : j < i <=> d[j] < x

\* How many places process p has in distribution "from" and q in "to".
Overlap(from, to, p, q) ==
    LET first == IF from[p] < to[q] THEN to[q] ELSE from[p]
        last == IF from[p + 1] < to[q + 1] THEN from[p + 1] ELSE to[q + 1]
    IN IF first < last THEN last - first ELSE 0

\* Communication::getDistribution: MPI_Exscan of the sizes, gathered.
getDistribution(size) ==
    [i \in 0..Size |-> MapThenSumSet(LAMBDA r : size[r], 0..(i - 1))]

\* tarray::distribute: equal chunks, rounded up; the last ones may be empty.
distribute(size) ==
    LET chunkSize == (size + Size - 1) \div Size IN
    [i \in 0..Size |-> IF i = Size \/ i * chunkSize > size THEN size
                       ELSE i * chunkSize]
=============================================================================
