---------------------------- MODULE NodeIntervals -----------------------------
(***************************************************************************)
(* The nodes of a decomposed mesh.  A node belongs to a set of domains.  A *)
(* process divides the nodes of its domains into those on the surface of   *)
(* the mesh, those between domains and inner ones, and the nodes of equal  *)
(* domains in one of these groups form an interval: rim and interior of an *)
(* interface are two intervals with the same domains.  The intervals are   *)
(* numbered in an order that the neighbours compute for themselves.        *)
(*                                                                         *)
(* Abstraction: the sorted list of a node's domains, as the source has it, *)
(* is the set of them, and the nodes with these domains count from 1 in    *)
(* the order of their global IDs.                                          *)
(***************************************************************************)
EXTENDS Distributions, SequencesExt

\* The elements of a set in an order.
Sorted(S, Less(_, _)) ==
    [k \in 1..Cardinality(S) |->
        CHOOSE x \in S : Cardinality({y \in S : Less(y, x)}) = k - 1]

\* The elements of a sequence that are in a set, in their order.
Among(seq, S) ==
    LET place == Sorted({k \in DOMAIN seq : seq[k] \in S}, <)
    IN [n \in DOMAIN place |-> seq[place[n]]]

OwnDomains(m, r) == m.domains[r]..(m.domains[r + 1] - 1)

\* d2p: the process of a domain.
d2p(m, d) == CHOOSE r \in Rank : d \in OwnDomains(m, r)

\* The processes of the nodes with the domains D.
nodeRanks(m, D) == {d2p(m, d) : d \in D}

\* What the elements around a node say of it: the processes with a face there
\* that has no neighbour (it is free), and with a face to another domain.  Of a
\* node of several domains that is on no free face, each of its processes has a
\* face to another domain: its elements are only a part of those around it,
\* which are connected through their faces.
IsNode(m, D, n) ==
    /\ n \in [free : SUBSET nodeRanks(m, D), cut : SUBSET nodeRanks(m, D)]
    /\ n.free = {} =>
        n.cut = IF Cardinality(D) = 1 THEN {} ELSE nodeRanks(m, D)

\* A mesh: process p has the domains m.domains[p] .. m.domains[p + 1] - 1;
\* m.nodes[D] lists the nodes with the domains D.
IsMesh(m) ==
    /\ IsDistribution(m.domains)
    /\ \A D \in DOMAIN m.nodes :
        /\ D # {} /\ D \subseteq 0..(m.domains[Size] - 1)
        /\ Len(m.nodes[D]) \in Nat \ {0}
        /\ DOMAIN m.nodes[D] = 1..Len(m.nodes[D])
        /\ \A v \in DOMAIN m.nodes[D] : IsNode(m, D, m.nodes[D][v])
    /\ \A d \in 0..(m.domains[Size] - 1) : \E D \in DOMAIN m.nodes : d \in D

OfProcess(m, r) == {D \in DOMAIN m.nodes : r \in nodeRanks(m, D)}

neighbours(m, r) == (UNION {nodeRanks(m, D) : D \in OfProcess(m, r)}) \ {r}

-----------------------------------------------------------------------------
(* MeshPreprocessing::computeBoundaryNodes: a process only sees the faces  *)
(* of its own elements, and tells its neighbours of the free ones.         *)

Nodes(m, r) == UNION {{D} \X (DOMAIN m.nodes[D]) : D \in OfProcess(m, r)}

external(m, r) == {x \in Nodes(m, r) : r \in m.nodes[x[1]][x[2]].free}
internal(m, r) == {x \in Nodes(m, r) : r \in m.nodes[x[1]][x[2]].cut}

sBuffer(m, r, q) == {x \in external(m, r) : q \in nodeRanks(m, x[1])}

\* What the neighbours have sent and was not sent to any of them.
nExternal(m, r) ==
    (UNION {sBuffer(m, q, r) : q \in neighbours(m, r)})
        \ (UNION {sBuffer(m, r, q) : q \in neighbours(m, r)})

\* Mutant of externalBoundary: the nodes on free faces are not synchronized.
externalOfOwnFaces(m, r) == external(m, r)

externalBoundary(m, r) == external(m, r) \cup nExternal(m, r)
internalBoundary(m, r) == internal(m, r) \ externalBoundary(m, r)

-----------------------------------------------------------------------------
(* MeshPreprocessing::arrangeNodes                                         *)

\* The permutation starts with the external boundary, then comes the internal
\* one; the rest is inside of domains.
group(m, r, x) == IF x \in externalBoundary(m, r) THEN 0
                  ELSE IF x \in internalBoundary(m, r) THEN 1 ELSE 2

\* It is cut into intervals between the groups, and where the domains change.
intervals(m, r) ==
    {[domains |-> x[1], group |-> group(m, r, x)] : x \in Nodes(m, r)}

\* The nodes of an interval, sorted by ID.
nodesOf(m, r, i) ==
    Sorted({v \in DOMAIN m.nodes[i.domains] :
                group(m, r, <<i.domains, v>>) = i.group}, <)

Owner(m, i) == d2p(m, Min(i.domains))

\* The processes of an interval, one for each of its domains.
iranks(m, i) == [k \in 1..Cardinality(i.domains) |->
                    d2p(m, Sorted(i.domains, <)[k])]

ranks(m, i) == nodeRanks(m, i.domains)

\* Mutant of Before: of a list and its beginning the shorter is first.
BeforeShortFirst(i, j) ==
    IF i.domains = j.domains THEN i.group < j.group
    ELSE LET first == Min(SymDiff(i.domains, j.domains))
         IN IF first \in i.domains THEN \E d \in j.domains : d > first
            ELSE \A d \in i.domains : d < first

\* Lists are compared element by element, and of a list and its beginning the
\* longer is first: the first difference decides, and it is in the first one.
\* Equal lists stay as they were created, group by group.
Before(i, j) ==
    IF i.domains = j.domains THEN i.group < j.group
    ELSE Min(SymDiff(i.domains, j.domains)) \in i.domains

pintervals(m, r) == Sorted(intervals(m, r), Before)

\* The place of a domain among the domains of an interval.
dindex(i, d) == Cardinality({e \in i.domains : e < d})

\* What the processes keep of the mesh: the order of their intervals and the
\* nodes of each, the intervals of each domain (gintervals, dintervals), and
\* their neighbours.
Arranged(m) ==
    LET p == [r \in Rank |-> pintervals(m, r)] IN
    [pintervals |-> p,
     nodes |-> [r \in Rank |-> [i \in intervals(m, r) |-> nodesOf(m, r, i)]],
     gintervals |-> [d \in 0..(m.domains[Size] - 1) |->
                        SelectSeq(p[d2p(m, d)], LAMBDA i : d \in i.domains)],
     neighbours |-> [r \in Rank |-> neighbours(m, r)]]

\* The concatenation of what Op gives for the elements of a sequence.
ForEach(seq, Op(_)) == FlattenSeq([k \in DOMAIN seq |-> Op(seq[k])])

Upto(n) == [k \in 1..n |-> k - 1]

\* The sums of the first 0, 1, 2 ... numbers of a sequence.
Sums(seq) ==
    LET sum[k \in 0..Len(seq)] == IF k = 0 THEN 0 ELSE sum[k - 1] + seq[k]
    IN sum

SumUpto(Op(_), n) == Sums([k \in 1..n |-> Op(k - 1)])[n]

\* The elements of a sequence in front of one of them.
InFrontOf(seq, x) == {seq[k] : k \in {l \in DOMAIN seq :
                        \A j \in 1..l : seq[j] # x}}
=============================================================================
