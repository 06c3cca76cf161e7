----------------------------- MODULE RandomInput ------------------------------
(***************************************************************************)
(* How espreso::RandomInput turns a mesh whose elements and nodes are      *)
(* scattered over the processes into one that is distributed along a space *)
(* filling curve: assignEBuckets, the exchange of clusterize, linkup,      *)
(* fillNeighbors and sortNodes.  In linkup a process looks for the nodes   *)
(* of its elements first at its neighbours on the curve and then, by way   *)
(* of the process that held a node at the beginning, anywhere; the owners  *)
(* of the nodes tell everybody who shares them.                            *)
(*                                                                         *)
(* Abstraction: the curve, i.e. the buckets of the nodes, the borders that *)
(* clusterize has found and the neighbours of the borders, is data of a    *)
(* problem; coordinates are named by the node they belong to; every call   *)
(* of Communication is what the module Collective promises of it.          *)
(***************************************************************************)
EXTENDS Distributions, SequencesExt

CONSTANT Problems   \* the meshes, as they are before assignEBuckets

\* Node n is at first on the process where nDistribution has it.  Buckets
\* borders[r] .. borders[r + 1] - 1 are of process r.  elements[r] is what the
\* balanced process r has: "volume" tells the elements of the mesh's dimension
\* from those of its boundary.  sfcNeighbors is symmetric, as the curve is.
IsProblem(pr) ==
    /\ IsDistribution(pr.nDistribution) /\ IsDistribution(pr.borders)
    /\ pr.nodes \subseteq 0..(pr.nDistribution[Size] - 1)
    /\ \A n \in pr.nodes : pr.bucket[n] \in 0..(pr.borders[Size] - 1)
    /\ \A r \in Rank : \A k \in DOMAIN pr.elements[r] :
        /\ pr.elements[r][k].nodes # <<>>
        /\ ToSet(pr.elements[r][k].nodes) \subseteq pr.nodes
    /\ \A r \in Rank :
        /\ pr.sfcNeighbors[r] \in (SUBSET (Rank \ {r})) \ {{}}
        /\ \A q \in pr.sfcNeighbors[r] : r \in pr.sfcNeighbors[q]

ASSUME ProblemsAssumption == \A pr \in Problems : IsProblem(pr)

VARIABLES
    problem,
    loc,        \* where a process is
    sent,       \* what it passed to its calls: one message for each target
    elements,   \* its elements
    meshData,   \* nIDs, coordinates, regions, nranks: side by side; neighbours
    lu          \* the local variables of linkup

vars == <<problem, loc, sent, elements, meshData, lu>>

\* The elements of a set of numbers, or of a sequence of them, in their order.
Ascending(S) == [k \in 1..Cardinality(S) |->
                    CHOOSE x \in S : Cardinality({y \in S : y < x}) = k - 1]

\* The order std::sort gives the places of a sequence.
SortedPlaces(seq) ==
    LET before(i, j) == seq[i] < seq[j] \/ (seq[i] = seq[j] /\ i < j)
    IN [k \in DOMAIN seq |-> CHOOSE i \in DOMAIN seq :
            Cardinality({j \in DOMAIN seq : before(j, i)}) = k - 1]

Arranged(seq) == [k \in DOMAIN seq |-> seq[SortedPlaces(seq)[k]]]

PlaceOf(seq, x) == CHOOSE k \in DOMAIN seq : seq[k] = x

\* The process r with d[r] <= x < d[r + 1], as std::lower_bound finds it.
Owner(d, x) == CHOOSE r \in Rank : IsLowerBound(d, x + 1, r + 1)

Home(n) == Owner(problem.nDistribution, n)
nIDsAtHome(r) == {n \in problem.nodes : Home(n) = r}    \* _nIDs

Init ==
    /\ problem \in Problems
    /\ loc = [r \in Rank |-> "ask"]
    /\ sent = [r \in Rank |-> <<>>]
    /\ elements = [r \in Rank |-> problem.elements[r]]
    /\ meshData = [r \in Rank |-> [nIDs |-> <<>>, coordinates |-> <<>>,
            regions |-> <<>>, nranks |-> <<>>, neighbours |-> <<>>]]
    /\ lu = [r \in Rank |-> [sfcNeighbors |-> Ascending(problem.sfcNeighbors[r]),
            sNodes |-> <<>>, fNodes |-> <<>>, rNodes |-> <<>>, rRegions |-> <<>>,
            rCoors |-> <<>>, oTargets |-> <<>>, oSources |-> <<>>,
            uNodes |-> <<>>, uRegions |-> <<>>]]

-----------------------------------------------------------------------------
(* The calls.  Every process makes the same ones in the same order.        *)

\* A process goes on, to where it waits in a call to which it passed messages.
Send(r, message, next) ==
    /\ sent' = [sent EXCEPT ![r] = Append(@, message)]
    /\ loc' = [loc EXCEPT ![r] = next]

\* Buffers for a list of targets.
To(targets, buffers) ==
    [q \in ToSet(targets) |-> buffers[PlaceOf(targets, q)]]

call(r) == Len(sent[r])
SentTo(r) == {q \in Rank : call(r) \in DOMAIN sent[q]
                            /\ r \in DOMAIN sent[q][call(r)]}
From(r, sources) ==
    [k \in DOMAIN sources |-> sent[sources[k]][call(r)][r]]

\* allToAllWithDataSizeAndTarget and sendVariousTargets need every process,
\* exchangeUnknownSize only the neighbours.
AllCall(r) == \A q \in Rank : call(r) \in DOMAIN sent[q]
NeighboursCall(r) == ToSet(lu[r].sfcNeighbors) \subseteq SentTo(r)
Everybody == Ascending(Rank)

-----------------------------------------------------------------------------
(* RandomInput::assignEBuckets: the bucket of an element is the bucket of  *)
(* one of its nodes, and the process that holds the node knows it.         *)

Distance(x, y) == IF x < y THEN y - x ELSE x - y

closest(r, e) ==
    LET nbegin == problem.nDistribution[r]
        nend == problem.nDistribution[r + 1]
        Closer(c, n) ==
            IF nbegin <= n /\ n < nend
            THEN IF c > n \/ c < nbegin THEN n ELSE c
            ELSE IF Distance(c, nbegin) > Distance(n, nbegin) THEN n ELSE c
    IN FoldLeft(Closer, Head(e.nodes), Tail(e.nodes))

closestNodes(r) == [k \in DOMAIN elements[r] |-> closest(r, elements[r][k])]
permutation(r) == SortedPlaces(closestNodes(r))

AskBuckets(r) ==
    LET sorted == [k \in DOMAIN elements[r] |->
                        closestNodes(r)[permutation(r)[k]]]
    IN /\ loc[r] = "ask"
       /\ Send(r, [q \in Rank |-> SelectSeq(sorted, LAMBDA n : Home(n) = q)],
               "answer")
       /\ UNCHANGED <<problem, elements, meshData, lu>>

\* The answers go to whoever sent the numbers, in their order.
AnswerBuckets(r) ==
    LET asked(q) == sent[q][call(r)][r]
    IN /\ loc[r] = "answer" /\ AllCall(r)
       /\ Send(r, [q \in Rank |-> [k \in DOMAIN asked(q) |->
                        problem.bucket[asked(q)[k]]]], "clusterize")
       /\ UNCHANGED <<problem, elements, meshData, lu>>

-----------------------------------------------------------------------------
(* RandomInput::clusterize                                                 *)

\* Mutant of eBuckets: the buckets are stored in the order they are received.
eBucketsAsReceived(r) == FlattenSeq(From(r, Everybody))

\* The buckets come in the order of the permutation.
eBuckets(r) ==
    LET rBuckets == FlattenSeq(From(r, Everybody))
    IN [e \in DOMAIN elements[r] |-> rBuckets[PlaceOf(permutation(r), e)]]

\* Elements and nodes go to the process of their bucket.
Clusterize(r) ==
    LET bucket == eBuckets(r)
        for(q) == {e \in DOMAIN elements[r] : Owner(problem.borders, bucket[e]) = q}
        nodesFor(q) == {n \in nIDsAtHome(r) :
                            Owner(problem.borders, problem.bucket[n]) = q}
    IN /\ loc[r] = "clusterize" /\ AllCall(r)
       /\ Send(r, [q \in Rank |->
            [elements |-> [k \in 1..Cardinality(for(q)) |->
                                elements[r][Ascending(for(q))[k]]],
             nodes |-> nodesFor(q)]], "store")
       /\ UNCHANGED <<problem, elements, meshData, lu>>

\* The nodes of the elements linkup looks at; a set for sortAndRemoveDuplicity.
NodesOf(es) == UNION {ToSet(es[k].nodes) : k \in {l \in DOMAIN es : es[l].volume}}
enodes(r) == NodesOf(elements[r])

\* An ESINFO(ERROR) ends the program.
Fail(r, why) == loc' = [loc EXCEPT ![r] = why] /\ UNCHANGED sent

\* The nodes linkup has to look for.
missing(es, nIDs) == Ascending(NodesOf(es) \ ToSet(nIDs))

\* What was sent is stored, nodes in the order of their numbers (sortNodes); a
\* process without elements is an error.  All neighbours on the curve are asked
\* for the nodes that are missing.
Store(r) ==
    LET es == FlattenSeq([k \in 1..Size |-> From(r, Everybody)[k].elements])
        ids == Ascending(UNION {sent[q][call(r)][r].nodes : q \in Rank})
        sNodes == missing(es, ids)
    IN /\ loc[r] = "store" /\ AllCall(r)
       /\ elements' = [elements EXCEPT ![r] = es]
       /\ meshData' = [meshData EXCEPT
            ![r].nIDs = ids,
            ![r].coordinates = ids,
            ![r].regions = [k \in DOMAIN ids |-> problem.regions[ids[k]]]]
       /\ lu' = [lu EXCEPT ![r].sNodes = sNodes]
       /\ IF es = <<>> THEN Fail(r, "no elements")
          ELSE Send(r, [q \in ToSet(lu[r].sfcNeighbors) |-> sNodes], "find")
       /\ UNCHANGED problem

-----------------------------------------------------------------------------
(* RandomInput::linkup: the neighbours on the curve.                       *)

\* The values that belong to some of the nodes, in their order.
Values(r, of, ids) == [k \in DOMAIN ids |-> of[PlaceOf(meshData[r].nIDs, ids[k])]]
Holds(r, n) == n \in ToSet(meshData[r].nIDs)

Find(r) ==
    LET asked == From(r, lu[r].sfcNeighbors)
        fNodes == [k \in DOMAIN asked |->
                        SelectSeq(asked[k], LAMBDA n : Holds(r, n))]
    IN /\ loc[r] = "find" /\ NeighboursCall(r)
       /\ lu' = [lu EXCEPT ![r].fNodes = fNodes]
       /\ Send(r, To(lu[r].sfcNeighbors, fNodes), "rNodes")
       /\ UNCHANGED <<problem, elements, meshData>>

\* The values of vector "of" for the nodes found for each of the targets.
Found(r, of, fNodes) ==
    [k \in DOMAIN fNodes |-> Values(r, of, fNodes[k])]

ReceiveNodes(r) ==
    /\ loc[r] = "rNodes" /\ NeighboursCall(r)
    /\ lu' = [lu EXCEPT ![r].rNodes = From(r, lu[r].sfcNeighbors)]
    /\ Send(r, To(lu[r].sfcNeighbors,
                  Found(r, meshData[r].regions, lu[r].fNodes)), "rRegions")
    /\ UNCHANGED <<problem, elements, meshData>>

ReceiveRegions(r) ==
    /\ loc[r] = "rRegions" /\ NeighboursCall(r)
    /\ lu' = [lu EXCEPT ![r].rRegions = From(r, lu[r].sfcNeighbors)]
    /\ Send(r, To(lu[r].sfcNeighbors,
                  Found(r, meshData[r].coordinates, lu[r].fNodes)), "rCoors")
    /\ UNCHANGED <<problem, elements, meshData>>

-----------------------------------------------------------------------------
(* RandomInput::linkup: the nodes that no neighbour on the curve has.      *)

\* Sorted numbers in groups, one for each target, as <<targets, groups>>.
Grouped(ids, target) ==
    LET targets == Ascending({target[k] : k \in DOMAIN ids})
        group(t) == Ascending({ids[k] : k \in {j \in DOMAIN ids : target[j] = t}})
    IN <<targets, [k \in DOMAIN targets |-> group(targets[k])]>>

\* Mutant of HomeOf: a node on the border of two processes is on the first one.
HomeBefore(n) ==
    CHOOSE r \in Rank : \/ n = 0 /\ r = 0
                        \/ IsLowerBound(problem.nDistribution, n, r + 1)

\* The target of the request for an unknown node.
HomeOf(n) == Home(n)

AskHomes(r) ==
    LET received == UNION {ToSet(ids) : ids \in ToSet(lu[r].rNodes)}
        unknown == Ascending(ToSet(lu[r].sNodes) \ received)
        home == [k \in DOMAIN unknown |-> HomeOf(unknown[k])]
        grouped == Grouped(unknown, home)
    IN /\ loc[r] = "rCoors" /\ NeighboursCall(r)
       /\ lu' = [lu EXCEPT ![r].rCoors = From(r, lu[r].sfcNeighbors),
                           ![r].oTargets = grouped[1], ![r].sNodes = grouped[2]]
       /\ Send(r, To(grouped[1], grouped[2]), "homes")
       /\ UNCHANGED <<problem, elements, meshData>>

\* Who has passed messages for r, in order.
oSources(r) == Ascending(SentTo(r))

\* A process of the first distribution says where the nodes went.
AnswerHomes(r) ==
    LET uNodes == From(r, oSources(r))
        unknown == {k \in DOMAIN uNodes : ~(ToSet(uNodes[k]) \subseteq nIDsAtHome(r))}
        owner(n) == Owner(problem.borders, problem.bucket[n])
    IN /\ loc[r] = "homes" /\ AllCall(r)
       /\ IF unknown # {} THEN Fail(r, "failed")
          ELSE Send(r, To(oSources(r),
                    [k \in DOMAIN uNodes |->
                        [i \in DOMAIN uNodes[k] |-> owner(uNodes[k][i])]]),
                    "owners")
       /\ UNCHANGED <<problem, elements, meshData, lu>>

\* The unknown nodes are requested again, now from where they are.
AskOwners(r) ==
    LET grouped == Grouped(FlattenSeq(lu[r].sNodes),
                           FlattenSeq(From(r, oSources(r))))
    IN /\ loc[r] = "owners" /\ AllCall(r)
       /\ lu' = [lu EXCEPT ![r].oTargets = grouped[1], ![r].sNodes = grouped[2]]
       /\ Send(r, To(grouped[1], grouped[2]), "owned")
       /\ UNCHANGED <<problem, elements, meshData>>

AnswerOwned(r) ==
    LET uNodes == From(r, oSources(r))
    IN /\ loc[r] = "owned" /\ AllCall(r)
       /\ lu' = [lu EXCEPT ![r].oSources = oSources(r), ![r].uNodes = uNodes]
       /\ IF \E k \in DOMAIN uNodes : \E n \in ToSet(uNodes[k]) : ~Holds(r, n)
          THEN Fail(r, "failed")
          ELSE Send(r, To(oSources(r), Found(r, meshData[r].regions, uNodes)),
                    "uRegions")
       /\ UNCHANGED <<problem, elements, meshData>>

ReceiveUnknownRegions(r) ==
    /\ loc[r] = "uRegions" /\ AllCall(r)
    /\ lu' = [lu EXCEPT ![r].uRegions = From(r, oSources(r))]
    /\ Send(r, To(lu[r].oSources,
                  Found(r, meshData[r].coordinates, lu[r].uNodes)), "uCoords")
    /\ UNCHANGED <<problem, elements, meshData>>

-----------------------------------------------------------------------------
(* RandomInput::linkup: the neighbours and who shares which node.          *)

\* Where std::lower_bound puts x in an ascending sequence.
LowerBound(seq, x) == 1 + Cardinality({k \in DOMAIN seq : seq[k] < x})

\* The owners that were asked become neighbours.
InsertTargets(l, uCoords) ==
    LET Insert(n, i) ==
            LET k == LowerBound(n.sfcNeighbors, l.oTargets[i]) IN
            [n EXCEPT !.sfcNeighbors = InsertAt(@, k, l.oTargets[i]),
                      !.rNodes = InsertAt(@, k, l.sNodes[i]),
                      !.rRegions = InsertAt(@, k, l.uRegions[i]),
                      !.rCoors = InsertAt(@, k, uCoords[i]),
                      !.fNodes = InsertAt(@, k, <<>>)]
    IN FoldLeft(Insert, l, [i \in DOMAIN l.oTargets |-> i])

\* Mutant of InsertSources: who is a neighbour already is passed over.
InsertNewSources(l) ==
    LET Insert(n, i) ==
            LET q == l.oSources[i]
                k == LowerBound(n.sfcNeighbors, q)
            IN IF q \in ToSet(n.sfcNeighbors) THEN n
               ELSE [n EXCEPT !.sfcNeighbors = InsertAt(@, k, q),
                              !.rNodes = InsertAt(@, k, <<>>),
                              !.rRegions = InsertAt(@, k, <<>>),
                              !.rCoors = InsertAt(@, k, <<>>),
                              !.fNodes = InsertAt(@, k, l.uNodes[i])]
    IN FoldLeft(Insert, l, [i \in DOMAIN l.oSources |-> i])

\* And so do those that asked; one that was asked in turn is one already.
InsertSources(l) ==
    LET Insert(n, i) ==
            LET q == l.oSources[i]
                k == LowerBound(n.sfcNeighbors, q)
            IN IF q \in ToSet(n.sfcNeighbors)
               THEN [n EXCEPT !.fNodes[k] = l.uNodes[i]]
               ELSE [n EXCEPT !.sfcNeighbors = InsertAt(@, k, q),
                              !.rNodes = InsertAt(@, k, <<>>),
                              !.rRegions = InsertAt(@, k, <<>>),
                              !.rCoors = InsertAt(@, k, <<>>),
                              !.fNodes = InsertAt(@, k, l.uNodes[i])]
    IN FoldLeft(Insert, l, [i \in DOMAIN l.oSources |-> i])

\* For each neighbour, and the process itself, the lists of processes that want
\* the nodes it wants; nodes of no own element are given up.
MapRanks(r) ==
    LET l == InsertSources(InsertTargets(lu[r], From(r, oSources(r))))
        withMe == Arranged(Append(l.sfcNeighbors, r))
        wants(q, n) == IF q = r THEN n \in enodes(r)
                       ELSE n \in ToSet(l.fNodes[PlaceOf(l.sfcNeighbors, q)])
        ranks(n) == SelectSeq(withMe, LAMBDA q : wants(q, n))
        nIDs == meshData[r].nIDs
        sRanks(q) == LET wanted == SelectSeq(nIDs, LAMBDA n : wants(q, n))
                     IN [k \in DOMAIN wanted |-> ranks(wanted[k])]
        own == SelectSeq(nIDs, LAMBDA n : n \in enodes(r))
    IN /\ loc[r] = "uCoords" /\ AllCall(r)
       /\ lu' = [lu EXCEPT ![r] = [l EXCEPT !.sfcNeighbors = withMe]]
       /\ meshData' = [meshData EXCEPT
            ![r].nIDs = own,
            ![r].coordinates = Values(r, meshData[r].coordinates, own),
            ![r].regions = Values(r, meshData[r].regions, own)]
       /\ Send(r, [q \in ToSet(withMe) |-> sRanks(q)], "ranks")
       /\ UNCHANGED <<problem, elements>>

\* Mutant of RanksOwnFirst: the lists are appended in the order of the processes.
RanksAsReceived(r) == FlattenSeq(From(r, lu[r].sfcNeighbors))

\* The lists of the own nodes, and then those of each neighbour's.
RanksOwnFirst(r) ==
    sent[r][call(r)][r]
        \o FlattenSeq(From(r, SelectSeq(lu[r].sfcNeighbors, LAMBDA q : q # r)))

fillNeighbors(r, nranks) ==
    Ascending((UNION {ToSet(ranks) : ranks \in ToSet(nranks)}) \ {r})

\* The nodes of the neighbours are appended, fillNeighbors is called, and
\* sortNodes brings everything in the order of the numbers.
Finish(r) ==
    LET ids == meshData[r].nIDs \o FlattenSeq(lu[r].rNodes)
        place == SortedPlaces(ids)
        sorted(seq) == [k \in DOMAIN ids |-> seq[place[k]]]
        nranks == RanksOwnFirst(r)
    IN /\ loc[r] = "ranks" /\ NeighboursCall(r)
       /\ meshData' = [meshData EXCEPT ![r] =
            [nIDs |-> sorted(ids),
             coordinates |-> sorted(@.coordinates \o FlattenSeq(lu[r].rCoors)),
             regions |-> sorted(@.regions \o FlattenSeq(lu[r].rRegions)),
             nranks |-> sorted(nranks),
             neighbours |-> fillNeighbors(r, nranks)]]
       /\ loc' = [loc EXCEPT ![r] = "done"]
       /\ UNCHANGED <<problem, sent, elements, lu>>

-----------------------------------------------------------------------------
Step(r) ==
    \/ AskBuckets(r) \/ AnswerBuckets(r) \/ Clusterize(r) \/ Store(r)
    \/ Find(r) \/ ReceiveNodes(r) \/ ReceiveRegions(r)
    \/ AskHomes(r) \/ AnswerHomes(r) \/ AskOwners(r) \/ AnswerOwned(r)
    \/ ReceiveUnknownRegions(r) \/ MapRanks(r) \/ Finish(r)

Failed == \E r \in Rank : loc[r] \in {"no elements", "failed"}
Finished == \A r \in Rank : loc[r] = "done"
Done == (Failed \/ Finished) /\ UNCHANGED vars

Next == (~Failed /\ \E r \in Rank : Step(r)) \/ Done

Spec == Init /\ [][Next]_vars

-----------------------------------------------------------------------------
(* Properties *)

\* Every element is on one process, and that is the owner of a node of it.
ElementsAtTheirNodes ==
    (\A r \in Rank : loc[r] \notin {"ask", "answer", "clusterize", "store",
                                    "no elements"}) =>
    /\ \A r \in Rank : \A k \in DOMAIN elements[r] :
        \E n \in ToSet(elements[r][k].nodes) :
            Owner(problem.borders, problem.bucket[n]) = r
    /\ LET places == UNION {{r} \X DOMAIN elements[r] : r \in Rank} IN
       \A q \in Rank : \A e \in ToSet(problem.elements[q]) :
            Cardinality({x \in places : elements[x[1]][x[2]] = e}) = 1

\* No request of linkup fails, and a process ends with exactly the nodes of its
\* elements, each of them once and with its own coordinates and regions.
NodesComplete ==
    \A r \in Rank :
        /\ loc[r] # "failed"
        /\ loc[r] = "done" =>
            LET m == meshData[r] IN
            /\ m.nIDs = Ascending(enodes(r))
            /\ m.coordinates = m.nIDs
            /\ m.regions = [k \in DOMAIN m.nIDs |-> problem.regions[m.nIDs[k]]]

\* The processes of a node are those whose elements have it, on each of them; its
\* neighbours are the others it shares a node with.  This is what the exchanges
\* between neighbours rely on: the relation is symmetric.
RanksAgree ==
    \A r \in Rank : loc[r] = "done" =>
        LET m == meshData[r]
            sharing(n) == {q \in Rank : n \in enodes(q)}
        IN /\ m.nranks = [k \in DOMAIN m.nIDs |-> Ascending(sharing(m.nIDs[k]))]
           /\ ToSet(m.neighbours) = (UNION {sharing(n) : n \in enodes(r)}) \ {r}
=============================================================================
