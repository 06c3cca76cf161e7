-------------------------------- MODULE Calls --------------------------------
(***************************************************************************)
(* The point-to-point calls of espreso::Communication: who sends to whom   *)
(* in one call, and how the receiver recognises the messages of the call.  *)
(* Every process makes the same calls in the same order.                   *)
(***************************************************************************)
EXTENDS Integers, FiniteSets

CONSTANTS Size,         \* MPIGroup::size
          Neighbours    \* the neighbour processes of each process

Rank == 0..(Size - 1)

ASSUME SizeAssumption == Size \in Nat \ {0}
\* The callers pass Mesh::neighbours: nobody is its own neighbour and the
\* relation is symmetric.
ASSUME NeighboursAssumption ==
    /\ Neighbours \in [Rank -> SUBSET Rank]
    /\ \A r, s \in Rank : s \in Neighbours[r] => r \in Neighbours[s]
    /\ \A r \in Rank : r \notin Neighbours[r]

KnownSize == {"exchangeKnownSize", "receiveLowerKnownSize",
              "receiveUpperKnownSize", "balance"}
AnySource == {"exchangeUnknownSize", "receiveUpperUnknownSize",
              "sendVariousTargets"}
Kinds == KnownSize \cup AnySource

\* A call; "targets" counts only where the caller computes the targets.
Call == [kind : Kinds, targets : [Rank -> SUBSET Rank]]

\* The processes to which process r sends in call c.
Targets(c, r) ==
    CASE c.kind \in {"exchangeKnownSize", "exchangeUnknownSize"} ->
            Neighbours[r]
      [] c.kind = "receiveLowerKnownSize" ->
            {n \in Neighbours[r] : n > r}
      [] c.kind \in {"receiveUpperKnownSize", "receiveUpperUnknownSize"} ->
            {n \in Neighbours[r] : n < r}
      [] c.kind \in {"sendVariousTargets", "balance"} -> c.targets[r]

\* The processes that send to process r in call c.
Sources(c, r) == {s \in Rank : r \in Targets(c, s)}

Tag(c) == IF c.kind \in {"receiveLowerKnownSize", "receiveUpperKnownSize"}
          THEN 1 ELSE 0
Tags == {0, 1}
=============================================================================
