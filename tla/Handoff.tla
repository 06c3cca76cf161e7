------------------------------- MODULE Handoff -------------------------------
(***************************************************************************)
(* What the asynchronous output promises to the solver: a call() hands one *)
(* package of data (one version of every buffer named in its parameters)   *)
(* to the result stores; packages are delivered exactly once, in the order *)
(* they were posted, unmodified, and at most one is under way.             *)
(***************************************************************************)
EXTENDS Naturals, Sequences

CONSTANT Packages       \* every package that can be posted

VARIABLES posted,       \* the packages handed over so far
          delivered,    \* the packages the result stores have processed
          closed        \* the client has shut the hand-off down

vars == <<posted, delivered, closed>>

Init == posted = <<>> /\ delivered = <<>> /\ closed = FALSE

\* Nothing is under way.
Drained == Len(delivered) = Len(posted)

Post == /\ ~closed /\ Drained
        /\ \E p \in Packages : posted' = Append(posted, p)
        /\ UNCHANGED <<delivered, closed>>

Deliver == /\ ~Drained
           /\ delivered' = Append(delivered, posted[Len(delivered) + 1])
           /\ UNCHANGED <<posted, closed>>

\* Shutting down is allowed only when everything posted was delivered.
Close == ~closed /\ Drained /\ closed' = TRUE /\ UNCHANGED <<posted, delivered>>

Next == Post \/ Deliver \/ Close

Spec == Init /\ [][Next]_vars /\ WF_vars(Deliver)
=============================================================================
