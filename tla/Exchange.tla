------------------------------ MODULE Exchange -------------------------------
(***************************************************************************)
(* The calls of espreso::Communication on top of MPI.  A process sends     *)
(* with MPI_Isend; where the sizes are known it posts a receive for every  *)
(* source, otherwise it probes MPI_ANY_SOURCE and only counts messages.    *)
(* Nothing but the source, the tag and the order of messages says to which *)
(* call a message belongs, so a fast process that is already in a later    *)
(* call could feed a slow one with the wrong message.                      *)
(*                                                                         *)
(* Abstraction: the buffer a process sends in its i-th call is i.  Buffers *)
(* stay below the limit of 2^30 elements at which the calls return false.  *)
(***************************************************************************)
EXTENDS Calls, Sequences

CONSTANT Programs       \* the sequences of calls a run can make

ASSUME ProgramsAssumption == Programs \subseteq Seq(Call) /\ Programs # {}

VARIABLES
    program,    \* the calls every process makes
    loc,        \* where a process is in its call
    channel,    \* channel[<<s, d, t>>]: messages on their way, in order
    counter,    \* messages received in the current call
    rBuffer,    \* what was received in the current call, by source
    returned    \* what the finished calls of a process returned

vars == <<program, loc, channel, counter, rBuffer, returned>>

Init ==
    /\ program \in Programs
    /\ loc = [r \in Rank |-> "caller"]
    /\ channel = [k \in Rank \X Rank \X Tags |-> <<>>]
    /\ counter = [r \in Rank |-> 0]
    /\ rBuffer = [r \in Rank |-> <<>>]
    /\ returned = [r \in Rank |-> <<>>]

-----------------------------------------------------------------------------

\* The number of the call process r is in, or makes next.
Current(r) == Len(returned[r]) + 1
TheCall(r) == program[Current(r)]

\* Mutant of ExpectedMessages: the counter of receiveUpperUnknownSize starts
\* at zero instead of at the number of lower neighbours.
ExpectedAllNeighbours(c, r) ==
    IF c.kind = "sendVariousTargets" THEN Cardinality(Sources(c, r))
    ELSE Cardinality(Neighbours[r])

\* How many messages the loop around MPI_Iprobe waits for: the neighbours,
\* the upper neighbours, or what MPI_Allreduce summed up.
ExpectedMessages(c, r) ==
    CASE c.kind = "exchangeUnknownSize" -> Cardinality(Neighbours[r])
      [] c.kind = "receiveUpperUnknownSize" ->
            Cardinality({n \in Neighbours[r] : n > r})
      [] c.kind = "sendVariousTargets" -> Cardinality(Sources(c, r))

\* Mutant of SendAll: the counter of the last call is kept.
SendAllCounterKept(r) ==
    /\ channel' = [k \in DOMAIN channel |->
            IF k[1] = r /\ k[2] \in Targets(TheCall(r), r)
                        /\ k[3] = Tag(TheCall(r))
            THEN Append(channel[k], Current(r)) ELSE channel[k]]
    /\ loc' = [loc EXCEPT ![r] = "receive"]
    /\ rBuffer' = [rBuffer EXCEPT ![r] = <<>>]
    /\ UNCHANGED <<program, counter, returned>>

\* MPI_Isend to every target of the call; rBuffer is empty again.
SendAll(r) ==
    /\ channel' = [k \in DOMAIN channel |->
            IF k[1] = r /\ k[2] \in Targets(TheCall(r), r)
                        /\ k[3] = Tag(TheCall(r))
            THEN Append(channel[k], Current(r)) ELSE channel[k]]
    /\ loc' = [loc EXCEPT ![r] = "receive"]
    /\ counter' = [counter EXCEPT ![r] = 0]
    /\ rBuffer' = [rBuffer EXCEPT ![r] = <<>>]
    /\ UNCHANGED <<program, returned>>

Begin(r) ==
    /\ loc[r] = "caller" /\ Current(r) \in DOMAIN program
    /\ TheCall(r).kind # "sendVariousTargets"
    /\ SendAll(r)

\* sendVariousTargets: contribute smsgcounter to MPI_Allreduce ...
EnterReduce(r) ==
    /\ loc[r] = "caller" /\ Current(r) \in DOMAIN program
    /\ TheCall(r).kind = "sendVariousTargets"
    /\ loc' = [loc EXCEPT ![r] = "reduce"]
    /\ UNCHANGED <<program, channel, counter, rBuffer, returned>>

\* ... whose result depends on everybody's contribution.
LeaveReduce(r) ==
    /\ loc[r] = "reduce"
    /\ \A q \in Rank : \/ Current(q) > Current(r)
                       \/ Current(q) = Current(r) /\ loc[q] # "caller"
    /\ SendAll(r)

\* The oldest message of source s becomes the content of its receive buffer.
Store(r, s, t) ==
    /\ channel[<<s, r, t>>] # <<>>
    /\ rBuffer' = [rBuffer EXCEPT ![r] =
            [q \in DOMAIN @ \cup {s} |->
                IF q = s THEN Head(channel[<<s, r, t>>]) ELSE @[q]]]
    /\ channel' = [channel EXCEPT ![<<s, r, t>>] = Tail(@)]
    /\ counter' = [counter EXCEPT ![r] = @ + 1]
    /\ UNCHANGED <<program, loc, returned>>

\* The receive posted for source s is matched by the oldest message of s.
ReceiveFrom(r, s) ==
    /\ loc[r] = "receive" /\ TheCall(r).kind \in KnownSize
    /\ s \in Sources(TheCall(r), r) \ DOMAIN rBuffer[r]
    /\ Store(r, s, Tag(TheCall(r)))

\* MPI_Iprobe finds a message, of whatever source and call.
ReceiveAny(r, s) ==
    /\ loc[r] = "receive" /\ TheCall(r).kind \in AnySource
    /\ counter[r] < ExpectedMessages(TheCall(r), r)
    /\ Store(r, s, 0)

AllReceived(r) ==
    IF TheCall(r).kind \in KnownSize
    THEN DOMAIN rBuffer[r] = Sources(TheCall(r), r)
    ELSE counter[r] = ExpectedMessages(TheCall(r), r)

\* A synchronous send is complete when its message was received.
SendsMatched(r) ==
    \A d \in Targets(TheCall(r), r) :
        \A n \in DOMAIN channel[<<r, d, Tag(TheCall(r))>>] :
            channel[<<r, d, Tag(TheCall(r))>>][n] # Current(r)

ReturnFromCall(r) ==
    /\ returned' = [returned EXCEPT ![r] = Append(@, rBuffer[r])]
    /\ loc' = [loc EXCEPT ![r] = "caller"]
    /\ UNCHANGED <<program, channel, counter, rBuffer>>

\* Mutant of WaitAll: the calls with MPI_Iprobe end without a barrier.
WaitAllNoBarrier(r) ==
    /\ loc[r] = "receive" /\ AllReceived(r)
    /\ ReturnFromCall(r)

\* MPI_Waitall; MPI may have buffered the sends or wait for their receivers.
WaitAll(r) ==
    /\ loc[r] = "receive" /\ AllReceived(r)
    /\ IF TheCall(r).kind \in KnownSize
       THEN ReturnFromCall(r)
       ELSE /\ loc' = [loc EXCEPT ![r] = "barrier"]
            /\ UNCHANGED <<program, channel, counter, rBuffer, returned>>

\* Mutant of LeaveBarrier: it is enough that everybody has begun the call.
LeaveBarrierEarly(r) ==
    /\ loc[r] = "barrier"
    /\ \A q \in Rank : Current(q) >= Current(r)
    /\ ReturnFromCall(r)

\* MPI_Barrier at the end of the calls that probe MPI_ANY_SOURCE.
LeaveBarrier(r) ==
    /\ loc[r] = "barrier"
    /\ \A q \in Rank : \/ Current(q) > Current(r)
                       \/ Current(q) = Current(r) /\ loc[q] = "barrier"
    /\ ReturnFromCall(r)

Step(r) ==
    \/ Begin(r) \/ EnterReduce(r) \/ LeaveReduce(r)
    \/ \E s \in Rank : ReceiveFrom(r, s) \/ ReceiveAny(r, s)
    \/ WaitAll(r) \/ LeaveBarrier(r)

Finished == \A r \in Rank : loc[r] = "caller" /\ Current(r) > Len(program)
Done == Finished /\ UNCHANGED vars

Next == (\E r \in Rank : Step(r)) \/ Done

(* Processes run and messages arrive.  A send that MPI does not buffer is  *)
(* complete only when it is received, so fairness of MPI_Waitall is        *)
(* assumed for matched sends alone.                                        *)
Fairness ==
    \A r \in Rank :
        /\ WF_vars(Begin(r) \/ EnterReduce(r) \/ LeaveReduce(r))
        /\ WF_vars(\E s \in Rank : ReceiveFrom(r, s) \/ ReceiveAny(r, s))
        /\ WF_vars(WaitAll(r) /\ SendsMatched(r))
        /\ WF_vars(LeaveBarrier(r))

Spec == Init /\ [][Next]_vars /\ Fairness

-----------------------------------------------------------------------------
(* Properties *)

\* What a call returns: a message, the number of the call that sent it, by source.
Buffers == UNION {[S -> DOMAIN program] : S \in SUBSET Rank}

\* Types; no process makes more calls than the program has.
TypeOK ==
    /\ program \in Programs
    /\ loc \in [Rank -> {"caller", "reduce", "receive", "barrier"}]
    /\ channel \in [Rank \X Rank \X Tags -> Seq(DOMAIN program)]
    /\ counter \in [Rank -> Nat]
    /\ rBuffer \in [Rank -> Buffers]
    /\ returned \in [Rank -> Seq(Buffers)]
    /\ \A r \in Rank : Len(returned[r]) <= Len(program)

\* Whatever a process has received in its call was sent in the same call by a
\* source of the call, and it has received no source twice.
CallsNotMixed ==
    \A r \in Rank : loc[r] \in {"receive", "barrier"} =>
        /\ DOMAIN rBuffer[r] \subseteq Sources(TheCall(r), r)
        /\ \A s \in DOMAIN rBuffer[r] : rBuffer[r][s] = Current(r)
        /\ counter[r] = Cardinality(DOMAIN rBuffer[r])

\* No message is forgotten: when a process has finished a call, everything
\* sent to it in this and the earlier calls has been received.
NothingLeftBehind ==
    \A r, s \in Rank, t \in Tags :
        \A n \in DOMAIN channel[<<s, r, t>>] :
            channel[<<s, r, t>>][n] >= Current(r)

\* The sequence of calls ends at every process, even where MPI buffers no
\* send: no process waits for a message or a process that never comes.
AllCallsReturn == <>Finished

\* The calls deliver what Collective promises.
Promise == INSTANCE Collective
DeliversAsPromised == Promise!Spec
=============================================================================
