------------------------------- MODULE Balance --------------------------------
(***************************************************************************)
(* Communication::balance: the processes hold a global sequence in the     *)
(* current distribution and move it to the target distribution.  Each      *)
(* process computes on its own, by walking through the two distributions,  *)
(* what it sends to and what it receives from every process.  Nothing but  *)
(* equal arithmetic on both sides makes the posted receives fit the sends; *)
(* empty messages are not sent, and there is no barrier between the calls  *)
(* with which a mesh is balanced.                                          *)
(*                                                                         *)
(* Abstraction: an element is its place in the global sequence, a message  *)
(* the first place and the number of places of a part of the buffer.       *)
(***************************************************************************)
EXTENDS Distributions, Sequences

CONSTANT CallSequences  \* the sequences of calls a run can make

\* A call: all processes pass the same two distributions.
Call == [current : [0..Size -> Nat], target : [0..Size -> Nat]]

WellFormed(c) ==
    /\ IsDistribution(c.current) /\ IsDistribution(c.target)
    /\ c.current[Size] = c.target[Size]

ASSUME CallsAssumption ==
    \A cs \in CallSequences :
        cs \in Seq(Call) /\ \A n \in DOMAIN cs : WellFormed(cs[n])

VARIABLES
    calls,      \* the calls every process makes
    call,       \* the number of the call a process is in
    loc,        \* where a process is in it
    offset, restSize, tIndex, tOffset,  \* the locals of "fill"
    ssize, sdisp, rsize, rdisp,         \* what "fill" has computed
    channel,    \* channel[<<s, d>>]: messages on their way, in order
    result      \* the parts that have arrived, by source

fillVars == <<offset, restSize, tIndex, tOffset>>
sizeVars == <<ssize, sdisp, rsize, rdisp>>
vars == <<calls, call, loc, fillVars, sizeVars, channel, result>>

Zeros == [r \in Rank |-> 0]

Init ==
    /\ calls \in CallSequences
    /\ call = [r \in Rank |-> 0]
    /\ loc = [r \in Rank |-> "caller"]
    /\ offset = Zeros /\ restSize = Zeros /\ tIndex = Zeros /\ tOffset = Zeros
    /\ ssize = [r \in Rank |-> Zeros] /\ sdisp = [r \in Rank |-> Zeros]
    /\ rsize = [r \in Rank |-> Zeros] /\ rdisp = [r \in Rank |-> Zeros]
    /\ channel = [k \in Rank \X Rank |-> <<>>]
    /\ result = [r \in Rank |-> <<>>]

-----------------------------------------------------------------------------

current(r) == calls[call[r]].current
target(r) == calls[call[r]].target

\* "fill" is called for the sends and, with the distributions exchanged, for
\* the receives.
from(r) == IF loc[r] = "sends" THEN current(r) ELSE target(r)
to(r) == IF loc[r] = "sends" THEN target(r) ELSE current(r)

\* The first lines of "fill": the process of "to" that has the first place.
StartFill(r, f, t) ==
    \E i \in 0..(Size + 1) :
        /\ IsLowerBound(t, f[r] + 1, i)
        /\ tIndex' = [tIndex EXCEPT ![r] = i - 1]
        /\ offset' = [offset EXCEPT ![r] = 0]
        /\ restSize' = [restSize EXCEPT ![r] = f[r + 1] - f[r]]
        /\ tOffset' = [tOffset EXCEPT ![r] = f[r] - t[i - 1]]

\* A process enters its next call; the four vectors are new.
Begin(r) ==
    /\ loc[r] = "caller" /\ call[r] + 1 \in DOMAIN calls
    /\ call' = [call EXCEPT ![r] = @ + 1]
    /\ loc' = [loc EXCEPT ![r] = "sends"]
    /\ ssize' = [ssize EXCEPT ![r] = Zeros]
    /\ sdisp' = [sdisp EXCEPT ![r] = Zeros]
    /\ rsize' = [rsize EXCEPT ![r] = Zeros]
    /\ rdisp' = [rdisp EXCEPT ![r] = Zeros]
    /\ result' = [result EXCEPT ![r] = <<>>]
    /\ StartFill(r, calls[call[r] + 1].current, calls[call[r] + 1].target)
    /\ UNCHANGED <<calls, channel>>

\* What is left of the part of process tIndex[r].
Part(r) == to(r)[tIndex[r] + 1] - to(r)[tIndex[r]] - tOffset[r]

SetSize(r, size) ==
    IF loc[r] = "sends"
    THEN /\ ssize' = [ssize EXCEPT ![r][tIndex[r]] = size]
         /\ sdisp' = [sdisp EXCEPT ![r][tIndex[r]] = offset[r]]
         /\ UNCHANGED <<rsize, rdisp>>
    ELSE /\ rsize' = [rsize EXCEPT ![r][tIndex[r]] = size]
         /\ rdisp' = [rdisp EXCEPT ![r][tIndex[r]] = offset[r]]
         /\ UNCHANGED <<ssize, sdisp>>

\* The last iteration: the rest ends inside the part.
FillRest(r) ==
    /\ loc[r] \in {"sends", "receives"} /\ restSize[r] > 0
    /\ restSize[r] < Part(r)
    /\ SetSize(r, restSize[r])
    /\ restSize' = [restSize EXCEPT ![r] = 0]
    /\ tOffset' = [tOffset EXCEPT ![r] = 0]
    /\ UNCHANGED <<calls, call, loc, offset, tIndex, channel, result>>

\* Mutant of FillPart: tOffset stays what it was for the first part.
FillPartOffsetKept(r) ==
    /\ loc[r] \in {"sends", "receives"} /\ restSize[r] > 0
    /\ restSize[r] >= Part(r)
    /\ SetSize(r, Part(r))
    /\ restSize' = [restSize EXCEPT ![r] = @ - Part(r)]
    /\ offset' = [offset EXCEPT ![r] = @ + Part(r)]
    /\ tIndex' = [tIndex EXCEPT ![r] = @ + 1]
    /\ UNCHANGED <<calls, call, loc, tOffset, channel, result>>

\* An iteration that takes the whole part, which may be empty.
FillPart(r) ==
    /\ loc[r] \in {"sends", "receives"} /\ restSize[r] > 0
    /\ restSize[r] >= Part(r)
    /\ SetSize(r, Part(r))
    /\ restSize' = [restSize EXCEPT ![r] = @ - Part(r)]
    /\ offset' = [offset EXCEPT ![r] = @ + Part(r)]
    /\ tIndex' = [tIndex EXCEPT ![r] = @ + 1]
    /\ tOffset' = [tOffset EXCEPT ![r] = 0]
    /\ UNCHANGED <<calls, call, loc, channel, result>>

\* The second call of "fill".
FillReceives(r) ==
    /\ loc[r] = "sends" /\ restSize[r] = 0
    /\ loc' = [loc EXCEPT ![r] = "receives"]
    /\ StartFill(r, target(r), current(r))
    /\ UNCHANGED <<calls, call, sizeVars, channel, result>>

\* Mutant of nonempty: the parts are not looked at.
every(size) == Rank

\* The processes with a part; only these get a request of MPI.
nonempty(size) == {q \in Rank : size[q] > 0}

\* Mutant of Post: the places are not moved by the displacement.
PostUndisplaced(r) ==
    /\ loc[r] = "receives" /\ restSize[r] = 0
    /\ channel' = [k \in Rank \X Rank |->
            IF k[1] = r /\ k[2] \in nonempty(ssize[r])
            THEN Append(channel[k], [call |-> call[r], size |-> ssize[r][k[2]],
                                     first |-> current(r)[r]])
            ELSE channel[k]]
    /\ loc' = [loc EXCEPT ![r] = "wait"]
    /\ UNCHANGED <<calls, call, fillVars, sizeVars, result>>

\* Mutant of Post: empty parts are sent as well.
PostEmpty(r) ==
    /\ loc[r] = "receives" /\ restSize[r] = 0
    /\ channel' = [k \in Rank \X Rank |->
            IF k[1] = r
            THEN Append(channel[k], [call |-> call[r], size |-> ssize[r][k[2]],
                                     first |-> current(r)[r] + sdisp[r][k[2]]])
            ELSE channel[k]]
    /\ loc' = [loc EXCEPT ![r] = "wait"]
    /\ UNCHANGED <<calls, call, fillVars, sizeVars, result>>

\* MPI_Irecv for every nonempty part to come, MPI_Isend of every nonempty part.
Post(r) ==
    /\ loc[r] = "receives" /\ restSize[r] = 0
    /\ channel' = [k \in Rank \X Rank |->
            IF k[1] = r /\ k[2] \in nonempty(ssize[r])
            THEN Append(channel[k], [call |-> call[r], size |-> ssize[r][k[2]],
                                     first |-> current(r)[r] + sdisp[r][k[2]]])
            ELSE channel[k]]
    /\ loc' = [loc EXCEPT ![r] = "wait"]
    /\ UNCHANGED <<calls, call, fillVars, sizeVars, result>>

\* The receive posted for process s is matched by the oldest message of s.
Receive(r, s) ==
    /\ loc[r] = "wait" /\ rsize[r][s] > 0 /\ s \notin DOMAIN result[r]
    /\ channel[<<s, r>>] # <<>>
    /\ result' = [result EXCEPT ![r] =
            [q \in DOMAIN @ \cup {s} |->
                IF q = s THEN Head(channel[<<s, r>>]) ELSE @[q]]]
    /\ channel' = [channel EXCEPT ![<<s, r>>] = Tail(@)]
    /\ UNCHANGED <<calls, call, loc, fillVars, sizeVars>>

\* MPI_Waitall; "result" becomes the buffer.
WaitAll(r) ==
    /\ loc[r] = "wait"
    /\ \A s \in Rank : rsize[r][s] > 0 => s \in DOMAIN result[r]
    /\ loc' = [loc EXCEPT ![r] = "caller"]
    /\ UNCHANGED <<calls, call, fillVars, sizeVars, channel, result>>

Fill(r) == FillRest(r) \/ FillPart(r)

Step(r) ==
    \/ Begin(r) \/ Fill(r) \/ FillReceives(r) \/ Post(r)
    \/ \E s \in Rank : Receive(r, s)
    \/ WaitAll(r)

Finished == \A r \in Rank : loc[r] = "caller" /\ call[r] = Len(calls)
Done == Finished /\ UNCHANGED vars

Next == (\E r \in Rank : Step(r)) \/ Done

\* A synchronous send is complete when its message was received.
SendsMatched(r) ==
    \A d \in Rank : \A n \in DOMAIN channel[<<r, d>>] :
        channel[<<r, d>>][n].call # call[r]

(* Processes run and messages arrive; MPI_Waitall is only certain to end   *)
(* once the sends of the process are matched.                              *)
Fairness ==
    \A r \in Rank :
        /\ WF_vars(Begin(r) \/ Fill(r) \/ FillReceives(r) \/ Post(r))
        /\ WF_vars(\E s \in Rank : Receive(r, s))
        /\ WF_vars(WaitAll(r) /\ SendsMatched(r))

Spec == Init /\ [][Next]_vars /\ Fairness

-----------------------------------------------------------------------------
(* Properties *)

Message == [call : Nat, size : Nat, first : Nat]

\* Types; a process that walks through a distribution is inside of it or just
\* behind its end.
TypeOK ==
    /\ calls \in CallSequences
    /\ call \in [Rank -> Nat]
    /\ loc \in [Rank -> {"caller", "sends", "receives", "wait"}]
    /\ \A r \in Rank : 
        call[r] \in DOMAIN calls \/ (loc[r] = "caller" /\ call[r] = 0)
    /\ offset \in [Rank -> Nat] /\ restSize \in [Rank -> Nat]
    /\ tIndex \in [Rank -> 0..Size] /\ tOffset \in [Rank -> Nat]
    /\ ssize \in [Rank -> [Rank -> Nat]] /\ sdisp \in [Rank -> [Rank -> Nat]]
    /\ rsize \in [Rank -> [Rank -> Nat]] /\ rdisp \in [Rank -> [Rank -> Nat]]
    /\ channel \in [Rank \X Rank -> Seq(Message)]
    /\ DOMAIN result = Rank
    /\ \A r \in Rank : DOMAIN result[r] \subseteq Rank

\* While "fill" has places left it stands on a part that exists and reaches
\* behind the offset: the loop never reads behind the end of a distribution,
\* whose last parts may be empty, and its sizes are never negative.
WalkStaysInside ==
    \A r \in Rank : loc[r] \in {"sends", "receives"} /\ restSize[r] > 0 =>
        /\ tIndex[r] \in Rank
        /\ Part(r) >= 0
        /\ to(r)[tIndex[r]] + tOffset[r] = from(r)[r] + offset[r]

\* The array of Size + 1 requests, for up to 2 * Size messages, is enough: with
\* any other process there is something to send or something to receive.
RequestsSuffice ==
    \A r \in Rank : loc[r] = "receives" /\ restSize[r] = 0 =>
        Cardinality(nonempty(rsize[r])) + Cardinality(nonempty(ssize[r]))
            <= Size + 1

\* A message is received by the call that it was sent in, into a receive of
\* exactly its size: both sides have computed the same, and neither an empty
\* part nor a process that is a call ahead shifts the order of the messages.
MessagesFit ==
    \A r, s \in Rank : loc[r] = "wait" /\ s \in DOMAIN result[r] =>
        /\ result[r][s].call = call[r]
        /\ result[r][s].size = rsize[r][s]

\* The place of the global sequence that ends up at place i of the buffer,
\* from whatever source.
At(r, i) ==
    {result[r][s].first + i - rdisp[r][s] :
        s \in {q \in DOMAIN result[r] :
                rdisp[r][q] <= i /\ i < rdisp[r][q] + result[r][q].size}}

\* What balance promises: a process that returns has its part of the target
\* distribution, every place once and in order.
SliceReturned ==
    \A r \in Rank : loc[r] = "caller" /\ call[r] > 0 =>
        \A i \in 0..(target(r)[r + 1] - target(r)[r] - 1) :
            At(r, i) = {target(r)[r] + i}

\* All calls end at every process, even where MPI buffers no send.
AllCallsReturn == <>Finished
=============================================================================
