-------------------------- MODULE AsyncStoreProofs ---------------------------
(***************************************************************************)
(* Proofs about AsyncStore, for every set of buffers, every set of sizes   *)
(* and every number of updates: first the turn-taking of the three locks,  *)
(* then the data (the buffers an exec() reads are alive and current, and   *)
(* no buffer is leaked), and last that AsyncStore implements Handoff.      *)
(***************************************************************************)
EXTENDS AsyncStore, TLAPS

\* The executor sleeps on readerLock and nothing was signalled.
Asleep == xpc = "lock" /\ readerLock

\* The executor owns the turn: it is awake, or a signal waits for it.
Awake(locations) ==
    \/ xpc = "lock" /\ ~readerLock
    \/ xpc \in locations /\ readerLock

\* For each location of the solver thread, what the locks and the executor
\* can be doing: the three locks encode whose turn it is.
LockProtocol ==
    /\ mpc = "setExecutor" =>
         xpc = "none" /\ initBuffer = NoBuffer /\ ~shutdown
           /\ phase = "EXEC_PHASE"
    /\ mpc \in {"idle", "wait", "waitDestroy"} =>
         /\ initBufferLock /\ initBuffer = NoBuffer /\ ~shutdown
         /\ phase = "EXEC_PHASE"
         /\ IF writerLock THEN Awake({"start", "dispatch", "exec", "release"})
                          ELSE Asleep
    /\ mpc \in {"prepare", "publish", "pack", "call", "finalize", "shutdown"} =>
         /\ Asleep /\ writerLock /\ initBufferLock
         /\ initBuffer = NoBuffer /\ ~shutdown /\ phase = "SEND_PHASE"
    /\ mpc = "publish" => Len(buffer) > 0
    /\ mpc = "awaitInit" =>
         /\ ~shutdown /\ phase = "SEND_PHASE"
         /\ \/ /\ initBufferLock /\ writerLock /\ initBuffer # NoBuffer
               /\ Awake({"dispatch", "fill"})
            \/ /\ initBufferLock /\ writerLock /\ initBuffer = NoBuffer
               /\ readerLock /\ xpc = "filled"
            \/ /\ ~initBufferLock /\ initBuffer = NoBuffer /\ readerLock
               /\ IF writerLock THEN xpc = "release" ELSE xpc = "lock"
    /\ mpc = "relock" =>
         /\ ~shutdown /\ phase = "SEND_PHASE"
         /\ initBufferLock /\ initBuffer = NoBuffer /\ readerLock
         /\ IF writerLock THEN xpc = "release" ELSE xpc = "lock"
    /\ mpc = "join" =>
         shutdown /\ initBuffer = NoBuffer
           /\ (Awake({"dispatch"}) \/ xpc = "exited")
    /\ mpc = "destroyed" => xpc = "exited"

\* While buffers are being packed, there is a buffer to pack.
TodoOK ==
    mpc \in {"wait", "prepare", "publish", "awaitInit", "relock", "pack"}
        => todo # <<>>

IInv == TypeOK /\ TodoOK /\ LockProtocol

\* The buffers of an update are buffers.
LEMMA UpdateBuffers ==
    /\ MeshBuffers \in Seq(Buffers) /\ SolutionBuffers \in Seq(Buffers)
    /\ UpdateNames \subseteq Buffers
<1>1. MeshBuffers \in Seq(STRING) /\ SolutionBuffers \in Seq(STRING)
  BY BuffersAssumption
<1>2. MeshBuffers \in Seq(Buffers) /\ SolutionBuffers \in Seq(Buffers)
  BY <1>1 DEF Buffers, SeqElems
<1>3. UpdateNames \subseteq Buffers
  BY DEF UpdateNames, Buffers
<1> QED BY <1>2, <1>3

\* A function on 1..n is a sequence of length n.
LEMMA FunctionIsSeq ==
    ASSUME NEW S, NEW n \in Nat, NEW t \in [1..n -> S]
    PROVE  t \in Seq(S) /\ Len(t) = n
OBVIOUS

\* Changing the content of one buffer keeps the sequence of buffers typed.
LEMMA SetData ==
    ASSUME buffer \in Seq(BufInfo), NEW i, NEW d \in Int,
           buffer' = [buffer EXCEPT ![i].data = d]
    PROVE  buffer' \in Seq(BufInfo) /\ Len(buffer') = Len(buffer)
<1>1. buffer \in [1..Len(buffer) -> BufInfo] /\ Len(buffer) \in Nat
  OBVIOUS
<1>2. ASSUME NEW j \in 1..Len(buffer) PROVE buffer'[j] \in BufInfo
  <2>1. buffer[j] \in BufInfo
    BY <1>1
  <2>2. buffer'[j] = IF j = i THEN [buffer[j] EXCEPT !.data = d] ELSE buffer[j]
    BY <1>1
  <2> QED BY <2>1, <2>2 DEF BufInfo
<1>3. buffer' \in [1..Len(buffer) -> BufInfo]
  BY <1>1, <1>2
<1> QED BY <1>1, <1>3, FunctionIsSeq

\* Initially the executor thread does not exist and no lock is taken.
LEMMA InitIInv == Init => IInv
<1> SUFFICES ASSUME Init PROVE IInv
  OBVIOUS
<1>1. TypeOK
  <2>1. buffer \in Seq(BufInfo) /\ Len(buffer) = 0 /\ todo \in Seq(Buffers)
    BY DEF Init
  <2>2. initBuffer \in 0..Len(buffer) /\ indices \in [Buffers -> 0..Len(buffer)]
    BY <2>1 DEF Init, NoBuffer
  <2>3. DOMAIN got \subseteq Buffers
    BY DEF Init
  <2>4. update \in 0..MaxUpdates /\ nextParams \subseteq Buffers
    BY MaxUpdatesAssumption DEF Init
  <2> QED
    BY <2>1, <2>2, <2>3, <2>4
    DEF Init, TypeOK, SolverLocations, ExecutorLocations
<1>2. TodoOK
  BY DEF Init, TodoOK
<1>3. LockProtocol
  BY DEF Init, LockProtocol, NoBuffer
<1> QED BY <1>1, <1>2, <1>3 DEF IInv

\* Types are preserved by every step of either thread.
LEMMA NextTypeOK == IInv /\ [Next]_vars => TypeOK' /\ TodoOK'
<1> SUFFICES ASSUME IInv, [Next]_vars PROVE TypeOK' /\ TodoOK'
  OBVIOUS
<1> USE DEF IInv, TypeOK, TodoOK, BufInfo, SolverLocations, ExecutorLocations,
            locks, clientVars, execVars, NoBuffer, Zeroed, Garbage
<1>1. CASE SetExecutor
  BY <1>1 DEF SetExecutor
<1>2. ASSUME NEW names \in {MeshBuffers, SolutionBuffers}, BeginUpdate(names)
      PROVE TypeOK' /\ TodoOK'
  <2>1. names \in Seq(Buffers) /\ names # <<>>
    BY UpdateBuffers, BuffersAssumption
  <2>2. update' \in 0..MaxUpdates
    BY <1>2, MaxUpdatesAssumption DEF BeginUpdate
  <2> QED BY <1>2, <2>1, <2>2 DEF BeginUpdate
<1>3. CASE BeginDestroy
  BY <1>3 DEF BeginDestroy
<1>4. CASE Wait
  BY <1>4 DEF Wait
<1>5. ASSUME NEW size \in Sizes, PrepareReuse(size)
      PROVE TypeOK' /\ TodoOK'
  BY <1>5 DEF PrepareReuse
<1>6. ASSUME NEW size \in Sizes, PrepareAdd(size)
      PROVE TypeOK' /\ TodoOK'
  <2>1. todo # <<>> /\ Head(todo) \in Buffers
    BY <1>6 DEF PrepareAdd, Added
  <2> DEFINE old == indices[Head(todo)]
             kept == IF old = NoBuffer THEN buffer ELSE Freed(old)
             info == [size |-> size, live |-> TRUE, data |-> Garbage]
  <2>2. old \in 0..Len(buffer)
    BY <2>1
  <2>3. kept \in Seq(BufInfo) /\ Len(kept) = Len(buffer)
    <3>1. CASE old = NoBuffer
      BY <3>1
    <3>2. CASE old # NoBuffer
      BY <3>2, <2>2 DEF Freed
    <3> QED BY <3>1, <3>2
  <2>4. info \in BufInfo
    BY SizesAssumption
  <2>5. buffer' = Append(kept, info)
    BY <1>6 DEF PrepareAdd, Added
  <2>6. buffer' \in Seq(BufInfo) /\ Len(buffer') = Len(buffer) + 1
    BY <2>3, <2>4, <2>5
  <2>7. 0..Len(buffer) \subseteq 0..Len(buffer')
    BY <2>6
  <2> QED BY <1>6, <2>6, <2>7 DEF PrepareAdd, Added
<1>7. CASE Publish
  <2>1. Len(buffer) \in 0..Len(buffer)
    OBVIOUS
  <2> QED BY <1>7, <2>1 DEF Publish
<1>8. CASE AwaitInit
  BY <1>8 DEF AwaitInit
<1>9. CASE Relock
  <2>1. writerLock' \in BOOLEAN
    BY <1>9 DEF Relock
  <2>2. indices' \in [Buffers -> 0..Len(buffer)]
    BY <1>9 DEF Relock
  <2> QED BY <1>9, <2>1, <2>2 DEF Relock
<1>10. CASE Pack
  <2>1. todo # <<>> /\ Head(todo) \in Buffers
    BY <1>10 DEF Pack
  <2>2. buffer' \in Seq(BufInfo) /\ Len(buffer') = Len(buffer)
    <3>1. buffer' = [buffer EXCEPT ![indices[Head(todo)]].data = update]
      BY <1>10 DEF Pack
    <3>2. update \in Int
      BY MaxUpdatesAssumption
    <3> QED BY <3>1, <3>2, SetData
  <2>3. todo' \in Seq(Buffers) /\ Len(todo') = Len(todo) - 1
    BY <1>10, <2>1 DEF Pack
  <2>4. mpc' # "call" => todo' # <<>>
    <3>1. mpc' # "call" => Len(todo) # 1
      BY <1>10 DEF Pack
    <3>2. Len(todo) # 0 /\ Len(todo) \in Nat
      BY <2>1
    <3> QED BY <2>3, <3>1, <3>2
  <2> QED BY <1>10, <2>2, <2>3, <2>4 DEF Pack
<1>11. CASE Call
  BY <1>11, UpdateBuffers DEF Call
<1>12. CASE Finalize
  <2>1. buffer' \in Seq(BufInfo) /\ Len(buffer') = Len(buffer)
    <3>1. Len(buffer) \in Nat /\ DOMAIN buffer = 1..Len(buffer)
      OBVIOUS
    <3>2. buffer' \in [1..Len(buffer) -> BufInfo]
      BY <1>12, <3>1 DEF Finalize
    <3> HIDE DEF BufInfo
    <3> QED BY <3>1, <3>2, FunctionIsSeq
  <2>2. 0..Len(buffer') = 0..Len(buffer)
    BY <2>1
  <2> QED BY <1>12, <2>1, <2>2 DEF Finalize
<1>13. CASE Shutdown
  BY <1>13 DEF Shutdown
<1>14. CASE Join
  BY <1>14 DEF Join
<1>15. CASE Ready
  BY <1>15 DEF Ready
<1>16. CASE LockReader
  BY <1>16 DEF LockReader
<1>17. CASE Dispatch
  BY <1>17 DEF Dispatch
<1>18. CASE Fill
  <2>1. buffer' \in Seq(BufInfo) /\ Len(buffer') = Len(buffer)
    <3>1. buffer' = [buffer EXCEPT ![initBuffer].data = 0] /\ 0 \in Int
      BY <1>18 DEF Fill
    <3> QED BY <3>1, SetData
  <2> QED BY <1>18, <2>1 DEF Fill
<1>19. CASE Filled
  BY <1>19 DEF Filled
<1>20. ASSUME NEW b \in Buffers, Unpack(b)
       PROVE TypeOK' /\ TodoOK'
  BY <1>20 DEF Unpack
<1>21. CASE Deliver
  BY <1>21 DEF Deliver
<1>22. CASE Release
  BY <1>22 DEF Release
<1>23. CASE UNCHANGED vars
  BY <1>23 DEF vars
<1> QED
  BY <1>1, <1>2, <1>3, <1>4, <1>5, <1>6, <1>7, <1>8, <1>9, <1>10, <1>11,
     <1>12, <1>13, <1>14, <1>15, <1>16, <1>17, <1>18, <1>19, <1>20, <1>21,
     <1>22, <1>23
  DEF Next, Solver, Executor, Destroyed


\* The lock protocol is preserved by every step of either thread.
LEMMA NextLockProtocol == IInv /\ [Next]_vars => LockProtocol'
<1> SUFFICES ASSUME TypeOK, LockProtocol, [Next]_vars PROVE LockProtocol'
  BY DEF IInv
<1>t. /\ writerLock \in BOOLEAN /\ readerLock \in BOOLEAN
      /\ initBufferLock \in BOOLEAN /\ shutdown \in BOOLEAN
  BY DEF TypeOK
<1> USE DEF LockProtocol, Asleep, Awake, locks
<1>1. CASE SetExecutor
  BY <1>1 DEF SetExecutor
<1>2. ASSUME NEW names \in {MeshBuffers, SolutionBuffers}, BeginUpdate(names)
      PROVE LockProtocol'
  BY <1>2 DEF BeginUpdate
<1>3. CASE BeginDestroy
  BY <1>3 DEF BeginDestroy
<1>4. CASE Wait
  BY <1>4 DEF Wait
<1>5. ASSUME NEW size \in Sizes, PrepareReuse(size)
      PROVE LockProtocol'
  BY <1>5 DEF PrepareReuse
<1>6. ASSUME NEW size \in Sizes, PrepareAdd(size)
      PROVE LockProtocol'
  <2>1. Len(buffer') > 0
    BY <1>6 DEF PrepareAdd, Added
  <2> QED BY <1>6, <2>1 DEF PrepareAdd, Added
<1>7. CASE Publish
  BY <1>7 DEF Publish, NoBuffer
<1>8. CASE AwaitInit
  BY <1>8 DEF AwaitInit
<1>9. CASE Relock
  BY <1>9 DEF Relock
<1>10. CASE Pack
  BY <1>10 DEF Pack
<1>11. CASE Call
  BY <1>11 DEF Call
<1>12. CASE Finalize
  BY <1>12 DEF Finalize
<1>13. CASE Shutdown
  BY <1>13 DEF Shutdown
<1>14. CASE Join
  BY <1>14 DEF Join
<1>15. CASE Ready
  BY <1>15 DEF Ready
<1>16. CASE LockReader
  BY <1>16 DEF LockReader
<1>17. CASE Dispatch
  BY <1>17 DEF Dispatch
<1>18. CASE Fill
  BY <1>18 DEF Fill
<1>19. CASE Filled
  BY <1>19 DEF Filled
<1>20. ASSUME NEW b \in Buffers, Unpack(b)
       PROVE LockProtocol'
  BY <1>20 DEF Unpack
<1>21. CASE Deliver
  BY <1>21 DEF Deliver
<1>22. CASE Release
  BY <1>22 DEF Release
<1>23. CASE UNCHANGED vars
  BY <1>23 DEF vars
<1> QED
  BY <1>1, <1>2, <1>3, <1>4, <1>5, <1>6, <1>7, <1>8, <1>9, <1>10, <1>11,
     <1>12, <1>13, <1>14, <1>15, <1>16, <1>17, <1>18, <1>19, <1>20, <1>21,
     <1>22, <1>23
  DEF Next, Solver, Executor, Destroyed

\* The inductive invariant holds in every reachable state.
THEOREM Invariance == Spec => []IInv
<1>1. Init => IInv
  BY InitIInv
<1>2. IInv /\ [Next]_vars => IInv'
  BY NextTypeOK, NextLockProtocol DEF IInv
<1> QED BY <1>1, <1>2, PTL DEF Spec

\* The state of both threads is well typed, whatever the buffers and sizes.
THEOREM TypeCorrectness == Spec => []TypeOK
<1>1. IInv => TypeOK
  BY DEF IInv
<1> QED BY <1>1, Invariance, PTL

\* The solver thread and the executor never touch the shared members of
\* ThreadBase at the same time: the three locks hand the turn over.
THEOREM ExclusiveAccessHolds == Spec => []ExclusiveAccess
<1>1. IInv => ExclusiveAccess
  BY DEF IInv, LockProtocol, Asleep, ExclusiveAccess
<1> QED BY <1>1, Invariance, PTL

\* No lock is unlocked while it is free; in particular the assumption that
\* asyncThread() states about readerLock holds for AsyncStore.
THEOREM UnlockOnlyLockedHolds == Spec => []UnlockOnlyLocked
<1>1. IInv => UnlockOnlyLocked
  BY DEF IInv, TypeOK, SolverLocations, LockProtocol, Asleep, Awake,
         UnlockOnlyLocked
<1> QED BY <1>1, Invariance, PTL

-----------------------------------------------------------------------------
(* The data that is handed over                                            *)

AnyPackage == UNION {[names -> Int] : names \in SUBSET Buffers}

\* A buffer is being added: it is at the end and not known by its id yet.
Adding == mpc \in {"publish", "awaitInit", "relock"}
\* Base::_finalize() has freed all buffers.
Closed == mpc \in {"shutdown", "join", "destroyed"}
InUpdate == mpc \in {"wait", "prepare", "publish", "awaitInit", "relock",
                     "pack", "call"}

\* Every update posts one package, at its end.
Counts == /\ posted \in Seq(AnyPackage)
          /\ update = Len(posted) + IF InUpdate THEN 1 ELSE 0

\* No two buffers share an id.
Distinct == \A b, c \in Buffers :
                b # c /\ indices[b] # NoBuffer => indices[b] # indices[c]

\* The buffer behind a known id is alive; the one being replaced is dead.
Alive ==
    \A b \in Buffers : indices[b] # NoBuffer /\ ~Closed =>
        IF Adding /\ b = Head(todo) THEN ~buffer[indices[b]].live
                                    ELSE buffer[indices[b]].live

\* The new buffer has a fresh id, and only it is touched by the executor.
Fresh ==
    /\ Adding => \A b \in Buffers : indices[b] < Len(buffer)
    /\ Adding => Len(buffer) > 0 /\ buffer[Len(buffer)].live
    /\ initBuffer # NoBuffer => initBuffer = Len(buffer)

Current(b, u) ==
    /\ indices[b] # NoBuffer
    /\ buffer[indices[b]].live /\ buffer[indices[b]].data = u

\* The buffers of the update that are not to do any more are packed.
Packed ==
    /\ mpc = "wait" => UpdateNames \subseteq SeqElems(todo)
    /\ InUpdate => \A b \in UpdateNames \ SeqElems(todo) : Current(b, update)
    /\ mpc = "call" => todo = <<>>
    /\ mpc = "pack" => indices[Head(todo)] # NoBuffer

\* From call() to the end of the next wait() nobody changes what was packed.
Handed ==
    mpc \in {"setExecutor", "idle", "wait", "waitDestroy"} =>
        \A b \in nextParams : Current(b, Len(posted))

DataInv == /\ Counts /\ Distinct /\ Alive /\ Fresh /\ Packed /\ Handed
           /\ NoLeakedBuffer

\* An element that is not the head is in the tail.
LEMMA TailElems ==
    ASSUME NEW S, NEW t \in Seq(S), t # <<>>, NEW b \in SeqElems(t), b # Head(t)
    PROVE  b \in SeqElems(Tail(t))
<1>1. PICK i \in 1..Len(t) : t[i] = b
  BY DEF SeqElems
<1>2. i # 1
  BY <1>1
<1>3. i - 1 \in 1..Len(Tail(t)) /\ Tail(t)[i - 1] = b
  BY <1>1, <1>2
<1>4. i - 1 \in DOMAIN Tail(t)
  BY <1>3
<1> QED BY <1>3, <1>4 DEF SeqElems

\* The head is an element.
LEMMA HeadElem ==
    ASSUME NEW S, NEW t \in Seq(S), t # <<>>
    PROVE  Head(t) \in SeqElems(t) /\ Head(t) \in S
<1>1. 1 \in 1..Len(t) /\ Head(t) = t[1]
  OBVIOUS
<1> QED BY <1>1 DEF SeqElems

\* A package is made of buffers and a number.
LEMMA PackageType ==
    ASSUME update \in Int PROVE Package(UpdateNames, update) \in AnyPackage
<1>1. Package(UpdateNames, update) \in [UpdateNames -> Int]
  BY DEF Package
<1> QED BY <1>1, UpdateBuffers DEF AnyPackage

\* Initially nothing is allocated, packed or posted.
LEMMA InitData == Init => DataInv
<1> SUFFICES ASSUME Init PROVE DataInv
  OBVIOUS
<1>1. \A b \in Buffers : indices[b] = NoBuffer
  BY DEF Init
<1>2. Counts
  BY DEF Init, Counts, InUpdate
<1>3. Distinct /\ Alive
  BY <1>1 DEF Distinct, Alive
<1>4. Fresh /\ Packed /\ Handed
  BY DEF Init, Fresh, Packed, Handed, Adding, InUpdate
<1>5. NoLeakedBuffer
  BY DEF Init, NoLeakedBuffer
<1> QED BY <1>2, <1>3, <1>4, <1>5 DEF DataInv

dataVars == <<buffer, indices, todo, update, posted, nextParams>>

\* The steps that only move a thread or a lock.
Quiet ==
    \/ SetExecutor \/ BeginDestroy \/ Wait
    \/ (\E size \in Sizes : PrepareReuse(size))
    \/ Publish \/ AwaitInit \/ Shutdown \/ Join
    \/ Ready \/ LockReader \/ Dispatch \/ Filled
    \/ (\E b \in Buffers : Unpack(b)) \/ Deliver \/ Release
    \/ UNCHANGED vars

\* How they move the solver thread.
Move ==
    \/ mpc' = mpc
    \/ mpc = "setExecutor" /\ mpc' = "idle"
    \/ mpc = "idle" /\ mpc' = "waitDestroy"
    \/ mpc = "wait" /\ mpc' = "prepare"
    \/ mpc = "waitDestroy" /\ mpc' = "finalize"
    \/ mpc = "prepare" /\ mpc' = "pack" /\ indices[Head(todo)] # NoBuffer
    \/ mpc = "publish" /\ mpc' = "awaitInit"
    \/ mpc = "awaitInit" /\ mpc' = "relock"
    \/ mpc = "shutdown" /\ mpc' = "join"
    \/ mpc = "join" /\ mpc' = "destroyed"

\* They keep what is packed, because they keep all shared data.
LEMMA QuietData ==
    ASSUME DataInv, Quiet PROVE DataInv'
<1> USE DEF locks, clientVars, execVars
<1>1. UNCHANGED dataVars
  BY DEF Quiet, dataVars, SetExecutor, BeginDestroy, Wait, PrepareReuse,
         Publish, AwaitInit, Shutdown, Join, Ready, LockReader, Dispatch,
         Filled, Unpack, Deliver, Release, vars
<1>2. Move
  BY ZenonT(40) DEF Quiet, Move, SetExecutor, BeginDestroy, Wait, PrepareReuse,
         Publish, AwaitInit, Shutdown, Join, Ready, LockReader, Dispatch,
         Filled, Unpack, Deliver, Release, vars
<1>3. initBuffer' \in {initBuffer, Len(buffer)}
  BY DEF Quiet, SetExecutor, BeginDestroy, Wait, PrepareReuse,
         Publish, AwaitInit, Shutdown, Join, Ready, LockReader, Dispatch,
         Filled, Unpack, Deliver, Release, vars
<1> USE <1>1 DEF dataVars
<1>4. Counts'
  BY <1>2 DEF DataInv, Counts, InUpdate, Move
<1>5. Distinct'
  BY DEF DataInv, Distinct
<1>6. Alive'
  BY <1>2 DEF DataInv, Alive, Adding, Closed, Move
<1>7. Fresh'
  BY <1>2, <1>3 DEF DataInv, Fresh, Adding, Move
<1>8. Packed'
  BY <1>2 DEF DataInv, Packed, InUpdate, UpdateNames, Current, Move
<1>9. Handed'
  BY <1>2 DEF DataInv, Handed, Current, Move
<1>10. NoLeakedBuffer'
  BY <1>2 DEF DataInv, NoLeakedBuffer, Move
<1> QED BY <1>4, <1>5, <1>6, <1>7, <1>8, <1>9, <1>10 DEF DataInv

\* A new update has everything to do.
LEMMA BeginUpdateData ==
    ASSUME IInv, DataInv,
           NEW names \in {MeshBuffers, SolutionBuffers}, BeginUpdate(names)
    PROVE  DataInv'
<1> USE DEF BeginUpdate, locks, clientVars, execVars
<1>1. UpdateNames' = SeqElems(names)
  <2>1. update \in Int
    BY DEF IInv, TypeOK
  <2>2. update' = 1 <=> update = 0
    BY <2>1
  <2>3. names = IF update = 0 THEN MeshBuffers ELSE SolutionBuffers
    OBVIOUS
  <2> QED BY <2>2, <2>3 DEF UpdateNames
<1>2. Counts' /\ Distinct'
  BY DEF DataInv, Counts, Distinct, InUpdate
<1>3. Alive' /\ Fresh' /\ NoLeakedBuffer'
  BY DEF DataInv, Alive, Fresh, NoLeakedBuffer, Adding, Closed
<1>4. Packed'
  BY <1>1 DEF Packed
<1>5. Handed'
  BY DEF DataInv, Handed, Current
<1> QED BY <1>2, <1>3, <1>4, <1>5 DEF DataInv

\* Changing the data of one buffer keeps everything else of the buffers.
LEMMA DataKeeps ==
    ASSUME TypeOK, NEW i, NEW d \in Int,
           buffer' = [buffer EXCEPT ![i].data = d]
    PROVE  /\ Len(buffer') = Len(buffer)
           /\ \A j \in 1..Len(buffer) :
                /\ buffer'[j].live = buffer[j].live
                /\ buffer'[j].data = IF j = i THEN d ELSE buffer[j].data
<1>1. buffer \in Seq(BufInfo)
  BY DEF TypeOK
<1>2. Len(buffer') = Len(buffer)
  BY <1>1, SetData
<1>3. ASSUME NEW j \in 1..Len(buffer)
      PROVE  /\ buffer'[j].live = buffer[j].live
             /\ buffer'[j].data = IF j = i THEN d ELSE buffer[j].data
  <2>1. buffer[j] \in BufInfo
    BY <1>1
  <2>2. buffer'[j] = IF j = i THEN [buffer[j] EXCEPT !.data = d] ELSE buffer[j]
    BY <1>1
  <2> QED BY <2>1, <2>2 DEF BufInfo
<1> QED BY <1>2, <1>3

\* A new buffer replaces one that is still to do, and is not announced yet.
LEMMA PrepareAddData ==
    ASSUME IInv, DataInv, NEW size \in Sizes, PrepareAdd(size)
    PROVE  DataInv'
<1> USE DEF locks, clientVars, execVars
<1> DEFINE n == Len(buffer)
           old == indices[Head(todo)]
<1>1. /\ buffer \in Seq(BufInfo) /\ n \in Nat
      /\ \A b \in Buffers : indices[b] \in 0..n
  BY DEF IInv, TypeOK
<1>2. Head(todo) \in SeqElems(todo) /\ Head(todo) \in Buffers
  BY HeadElem DEF IInv, TypeOK, TodoOK, PrepareAdd, Added
<1>3. /\ mpc = "prepare" /\ mpc' = "publish"
      /\ UNCHANGED <<indices, todo, update, posted, nextParams, initBuffer>>
  BY DEF PrepareAdd, Added
<1>4. /\ Len(buffer') = n + 1 /\ buffer'[n + 1].live
      /\ \A i \in 1..n : i # old => buffer'[i] = buffer[i]
      /\ old # NoBuffer => ~buffer'[old].live
  <2> DEFINE kept == IF old = NoBuffer THEN buffer ELSE Freed(old)
             info == [size |-> size, live |-> TRUE, data |-> Garbage]
  <2>1. kept \in Seq(BufInfo) /\ Len(kept) = n
    <3>1. CASE old = NoBuffer
      BY <1>1, <3>1
    <3>2. CASE old # NoBuffer
      BY <1>1, <1>2, <3>2 DEF Freed, BufInfo, NoBuffer, Garbage
    <3> QED BY <3>1, <3>2
  <2>2. /\ \A i \in 1..n : i # old => kept[i] = buffer[i]
        /\ old # NoBuffer => ~kept[old].live
    BY <1>1, <1>2 DEF Freed, NoBuffer
  <2>3. info \in BufInfo /\ info.live
    BY SizesAssumption DEF BufInfo, Garbage
  <2>4. buffer' = Append(kept, info)
    BY DEF PrepareAdd, Added
  <2>5. /\ Len(buffer') = n + 1 /\ buffer'[n + 1] = info
        /\ \A i \in 1..n : buffer'[i] = kept[i]
    BY <2>1, <2>3, <2>4
  <2>6. old \in 0..n
    BY <1>1, <1>2
  <2> QED BY <2>2, <2>3, <2>5, <2>6 DEF NoBuffer
<1>5. Counts' /\ Distinct'
  BY <1>3 DEF DataInv, Counts, Distinct, InUpdate
<1>6. \A b \in Buffers : indices[b] # NoBuffer /\ b # Head(todo) =>
        /\ indices[b] # old /\ buffer'[indices[b]] = buffer[indices[b]]
  BY <1>1, <1>2, <1>4 DEF DataInv, Distinct, NoBuffer
<1>7. Alive'
  BY <1>2, <1>3, <1>4, <1>6 DEF DataInv, Alive, Adding, Closed
<1>8. Fresh'
  BY <1>1, <1>3, <1>4 DEF IInv, LockProtocol, Fresh, Adding
<1>9. Packed'
  <2>1. ASSUME NEW b \in UpdateNames', b \notin SeqElems(todo')
        PROVE  Current(b, update)'
    <3>1. b \in UpdateNames /\ b \in Buffers /\ b # Head(todo)
      BY <1>2, <1>3, <2>1, UpdateBuffers DEF UpdateNames
    <3>2. Current(b, update)
      BY <1>3, <2>1, <3>1 DEF DataInv, Packed, InUpdate
    <3> QED BY <1>3, <1>6, <3>1, <3>2 DEF Current
  <2> QED BY <1>3, <2>1 DEF Packed
<1>10. Handed'
  BY <1>3 DEF Handed
<1>11. NoLeakedBuffer'
  BY <1>1, <1>3, <1>4 DEF DataInv, NoLeakedBuffer, NoBuffer
<1> QED BY <1>5, <1>7, <1>8, <1>9, <1>10, <1>11 DEF DataInv

\* The new buffer becomes known under the name that is to be packed next.
LEMMA RelockData ==
    ASSUME IInv, DataInv, Relock PROVE DataInv'
<1> USE DEF locks, clientVars, execVars
<1> DEFINE h == Head(todo)
<1>1. /\ Len(buffer) \in Nat
      /\ indices \in [Buffers -> 0..Len(buffer)]
  BY DEF IInv, TypeOK
<1>2. h \in SeqElems(todo) /\ h \in Buffers
  BY HeadElem DEF IInv, TypeOK, TodoOK, Relock
<1>3. /\ mpc = "relock" /\ mpc' = "pack"
      /\ UNCHANGED <<buffer, todo, update, posted, nextParams, initBuffer>>
      /\ indices' = [indices EXCEPT ![h] = Len(buffer)]
  BY DEF Relock
<1>4. /\ indices'[h] = Len(buffer)
      /\ \A b \in Buffers : b # h => indices'[b] = indices[b]
  BY <1>1, <1>2, <1>3
<1>5. /\ \A b \in Buffers : indices[b] < Len(buffer)
      /\ Len(buffer) > 0 /\ buffer[Len(buffer)].live
  BY <1>3 DEF DataInv, Fresh, Adding
<1>6. Counts'
  BY <1>3 DEF DataInv, Counts, InUpdate
<1>7. Distinct'
  BY <1>1, <1>4, <1>5 DEF DataInv, Distinct, NoBuffer
<1>8. Alive'
  BY <1>3, <1>4, <1>5 DEF DataInv, Alive, Adding, Closed
<1>9. Fresh'
  BY <1>3 DEF DataInv, Fresh, Adding
<1>10. Packed'
  <2>1. indices'[Head(todo')] # NoBuffer
    BY <1>3, <1>4, <1>5 DEF NoBuffer
  <2>2. ASSUME NEW b \in UpdateNames', b \notin SeqElems(todo')
        PROVE  Current(b, update)'
    <3>1. b \in UpdateNames /\ b \in Buffers /\ b # h
      BY <1>2, <1>3, <2>2, UpdateBuffers DEF UpdateNames
    <3>2. Current(b, update)
      BY <1>3, <2>2, <3>1 DEF DataInv, Packed, InUpdate
    <3> QED BY <1>3, <1>4, <3>1, <3>2 DEF Current
  <2> QED BY <1>3, <2>1, <2>2 DEF Packed
<1>11. Handed'
  BY <1>3 DEF Handed
<1>12. NoLeakedBuffer'
  <2> SUFFICES ASSUME NEW i \in DOMAIN buffer, buffer[i].live
               PROVE  \E b \in Buffers : indices'[b] = i
    BY <1>3 DEF NoLeakedBuffer
  <2>1. CASE i = Len(buffer)
    BY <1>2, <1>4, <2>1
  <2>2. CASE i # Len(buffer)
    <3>1. PICK b \in Buffers : indices[b] = i
      BY <2>2 DEF DataInv, NoLeakedBuffer
    <3>2. indices[b] # NoBuffer
      BY <3>1 DEF IInv, TypeOK, NoBuffer
    <3>3. b # h
      BY <1>3, <3>1, <3>2 DEF DataInv, Alive, Adding, Closed
    <3> QED BY <1>4, <3>1, <3>3
  <2> QED BY <2>1, <2>2
<1> QED BY <1>6, <1>7, <1>8, <1>9, <1>10, <1>11, <1>12 DEF DataInv

\* The packed buffer is current; no other name has its id.
LEMMA PackData ==
    ASSUME IInv, DataInv, Pack PROVE DataInv'
<1> USE DEF locks, clientVars, execVars
<1> DEFINE h == Head(todo)
<1>1. /\ Len(buffer) \in Nat /\ update \in Int
      /\ indices \in [Buffers -> 0..Len(buffer)]
      /\ DOMAIN buffer = 1..Len(buffer) /\ buffer \in Seq(BufInfo)
  BY MaxUpdatesAssumption DEF IInv, TypeOK
<1>2. /\ todo \in Seq(Buffers) /\ todo # <<>>
      /\ h \in SeqElems(todo) /\ h \in Buffers
  BY HeadElem DEF IInv, TypeOK, TodoOK, Pack
<1>3. /\ mpc = "pack" /\ mpc' \in {"call", "prepare"}
      /\ mpc' = "call" => Len(todo) = 1
      /\ UNCHANGED <<indices, update, posted, nextParams, initBuffer>>
      /\ todo' = Tail(todo)
      /\ buffer' = [buffer EXCEPT ![indices[h]].data = update]
  BY DEF Pack
<1>4. /\ Len(buffer') = Len(buffer)
      /\ \A j \in 1..Len(buffer) :
           /\ buffer'[j].live = buffer[j].live
           /\ buffer'[j].data = IF j = indices[h] THEN update ELSE buffer[j].data
  BY <1>1, <1>3, DataKeeps DEF IInv
<1>5. buffer' \in Seq(BufInfo)
  BY <1>1, <1>3, SetData
<1>6. DOMAIN buffer' = 1..Len(buffer)
  BY <1>4, <1>5
<1>7. indices[h] # NoBuffer
  BY <1>3 DEF DataInv, Packed
<1>8. Counts' /\ Distinct'
  BY <1>3 DEF DataInv, Counts, Distinct, InUpdate
<1>9. Alive'
  BY <1>1, <1>3, <1>4 DEF DataInv, Alive, Adding, Closed, NoBuffer
<1>10. Fresh'
  BY <1>3, <1>4 DEF DataInv, Fresh, Adding
<1>11. Packed'
  <2>1. mpc' = "call" => todo' = <<>>
    BY <1>2, <1>3
  <2>2. ASSUME NEW b \in UpdateNames', b \notin SeqElems(todo')
        PROVE  Current(b, update)'
    <3>1. b \in UpdateNames /\ b \in Buffers
      BY <1>3, <2>2, UpdateBuffers DEF UpdateNames
    <3>2. CASE b = h
      <4>1. buffer[indices[h]].live
        BY <1>2, <1>3, <1>7 DEF DataInv, Alive, Adding, Closed
      <4>2. indices[h] \in 1..Len(buffer)
        BY <1>1, <1>2, <1>7 DEF NoBuffer
      <4> QED BY <1>3, <1>4, <1>7, <3>2, <4>1, <4>2 DEF Current
    <3>3. CASE b # h
      <4>1. b \notin SeqElems(todo)
        BY <1>2, <1>3, <2>2, <3>3, TailElems
      <4>2. Current(b, update)
        BY <1>3, <3>1, <4>1 DEF DataInv, Packed, InUpdate
      <4>3. indices[b] # indices[h]
        BY <1>2, <1>7, <3>1, <3>3 DEF DataInv, Distinct
      <4>4. indices[b] \in 1..Len(buffer)
        BY <1>1, <3>1, <4>2 DEF Current, NoBuffer
      <4> QED BY <1>3, <1>4, <4>2, <4>3, <4>4 DEF Current
    <3> QED BY <3>2, <3>3
  <2> QED BY <1>3, <2>1, <2>2 DEF Packed
<1>12. Handed'
  BY <1>3 DEF Handed
<1>13. NoLeakedBuffer'
  BY <1>1, <1>3, <1>4, <1>6 DEF DataInv, NoLeakedBuffer
<1> QED BY <1>8, <1>9, <1>10, <1>11, <1>12, <1>13 DEF DataInv

\* call() names the buffers of the update, which are all packed.
LEMMA CallData ==
    ASSUME IInv, DataInv, Call PROVE DataInv'
<1> USE DEF locks, clientVars, execVars
<1>1. /\ mpc = "call" /\ mpc' = "idle" /\ nextParams' = UpdateNames
      /\ posted' = Append(posted, Package(UpdateNames, update))
      /\ UNCHANGED <<buffer, indices, todo, update, initBuffer>>
  BY DEF Call
<1>2. update \in Int
  BY MaxUpdatesAssumption DEF IInv, TypeOK
<1>3. posted \in Seq(AnyPackage) /\ update = Len(posted) + 1
  BY <1>1 DEF DataInv, Counts, InUpdate
<1>4. posted' \in Seq(AnyPackage) /\ Len(posted') = update
  BY <1>1, <1>2, <1>3, PackageType
<1>5. Counts'
  BY <1>1, <1>2, <1>4 DEF Counts, InUpdate
<1>6. Distinct' /\ Alive' /\ Fresh' /\ NoLeakedBuffer'
  BY <1>1 DEF DataInv, Distinct, Alive, Fresh, NoLeakedBuffer, Adding, Closed
<1>7. Packed'
  BY <1>1 DEF Packed, InUpdate
<1>8. Handed'
  <2>1. todo = <<>>
    BY <1>1 DEF DataInv, Packed
  <2>2. \A b \in UpdateNames : Current(b, update)
    BY <1>1, <2>1 DEF DataInv, Packed, InUpdate, SeqElems
  <2> QED BY <1>1, <1>4, <2>2 DEF Handed, Current
<1> QED BY <1>5, <1>6, <1>7, <1>8 DEF DataInv

\* After finalize() nothing is alive and nothing is promised.
LEMMA FinalizeData ==
    ASSUME IInv, DataInv, Finalize PROVE DataInv'
<1> USE DEF locks, clientVars, execVars
<1>1. /\ mpc = "finalize" /\ mpc' = "shutdown"
      /\ UNCHANGED <<indices, todo, update, posted, nextParams, initBuffer>>
      /\ buffer' = [i \in DOMAIN buffer |->
                     [size |-> 0, live |-> FALSE, data |-> Garbage]]
  BY DEF Finalize
<1>2. initBuffer = NoBuffer
  BY <1>1 DEF IInv, LockProtocol
<1>3. Counts' /\ Distinct'
  BY <1>1 DEF DataInv, Counts, Distinct, InUpdate
<1>4. Alive' /\ Fresh' /\ Packed' /\ Handed'
  BY <1>1, <1>2 DEF Alive, Fresh, Packed, Handed, Adding, Closed, InUpdate
<1>5. NoLeakedBuffer'
  BY <1>1 DEF NoLeakedBuffer
<1> QED BY <1>3, <1>4, <1>5 DEF DataInv

\* The executor touches only the buffer that is being added.
LEMMA FillData ==
    ASSUME IInv, DataInv, Fill PROVE DataInv'
<1> USE DEF locks, clientVars, execVars
<1>1. /\ buffer' = [buffer EXCEPT ![initBuffer].data = Zeroed]
      /\ initBuffer' = NoBuffer
      /\ UNCHANGED <<mpc, indices, todo, update, posted, nextParams>>
  BY DEF Fill
<1>2. mpc = "awaitInit" /\ initBuffer # NoBuffer
  BY DEF Fill, IInv, TypeOK, SolverLocations, LockProtocol, Asleep, Awake
<1>3. /\ initBuffer = Len(buffer) /\ Len(buffer) > 0
      /\ \A b \in Buffers : indices[b] < Len(buffer)
  BY <1>2 DEF DataInv, Fresh, Adding
<1>4. /\ Len(buffer) \in Nat /\ buffer \in Seq(BufInfo)
      /\ DOMAIN buffer = 1..Len(buffer)
      /\ indices \in [Buffers -> 0..Len(buffer)]
  BY DEF IInv, TypeOK
<1>5. Zeroed \in Int
  BY DEF Zeroed
<1>6. /\ Len(buffer') = Len(buffer)
      /\ \A j \in 1..Len(buffer) :
           /\ buffer'[j].live = buffer[j].live
           /\ buffer'[j].data = IF j = initBuffer THEN Zeroed ELSE buffer[j].data
  BY <1>1, <1>5, DataKeeps DEF IInv
<1>7. buffer' \in Seq(BufInfo) /\ DOMAIN buffer' = 1..Len(buffer)
  BY <1>1, <1>4, <1>5, <1>6, SetData
<1>8. Counts' /\ Distinct'
  BY <1>1 DEF DataInv, Counts, Distinct, InUpdate
<1>9. Alive'
  BY <1>1, <1>4, <1>6 DEF DataInv, Alive, Adding, Closed, NoBuffer
<1>10. Fresh'
  BY <1>1, <1>3, <1>4, <1>6 DEF DataInv, Fresh, Adding
<1>11. Packed'
  <2>1. ASSUME NEW b \in UpdateNames, Current(b, update)
        PROVE  Current(b, update)'
    <3>1. b \in Buffers
      BY UpdateBuffers
    <3>2. indices[b] \in 1..Len(buffer) /\ indices[b] # initBuffer
      BY <1>3, <1>4, <2>1, <3>1 DEF Current, NoBuffer
    <3> QED BY <1>1, <1>6, <2>1, <3>2 DEF Current
  <2> QED BY <1>1, <1>2, <2>1 DEF DataInv, Packed, InUpdate, UpdateNames
<1>12. Handed'
  BY <1>1, <1>2 DEF Handed
<1>13. NoLeakedBuffer'
  BY <1>1, <1>4, <1>6, <1>7 DEF DataInv, NoLeakedBuffer
<1> QED BY <1>8, <1>9, <1>10, <1>11, <1>12, <1>13 DEF DataInv

\* Every step keeps what was handed over and what was packed.
LEMMA NextData == IInv /\ DataInv /\ [Next]_vars => DataInv'
<1> SUFFICES ASSUME IInv, DataInv, [Next]_vars PROVE DataInv'
  OBVIOUS
<1>1. \/ Quiet
      \/ \E names \in {MeshBuffers, SolutionBuffers} : BeginUpdate(names)
      \/ \E size \in Sizes : PrepareAdd(size)
      \/ Relock \/ Pack \/ Call \/ Finalize \/ Fill
  BY DEF Next, Solver, Executor, Destroyed, Quiet
<1> QED
  BY <1>1, QuietData, BeginUpdateData, PrepareAddData, RelockData, PackData,
     CallData, FinalizeData, FillData

\* The lock protocol and the data together are invariant.
THEOREM DataInvariance == Spec => [](IInv /\ DataInv)
<1>1. Init => IInv /\ DataInv
  BY InitIInv, InitData
<1>2. IInv /\ DataInv /\ [Next]_vars => (IInv /\ DataInv)'
  BY NextTypeOK, NextLockProtocol, NextData DEF IInv
<1> QED BY <1>1, <1>2, PTL DEF Spec

\* AsyncExecutor::exec() reads only buffers that are alive, current and
\* complete, however their sizes change from update to update.
THEOREM ExecReadsCurrentBuffersHolds == Spec => []ExecReadsCurrentBuffers
<1>1. IInv /\ DataInv => ExecReadsCurrentBuffers
  <2> SUFFICES ASSUME IInv, DataInv, xpc = "exec"
               PROVE  \A b \in nextParams : Current(b, Len(posted))
    BY DEF ExecReadsCurrentBuffers, Current
  <2>1. mpc \in {"idle", "wait", "waitDestroy"}
    BY DEF IInv, TypeOK, SolverLocations, LockProtocol, Asleep, Awake
  <2> QED BY <2>1 DEF DataInv, Handed
<1> QED BY <1>1, DataInvariance, PTL

\* removeBuffer() and the buffers known by name leave no memory behind.
THEOREM NoLeakedBufferHolds == Spec => []NoLeakedBuffer
<1>1. DataInv => NoLeakedBuffer
  BY DEF DataInv
<1> QED BY <1>1, DataInvariance, PTL

-----------------------------------------------------------------------------
(***************************************************************************)
(* AsyncStore implements Handoff: what the executor thread delivers are    *)
(* the packages of call(), whole, once, in order, one at a time.  Fairness *)
(* is left to the model checker; these are the safety parts.               *)
(***************************************************************************)

\* A call was posted and its exec() has not handed the data to the stores.
Pending ==
    /\ mpc \in {"idle", "wait", "waitDestroy"}
    /\ xpc \in {"dispatch", "exec"} \/ (xpc = "lock" /\ ~readerLock)

\* At most one package is under way, and the parameters name its buffers.
History ==
    /\ delivered \in Seq(AnyPackage)
    /\ Len(posted) = Len(delivered) + IF Pending THEN 1 ELSE 0
    /\ Pending => posted[Len(posted)] = Package(nextParams, Len(posted))

\* exec() has unpacked a part of the package, each buffer as it was packed.
Partial ==
    /\ xpc # "exec" => got = <<>>
    /\ xpc = "exec" => /\ got \in [DOMAIN got -> Int]
                       /\ DOMAIN got \subseteq nextParams
                       /\ \A b \in DOMAIN got : got[b] = Len(posted)

HandInv == History /\ Partial

\* Everything that was proved before.
Known == IInv /\ DataInv

\* Two functions that agree are equal.
LEMMA Extensionality ==
    ASSUME NEW D, NEW g \in [D -> Int], NEW u, \A b \in D : g[b] = u
    PROVE  g = [b \in D |-> u]
OBVIOUS

\* The empty sequence is the empty function.
LEMMA EmptyFunction == <<>> \in [DOMAIN <<>> -> Int] /\ DOMAIN <<>> = {}
OBVIOUS

\* What is known of the place of the solver while exec() runs.
LEMMA ExecIsPending == Known /\ xpc = "exec" => Pending
BY DEF Known, IInv, TypeOK, SolverLocations, LockProtocol, Asleep, Awake,
       Pending

\* Nothing is under way while the solver thread has the turn.
LEMMA WaitIsDrained == Known /\ ~writerLock => ~Pending
BY DEF Known, IInv, TypeOK, LockProtocol, Asleep, Awake, Pending

LEMMA InitHand == Init => HandInv
<1> SUFFICES ASSUME Init PROVE HandInv
  OBVIOUS
<1>1. ~Pending
  BY DEF Init, Pending
<1>2. History
  BY <1>1 DEF Init, History
<1>3. Partial
  BY DEF Init, Partial
<1> QED BY <1>2, <1>3 DEF HandInv

histVars == <<posted, delivered, nextParams, shutdown>>

\* The steps that hand nothing over.
Silent ==
    \/ SetExecutor \/ BeginDestroy \/ Wait
    \/ (\E names \in {MeshBuffers, SolutionBuffers} : BeginUpdate(names))
    \/ (\E size \in Sizes : PrepareReuse(size) \/ PrepareAdd(size))
    \/ Publish \/ AwaitInit \/ Relock \/ Pack \/ Finalize \/ Join
    \/ Ready \/ LockReader \/ Dispatch \/ Fill \/ Filled \/ Release

\* They leave the history alone and nothing becomes or stops being pending.
LEMMA SilentHand ==
    ASSUME Known, HandInv, Silent PROVE HandInv' /\ UNCHANGED histVars
<1> USE DEF locks, clientVars, execVars
<1>1. UNCHANGED histVars /\ got' = got
  BY DEF Silent, histVars, SetExecutor, BeginDestroy, Wait, BeginUpdate,
         PrepareReuse, PrepareAdd, Publish, AwaitInit, Relock, Pack, Finalize,
         Join, Ready, LockReader, Dispatch, Fill, Filled, Release
<1>2. Pending' = Pending
  <2> USE DEF Known, IInv, TypeOK, LockProtocol, Asleep, Awake, Pending
  <2>1. CASE SetExecutor \/ BeginDestroy \/ Wait
             \/ (\E names \in {MeshBuffers, SolutionBuffers} : BeginUpdate(names))
    BY <2>1 DEF SetExecutor, BeginDestroy, Wait, BeginUpdate
  <2>2. CASE \E size \in Sizes : PrepareReuse(size) \/ PrepareAdd(size)
    BY <2>2 DEF PrepareReuse, PrepareAdd
  <2>3. CASE Publish \/ AwaitInit \/ Relock \/ Pack \/ Finalize \/ Join
    BY <2>3 DEF Publish, AwaitInit, Relock, Pack, Finalize, Join
  <2>4. CASE Ready \/ LockReader \/ Dispatch
    BY <2>4 DEF Ready, LockReader, Dispatch
  <2>5. CASE Fill \/ Filled \/ Release
    BY <2>5 DEF Fill, Filled, Release
  <2> QED BY <2>1, <2>2, <2>3, <2>4, <2>5 DEF Silent
<1>3. History'
  BY <1>1, <1>2 DEF HandInv, History, histVars
<1>4. Partial'
  <2>1. CASE Dispatch
    <3>1. got' = <<>>
      BY <1>1, <2>1 DEF Dispatch, HandInv, Partial
    <3>2. DOMAIN got' = {}
      BY <3>1, EmptyFunction
    <3>3. got' \in [DOMAIN got' -> Int]
      BY <3>1, EmptyFunction
    <3>4. \A b \in DOMAIN got' : got'[b] = Len(posted')
      BY <3>2
    <3>5. DOMAIN got' \subseteq nextParams'
      BY <3>2
    <3> QED BY <3>1, <3>3, <3>4, <3>5 DEF Partial
  <2>2. CASE ~Dispatch
    <3>1. xpc' = "exec" <=> xpc = "exec"
      BY <2>2, ExecIsPending DEF Pending, Silent, SetExecutor, BeginDestroy,
         Wait, BeginUpdate, PrepareReuse, PrepareAdd, Publish, AwaitInit,
         Relock, Pack, Finalize, Join, Ready, LockReader, Fill, Filled, Release
    <3> QED BY <1>1, <3>1 DEF HandInv, Partial, histVars
  <2> QED BY <2>1, <2>2
<1> QED BY <1>1, <1>3, <1>4 DEF HandInv

\* The solver thread names the buffers of one kind of update.
LEMMA NamesPackage ==
    ASSUME Known, mpc = "call"
    PROVE  Package(UpdateNames, Len(posted) + 1) \in Packages
<1>1. update = Len(posted) + 1 /\ posted \in Seq(AnyPackage)
  BY DEF Known, DataInv, Counts, InUpdate
<1>2. update \in 1..MaxUpdates
  BY <1>1, MaxUpdatesAssumption DEF Known, IInv, TypeOK
<1>3. CASE update = 1
  BY <1>1, <1>3 DEF UpdateNames, Packages
<1>4. CASE update # 1
  <2>1. update \in 2..MaxUpdates
    BY <1>2, <1>4
  <2> QED BY <1>1, <1>4, <2>1 DEF UpdateNames, Packages
<1> QED BY <1>3, <1>4

\* call() posts a package, when nothing is under way.
LEMMA CallHand ==
    ASSUME Known, HandInv, Call
    PROVE  HandInv' /\ Abstract!Post
<1>1. mpc = "call" /\ xpc = "lock" /\ readerLock /\ ~shutdown
  BY DEF Call, Known, IInv, TypeOK, LockProtocol, Asleep, Awake
<1>2. ~Pending /\ Pending'
  BY <1>1 DEF Call, Pending
<1>3. posted \in Seq(AnyPackage) /\ update = Len(posted) + 1
  BY <1>1 DEF Known, DataInv, Counts, InUpdate
<1> DEFINE p == Package(UpdateNames, Len(posted) + 1)
<1>4. posted' = Append(posted, p) /\ nextParams' = UpdateNames
  BY <1>3 DEF Call
<1>5. p \in AnyPackage
  BY <1>3, PackageType
<1>6. Len(posted') = Len(posted) + 1 /\ posted'[Len(posted')] = p
  BY <1>3, <1>4, <1>5
<1>7. UNCHANGED <<delivered, got, xpc, shutdown>>
  BY DEF Call, execVars
<1>8. Len(delivered) = Len(posted)
  BY <1>2, <1>3 DEF HandInv, History
<1>9. HandInv'
  <2>1. History'
    BY <1>2, <1>3, <1>4, <1>6, <1>7, <1>8 DEF HandInv, History
  <2>2. Partial'
    BY <1>1, <1>7 DEF HandInv, Partial
  <2> QED BY <2>1, <2>2 DEF HandInv
<1>10. p \in Packages
  BY <1>1, NamesPackage
<1>11. Abstract!Post
  BY <1>1, <1>4, <1>7, <1>8, <1>10 DEF Abstract!Post, Abstract!Drained
<1> QED BY <1>9, <1>11

\* exec() unpacks the version of a buffer that the posted package names.
LEMMA UnpackHand ==
    ASSUME Known, HandInv, NEW b \in Buffers, Unpack(b)
    PROVE  HandInv' /\ UNCHANGED histVars
<1>1. xpc = "exec" /\ b \in nextParams /\ Pending
  BY ExecIsPending DEF Unpack, Unread
<1>2. UNCHANGED <<histVars, mpc, xpc, readerLock>>
  BY DEF Unpack, histVars, locks, clientVars
<1>3. buffer[indices[b]].data = Len(posted)
  BY <1>1 DEF Pending, Known, DataInv, Handed, Current
<1>4. posted \in Seq(AnyPackage)
  BY DEF Known, DataInv, Counts
<1>5. got \in [DOMAIN got -> Int] /\ DOMAIN got \subseteq nextParams
      /\ \A c \in DOMAIN got : got[c] = Len(posted)
  BY <1>1 DEF HandInv, Partial
<1>6. got' = [c \in DOMAIN got \cup {b} |-> IF c = b THEN Len(posted) ELSE got[c]]
  BY <1>3 DEF Unpack
<1>7. DOMAIN got' = DOMAIN got \cup {b}
  BY <1>6
<1>8. \A c \in DOMAIN got' : got'[c] = Len(posted)
  BY <1>5, <1>6, <1>7
<1>9. got' \in [DOMAIN got' -> Int]
  BY <1>4, <1>5, <1>6
<1>10. DOMAIN got' \subseteq nextParams'
  BY <1>1, <1>2, <1>5, <1>7 DEF histVars
<1>11. Partial'
  BY <1>1, <1>2, <1>8, <1>9, <1>10 DEF Partial, histVars
<1>12. History'
  BY <1>2 DEF HandInv, History, Pending, histVars
<1> QED BY <1>2, <1>11, <1>12 DEF HandInv

\* exec() hands the stores exactly the package that was posted last.
LEMMA DeliverHand ==
    ASSUME Known, HandInv, Deliver
    PROVE  HandInv' /\ Abstract!Deliver
<1>1. xpc = "exec" /\ Pending /\ Unread = {}
  BY ExecIsPending DEF Deliver
<1>2. posted \in Seq(AnyPackage) /\ delivered \in Seq(AnyPackage)
  BY DEF Known, DataInv, Counts, HandInv, History
<1>3. Len(posted) = Len(delivered) + 1
      /\ posted[Len(posted)] = Package(nextParams, Len(posted))
  BY <1>1 DEF HandInv, History
<1>4. got \in [DOMAIN got -> Int] /\ DOMAIN got \subseteq nextParams
      /\ \A c \in DOMAIN got : got[c] = Len(posted)
  BY <1>1 DEF HandInv, Partial
<1>5. DOMAIN got = nextParams
  BY <1>1, <1>4 DEF Unread
<1>6. got = Package(nextParams, Len(posted))
  BY <1>4, <1>5, Extensionality DEF Package
<1>7. delivered' = Append(delivered, posted[Len(posted)]) /\ got' = <<>>
  BY <1>3, <1>6 DEF Deliver
<1>8. xpc' = "release" /\ UNCHANGED <<posted, nextParams, shutdown>>
  BY DEF Deliver, clientVars
<1>9. posted[Len(posted)] \in AnyPackage
  BY <1>2, <1>3
<1>10. delivered' \in Seq(AnyPackage) /\ Len(delivered') = Len(posted')
  BY <1>2, <1>3, <1>7, <1>8, <1>9
<1>11. ~Pending'
  BY <1>8 DEF Pending
<1>12. History'
  BY <1>2, <1>8, <1>10, <1>11 DEF History
<1>13. Partial'
  BY <1>7, <1>8 DEF Partial
<1>14. Abstract!Deliver
  BY <1>2, <1>3, <1>7, <1>8 DEF Abstract!Deliver, Abstract!Drained
<1> QED BY <1>12, <1>13, <1>14 DEF HandInv

\* The store is shut down only when nothing is under way.
LEMMA ShutdownHand ==
    ASSUME Known, HandInv, Shutdown
    PROVE  HandInv' /\ Abstract!Close
<1>1. mpc = "shutdown" /\ xpc = "lock" /\ ~shutdown
  BY DEF Shutdown, Known, IInv, LockProtocol, Asleep
<1>2. ~Pending /\ ~Pending'
  BY <1>1 DEF Shutdown, Pending
<1>3. UNCHANGED <<posted, delivered, nextParams, got, xpc>> /\ shutdown'
  BY DEF Shutdown, clientVars, execVars
<1>4. Len(delivered) = Len(posted)
  BY <1>2 DEF HandInv, History, Known, DataInv, Counts
<1>5. History'
  BY <1>2, <1>3 DEF HandInv, History
<1>6. Partial'
  BY <1>3 DEF HandInv, Partial
<1>7. Abstract!Close
  BY <1>1, <1>3, <1>4 DEF Abstract!Close, Abstract!Drained, Shutdown
<1> QED BY <1>5, <1>6, <1>7 DEF HandInv

\* Every step keeps the invariant and is a step of Handoff, or hidden from it.
LEMMA StepHand ==
    ASSUME Known, HandInv, [Next]_vars
    PROVE  HandInv' /\ [Abstract!Next]_(Abstract!vars)
<1>1. CASE Silent
  BY <1>1, SilentHand DEF Abstract!vars, histVars
<1>2. CASE Call
  BY <1>2, CallHand DEF Abstract!Next
<1>3. CASE \E b \in Buffers : Unpack(b)
  BY <1>3, UnpackHand DEF Abstract!vars, histVars
<1>4. CASE Deliver
  BY <1>4, DeliverHand DEF Abstract!Next
<1>5. CASE Shutdown
  BY <1>5, ShutdownHand DEF Abstract!Next
<1>6. CASE UNCHANGED vars
  BY <1>6 DEF vars, locks, clientVars, execVars, Abstract!vars, HandInv,
              History, Partial, Pending
<1> QED BY <1>1, <1>2, <1>3, <1>4, <1>5, <1>6
        DEF Next, Solver, Executor, Destroyed, Silent

\* All three invariants together: locks, buffers and packages.
THEOREM HandoffInvariance == Spec => [](Known /\ HandInv)
<1>1. Init => HandInv
  BY InitHand
<1>2. Known /\ HandInv /\ [Next]_vars => HandInv'
  BY StepHand
<1> QED BY <1>1, <1>2, DataInvariance, PTL DEF Spec, Known

\* The two threads, with their three locks and changing buffers, implement
\* the hand-off of whole packages, once and in order (safety).
THEOREM Refinement ==
    Spec => Abstract!Init /\ [][Abstract!Next]_(Abstract!vars)
<1>1. Init => Abstract!Init
  BY DEF Init, Abstract!Init
<1>2. Known /\ HandInv /\ [Next]_vars => [Abstract!Next]_(Abstract!vars)
  BY StepHand
<1> QED BY <1>1, <1>2, HandoffInvariance, PTL DEF Spec

\* Between call() and the end of its exec() nobody touches the parameters,
\* the shutdown flag or a buffer.
THEOREM CallUndisturbedHolds == Spec => CallUndisturbed
<1> DEFINE Undisturbed == Len(delivered) < Len(posted) =>
              /\ UNCHANGED <<nextParams, shutdown>>
              /\ \A i \in DOMAIN buffer : buffer'[i] = buffer[i]
<1>1. Known /\ HandInv /\ [Next]_vars => [Undisturbed]_vars
  <2> SUFFICES ASSUME Known, HandInv, [Next]_vars, Len(delivered) < Len(posted)
               PROVE  UNCHANGED <<nextParams, shutdown, buffer>>
    OBVIOUS
  <2>1. Pending
    BY DEF HandInv, History, Known, DataInv, Counts
  <2>2. mpc \in {"idle", "wait", "waitDestroy"} /\ xpc # "fill"
    BY <2>1 DEF Pending
  <2>3. CASE Solver
    BY <2>2, <2>3 DEF Solver, SetExecutor, BeginDestroy, Wait, BeginUpdate,
       PrepareReuse, PrepareAdd, Publish, AwaitInit, Relock, Pack, Call,
       Finalize, Shutdown, Join
  <2>4. CASE Executor
    BY <2>2, <2>4 DEF Executor, Ready, LockReader, Dispatch, Fill, Filled,
       Unpack, Deliver, Release
  <2>5. CASE UNCHANGED vars
    BY <2>5 DEF vars
  <2> QED BY <2>3, <2>4, <2>5 DEF Next, Destroyed
<1> QED BY <1>1, HandoffInvariance, PTL DEF Spec, CallUndisturbed

=============================================================================
