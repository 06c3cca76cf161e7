----------------------------- MODULE AsyncStore ------------------------------
(***************************************************************************)
(* Asynchronous output: the solver thread (AsyncStore on top of the ASYNC  *)
(* library's ThreadBase) and the executor thread that owns the result      *)
(* stores.  The two threads share m_buffer, m_nextParams and m_initBuffer  *)
(* and synchronise only through three locks that are used as binary        *)
(* semaphores: one thread locks, the other one unlocks.  Every lock        *)
(* operation is a step of its own; so is every access to a shared buffer.  *)
(*                                                                         *)
(* Abstraction: the content of a buffer is the number of the update that   *)
(* packed it; a buffer id k of the code is k+1 here and its -1 is 0.       *)
(***************************************************************************)
EXTENDS Integers, Sequences, FiniteSets

CONSTANTS MeshBuffers,      \* buffers packed by updateMesh, in order
          SolutionBuffers,  \* buffers packed by updateSolution, in order
          Sizes,            \* sizes a packed buffer can have
          MaxUpdates        \* bound: number of updates the client makes

ASSUME BuffersAssumption ==
    /\ MeshBuffers \in Seq(STRING) /\ MeshBuffers # <<>>
    /\ SolutionBuffers \in Seq(STRING) /\ SolutionBuffers # <<>>
ASSUME SizesAssumption == Sizes \subseteq Nat \ {0} /\ Sizes # {}
ASSUME MaxUpdatesAssumption == MaxUpdates \in Nat

SeqElems(s) == {s[i] : i \in DOMAIN s}
Buffers == SeqElems(MeshBuffers) \cup SeqElems(SolutionBuffers)
NoBuffer == 0
Zeroed == 0                 \* content of a buffer filled by memset
Garbage == -1               \* content of fresh or freed memory

VARIABLES
    mpc,            \* where the solver thread is
    xpc,            \* where the executor thread is
    writerLock, readerLock, initBufferLock,     \* TRUE: locked
    phase,          \* m_phase
    initBuffer,     \* m_initBuffer
    shutdown,       \* m_shutdown
    nextParams,     \* m_nextParams: the buffers named by the last call()
    buffer,         \* m_buffer and m_bufferSize
    indices,        \* AsyncBufferManager::_indices
    todo,           \* solver thread: buffers still to prepare and pack
    update,         \* solver thread: number of the current update
    got,            \* executor: what it unpacked in the running exec
    posted,         \* history: the package of every call()
    delivered       \* history: what every exec handed to the stores

locks == <<writerLock, readerLock, initBufferLock>>
clientVars == <<todo, update, indices, posted>>
execVars == <<got, delivered>>
vars == <<mpc, xpc, locks, phase, initBuffer, shutdown, nextParams, buffer,
          clientVars, execVars>>

BufInfo == [size : Nat, live : BOOLEAN, data : Int]

\* The package an update hands over: its own version of each of its buffers.
Package(names, u) == [b \in names |-> u]

Init ==
    /\ mpc = "setExecutor" /\ xpc = "none"
    /\ writerLock = FALSE /\ readerLock = FALSE /\ initBufferLock = FALSE
    /\ phase = "EXEC_PHASE" /\ initBuffer = NoBuffer /\ shutdown = FALSE
    /\ nextParams = {} /\ buffer = <<>>
    /\ indices = [b \in Buffers |-> NoBuffer]
    /\ todo = <<>> /\ update = 0 /\ got = <<>>
    /\ posted = <<>> /\ delivered = <<>>

-----------------------------------------------------------------------------
(* The solver thread *)

\* All three locks are taken before the executor thread is created.
SetExecutor ==
    /\ mpc = "setExecutor"
    /\ writerLock' = TRUE /\ readerLock' = TRUE /\ initBufferLock' = TRUE
    /\ xpc' = "start" /\ mpc' = "idle"
    /\ UNCHANGED <<phase, initBuffer, shutdown, nextParams, buffer,
                   clientVars, execVars>>

\* An update starts: updateMesh once, before the first updateSolution.
BeginUpdate(names) ==
    /\ mpc = "idle" /\ update < MaxUpdates
    /\ names = IF update = 0 THEN MeshBuffers ELSE SolutionBuffers
    /\ mpc' = "wait" /\ todo' = names /\ update' = update + 1
    /\ UNCHANGED <<xpc, locks, phase, initBuffer, shutdown, nextParams,
                   buffer, indices, posted, execVars>>

\* Mutant of BeginDestroy: the destructor does not wait().
BeginDestroyUnawaited ==
    /\ mpc = "idle" /\ mpc' = "finalize"
    /\ UNCHANGED <<xpc, locks, phase, initBuffer, shutdown, nextParams,
                   buffer, clientVars, execVars>>

\* ~AsyncStore(): wait(), then finalize().
BeginDestroy ==
    /\ mpc = "idle" /\ mpc' = "waitDestroy"
    /\ UNCHANGED <<xpc, locks, phase, initBuffer, shutdown, nextParams,
                   buffer, clientVars, execVars>>

\* Mutant of Wait: does not block.
WaitUnblocked ==
    /\ mpc \in {"wait", "waitDestroy"}
    /\ writerLock' = TRUE /\ phase' = "SEND_PHASE"
    /\ mpc' = IF mpc = "wait" THEN "prepare" ELSE "finalize"
    /\ UNCHANGED <<xpc, readerLock, initBufferLock, initBuffer, shutdown,
                   nextParams, buffer, clientVars, execVars>>

\* wait(): spin on writerLock, which the executor unlocks when it is done.
Wait ==
    /\ mpc \in {"wait", "waitDestroy"} /\ ~writerLock
    /\ writerLock' = TRUE /\ phase' = "SEND_PHASE"
    /\ mpc' = IF mpc = "wait" THEN "prepare" ELSE "finalize"
    /\ UNCHANGED <<xpc, readerLock, initBufferLock, initBuffer, shutdown,
                   nextParams, buffer, clientVars, execVars>>

Freed(id) == [buffer EXCEPT ![id] = [size |-> 0, live |-> FALSE,
                                     data |-> Garbage]]

\* prepareBuffer(): the buffer exists and has the right size.
PrepareReuse(size) ==
    /\ mpc = "prepare"
    /\ indices[Head(todo)] # NoBuffer
    /\ buffer[indices[Head(todo)]].size = size
    /\ mpc' = "pack"
    /\ UNCHANGED <<xpc, locks, phase, initBuffer, shutdown, nextParams,
                   buffer, clientVars, execVars>>

\* _addBuffer() allocates memory under a new id, the last one.
Added(buffers, size) == Append(buffers, [size |-> size, live |-> TRUE,
                                         data |-> Garbage])

\* Mutant of PrepareAdd: the buffer of the wrong size is not removed.
PrepareAddLeaking(size) ==
    LET old == indices[Head(todo)]
    IN /\ mpc = "prepare"
       /\ old # NoBuffer => buffer[old].size # size
       /\ buffer' = Added(buffer, size)
       /\ mpc' = "publish"
       /\ UNCHANGED <<xpc, locks, phase, initBuffer, shutdown, nextParams,
                      clientVars, execVars>>

\* prepareBuffer(): there is none yet, or its size changed (removeBuffer).
PrepareAdd(size) ==
    LET old == indices[Head(todo)]
        kept == IF old = NoBuffer THEN buffer ELSE Freed(old)
    IN /\ mpc = "prepare"
       /\ old # NoBuffer => buffer[old].size # size
       /\ buffer' = Added(kept, size)
       /\ mpc' = "publish"
       /\ UNCHANGED <<xpc, locks, phase, initBuffer, shutdown, nextParams,
                      clientVars, execVars>>

\* addBuffer(): ask the executor to touch the new memory.  Between call()
\* and wait() the caller would first have to take writerLock.
Publish ==
    /\ mpc = "publish"
    /\ phase = "EXEC_PHASE" => ~writerLock
    /\ writerLock' = TRUE
    /\ initBuffer' = Len(buffer)
    /\ readerLock' = FALSE
    /\ mpc' = "awaitInit"
    /\ UNCHANGED <<xpc, initBufferLock, phase, shutdown, nextParams, buffer,
                   clientVars, execVars>>

\* addBuffer(): wait until the executor has touched the memory ...
AwaitInit ==
    /\ mpc = "awaitInit" /\ ~initBufferLock
    /\ initBufferLock' = TRUE
    /\ mpc' = "relock"
    /\ UNCHANGED <<xpc, writerLock, readerLock, phase, initBuffer, shutdown,
                   nextParams, buffer, clientVars, execVars>>

\* Mutant of Relock: the id of a removed buffer stays in use.
RelockStaleIndex ==
    /\ mpc = "relock" /\ ~writerLock
    /\ writerLock' = TRUE
    /\ indices' = [indices EXCEPT ![Head(todo)] =
                        IF @ = NoBuffer THEN Len(buffer) ELSE @]
    /\ mpc' = "pack"
    /\ UNCHANGED <<xpc, readerLock, initBufferLock, phase, initBuffer,
                   shutdown, nextParams, buffer, todo, update, posted,
                   execVars>>

\* ... and take writerLock back if the caller held it (SEND_PHASE).
Relock ==
    /\ mpc = "relock"
    /\ phase # "EXEC_PHASE" => ~writerLock
    /\ writerLock' = IF phase # "EXEC_PHASE" THEN TRUE ELSE writerLock
    /\ indices' = [indices EXCEPT ![Head(todo)] = Len(buffer)]
    /\ mpc' = "pack"
    /\ UNCHANGED <<xpc, readerLock, initBufferLock, phase, initBuffer,
                   shutdown, nextParams, buffer, todo, update, posted,
                   execVars>>

\* pack() into the managed buffer; then the next buffer, or call().
Pack ==
    /\ mpc = "pack"
    /\ buffer' = [buffer EXCEPT ![indices[Head(todo)]].data = update]
    /\ todo' = Tail(todo)
    /\ mpc' = IF Len(todo) = 1 THEN "call" ELSE "prepare"
    /\ UNCHANGED <<xpc, locks, phase, initBuffer, shutdown, nextParams,
                   update, indices, posted, execVars>>

UpdateNames == SeqElems(IF update = 1 THEN MeshBuffers ELSE SolutionBuffers)

\* Mutant of Call: the bits of the last call stay set.
CallKeepsBits ==
    /\ mpc = "call"
    /\ nextParams' = nextParams \cup UpdateNames
    /\ phase' = "EXEC_PHASE"
    /\ readerLock' = FALSE
    /\ posted' = Append(posted, Package(UpdateNames, update))
    /\ mpc' = "idle"
    /\ UNCHANGED <<xpc, writerLock, initBufferLock, initBuffer, shutdown,
                   buffer, todo, update, indices, execVars>>

\* call(ExecParameters(...))
Call ==
    /\ mpc = "call"
    /\ nextParams' = UpdateNames
    /\ phase' = "EXEC_PHASE"
    /\ readerLock' = FALSE
    /\ posted' = Append(posted, Package(UpdateNames, update))
    /\ mpc' = "idle"
    /\ UNCHANGED <<xpc, writerLock, initBufferLock, initBuffer, shutdown,
                   buffer, todo, update, indices, execVars>>

\* Base::_finalize(): every buffer is freed before the executor is told.
Finalize ==
    /\ mpc = "finalize"
    /\ buffer' = [i \in DOMAIN buffer |->
                    [size |-> 0, live |-> FALSE, data |-> Garbage]]
    /\ mpc' = "shutdown"
    /\ UNCHANGED <<xpc, locks, phase, initBuffer, shutdown, nextParams,
                   clientVars, execVars>>

Shutdown ==
    /\ mpc = "shutdown"
    /\ shutdown' = TRUE /\ readerLock' = FALSE
    /\ mpc' = "join"
    /\ UNCHANGED <<xpc, writerLock, initBufferLock, phase, initBuffer,
                   nextParams, buffer, clientVars, execVars>>

Join ==
    /\ mpc = "join" /\ xpc = "exited"
    /\ mpc' = "destroyed"
    /\ UNCHANGED <<xpc, locks, phase, initBuffer, shutdown, nextParams,
                   buffer, clientVars, execVars>>

Solver ==
    \/ SetExecutor
    \/ \E names \in {MeshBuffers, SolutionBuffers} : BeginUpdate(names)
    \/ BeginDestroy
    \/ Wait
    \/ \E size \in Sizes : PrepareReuse(size) \/ PrepareAdd(size)
    \/ Publish \/ AwaitInit \/ Relock
    \/ Pack \/ Call
    \/ Finalize \/ Shutdown \/ Join

-----------------------------------------------------------------------------
(* The executor thread: asyncThread() *)

Ready ==
    /\ xpc = "start"
    /\ writerLock' = FALSE
    /\ xpc' = "lock"
    /\ UNCHANGED <<mpc, readerLock, initBufferLock, phase, initBuffer,
                   shutdown, nextParams, buffer, clientVars, execVars>>

LockReader ==
    /\ xpc = "lock" /\ ~readerLock
    /\ readerLock' = TRUE
    /\ xpc' = "dispatch"
    /\ UNCHANGED <<mpc, writerLock, initBufferLock, phase, initBuffer,
                   shutdown, nextParams, buffer, clientVars, execVars>>

\* Mutant of Dispatch: the shutdown flag is not looked at.
DispatchNoShutdown ==
    /\ xpc = "dispatch"
    /\ xpc' = IF initBuffer # NoBuffer THEN "fill" ELSE "exec"
    /\ UNCHANGED <<mpc, locks, phase, initBuffer, shutdown, nextParams,
                   buffer, clientVars, execVars>>

Dispatch ==
    /\ xpc = "dispatch"
    /\ xpc' = CASE shutdown -> "exited"
                [] ~shutdown /\ initBuffer # NoBuffer -> "fill"
                [] OTHER -> "exec"
    /\ UNCHANGED <<mpc, locks, phase, initBuffer, shutdown, nextParams,
                   buffer, clientVars, execVars>>

\* Touch the memory on this thread.
Fill ==
    /\ xpc = "fill"
    /\ buffer' = [buffer EXCEPT ![initBuffer].data = Zeroed]
    /\ initBuffer' = NoBuffer
    /\ xpc' = "filled"
    /\ UNCHANGED <<mpc, locks, phase, shutdown, nextParams, clientVars,
                   execVars>>

Filled ==
    /\ xpc = "filled"
    /\ initBufferLock' = FALSE
    /\ xpc' = "release"
    /\ UNCHANGED <<mpc, writerLock, readerLock, phase, initBuffer, shutdown,
                   nextParams, buffer, clientVars, execVars>>

\* Buffers exec() still has to unpack; it takes them in the order of the enum.
Unread == nextParams \ DOMAIN got
EnumOrder == MeshBuffers \o SolutionBuffers

\* AsyncExecutor::exec(): unpack the next buffer named by the parameters.
Unpack(b) ==
    /\ xpc = "exec" /\ b \in Unread
    /\ \E i \in DOMAIN EnumOrder :
         /\ EnumOrder[i] = b
         /\ \A j \in 1..(i - 1) : EnumOrder[j] \notin Unread
    /\ got' = [c \in DOMAIN got \cup {b} |->
                IF c = b THEN buffer[indices[b]].data ELSE got[c]]
    /\ UNCHANGED <<mpc, xpc, locks, phase, initBuffer, shutdown, nextParams,
                   buffer, clientVars, delivered>>

\* AsyncExecutor::exec(): updateMesh()/updateSolution() of the stores.
Deliver ==
    /\ xpc = "exec" /\ Unread = {}
    /\ delivered' = Append(delivered, got)
    /\ got' = <<>>
    /\ xpc' = "release"
    /\ UNCHANGED <<mpc, locks, phase, initBuffer, shutdown, nextParams,
                   buffer, clientVars>>

Release ==
    /\ xpc = "release"
    /\ writerLock' = FALSE
    /\ xpc' = "lock"
    /\ UNCHANGED <<mpc, readerLock, initBufferLock, phase, initBuffer,
                   shutdown, nextParams, buffer, clientVars, execVars>>

Executor ==
    \/ Ready \/ LockReader \/ Dispatch
    \/ Fill \/ Filled
    \/ (\E b \in Buffers : Unpack(b)) \/ Deliver
    \/ Release

\* The store is gone and so is its thread.
Destroyed == mpc = "destroyed" /\ UNCHANGED vars

Next == Solver \/ Executor \/ Destroyed

(* The operating system runs both threads, and each lock has one waiter at *)
(* most, so weak fairness of the two threads is enough.  The program always *)
(* reaches the destruction of the store: the number of updates is bounded.  *)
Spec == Init /\ [][Next]_vars /\ WF_vars(Solver) /\ WF_vars(Executor)

-----------------------------------------------------------------------------
(* Properties *)

SolverLocations ==
    {"setExecutor", "idle", "wait", "waitDestroy", "prepare", "publish",
     "awaitInit", "relock", "pack", "call", "finalize", "shutdown", "join",
     "destroyed"}
ExecutorLocations ==
    {"none", "start", "lock", "dispatch", "fill", "filled", "exec",
     "release", "exited"}

\* Types of the state of both threads.
TypeOK ==
    /\ mpc \in SolverLocations /\ xpc \in ExecutorLocations
    /\ writerLock \in BOOLEAN /\ readerLock \in BOOLEAN
    /\ initBufferLock \in BOOLEAN
    /\ phase \in {"EXEC_PHASE", "SEND_PHASE"}
    /\ buffer \in Seq(BufInfo)
    /\ initBuffer \in 0..Len(buffer) /\ shutdown \in BOOLEAN
    /\ nextParams \subseteq Buffers
    /\ indices \in [Buffers -> 0..Len(buffer)]
    /\ todo \in Seq(Buffers) /\ update \in 0..MaxUpdates
    /\ DOMAIN got \subseteq Buffers

\* While the solver thread allocates, packs or frees buffers, sets the
\* parameters or the shutdown flag, the executor sleeps on readerLock: the
\* unsynchronised members of ThreadBase are never accessed by both at once.
ExclusiveAccess ==
    mpc \in {"prepare", "publish", "pack", "call", "finalize", "shutdown"}
        => xpc = "lock" /\ readerLock

\* Each lock is unlocked only while it is locked.  For readerLock this is
\* the assumption stated in asyncThread(): the executor has locked it again
\* before the solver thread unlocks it, so no wake-up is lost.
UnlockOnlyLocked ==
    /\ mpc \in {"publish", "call", "shutdown"} => readerLock
    /\ xpc \in {"start", "release"} => writerLock
    /\ xpc = "filled" => initBufferLock

\* exec() finds every buffer it unpacks alive, current and complete, although
\* prepareBuffer() frees buffers whose size changed and finalize() frees all.
ExecReadsCurrentBuffers ==
    xpc = "exec" =>
        \A b \in nextParams :
            /\ indices[b] # NoBuffer
            /\ buffer[indices[b]].live
            /\ buffer[indices[b]].data = Len(posted)

\* A buffer that is alive is known to AsyncBufferManager or is the one being
\* added: changing sizes grows m_buffer but leaks no memory.
NoLeakedBuffer ==
    \A i \in DOMAIN buffer : buffer[i].live =>
        \/ \E b \in Buffers : indices[b] = i
        \/ i = Len(buffer) /\ mpc \in {"publish", "awaitInit", "relock"}

\* The parameters never change under a running exec(), nor the shutdown flag
\* under a call that was posted and not yet delivered.
CallUndisturbed ==
    [][Len(delivered) < Len(posted) =>
         /\ UNCHANGED <<nextParams, shutdown>>
         /\ \A i \in DOMAIN buffer : buffer'[i] = buffer[i]]_vars

\* Every update reaches the result stores, and destroying the store ends
\* both threads.
EveryCallDelivered ==
    \A n \in 1..MaxUpdates : (Len(posted) >= n) ~> (Len(delivered) >= n)
StoreIsDestroyed == <>(mpc = "destroyed" /\ xpc = "exited")

\* The two threads implement the hand-off of whole packages.
Packages == {Package(SeqElems(MeshBuffers), 1)} \cup
            {Package(SeqElems(SolutionBuffers), u) : u \in 2..MaxUpdates}
Abstract == INSTANCE Handoff WITH closed <- shutdown
ImplementsHandoff == Abstract!Spec
=============================================================================
