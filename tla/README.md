# ESPRESO: a verification development

ESPRESO solves structural mechanics and heat transfer problems with the finite
element method and FETI domain decomposition, in parallel over MPI.  This
directory holds TLA+ models of the parts of it whose correctness is a matter of
*control*: which step happens before which, which of two threads may touch a
buffer, which message belongs to which call, which copy of the linear system is
stale.  The models are translated from the code; TLC checks them on small
instances and TLAPS proves theorems about them for every value of the constants.

All paths below are relative to the repository.

1. [Inventory](#1-inventory)
2. [Modules and how they correspond to the code](#2-modules-and-how-they-correspond-to-the-code)
3. [Runs, bounds and fairness](#3-runs-bounds-and-fairness)
4. [Where code and documentation disagree](#4-where-code-and-documentation-disagree)
5. [Proofs](#5-proofs)
6. [What is not modelled](#6-what-is-not-modelled)
7. [Plan](#7-plan)

## 1. Inventory

A run of `espreso` (`src/app/espreso.cpp`) reads a configuration, loads or
generates a mesh, preprocesses it, builds a physics solver in `Factory`, and
solves the configured load steps.  Every MPI process executes the same program
on its part of the mesh and the processes meet in the calls of `Communication`.
Inside a process there is one thread of control, plus (optionally) one executor
thread that writes results.

    configuration -> Factory -> mesh input -> preprocessing -+
                        |                                    | Communication
                        v                                    | (all processes)
                   load steps (LoadStepSolver) <-------------+
                        |  per time step
                        v
                   time step solver (LinearTimeStep, NewtonRaphson)
                        |  assemble / update / solve
                        v
                   Assembler -- Physics -- FETISolver
                        |  storeSolution
                        v
                   ResultStore -- direct executor ---------> result stores
                        +------- AsyncStore == thread ====> result stores

### Asynchronous output: `AsyncStore`, `AsyncExecutor`, ASYNC's `ThreadBase`
- **State**: the vector of buffers `m_buffer`, `m_nextParams`, `m_initBuffer`,
  `m_shutdown`, three locks `m_writerLock`, `m_readerLock`, `m_initBufferLock`,
  the phase, and the buffer ids of `AsyncBufferManager`.  Only the locks protect
  the rest.
- **Operations**: `setExecutor`, `wait`, `addBuffer`, `removeBuffer`, `call`,
  `finalize` on the solver's side; the loop `asyncThread` on the executor's.
- **Hard**: the locks are binary semaphores, locked by one thread and unlocked by
  the other.  The turn of a thread is encoded in which of them are free.  A
  buffer's first touch is a nested hand-off inside the caller's turn.  Buffers
  are freed and replaced between calls, under ids that stay valid.
- **Correct if**: no two threads touch shared members at the same time; no lock is
  unlocked while free (lost wake-ups); `exec` sees the data of its call, complete;
  every call is delivered once, in order; destruction ends both threads.

### Result stores: `ResultStore`, `ResultStoreExecutor`, `DirectExecutor`, stores
- **State**: the two executors (either may be `NULL`), the dispatcher, each
  executor's stores, the mode of ASYNC.
- **Operations**: `createAsynchronizedStore`, `updateMesh`, `updateSolution`,
  `destroyAsynchronizedStore`, `storeStep` at three levels.
- **Hard**: the order of construction; optional executors; filtering a step at
  three levels with two store frequencies; one executor lagging behind.
- **Correct if**: each store writes exactly the steps its own frequency asks for,
  after it has the mesh, and nothing is dropped when the stores are destroyed.

### Load steps and time: `Factory::solve`, `LoadStepSolver` and its subclasses
- **State**: `Step` (`step`, `substep`, `currentTime`, `timeStep`), the start time
  and duration of the load step, and for transient problems U, V, alpha and the
  proposed time step.
- **Operations**: `run`, `initLoadStep`, `hasNextTimeStep`, `runNextTimeStep`,
  `processTimeStep` of `SteadyState`, `PseudoTimeStepping` and
  `TransientFirstOrderImplicit`.
- **Hard**: sums of floating point numbers compared with a tolerance; an unsigned
  substep that is decremented below zero; rejected time steps that go back in time.
- **Correct if**: a load step ends at its end time, takes the configured substeps,
  stores each accepted step once under consecutive numbers, and terminates.

### Time step solvers and assembly: `NewtonRaphson`, `LinearTimeStep`, `Assembler`, `FETISolver`
- **State**: K, M, f, R, the Dirichlet part of B1 and its duplicity in `Instance`;
  the original K of transient problems; the primal solution; the copies the linear
  solver makes in `init`; the criteria of the nonlinear iteration.
- **Operations**: `solve`, `updateStructuralMatrices`, `updateGluingMatrices`,
  `subtractResidualForces`, `addToDirichletInB1`, `sum`, `lineSearch`,
  `FETISolver::update`/`init`/`solve`, `storeSolution`.
- **Hard**: a bit mask tells the linear solver what has changed.  A part that is
  assembled but not announced is stale in the solver, one that is announced but not
  assembled is modified twice.  `primalSolution` is alternately a solution and an
  increment.  Two convergence criteria are computed at different places.
- **Correct if**: every linear system that is solved belongs together; what is
  stored is a solution; a loop that stops early has met all its criteria; the
  inertia of a transient step continues the last accepted step.

### Point-to-point communication: `espreso::Communication`
- **State**: MPI's messages under way, the counters and buffers of a call.
- **Operations**: `exchangeKnownSize`, `exchangeUnknownSize`, `receiveLower-` and
  `receiveUpperKnownSize`, `receiveUpperUnknownSize`, `sendVariousTargets`, and
  `allToAllWithDataSizeAndTarget`.
- **Hard**: several calls probe `MPI_ANY_SOURCE` under the same tag and only count
  messages, so a fast process already in the next call could feed a slow one.
  The recursive all-to-all uses blocking sends.
- **Correct if**: a call returns exactly the messages of that call; nothing is left
  behind; nobody waits forever even if MPI buffers nothing; every packet arrives
  once for every number of processes.

### Load balancing and collectives: `Communication::balance`, `exscan`, `getDistribution`
- **State**: two distributions of a global sequence over the processes; in a call
  the walk of `fill` through them, the sizes and places of its parts, the messages.
- **Operations**: `balance` (two walks, then sends and receives of known sizes),
  `getDistribution`, `tarray::distribute`.
- **Hard**: sender and receiver compute the size of a message independently; empty
  parts, of which there may be many in a row, are not sent; there is no barrier
  between two calls; one array holds the requests of both directions.
- **Correct if**: the walk stays inside the distributions, the requests suffice, each
  message meets the receive of its call and size, and every process ends with its
  part of the target distribution in order.

### Lagrange multipliers: `Constraints`, `EqualityConstraints`, dual vectors of `IterSolver`
- **State**: the node intervals of each process in their order, the numbers of the
  multipliers by interval, the rows of B1 of each domain with their duplicity, the map
  of multipliers to processes.
- **Operations**: `update` (number, insert Dirichlet rows, glue), `computeIntervalsOffsets`,
  `insertDirichletValues`, `insertElementGluingToB1` with and without redundancy,
  the scaling by diagonals, `All_Reduce_lambdas_compB`, the filter of scalar products.
- **Hard**: no process sees the rows of another one.  Both sides of an interface must
  come to the same numbers, in the same order, from their own data; the order in which
  diagonals are packed must be the order in which the neighbour unpacks them.
- **Correct if**: numbers are unique and agreed upon, each multiplier holds one Dirichlet
  condition or one jump and each of these has one, dual vectors agree after a sum, a
  scalar product counts each multiplier once, and each jump is weighted by the other side.

### Input: `RandomInput`
- **State**: elements and nodes scattered over the processes, the borders of a space
  filling curve, the neighbours on the curve, and for each node its coordinates,
  regions and the processes that share it.
- **Operations**: `balance`, `assignEBuckets`, `clusterize`, `linkup`, `fillNeighbors`,
  `sortNodes`, `exchangeBoundary`.
- **Hard**: a process looks for the nodes of its elements at its neighbours on the curve
  first and anywhere later; who shares a node is learnt at two places at different
  times; requests and answers are matched by order alone.
- **Correct if**: each element is at the owner of one of its nodes, each process has
  exactly the nodes of its elements, and all processes agree who shares a node.

### Other components
| Component | State and operations | Modelled |
|---|---|---|
| FETI solver (`IterSolver`, `Cluster`, `Domain`) | projected conjugate gradients, dual vectors | the exchange and the scalar product of dual vectors; what it is given and copies |
| Physics (`HeatTransfer*`, `StructuralMechanics*`) | element integrals | no |
| Mesh preprocessing and decomposition | links between elements, nodes and neighbours; boundary nodes; node intervals | `computeBoundaryNodes` and the intervals of `arrangeNodes`, as `NodeIntervals` |
| Other input (generators, Workbench, OpenFOAM) | parsing, numbering | no |
| Configuration (ECF) | a tokenizer and a recursive descent | the values that steer a modelled part |
| Output formats (EnSight, VTK, STL, Catalyst, In-Situ) | files | when a format is asked to write |
| Library interface (FETI4I) | lists of handles | no: its mesh and physics are disabled in this commit |
| Logging, time statistics, basis, GUI, Python tools, wrappers, vendored code | | no |

The hazards of this code, each at its line and with the properties that would
catch it going wrong, are in `PROJECT.json` under `hazards`.

## 2. Modules and how they correspond to the code

| Module | What it is | Source |
|---|---|---|
| `Handoff` | abstract: whole packages, once, in order, one under way | promise of `AsyncStore` |
| `AsyncStore` | the two threads, lock operation by lock operation | `asyncexecutor.cpp/.h`, `as/ThreadBase.h`, `as/Base.h` |
| `AsyncStoreProofs` | theorems about `AsyncStore`, and that it implements `Handoff` | |
| `ResultStore` | executors, stores and steps for a configuration | `resultstore.cpp`, `resultstoreexecutor.*`, `visualization.cpp`, `monitoring.cpp` |
| `ResultStoreProofs` | theorems about `ResultStore` | |
| `TimeStepping` | load steps, time, substeps, automatic time stepping | `factory.cpp`, `loadstep/*.cpp`, `step.h` |
| `NewtonRaphson` | one load step's linear systems | `timestep/*.cpp`, `assembler.cpp`, `loadstep/*.cpp`, `FETISolver.cpp` |
| `NewtonRaphsonProofs` | theorems about `NewtonRaphson` | |
| `TimeSteppingProofs` | theorems about `TimeStepping` | |
| `Calls` | who sends to whom in a call | `communication.hpp` |
| `Collective` | abstract: a call returns what its sources sent in it | promise of `Communication` |
| `Exchange` | the calls on top of MPI's sends, receives, probes and barriers | `communication.hpp` |
| `ExchangeProofs` | theorems about `Exchange` | |
| `RecursiveExchange` | `allToAllWithDataSizeAndTarget` | `communication.hpp` |
| `RecursiveExchangeProofs` | theorems about `RecursiveExchange` | |
| `Distributions` | distributions of a global sequence over processes | `communication.hpp`, `tarray.hpp` |
| `Balance` | `Communication::balance` | `communication.hpp` |
| `BalanceProofs` | theorems about `Balance` | |
| `NodeIntervals` | the boundary nodes and node intervals that each process of a decomposed mesh finds, and their orders | `meshpreprocessing.cpp`, `arrangement.cpp`, `elementstore.cpp`, `constraints.cpp` |
| `Constraints` | the Lagrange multipliers and their use in dual vectors | `constraints.cpp`, `equalityconstraints.cpp`, `cluster.cpp`, `itersolver.cpp` |
| `ConstraintsProofs` | theorems about `Constraints` | |
| `RandomInput` | the redistribution of a scattered mesh | `randominput.cpp`, `input.cpp` |
| `MC_*` | instances for TLC | |

Definitions keep the names of the code (`hasNextTimeStep`, `movebefore`, `isLast`,
`addToDirichletInB1`, ...); `PROJECT.json` maps each one to its lines.  A
definition whose comment begins with "Mutant of" is a plausible wrong version of
the definition that follows.  No specification uses it: putting it in the place
of the right one must break a property.

### AsyncStore
`mpc` is where the solver thread is, `xpc` where the executor is.  Each lock
operation is an action, and so is each access to a shared buffer between two lock
operations.  A buffer's content is the number of the update that packed it, so
that stale, missing and freed content can be told apart (`Zeroed`, `Garbage`).
Actions: `SetExecutor`; an update as `BeginUpdate`, `Wait`, then for each buffer
`PrepareReuse` or `PrepareAdd`-`Publish`-`AwaitInit`-`Relock`, `Pack`, and finally
`Call`; destruction as `BeginDestroy`, `Wait`, `Finalize`, `Shutdown`, `Join`.  The
executor: `Ready`, `LockReader`, `Dispatch`, then `Fill`-`Filled`, or `Unpack`*-
`Deliver`, and `Release`.  `posted` and `delivered` are history variables.
ASYNC's locks are spin locks, and the code's default `ASYNC_MODE` is synchronous:
the model is of the thread back-end, in effect with `ASYNC_MODE=THREAD`.

### ResultStore
`Create` is the whole of `createAsynchronizedStore`; each of `storeStep`'s three
levels (`storeStep`, `ExecutorStoreStep`, `Accepts`) is an operator.  The hand-off
itself is abstracted to at most one pending step, which is what `Handoff` promises
and `AsyncStore` implements.  `updateSolution` packs the `Step` into the buffer, so
that the stores on the thread judge the step as it was when it was handed over;
the pending step therefore carries the stores that accept it.

### TimeStepping
Time is counted in integer units; each addition or subtraction may be off by an
element of `Rounding`, and `Precision` is the code's 1e-8.  The numerical outcome
of a time step (temperature difference, response frequency) is a free choice
among what the automatic time stepping can then propose (`Proposals`).
`WellConfigured` says what is expected of a load step's numbers: above all that the
precision covers the errors that can add up over the substeps of pseudo time stepping,
or over the `TimeSteps` and the `Rejections` that a transient load step has room for, and
that its shortest time step is longer than all of them.
`RejectTransient` keeps the code's `--substep`, undone by `substep++`.

### NewtonRaphson
A number is abstracted to its *origin*: the solution (number of the linear solve)
and the attempt (time and time step) it was assembled for.  K has the origin of
its stiffness and the list of mass matrices added to it; f its load, the residual
subtracted and the inertia added; the Dirichlet values the attempt and the
solutions subtracted.  So "added twice", "assembled at another solution" and "not
copied by the solver" are visible.  Whether a criterion is met is a free choice.
A rejection of a transient attempt is a free choice too (its criterion is in
`TimeStepping`).  Of K's solver, the FETI path with `Domain` copies is modelled;
the BEM domains are not.

### Exchange and Collective
The buffer a process sends in its i-th call is the number i.  `channel` holds the
messages of a source, target and tag in order, as MPI guarantees.  The calls with
known sizes receive from named sources (`ReceiveFrom`); the others take whatever
`MPI_Iprobe(MPI_ANY_SOURCE)` finds (`ReceiveAny`) and count.  `WaitAll` may or may
not have to wait for the receiver.  `Collective` knows no messages: a call returns
at a process what each source of the call sent in it.  Preconditions taken from the
callers: symmetric neighbours, targets without repetition, and buffers below the
2^30 elements at which the calls return `false`.

### RecursiveExchange
A packet is its source and target.  The halving, the process without a partner in
odd groups, the linear search `movebefore` over sorted buffers and the merges of up
to three sources are modelled as the code does them.  `CasesAssumption` is what every
caller does: it appends one packet for each target, in the order of the targets
(`IsBuffer`; the buffers of `Input`, `RandomInput` and the OpenFOAM reader).

### Distributions and Balance
An element is its place in the global sequence, a message the first place and the
number of places of a part.  `Begin` enters a call with empty vectors and the first
lines of `fill`; `Fill` is one iteration of its loop, for the sends and then, with the
distributions exchanged (`FillReceives`), for the receives; `Post` posts receives and
sends of all parts that are not empty; `Receive` matches the oldest message of a
source; `WaitAll` returns.  `std::lower_bound` is given by what it returns
(`IsLowerBound`).

### NodeIntervals and Constraints
A mesh is its domains by process and, for each set of domains, the nodes that belong to
exactly these: of each node, the processes that see a face without neighbour there
(`free`) and those that see a face to another domain (`cut`).  `NodeIntervals` derives
from it what each process finds for itself.  `external` and `internal` are the nodes of
its own faces, `sBuffer` and `nExternal` the exchange in which it learns of its
neighbours' free faces (`computeBoundaryNodes`).  `group` says where a node goes: the
external boundary, the internal one, or the inside.  The nodes of one group with equal
domains form an interval, so that the rim and the interior of an interface are two
intervals with the same domains.  `Before` is the comparison of `arrangeNodes`, whose
last resort `i < j` puts intervals of equal domains in the order of their groups.
`pintervals`, the intervals of each domain, their nodes and the neighbours are kept in
the variable `mesh`, by process: nothing says beforehand that two processes agree.
`IsNode` has the one assumption about geometry: the elements around a node that is not on
the surface are connected through faces, so that each process of a node of several domains
has a face to another domain there.  `computeBoundaryNodes` exchanges free faces only and
relies on it for the internal boundary.  `Constraints` has one action for each stage of a load step between two
meetings of the processes: counting, `MPI_Exscan` and the broadcast of the total for
Dirichlet and for gluing multipliers, exchanging the offsets of the intervals,
inserting Dirichlet rows, gluing, exchanging diagonals and scaling, and the sum of a
dual vector.  A value is the set of the things summed up in it, so that a contribution
that is missing, doubled or of the wrong neighbour is visible.  The exchanges between
neighbours are what `Collective` promises and `Exchange` implements.

The order of the intervals is given by what the sort yields: the element at place k is
the one with k - 1 others before it (`Sorted`), and the offsets are the sums of the sizes
up to each place (`Sums`).  So both are recursive functions or choices that can be
reasoned about, and not recursive operators.

### RandomInput
A problem gives the elements and nodes as the reader leaves them, the owners the space
filling curve assigns to buckets, and the neighbours on the curve: a symmetric relation
without isolated processes.  Coordinates are named by their node.  Each action of a
process is the stretch between two calls of `Communication` (`assignEBuckets` asks and
answers; `clusterize` sends elements; `linkup` asks the curve's neighbours, stores,
asks the homes of missing nodes, is told where to find them, asks there, inserts, and
announces the processes of each node).  A call is a meeting in which everybody's message
of the same call is read, as `Collective` promises.  The program's own errors ("no
elements") end a behaviour; a request that finds nothing is the location `"failed"`.

## 3. Runs, bounds and fairness

| Run | Module | States | Question |
|---|---|---|---|
| `async_store` | `MC_AsyncStore` | 31 197 | Is the three-lock protocol safe and live, and does it hand over whole packages? |
| `result_store` | `MC_ResultStore` | 19 436 | Does each store write what its options say, for every configuration? |
| `time_stepping` | `MC_TimeStepping` | 250 466 | Do time, substeps and retries stay consistent under rounding? |
| `newton_raphson` | `MC_NewtonRaphson` | 482 681 | Is every linear system that is solved consistent? |
| `exchange` | `MC_Exchange` | 85 124 | Are the messages of consecutive calls never mixed? |
| `recursive_exchange` | `MC_RecursiveExchange` | 68 408 | Does the recursive all-to-all deliver every packet, without deadlock? |
| `balance` | `MC_Balance` | 162 460 | Do sender and receiver of `balance` always compute the same, and does everybody get its part? |
| `constraints` | `MC_Constraints` | 47 808 | Do all processes arrange their intervals, number, glue, scale and sum their multipliers alike? |
| `random_input` | `MC_RandomInput` | 50 734 | Does every process end with the nodes of its elements and the right sharers? |
| `last_timestep`, `stale_precision`, `nonredundant` | | | one documented statement each that the code does not keep (section 4) |

**async_store.**  The six buffers of the code, one mesh update and three solution
updates, sizes {1, 2}.  A buffer can thus be created, reused, replaced, and
replaced again after a reuse; one more update could only do one of these again
under higher ids.  `ExclusiveAccess`, `UnlockOnlyLocked`: the protocol.
`ExecReadsCurrentBuffers`, `NoLeakedBuffer`, `CallUndisturbed`: the data.
`EveryCallDelivered`, `StoreIsDestroyed`: progress.  `ImplementsHandoff`: refinement
of `Handoff`.  *Fairness*: weak, of each thread; both are operating system threads
and a spin lock has one waiter, so that no stronger assumption is needed.

**result_store.**  All 1 920 output configurations, two load steps of four time
steps, with different strides for results (2) and monitors (3), so that the two
frequencies agree and disagree and the substep restarts.  `WrittenAsConfigured` and
`NothingDropped` compare a store with its own options, whatever the others' are; only
the executor thread may be one step late.  They speak of stores whose frequencies are
`NEVER`, `EVERY_TIMESTEP` or `EVERY_NTH_TIMESTEP` (`StatedStores`).  Of `LAST_TIMESTEP`
and `DEBUG` the code does not do what `output.cpp:155`, `:156` and `:163` say (section 4);
executors with such stores are part of the run, as neighbours of the others.  *Fairness*: weak, of each thread.

**time_stepping.**  Five simulations: pseudo then steady, steady then automatic
transient, fixed transient then pseudo, automatic transient with a user's alpha
(its last step shorter), and a forbidden alpha.  Rounding is -1, 0 or 1 at each
operation, precision 40, time steps of 100 to 400: the errors that can add up in a
load step of a handful of steps stay well below the tolerance, and a time step well
above it, as with doubles and 1e-8.  Time steps shorter than twice the precision are
excluded.
*Fairness*: weak, of the only thread.

**newton_raphson.**  Every combination of method, criteria, adaptive precision, line
search and transient; at most 1 or 3 iterations; three time steps; two rejected
attempts.  Three iterations suffice for a first one, a later one and one after a
test that failed; two rejections in a row suffice for a retry after a retry.  The
loop's bound is the code's own, so that no liveness is claimed.

**exchange.**  Three processes in a chain and all 343 sequences of three calls of the
seven kinds.  The middle process has neighbours of both sides, the outer two are
not neighbours, so that a process can run ahead of one that it does not talk to.
Three calls allow a process that is ahead by one to mix a call with its successor
and its predecessor.  *Fairness*: weak, of each process and of the arrival of
messages; of `MPI_Waitall` only once its sends are matched, since MPI may buffer
nothing.

**recursive_exchange.**  Everybody sends to everybody for 1 to 5 processes, and every
choice of targets for 2 and 3.  Five is the first number with an odd group at two
levels (5 = 3 + 2, 3 = 2 + 1); three levels of halving occur.  *Fairness*: weak, of
each process; a blocking send is certain to return only once it is received.

**balance.**  Three processes; every call of three elements (all pairs of distributions,
with empty parts at both ends and in the middle), every call of two elements made twice,
every two calls of one element, and what `Input::balanceElements` does.  Three is the
smallest number with a part strictly inside another one; two calls are needed for a
process that is a call ahead.  *Fairness*: weak, of each process and of the arrival of
messages.

**constraints.**  150 problems of four domains on three processes in three distributions,
with four sets of interfaces (a chain of pairs; triples that interleave; interfaces that
contain each other; one of all domains), one to three nodes of each, one or two DOFs.  The
nodes of an interface are all inside; or one is on the surface, seen from its first
process only or from all; or two are, seen from different processes, with one inside
numbered in between.  So there are two intervals of the same domains, which a process
without a free face there knows only from its neighbours.  Six selections of Dirichlet
nodes; load steps one after another with different Dirichlet nodes or with a change from
non-redundant to redundant multipliers.  Non-redundant multipliers are checked where no
interface has more than two domains; `nonredundant` shows what happens
otherwise.  Safety only: a process waits in collective calls, whose progress is the
subject of `exchange`.

**random_input.**  Eight nodes on four processes, five meshes, five assignments of nodes
to owners, five curves, numbers with and without gaps: 250 problems.  In 165 of them the
redistribution completes, in the others a process ends up without elements and the
program says so.  Four processes are needed for a node that is found neither at its
home, nor at a neighbour on the curve, nor at the process that asks.  Safety only.

Every property of a passing run has a mutant of the code in `PROJECT.json` that
breaks it under the same bounds.  Deadlock is checked in all of them.

## 4. Where code and documentation disagree

Each has a run that finds the violation:

- `last_timestep`: `Step::finalTime` is never assigned, so that the store frequency
  `LAST_TIMESTEP` stores nothing, while `output.cpp:155` and `:163` promise the last
  results and the last monitors.
- `stale_precision`: the iterative solver copies its precision only when K is new,
  so that the adaptive precision has no effect in the modified method's iterations.
- `nonredundant`: `nonredundantglue` numbers the multipliers of consecutive nodes one
  apart, while a node of three domains has two, so that two jumps get the same number
  and others none.

Seen while modelling, without a run of their own:

- `_alpha = 2 / 3` is an integer division: the method `GALERKIN` divides by zero
  (`transientfirstorderimplicit.cpp:97`; `Alpha` models it).
- In output mode `SYNC` `ResultStore::updateMesh` dereferences `_async`, which is `NULL`
  (`resultstore.cpp:180`; `UpdateMesh` models it); the mode of ASYNC is set after the
  `AsyncStore` has chosen its back-end (`resultstore.cpp:55`; `Create` models it); the STL
  store is given the solver's mesh instead of the executor's (`resultstore.cpp:82`).
- With adaptive precision and only the heat residual as criterion the precision is
  0 / 0; the adapted precision is never reset (`newtonraphson.cpp:116`); a time step
  that exhausts its iterations is reported as converged (`newtonraphson.cpp:161`); the
  modified method combines an inertia of the first mass matrix with the current R
  (`newtonraphson.cpp:63`); a rejected time step leaves its solution as the starting
  point of the retry (`transientfirstorderimplicit.cpp:216`).
- The store frequency `DEBUG` stores nothing (`visualization.cpp:29`), while
  `output.cpp:156` says "Storing also iteration results."
- Non-redundant Dirichlet conditions of several DOFs leave the range reserved for them
  (`equalityconstraints.cpp:72`); `_domainDirichletSize` keeps the value of the last load
  step when a later one has no Dirichlet nodes (`equalityconstraints.cpp:27`); the second
  loop over diagonals skips intervals of one domain and is right only because these are
  last (`equalityconstraints.cpp:343`); the merge in `cluster.cpp` needs ascending lists.
- Input: `nIDs.back()` and `eIDs.back()` of an empty vector on a process without nodes or
  elements (`input.cpp:122`, `:250`); the ring that checks the order of nodes forwards -1
  from an empty process (`input.cpp:61`); a process without a neighbour on the curve
  writes to the first of no vectors (`randominput.cpp:748`); a region's bit is a shift of
  an `int`.

The ones a test would hardly reach are listed as hazards.

## 5. Proofs

The theorems hold for every value of the constants.  They rest on the named
assumptions of the modules (such as `BuffersAssumption`, `NeighboursAssumption`,
`CallsAssumption`, `SimulationsAssumption`) and on nothing else.  TLC evaluates the
assumptions on every run.

### AsyncStore: any buffers, any sizes, any number of updates

*`AsyncStoreProofs`.*  `ExclusiveAccess` and `UnlockOnlyLocked` are not inductive:
they say nothing of why the executor sleeps.  `LockProtocol` says, for each location
of the solver thread, what the three locks and the executor can be doing: the locks
encode whose turn it is (`Asleep`, `Awake`).  `TodoOK` says that an update in
progress has a buffer to work on.  `IInv == TypeOK /\ TodoOK /\ LockProtocol` is
inductive, and `TypeCorrectness`, `ExclusiveAccessHolds` and `UnlockOnlyLockedHolds`
follow.

*Its second part.*  On top of the turns comes what the buffers hold.
`DataInv` consists of `Counts` (each update posts one package), `Distinct` (no two
names share an id), `Alive` (a known id is alive except for the one being replaced),
`Fresh` (only the newest buffer is ever touched by the executor outside `exec`),
`Packed` (the buffers of the update that are done hold its data), `Handed` (nobody
changes them from `call` to the end of the next `wait`) and `NoLeakedBuffer`.  Each
step that changes data has a lemma; all others fall under `QuietData`.  From it
follow `ExecReadsCurrentBuffersHolds` and `NoLeakedBufferHolds`.

*Its third part.*  `History` relates the posted and the delivered packages: there is
one more posted exactly while `Pending`, a condition on the two locations and
`readerLock`.  `Partial` says that what `exec` has unpacked is that package,
restricted to some of its buffers.  `StepHand` shows that every step of `AsyncStore`
is a step of `Handoff` (`Call` a `Post`, `Deliver` a `Deliver`, `Shutdown` a
`Close`) or leaves its variables alone; `Refinement` is the resulting theorem, the
safety part of `ImplementsHandoff`.  `CallUndisturbedHolds` is the action property
that nobody touches the parameters or a buffer between a call and its delivery.

### NewtonRaphson: any settings, iterations, time steps and rejections

`SystemIsConsistent` and `ConstraintsAreConsistent` speak of one place in the loop,
the linear solve.  The invariant says what is true of each part of the system at
each other place: `Shape` (types), `Control` (which places work on an increment and
belong to which method), `Instance` (K, f, R and the Dirichlet values by place),
`Copies` (the solver has a part, or the part is announced to be renewed),
`Criteria` (a residual that could end the loop belongs to the current solution),
together with `StoredAreSolutions` and `InertiaContinues`.  Each action has a lemma;
the five theorems follow from `Invariance`.

### Exchange: any number of processes, neighbours and sequences of calls

`CallsNotMixed` is not inductive: it says nothing of the messages that are still on
their way.  The invariant says exactly which ones these are: `Pending(s, r, t)` is the
set of calls that `s` has made and whose message `r` has not taken in, and
`ChannelInv` says that the channel lists this set in ascending order (`Lists`, with the
lemmas `ListsAppend` for a send and `ListsTail` for a receive).  `ReceivedInv` says that
what was received had been sent, and `BarrierInv` that nobody has left the barrier of a
call before everybody has reached it.  `HeadIsCurrent` is the core of the argument: the
oldest message a process finds, from whatever source, is of its own call.  If it were
of a later one, its source would have passed the barrier of this call; if the source had
been counted already, its next message would be of a later call.  With symmetric
neighbours the number of messages a process counts is the number of its sources
(`ExpectedIsSources`), so that it leaves with one message of each.
`CallsNotMixedHolds`, `NothingLeftBehindHolds` and `ImplementsCollective`, the safety part
of `DeliversAsPromised`, follow.  `RandomInput`'s `RanksAgree` is why the assumption on
neighbours is justified: sharing a node is symmetric.

### RecursiveExchange: any number of processes and any packets

`EveryPacketDelivered` speaks of the end; on the way, a packet is with processes that are
neither its source nor its target, and these are at different levels at the same time.
So the argument is about levels and not about moments.  `RangeAt(n, r)[k]` is the range
process r of n is in at level k, and `HolderAt(n, s, t)[k]` the process that has the packet
from s to t; both are functions of the level alone.  `Mine(c, r, k)` are the packets of
process r at level k.  They follow the halving (`MineLower`, `MineUpper`): what a process
has one level on is what it has for its half, with what its partner has for it, and for
process mid of an odd range also what the process without a partner has.
The invariant is `Types`, `Processes` (the send buffer lists, in the order of the
targets, the packets of its level that are not its own, and the result has its own, each
once; a process at a place inside the level is on the right side of the cut) and
`Messages` (a message on its way is, for one level, what its sender has for the other half).
It does not say which level.  `MessageLevel` does: two processes exchange at one level
only, since at any later one they are in different ranges, so a receiver finds the message
of its own level.  `movebefore`, the cuts and the merges are right because the buffers are
sorted (`MoveBefore`, `PartsLists`, `MergeLists`); sorted lists for ascending targets, one
behind the other, are sorted (`FlattenLists`).  `AloneAtLast` says that ceil(log2(size))
levels leave every process alone: a range shrinks to half, rounded up.  Then the packets of
a process are those addressed to it, and `EveryPacketDeliveredHolds` follows.  Recursive
functions (`power`, `Parts`, `FlattenSeq`) and the tables by level are shown to exist and to
satisfy their equations by `RecursiveFunction`; every induction is over a set of
numbers (`IntervalInduction`, from `WFMin`).

### Balance: any number of processes, any distributions, any sequence of calls

`WalkInv` relates the locals of `fill` to the place it has reached: everything in front
of it is in `ssize` (or `rsize`) with the size of the intersection of the two parts
(`Overlap`), everything behind it is not yet.  A walk that is over has therefore
computed `Overlap` for every process, and `Overlap` is symmetric: sender and receiver have
computed the same.  The channel invariant says that the messages on their way from a
source are those of the calls it has posted and the target has not received, without the
empty ones, in order.  `RequestsSuffice` is an argument of its own: a process does not both
send to another one and receive from it (`OneDirection`), so that its targets and sources
together are all processes at most, and only the process itself counts twice.
`SliceReturned` needs that every place has an owner (`PlaceHasOwner`).

### TimeStepping: any simulation, precision and rounding errors

After k substeps of pseudo time stepping the time is the exact one up to k errors
(`NearSubstep`), and the end time the exact one up to one error.  `WellConfigured` makes
the precision larger than the errors and the remainder of the division, and a substep
larger than the precision: then no substep but the last one is clamped to the end, and
the last one is (`SubstepArithmetic`).  `WholeLoadAppliedHolds` follows.  The products
k * length make the solver's arithmetic nonlinear; `NextMultiple` isolates them.
`Invariance` covers these and the order of the substeps (`SubstepsConsecutiveHolds`).

A transient load step adds up errors too, at its accepted time steps and at each
rejection, and nothing in the code bounds the rejections by a number.  `TransientInv` does,
with the state alone.  Its part `Proposed` says that k accepted time steps, each at least
half of the shortest one, have moved the time: so k is at most `TimeSteps`, and the
current step has drifted from its exact value by at most 2k errors.  `Attempts` is a
budget: a rejected time step is longer than its successor by the precision, so that each
rejection uses up some of the room between the longest and the shortest time step, and
`Rejections` of them use up all.  `Near` bounds the error of the time by the number of
rejections, which the precision covers.  `TimeInv` (the time of a load step is its end or
at least the precision before it) then holds across rejections, and
`TimeInLoadStepHolds` follows without a further hypothesis.  `StartsFromLastSolutionHolds`
says that an attempt starts at the time of the last accepted solution, and
`StoredInOrderHolds`, from `StoredInv`, that solutions are stored in the order of time.

### ResultStore: any configuration, strides and numbers of steps

`WrittenAsConfigured` compares the files with the options, at any moment; in between lie
the executor a store was created at, the hand-off and the store's own frequency.  The
invariant is `Types`, `Control` (where the solver is, and that the executor thread lives
while it is needed), `Handed` (the pending step is the last one handed over, with the
stores that accept it) and `Complete` (each store has written exactly the steps due to it,
but for the pending one; for a store with `LAST_TIMESTEP` or `DEBUG` these are none, which
is what the code does and no property claims).  The steps due to a store (`DueSteps`) are those of the solver's
steps so far that the store's options select, so that a step adds at most one of them.
`WrittenAsConfiguredHolds` and `NothingDroppedHolds` follow.

### Constraints: any mesh, number of processes, load steps and settings

`NumberedOnce` says that processes which never see each other's rows come to the same
numbers for the multipliers of an interval they share, and that no number is given twice,
neither for Dirichlet nor for gluing multipliers.  `NumberedOnceHolds` proves it for
every mesh as `IsMesh` says: any domains and any nodes between them, any part of these on
the surface, seen from any of their processes, and so also intervals with the same domains.  What `ProblemsAssumption` demands beyond the shape of the data is the assumption
of `IsNode` that inner elements are connected through faces (section 2), and of a
load step that its Dirichlet nodes are nodes.

*Why the intervals are the same.*  A process tells its neighbours of its free faces, so
that all processes of a node know whether anyone has one there (`ExternalAgreed`; that a
process removes from what it receives what it has sent itself takes nothing away).
The internal boundary is not exchanged; by `IsNode`, what is left for it is the same
everywhere.  So all processes of a node put it into the same group (`GroupAgreed`), have
the same intervals of their common domains, with the same nodes (`IntervalsAgreed`), and
have those they share in the same order (`SharedIntervalsAgreed`).

*What the numbers should be.*  `OffsetIn(m, k, g, i)` is the first number of interval i in
load step k, for round g, as a function of the mesh: the sizes of all processes before its
owner (`FirstIn`) and of the owner's intervals in front of it (`OffsetsIn`).
`OffsetsDisjoint` shows from the sums alone that two intervals have no number in common
and all are below `TotalIn`.

*Why both sides agree.*  A message lists the offsets of the intervals that sender and
receiver share in the order of the sender's intervals, the receiver takes them in the
order of its own, and nothing says which is which.  `Before` is a strict total order
(`BeforeIsOrder`: the first difference of two lists decides, and the group where there is
none) and there is only one list of a set in a strict order (`OrderIsUnique`).  So what the sender has
selected and what the receiver expects are the same list (`SharedNumbers`).

*Why the message is the right one.*  `time(r)` counts what process r has done in all load
steps so far.  `LagOK` bounds how far two processes are apart: nobody leaves `exscan`
before all have entered it, and between neighbours nobody passes a receive before the
other has sent.  `ChannelOK` says with these times what is on its way: for offsets,
diagonals and parts of dual vectors of one load step, those that were sent and not taken, and
if offsets are among them they are first and are `SharedIn`.  Without the barrier a
fast neighbour's offsets of the gluing round could be taken for those of the Dirichlet
round.  The rule for an upper neighbour (it does not get past its receive before the lower
one has sent) came out of the attempt at the proof: without it the invariant is not
inductive, because it allows states in which the lower one still has to send a
message that nobody is going to take.
`CallsOK` says what each process passed to each call of `exscan` and what was broadcast,
`NumbersOK` what a process knows at each time.  `IInv` is the conjunction, each action
has a lemma, and `Invariance`, `NumberedOnceHolds` and `SameLoadStep` follow.

*Why each multiplier is counted once.*  A process lists in `B1clustersMap` the numbers it
has a part in, and with whom; of the two processes of a jump only the lower one counts it in
a scalar product.  `DirichletNumbers` and `GluingNumbers` say, for the whole mesh, which
pair of processes each number belongs to, as triples.  Loop by loop (`NodeGives`,
`DOFGives`, `GluingGives`, `DirichletGives`), what a process writes for an interval is its
part of the interval's triples, and these fill exactly the numbers the interval got:
`TriangleLength` counts the pairs of domains, `WrittenFacts` the nodes that are written, and
`GluingSizeWritten` shows that their product is `getGluingSize`.  `FlattenGives` is the one
lemma about concatenations all loops use.  `NumbersCovered` and `OffsetsDisjoint` make the
numbers of all intervals a partition of those below the total (`MapGives`).  `MapsOK` is the
invariant: between `B1DirichletInsert` and `B1GlueElements` the map of a process is its part
of the Dirichlet numbers, later its part of all.  `CountedOnceHolds` follows, without a
hypothesis on the settings: where the rows are wrong (section 4), the map is right.

Sums and sorted lists are data, and induction over data is out of reach as a rule of the
prover; here it is induction over a set of numbers that has a least element
(`LeastNumber`, `IntervalInduction`, from `WFMin`), and the recursive function of `Sums` is
shown to exist and to satisfy its equations by `RecursiveFunction`.

### Only model-checked

Liveness (`EveryCallDelivered`, `StoreIsDestroyed`, `StoresAreDestroyed`,
`SimulationEnds`, `AllCallsReturn`, `AllReturn`), which needs fairness and ENABLED;
the fairness part of the two refinements; and of two modules:

- `Constraints`: `JumpsComplete`, `DualVectorsAgree` and `ScaledByOtherSide` relate the
  rows of B1 of several domains to one another, through the walk of two lists
  (`lambda_map_sub_local`), the sums over pairs (`Skip`) and the messages matched by
  position.  They are also not true of every value of the constants: non-redundant
  multipliers of an interval of three or more domains, and non-redundant Dirichlet
  conditions of several DOFs, are where the code is wrong (section 4), and so is the scaling
  after a load step without Dirichlet nodes.  A theorem would have to exclude these by
  hypothesis; the run excludes them by its problems.  What the three rest on, that
  intervals have their own numbers, that all processes know the same ones and that the map
  of each process lists exactly its own, is proved.
- `RandomInput`: `ElementsAtTheirNodes`, `NodesComplete` and `RanksAgree` are about lists
  that a process concatenates, filters and folds over the messages of all others
  (`FlattenSeq`, `SelectSeq`, `FoldLeft`), with requests and answers matched by place.
  The argument would be an invariant over the contents of all these lists at each of the
  calls, and has not been attempted.

## 6. What is not modelled

- Of ASYNC: the MPI back-end, the synchronous back-end (one thread, nothing to
  interleave), `resizeBuffer`, `addSyncBuffer` and `sendBuffer`, which `AsyncStore`
  never calls, and the pinning of the thread.
- Of the stores: the contents and formats of files; data races on the content of a
  mesh (the STL store).
- Of time stepping: the numerical criteria that choose the next time step.
- Of the assembler: element integrals, the line search's search, BEM domains.  A
  criterion's value is free, so every way through the loop is covered.
- Of `Communication`: messages of 2^30 elements and more, at which one process returns
  `false` before its neighbours know (`balance` checks only the sender's buffer); the thin
  calls of MPI collectives.
- Of mesh preprocessing: all but the boundary nodes and node intervals; which faces a
  process finds at a node is given with the mesh, and so is that neighbours know the same
  domains and IDs of the nodes they share.
- Of the constraints: the nodes of Dirichlet regions and their values, which are given;
  inequality constraints; HFETI's B0.
- Of the input: the space filling curve and its refinement, which are data of a problem;
  `exchangeBoundary`; regions computed at the end of `linkup`, which `fillRegions` overwrites;
  the readers and the generators.
- The FETI solver's numerics, physics, the rest of mesh preprocessing, configuration, library
  interface, logging, GUI and vendored code, see section 1.  They are numerical or
  data-parallel code on one process between calls that are modelled, or text formats;
  by lines they are by far the largest part of the repository, which is why the modules
  stand for a small share of it.

## 7. Plan

Done: `AsyncStore` with its refinement and proofs, `NewtonRaphson`, `TimeStepping`,
`Exchange`, `RecursiveExchange`, `Balance` and `ResultStore` with their proofs,
`Constraints` with the proofs of its numbering and of its maps, and `RandomInput`.

What would come next:

1. **The space filling curve.**  The refinement of the borders in `clusterize`, a loop of
   reductions in which every process must take the same branch, and the neighbours it
   yields; `RandomInput` takes their symmetry as given.
2. **Links between neighbours in the mesh**: `exchangeBoundary`, and the numbering of nodes and
   elements in `MeshPreprocessing`, as a composition with `Collective`; with them what
   `NodeIntervals` is given (equal domains and IDs of shared nodes, the faces of each
   process) would be derived from the elements.
3. **Proofs** that the rows of B1 are the jumps the numbers stand for, for redundant
   multipliers (`JumpsComplete`); and of `RanksAgree` in `RandomInput`, on which the
   assumption of `Exchange` on neighbours rests.
4. **Composition** of `TimeStepping`, `NewtonRaphson` and `ResultStore`: rejections
   decided by the time stepping, and results stored that are the accepted solutions.
5. **FETI iteration control**: stopping, iteration limit and restart of the projected
   conjugate gradients.
