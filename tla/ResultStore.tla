----------------------------- MODULE ResultStore ------------------------------
(***************************************************************************)
(* Which result stores exist for a configuration, in which executor they   *)
(* live, and which steps of a simulation each of them gets, from           *)
(* createAsynchronizedStore() to destroyAsynchronizedStore().              *)
(*                                                                         *)
(* Abstraction: a package for the executor thread is the step it belongs   *)
(* to; AsyncStore.tla has the details of the hand-off.  A step is its load *)
(* step and substep.                                                       *)
(***************************************************************************)
EXTENDS Integers, Sequences, FiniteSets

CONSTANTS Configurations,   \* the output configurations
          LoadSteps,        \* bound: load steps of the simulation
          Substeps          \* bound: time steps of a load step

Frequencies == {"NEVER", "EVERY_TIMESTEP", "EVERY_NTH_TIMESTEP",
                "LAST_TIMESTEP", "DEBUG"}
Configuration ==
    [mode : {"SYNC", "THREAD"},
     results_store_frequency : Frequencies, results_nth_stepping : Nat \ {0},
     monitors_store_frequency : Frequencies \ {"DEBUG"},
     monitors_nth_stepping : Nat \ {0},
     format : {"ENSIGHT", "STL_SURFACE", "VTK_LEGACY"},
     monitoring : BOOLEAN, catalyst : BOOLEAN, debug : BOOLEAN,
     ASYNC_MODE : {"SYNC", "THREAD"}]
ASSUME ConfigurationsAssumption == Configurations \subseteq Configuration
ASSUME BoundsAssumption == LoadSteps \in Nat \ {0} /\ Substeps \in Nat \ {0}

\* The classes of result stores.
Stores == {"EnSight", "STL", "Monitoring", "InSitu", "VTKLegacyDebugInfo"}

VARIABLES
    configuration,
    loc,            \* where the main thread is
    async, direct,  \* the stores of the two executors; absent: NULL
    backend,        \* the back-end of the AsyncStore: that of ASYNC's mode
    mode,           \* async::Config::mode()
    dispatcher,     \* there is a dispatcher
    step,           \* the step being solved: [step, substep]
    currentTime,
    pending,        \* steps handed to the executor thread, not processed yet
    meshed,         \* stores that have the mesh
    written         \* the steps each store has written

vars == <<configuration, loc, async, direct, backend, mode, dispatcher, step,
          currentTime, pending, meshed, written>>

Absent == {"NULL"}
Exists(executor) == executor # Absent
finalTime == 0

Init ==
    /\ configuration \in Configurations
    /\ loc = "main"
    /\ async = Absent /\ direct = Absent
    /\ backend = "none" /\ mode = configuration.ASYNC_MODE
    /\ dispatcher = FALSE
    /\ step = [step |-> 0, substep |-> 0] /\ currentTime = 0
    /\ pending = <<>> /\ meshed = {}
    /\ written = [s \in Stores |-> <<>>]

-----------------------------------------------------------------------------

isLast == currentTime = finalTime

Wanted(frequency, nth) ==
    CASE frequency = "EVERY_TIMESTEP" -> TRUE
      [] frequency = "EVERY_NTH_TIMESTEP" -> step.substep % nth = 0
      [] frequency = "LAST_TIMESTEP" -> isLast
      [] OTHER -> FALSE

VisualizationStoreStep ==
    Wanted(configuration.results_store_frequency,
           configuration.results_nth_stepping)
MonitoringStoreStep ==
    Wanted(configuration.monitors_store_frequency,
           configuration.monitors_nth_stepping)

\* ResultStoreExecutor::storeStep(), the same for both executors.
ExecutorStoreStep == MonitoringStoreStep \/ VisualizationStoreStep

storeStep == (Exists(async) \/ Exists(direct)) /\ ExecutorStoreStep

ResultsStored == configuration.results_store_frequency # "NEVER"
\* GLOBAL_ERROR: only two of the formats are implemented.
FormatImplemented ==
    ~ResultsStored \/ configuration.format \in {"ENSIGHT", "STL_SURFACE"}

\* The stores for the results and the monitors ...
ExecutorStores ==
    (IF ~ResultsStored THEN {}
     ELSE IF configuration.format = "ENSIGHT" THEN {"EnSight"} ELSE {"STL"})
    \cup
    (IF configuration.monitors_store_frequency # "NEVER"
        /\ configuration.monitoring THEN {"Monitoring"} ELSE {})
\* ... and those that always work on the data of the solver.
DirectStores ==
    (IF configuration.catalyst THEN {"InSitu"} ELSE {}) \cup
    (IF configuration.debug THEN {"VTKLegacyDebugInfo"} ELSE {})

\* createAsynchronizedStore(): an executor without a store is deleted again.
\* The AsyncStore takes its back-end before the mode is set.
Create ==
    LET threaded == configuration.mode = "THREAD"
        inDirect == DirectStores \cup IF threaded THEN {} ELSE ExecutorStores
        kept == threaded /\ ExecutorStores # {}
    IN /\ loc = "main" /\ FormatImplemented
       /\ direct' = IF inDirect = {} THEN Absent ELSE inDirect
       /\ async' = IF kept THEN ExecutorStores ELSE Absent
       /\ dispatcher' = kept
       /\ backend' = IF kept THEN mode ELSE "none"
       /\ mode' = IF threaded THEN "THREAD" ELSE mode
       /\ loc' = "created"
       /\ UNCHANGED <<configuration, step, currentTime, pending, meshed,
                      written>>

Refuse == /\ loc = "main" /\ ~FormatImplemented
          /\ loc' = "refused"
          /\ UNCHANGED <<configuration, async, direct, backend, mode,
                         dispatcher, step, currentTime, pending, meshed, written>>

\* updateMesh(): the condition for the direct executor dereferences _async.
\* The mesh is handed over like a solution; no step can overtake it.
UpdateMesh ==
    /\ loc = "created"
    /\ loc' = IF Exists(direct) /\ ~Exists(async) THEN "crashed" ELSE "solving"
    /\ meshed' = IF ~Exists(async) THEN {}
                 ELSE async \cup IF Exists(direct) THEN direct ELSE {}
    /\ UNCHANGED <<configuration, async, direct, backend, mode, dispatcher,
                   step, currentTime, pending, written>>

\* A store gets a step; two of them look at their frequency once more, and
\* STL stores no solution.
Accepts(store) ==
    CASE store = "EnSight" -> VisualizationStoreStep
      [] store = "STL" -> FALSE
      [] store = "Monitoring" -> MonitoringStoreStep
      [] OTHER -> TRUE

Write(accepting, s) ==
    written' = [w \in Stores |->
        IF w \in accepting THEN Append(written[w], s) ELSE written[w]]


\* Mutant of Accepting: a store does not look at its frequency.
AcceptingAll(executor) == executor \cap Stores

Accepting(executor) == {w \in executor \cap Stores : Accepts(w)}

\* A time step is solved: the time grows.
SolveStep ==
    /\ loc = "solving" /\ step.step < LoadSteps
    /\ currentTime' = currentTime + 1
    /\ loc' = "store"
    /\ UNCHANGED <<configuration, async, direct, backend, mode, dispatcher,
                   step, pending, meshed, written>>

\* The next substep, or the first one of the next load step.
NextStep == IF step.substep + 1 = Substeps
            THEN [step |-> step.step + 1, substep |-> 0]
            ELSE [step EXCEPT !.substep = @ + 1]

\* Assembler::storeSolution() and ResultStore::updateSolution(); wait() of the
\* AsyncStore is over when the executor thread has processed the last step.
StoreSolution ==
    /\ loc = "store"
    /\ step' = NextStep /\ loc' = "solving"
    /\ IF ~storeStep THEN UNCHANGED <<pending, written>>
       ELSE /\ backend = "THREAD" => pending = <<>>
            /\ pending' = IF backend = "THREAD"
                          THEN <<[step |-> step, by |-> Accepting(async)]>>
                          ELSE <<>>
            /\ Write(Accepting(direct) \cup
                     IF backend = "THREAD" THEN {} ELSE Accepting(async), step)
    /\ UNCHANGED <<configuration, async, direct, backend, mode, dispatcher,
                   currentTime, meshed>>

\* Mutant of Exec: the thread is stuck with a step no store accepts.
ExecStuck ==
    /\ pending # <<>> /\ Head(pending).by # {}
    /\ Write(Head(pending).by, Head(pending).step)
    /\ pending' = <<>>
    /\ UNCHANGED <<configuration, loc, async, direct, backend, mode,
                   dispatcher, step, currentTime, meshed>>

\* The executor thread processes the step of the package.
Exec ==
    /\ pending # <<>>
    /\ Write(Head(pending).by, Head(pending).step)
    /\ pending' = <<>>
    /\ UNCHANGED <<configuration, loc, async, direct, backend, mode,
                   dispatcher, step, currentTime, meshed>>

\* Mutant of Destroy: the executor thread is not awaited.
DestroyUnawaited ==
    /\ loc = "solving" /\ step.step = LoadSteps
    /\ async' = Absent /\ direct' = Absent /\ dispatcher' = FALSE
    /\ pending' = <<>>
    /\ loc' = "destroyed"
    /\ UNCHANGED <<configuration, backend, mode, step, currentTime, meshed,
                   written>>

\* destroyAsynchronizedStore(): ~AsyncStore() waits for the executor thread.
Destroy ==
    /\ loc = "solving" /\ step.step = LoadSteps
    /\ pending = <<>>
    /\ async' = Absent /\ direct' = Absent /\ dispatcher' = FALSE
    /\ loc' = "destroyed"
    /\ UNCHANGED <<configuration, backend, mode, step, currentTime, pending,
                   meshed, written>>

Ended == loc \in {"destroyed", "crashed", "refused"} /\ UNCHANGED vars

Main == Create \/ Refuse \/ UpdateMesh \/ SolveStep \/ StoreSolution \/ Destroy
Next == Main \/ Exec \/ Ended

\* Both threads run.
Spec == Init /\ [][Next]_vars /\ WF_vars(Main) /\ WF_vars(Exec)

-----------------------------------------------------------------------------
(* Properties *)

\* Steps are solved in this order.
Before(s, t) == s.step < t.step \/ (s.step = t.step /\ s.substep < t.substep)

\* Steps of which storeSolution() was called.
StoredSteps ==
    {s \in [step : 0..(LoadSteps - 1), substep : 0..(Substeps - 1)] :
        Before(s, step)}

\* The steps that two of the frequencies mean, as their descriptions say
\* (output.cpp:153-154), without the routing through the two executors, which
\* both get what any of the stores wants.
Due(frequency, nth, s) ==
    \/ frequency = "EVERY_TIMESTEP"
    \/ frequency = "EVERY_NTH_TIMESTEP" /\ s.substep % nth = 0
ResultsDue(s) == Due(configuration.results_store_frequency,
                     configuration.results_nth_stepping, s)
MonitorsDue(s) == Due(configuration.monitors_store_frequency,
                      configuration.monitors_nth_stepping, s)
StepDue(store, s) ==
    CASE store = "EnSight" -> ResultsDue(s)
      [] store = "STL" -> FALSE
      [] store = "Monitoring" -> MonitorsDue(s)
      [] OTHER -> ResultsDue(s) \/ MonitorsDue(s)
DueSteps(store) == {s \in StoredSteps : StepDue(store, s)}

\* The frequencies that a store depends on; STL has the mesh only.
FrequenciesOf(store) ==
    CASE store = "EnSight" -> {configuration.results_store_frequency}
      [] store = "STL" -> {}
      [] store = "Monitoring" -> {configuration.monitors_store_frequency}
      [] OTHER -> {configuration.results_store_frequency,
                   configuration.monitors_store_frequency}

\* The stores whose frequencies say what they have at any time.  This leaves
\* out LAST_TIMESTEP, of which the code does not keep what output.cpp:155 and
\* :163 promise (LastResultsStored of TimeStepping.tla), and DEBUG, whose
\* results of iterations (output.cpp:156) nobody stores.
StatedStores ==
    {w \in (async \cup direct) \cap Stores :
        FrequenciesOf(w) \cap {"LAST_TIMESTEP", "DEBUG"} = {}}

\* A sequence of the given steps, each once, in order.
InOrder(seq, steps) ==
    /\ {seq[i] : i \in DOMAIN seq} = steps
    /\ \A i, j \in DOMAIN seq : i < j => Before(seq[i], seq[j])

\* Every store with such a frequency writes exactly the steps of it, whatever
\* the frequency of the other stores of its executor is, each once, in order
\* and not before it has the mesh; only the executor thread may be one step
\* late, with the last one.
WrittenAsConfigured ==
    \A w \in StatedStores :
        LET due == DueSteps(w)
        IN /\ \/ InOrder(written[w], due)
              \/ /\ w \in async /\ pending # <<>>
                 /\ \E s \in due : /\ InOrder(written[w], due \ {s})
                                   /\ \A t \in due \ {s} : Before(t, s)
           /\ written[w] # <<>> => w \in meshed

\* The stores of the two executors are complete when they are destroyed: no
\* step still on its way to the executor thread is dropped.
NothingDropped ==
    [][loc' = "destroyed" =>
        \A w \in StatedStores : InOrder(written'[w], DueSteps(w))]_vars

\* The simulation ends and the stores are destroyed, or the program stops at
\* an unusable configuration.
StoresAreDestroyed == <>(loc \in {"destroyed", "crashed", "refused"})
=============================================================================
