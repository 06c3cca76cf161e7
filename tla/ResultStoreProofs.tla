-------------------------- MODULE ResultStoreProofs ---------------------------
(***************************************************************************)
(* Every result store gets the steps of its frequency, for any set of      *)
(* configurations and any number of load steps and substeps.  The          *)
(* invariant also describes the stores whose frequency is LAST_TIMESTEP or *)
(* DEBUG, as the code treats them: no step is due to them.                 *)
(***************************************************************************)
EXTENDS ResultStore, TLAPS

Steps == [step : 0..(LoadSteps - 1), substep : 0..(Substeps - 1)]
Everywhere == (async \cup direct) \cap Stores
Unsolved == {"main", "refused", "created", "crashed"}

Types ==
    /\ configuration \in Configuration
    /\ loc \in Unsolved \cup {"solving", "store", "destroyed"}
    /\ step \in [step : 0..LoadSteps, substep : 0..(Substeps - 1)]
    /\ step.step = LoadSteps => step.substep = 0
    /\ currentTime \in Nat
    /\ written \in [Stores -> Seq(Steps)]

Untouched ==
    /\ step = [step |-> 0, substep |-> 0]
    /\ pending = <<>> /\ written = [s \in Stores |-> <<>>]

\* Before the first step nothing is written; when a step is stored its time
\* is not the one the final time is initialised to.
Control ==
    /\ loc \in Unsolved => Untouched
    /\ loc = "main" => async = Absent /\ direct = Absent
    /\ loc = "store" => step.step < LoadSteps /\ currentTime > 0
    /\ loc \in {"solving", "store"} => Everywhere \subseteq meshed
    /\ loc = "destroyed" => Everywhere = {}
    /\ async \cap direct \cap Stores = {}

\* What is on its way to the executor thread is a step for the stores that have
\* to get it; no later one is due.
Handed ==
    pending # <<>> =>
        /\ backend = "THREAD"
        /\ \E s \in StoredSteps :
            /\ pending = <<[step |-> s,
                            by |-> {w \in async \cap Stores : StepDue(w, s)}]>>
            /\ \A w \in Everywhere : \A t \in DueSteps(w) \ {s} : Before(t, s)

Late(w) == IF pending # <<>> /\ w \in pending[1].by THEN {pending[1].step} ELSE {}

\* A store has its steps but the one on its way.
Complete == \A w \in Everywhere : InOrder(written[w], DueSteps(w) \ Late(w))

IInv == Types /\ Control /\ Handed /\ Complete

-----------------------------------------------------------------------------
(* Steps and their order                                                   *)

\* A step after all others goes to the end.
LEMMA AppendInOrder ==
    ASSUME NEW T, NEW seq \in Seq(T), NEW steps, InOrder(seq, steps),
           NEW s \in T, \A t \in steps : Before(t, s)
    PROVE  InOrder(Append(seq, s), steps \cup {s})
<1> DEFINE new == Append(seq, s)
<1>1. /\ Len(seq) \in Nat /\ DOMAIN seq = 1..Len(seq)
      /\ DOMAIN new = 1..(Len(seq) + 1)
      /\ new[Len(seq) + 1] = s
      /\ \A i \in 1..Len(seq) : new[i] = seq[i]
  OBVIOUS
<1>2. \A i \in DOMAIN new : i \in DOMAIN seq \/ i = Len(seq) + 1
  BY <1>1
<1>3. DOMAIN seq \subseteq DOMAIN new /\ Len(seq) + 1 \in DOMAIN new
  BY <1>1
<1> HIDE DEF new
<1>4. {new[i] : i \in DOMAIN new} = steps \cup {s}
  BY <1>1, <1>2, <1>3 DEF InOrder
<1>5. ASSUME NEW i \in DOMAIN new, NEW j \in DOMAIN new, i < j
      PROVE  Before(new[i], new[j])
  <2>1. i \in DOMAIN seq
    BY <1>1, <1>5
  <2>2. CASE j \in DOMAIN seq
    BY <1>1, <1>5, <2>1, <2>2 DEF InOrder
  <2>3. CASE j = Len(seq) + 1
    BY <1>1, <2>1, <2>3 DEF InOrder
  <2> QED BY <1>2, <2>2, <2>3
<1> QED BY <1>4, <1>5 DEF InOrder, new

\* Storing a step adds it to the stored ones, after all of them.
LEMMA NextStored ==
    ASSUME Types, step.step < LoadSteps, step' = NextStep
    PROVE  /\ step \in Steps
           /\ StoredSteps' = StoredSteps \cup {step}
           /\ step \notin StoredSteps
           /\ \A t \in StoredSteps : Before(t, step)
           /\ step' \in [step : 0..LoadSteps, substep : 0..(Substeps - 1)]
           /\ step'.step = LoadSteps => step'.substep = 0
<1> DEFINE a == step.step
           b == step.substep
<1>1. /\ LoadSteps \in Nat /\ Substeps \in Nat \ {0}
      /\ a \in 0..(LoadSteps - 1) /\ b \in 0..(Substeps - 1)
      /\ step = [step |-> a, substep |-> b]
  BY BoundsAssumption DEF Types
<1>2. \/ b + 1 = Substeps /\ step' = [step |-> a + 1, substep |-> 0]
      \/ b + 1 < Substeps /\ step' = [step |-> a, substep |-> b + 1]
  BY <1>1 DEF NextStep
<1>3. ASSUME NEW s \in Steps
      PROVE  /\ Before(s, step') <=> Before(s, step) \/ s = step
             /\ ~Before(step, step)
  <2>1. /\ s.step \in 0..(LoadSteps - 1) /\ s.substep \in 0..(Substeps - 1)
        /\ s = [step |-> s.step, substep |-> s.substep]
    BY DEF Steps
  <2>2. s = step <=> s.step = a /\ s.substep = b
    BY <1>1, <2>1
  <2> HIDE DEF a, b
  <2>3. /\ Before(s, step) <=> s.step < a \/ (s.step = a /\ s.substep < b)
        /\ Before(step, step) <=> a < a \/ (a = a /\ b < b)
    BY DEF Before, a, b
  <2>4. CASE b + 1 = Substeps /\ step' = [step |-> a + 1, substep |-> 0]
    <3>1. Before(s, step') <=> s.step < a + 1 \/ (s.step = a + 1 /\ s.substep < 0)
      BY <2>4 DEF Before
    <3> QED BY <1>1, <2>1, <2>2, <2>3, <2>4, <3>1
  <2>5. CASE b + 1 < Substeps /\ step' = [step |-> a, substep |-> b + 1]
    <3>1. Before(s, step') <=> s.step < a \/ (s.step = a /\ s.substep < b + 1)
      BY <2>5 DEF Before
    <3> QED BY <1>1, <2>1, <2>2, <2>3, <2>5, <3>1
  <2> QED BY <1>2, <2>4, <2>5
<1>4. step \in Steps
  BY <1>1 DEF Steps
<1>5. StoredSteps' = StoredSteps \cup {step} /\ step \notin StoredSteps
  BY <1>3, <1>4 DEF StoredSteps, Steps
<1>6. /\ step' \in [step : 0..LoadSteps, substep : 0..(Substeps - 1)]
      /\ step'.step = LoadSteps => step'.substep = 0
  BY <1>1, <1>2
<1> QED BY <1>3, <1>4, <1>5, <1>6 DEF StoredSteps, Steps

-----------------------------------------------------------------------------
(* Who gets a step                                                         *)

\* The frequencies of the executor and of its stores are the ones a step is due
\* for: the final time is never the time of a step.
LEMMA FrequenciesAreDue ==
    ASSUME Types, Control, loc = "store"
    PROVE  /\ VisualizationStoreStep <=> ResultsDue(step)
           /\ MonitoringStoreStep <=> MonitorsDue(step)
<1>1. ~isLast
  BY DEF isLast, finalTime, Control, Types
<1>2. \A nth : \A f \in Frequencies : Wanted(f, nth) <=> Due(f, nth, step)
  BY <1>1 DEF Wanted, Due, Frequencies
<1>3. /\ configuration.results_store_frequency \in Frequencies
      /\ configuration.monitors_store_frequency \in Frequencies
  BY DEF Types, Configuration
<1> QED BY <1>2, <1>3 DEF VisualizationStoreStep, MonitoringStoreStep, ResultsDue,
                          MonitorsDue

LEMMA AcceptsDue ==
    ASSUME Types, Control, loc = "store"
    PROVE  /\ storeStep =>
                \A w \in Stores : Accepts(w) <=> StepDue(w, step)
           /\ ~storeStep => \A w \in Everywhere : ~StepDue(w, step)
<1> USE FrequenciesAreDue
<1>1. ASSUME storeStep, NEW w \in Stores
      PROVE  Accepts(w) <=> StepDue(w, step)
  <2>1. ResultsDue(step) \/ MonitorsDue(step)
    BY <1>1 DEF storeStep, ExecutorStoreStep
  <2>2. CASE w \in {"EnSight", "STL", "Monitoring"}
    BY <2>2 DEF Accepts, StepDue
  <2>3. CASE w \in {"InSitu", "VTKLegacyDebugInfo"}
    BY <2>1, <2>3 DEF Accepts, StepDue
  <2> QED BY <2>2, <2>3 DEF Stores
<1>2. ASSUME ~storeStep, NEW w \in Everywhere
      PROVE  ~StepDue(w, step)
  <2>1. Exists(async) \/ Exists(direct)
    BY DEF Exists, Absent, Everywhere, Stores
  <2>2. ~ResultsDue(step) /\ ~MonitorsDue(step)
    BY <1>2, <2>1 DEF storeStep, ExecutorStoreStep
  <2> QED BY <2>2 DEF StepDue
<1> QED BY <1>1, <1>2

-----------------------------------------------------------------------------
(* The steps of the specification                                          *)

LEMMA InitInv == Init => IInv
<1> SUFFICES ASSUME Init PROVE IInv
  OBVIOUS
<1>1. Types
  BY ConfigurationsAssumption, BoundsAssumption DEF Init, Types, Unsolved, Steps
<1>2. Control /\ Handed
  BY DEF Init, Control, Handed, Absent, Stores, Untouched
<1>3. Complete
  BY DEF Init, Complete, Everywhere, Absent, Stores
<1> QED BY <1>1, <1>2, <1>3 DEF IInv

\* Nothing is due before the first step.
LEMMA NothingDueYet ==
    ASSUME step = [step |-> 0, substep |-> 0]
    PROVE  StoredSteps = {} /\ \A w : DueSteps(w) = {}
<1>1. ASSUME NEW s \in StoredSteps PROVE FALSE
  <2>1. s.step < 0 \/ (s.step = 0 /\ s.substep < 0)
    BY DEF StoredSteps, Before
  <2>2. s.step \in 0..(LoadSteps - 1) /\ s.substep \in 0..(Substeps - 1)
    BY DEF StoredSteps
  <2> QED BY <2>1, <2>2, BoundsAssumption
<1> QED BY <1>1 DEF DueSteps

\* Before the first step everything is as it should be.
LEMMA UntouchedIsComplete == Untouched => Complete /\ Handed
<1> SUFFICES ASSUME Untouched PROVE Complete /\ Handed
  OBVIOUS
<1>1. \A w \in Everywhere : written[w] = <<>> /\ DueSteps(w) \ Late(w) = {}
  BY NothingDueYet DEF Untouched, Everywhere
<1>2. InOrder(<<>>, {})
  BY DEF InOrder
<1> QED BY <1>1, <1>2 DEF Complete, Handed, Untouched

LEMMA CreateStep == ASSUME IInv, Create PROVE IInv'
<1>1. /\ loc = "main" /\ loc' = "created"
      /\ step' = [step |-> 0, substep |-> 0] /\ pending' = <<>>
      /\ written' = [s \in Stores |-> <<>>]
      /\ UNCHANGED <<configuration, step, currentTime, pending, written>>
  BY DEF IInv, Control, Create, Unsolved, Untouched
<1>2. Types'
  BY <1>1 DEF IInv, Types, Unsolved
<1>3. async' \cap direct' \cap Stores = {}
  BY DEF Create, ExecutorStores, DirectStores, Absent, Stores
<1>4. Control'
  BY <1>1, <1>3 DEF Control, Untouched
<1>5. Complete' /\ Handed'
  <2>1. Untouched'
    BY <1>1 DEF Untouched
  <2> QED BY <2>1, UntouchedIsComplete, PTL
<1> QED BY <1>2, <1>4, <1>5 DEF IInv

LEMMA UpdateMeshStep == ASSUME IInv, UpdateMesh PROVE IInv'
<1>1. /\ loc = "created" /\ Untouched
      /\ loc' \in {"crashed", "solving"}
      /\ UNCHANGED <<configuration, async, direct, backend, step, currentTime,
                     pending, written>>
  BY DEF IInv, Control, UpdateMesh, Unsolved
<1>2. Untouched'
  BY <1>1 DEF Untouched
<1>3. Types'
  BY <1>1 DEF IInv, Types, Unsolved
<1>4. loc' = "solving" => Everywhere' \subseteq meshed'
  BY <1>1 DEF UpdateMesh, Everywhere, Exists, Absent, Stores
<1>5. Control'
  BY <1>1, <1>2, <1>4 DEF IInv, Control
<1>6. Complete' /\ Handed'
  BY <1>2, UntouchedIsComplete, PTL
<1> QED BY <1>3, <1>5, <1>6 DEF IInv

\* Steps that neither store a step nor write one.
LEMMA SameSteps ==
    ASSUME UNCHANGED <<configuration, step>>
    PROVE  /\ StoredSteps' = StoredSteps
           /\ \A w : DueSteps(w)' = DueSteps(w)
           /\ \A w, s : StepDue(w, s)' <=> StepDue(w, s)
BY DEF StoredSteps, DueSteps, StepDue, ResultsDue, MonitorsDue

LEMMA SolveStepStep == ASSUME IInv, SolveStep PROVE IInv'
<1>1. /\ loc = "solving" /\ loc' = "store" /\ step.step < LoadSteps
      /\ currentTime' = currentTime + 1
      /\ UNCHANGED <<configuration, async, direct, backend, step, pending, meshed,
                     written>>
  BY DEF SolveStep
<1>2. Types'
  BY <1>1 DEF IInv, Types
<1>3. Control'
  BY <1>1 DEF IInv, Types, Control, Everywhere, Unsolved
<1>4. Complete' /\ Handed'
  BY <1>1, SameSteps DEF IInv, Complete, Handed, Late, Everywhere
<1> QED BY <1>2, <1>3, <1>4 DEF IInv

LEMMA DestroyStep == ASSUME IInv, Destroy PROVE IInv'
<1>1. /\ loc = "solving" /\ loc' = "destroyed" /\ pending' = <<>>
      /\ async' = Absent /\ direct' = Absent
      /\ UNCHANGED <<configuration, step, currentTime, written>>
  BY DEF Destroy
<1>2. Everywhere' = {}
  BY <1>1 DEF Everywhere, Absent, Stores
<1>3. Types'
  BY <1>1 DEF IInv, Types
<1>4. Control'
  BY <1>1, <1>2 DEF Control, Everywhere, Unsolved
<1>5. Complete' /\ Handed'
  BY <1>1, <1>2 DEF Complete, Handed
<1> QED BY <1>3, <1>4, <1>5 DEF IInv

\* The executor thread writes the step it was given.
LEMMA ExecStep == ASSUME IInv, Exec PROVE IInv'
<1>1. /\ pending # <<>> /\ pending' = <<>>
      /\ Write(Head(pending).by, Head(pending).step)
      /\ UNCHANGED <<configuration, loc, async, direct, backend, step,
                     currentTime, meshed>>
  BY DEF Exec
<1>2. PICK s \in StoredSteps :
            /\ pending = <<[step |-> s,
                            by |-> {w \in async \cap Stores : StepDue(w, s)}]>>
            /\ \A w \in Everywhere : \A t \in DueSteps(w) \ {s} : Before(t, s)
  BY <1>1 DEF IInv, Handed
<1> DEFINE by == {w \in async \cap Stores : StepDue(w, s)}
<1>3. /\ pending[1].by = by /\ pending[1].step = s
      /\ Head(pending).by = by /\ Head(pending).step = s
  BY <1>2
<1>4. s \in Steps
  BY DEF StoredSteps, Steps
<1>5. written' = [w \in Stores |->
            IF w \in by THEN Append(written[w], s) ELSE written[w]]
  BY <1>1, <1>3 DEF Write
<1>6. written' \in [Stores -> Seq(Steps)]
  BY <1>4, <1>5 DEF IInv, Types
<1>7. Types'
  BY <1>1, <1>6 DEF IInv, Types
<1>8. Control'
  BY <1>1 DEF IInv, Control, Untouched, Everywhere
<1>9. ASSUME NEW w \in Everywhere PROVE InOrder(written'[w], DueSteps(w))
  <2>1. w \in Stores /\ written[w] \in Seq(Steps)
    BY DEF Everywhere, IInv, Types
  <2>2. InOrder(written[w], DueSteps(w) \ Late(w))
    BY DEF IInv, Complete
  <2>3. CASE w \in by
    <3>1. Late(w) = {s} /\ s \in DueSteps(w)
      BY <1>1, <1>3, <2>3 DEF Late, DueSteps
    <3>2. InOrder(Append(written[w], s), (DueSteps(w) \ {s}) \cup {s})
      BY <1>2, <1>4, <2>1, <2>2, <3>1, AppendInOrder
    <3>3. (DueSteps(w) \ {s}) \cup {s} = DueSteps(w)
      BY <3>1
    <3> QED BY <1>5, <2>1, <2>3, <3>2, <3>3
  <2>4. CASE w \notin by
    BY <1>1, <1>3, <1>5, <2>1, <2>2, <2>4 DEF Late
  <2> QED BY <2>3, <2>4
<1>10. Complete'
  <2>1. /\ Everywhere' = Everywhere
        /\ \A w : DueSteps(w)' = DueSteps(w) /\ Late(w)' = {}
    BY <1>1, SameSteps DEF Everywhere, Late
  <2> QED BY <1>9, <2>1 DEF Complete
<1> QED BY <1>1, <1>7, <1>8, <1>10 DEF IInv, Handed

\* What is due after storeSolution() of a step.
LEMMA NextDue ==
    ASSUME Types, step.step < LoadSteps, step' = NextStep,
           UNCHANGED configuration, NEW w
    PROVE  /\ DueSteps(w)' = IF StepDue(w, step) THEN DueSteps(w) \cup {step}
                             ELSE DueSteps(w)
           /\ step \notin DueSteps(w)
           /\ \A t \in DueSteps(w) : Before(t, step)
           /\ \A s : StepDue(w, s)' <=> StepDue(w, s)
<1>1. \A s : StepDue(w, s)' <=> StepDue(w, s)
  BY DEF StepDue, ResultsDue, MonitorsDue
<1> QED BY <1>1, NextStored DEF DueSteps

LEMMA StoreSolutionStep == ASSUME IInv, StoreSolution PROVE IInv'
<1>1. /\ loc = "store" /\ loc' = "solving" /\ step' = NextStep
      /\ step.step < LoadSteps
      /\ UNCHANGED <<configuration, async, direct, backend, currentTime, meshed>>
      /\ Types /\ Control /\ Handed /\ Complete
  BY DEF StoreSolution, IInv, Control
<1> DEFINE Wants(executor) == {w \in executor \cap Stores : StepDue(w, step)}
<1>2. Everywhere' = Everywhere /\ Everywhere \subseteq Stores
  BY <1>1 DEF Everywhere
<1>3. /\ step \in Steps
      /\ step' \in [step : 0..LoadSteps, substep : 0..(Substeps - 1)]
      /\ step'.step = LoadSteps => step'.substep = 0
      /\ StoredSteps' = StoredSteps \cup {step}
  BY <1>1, NextStored
<1>4. \A w : /\ DueSteps(w)' = IF StepDue(w, step) THEN DueSteps(w) \cup {step}
                               ELSE DueSteps(w)
             /\ step \notin DueSteps(w)
             /\ \A t \in DueSteps(w) : Before(t, step)
             /\ \A s : StepDue(w, s)' <=> StepDue(w, s)
  BY <1>1, NextDue
<1>5. Control'
  BY <1>1, <1>2 DEF Control, Unsolved, Everywhere
<1>6. CASE ~storeStep
  <2>1. UNCHANGED <<pending, written>>
    BY <1>6 DEF StoreSolution
  <2>2. \A w \in Everywhere : DueSteps(w)' = DueSteps(w)
    BY <1>1, <1>4, <1>6, AcceptsDue
  <2>3. Types'
    BY <1>1, <1>3, <2>1 DEF Types
  <2>4. \A w : Late(w)' = Late(w)
    BY <2>1 DEF Late
  <2>5. Complete'
    BY <1>1, <1>2, <2>1, <2>2, <2>4 DEF Complete
  <2>6. Handed'
    BY <1>1, <1>2, <1>3, <1>4, <2>1, <2>2 DEF Handed
  <2> QED BY <1>5, <2>3, <2>5, <2>6 DEF IInv
<1>7. CASE storeStep /\ backend = "THREAD"
  <2>1. /\ pending = <<>>
        /\ pending' = <<[step |-> step, by |-> Accepting(async)]>>
        /\ Write(Accepting(direct) \cup {}, step)
    BY <1>7 DEF StoreSolution
  <2>2. Accepting(async) = Wants(async) /\ Accepting(direct) = Wants(direct)
    BY <1>1, <1>7, AcceptsDue DEF Accepting
  <2>3. written' = [w \in Stores |->
            IF w \in Wants(direct) THEN Append(written[w], step) ELSE written[w]]
    BY <2>1, <2>2 DEF Write
  <2>4. Types'
    <3>1. written' \in [Stores -> Seq(Steps)]
      BY <1>1, <1>3, <2>3 DEF Types
    <3> QED BY <1>1, <1>3, <3>1 DEF Types
  <2>5. /\ pending' # <<>> /\ pending'[1].by = Wants(async)
        /\ pending'[1].step = step
    BY <2>1, <2>2
  <2>6. \A w : Late(w) = {}
    BY <2>1 DEF Late
  <2>7. \A w : Late(w)' = IF w \in Wants(async) THEN {step} ELSE {}
    BY <2>5 DEF Late
  <2>8. ASSUME NEW w \in Everywhere
        PROVE  InOrder(written'[w], DueSteps(w)' \ Late(w)')
    <3>1. w \in Stores /\ written[w] \in Seq(Steps)
      BY <1>1, <1>2 DEF Types
    <3>2. InOrder(written[w], DueSteps(w))
      <4>1. DueSteps(w) \ {} = DueSteps(w)
        OBVIOUS
      <4> QED BY <1>1, <2>6, <4>1 DEF Complete
    <3>3. CASE w \in async /\ StepDue(w, step)
      <4>1. w \in Wants(async) /\ w \notin Wants(direct)
        BY <1>1, <3>1, <3>3 DEF Control
      <4>2. DueSteps(w)' \ Late(w)' = DueSteps(w)
        BY <1>4, <2>7, <3>3, <4>1
      <4> QED BY <2>3, <3>1, <3>2, <4>1, <4>2
    <3>4. CASE w \in direct /\ StepDue(w, step)
      <4>1. w \notin Wants(async) /\ w \in Wants(direct)
        BY <1>1, <3>1, <3>4 DEF Control
      <4>2. DueSteps(w)' \ Late(w)' = DueSteps(w) \cup {step}
        BY <1>4, <2>7, <3>4, <4>1
      <4>3. InOrder(Append(written[w], step), DueSteps(w) \cup {step})
        BY <1>3, <1>4, <3>1, <3>2, AppendInOrder
      <4> QED BY <2>3, <3>1, <4>1, <4>2, <4>3
    <3>5. CASE ~StepDue(w, step)
      <4>1. DueSteps(w)' \ Late(w)' = DueSteps(w)
        BY <1>4, <2>7, <3>5
      <4> QED BY <2>3, <3>1, <3>2, <3>5, <4>1
    <3> QED BY <3>3, <3>4, <3>5 DEF Everywhere
  <2>9. Complete'
    BY <1>2, <2>8 DEF Complete
  <2>10. Handed'
    <3>1. PICK s : s = step
      OBVIOUS
    <3>2. Wants(async) = {w \in async \cap Stores : StepDue(w, s)'}
      BY <1>4, <3>1
    <3>3. pending' = <<[step |-> s,
                by |-> {w \in async' \cap Stores : StepDue(w, s)'}]>>
      BY <1>1, <2>1, <2>2, <3>1, <3>2
    <3>4. \A w : \A t \in DueSteps(w)' \ {s} : Before(t, s)
      BY <1>4, <3>1
    <3>5. s \in StoredSteps' /\ backend' = "THREAD"
      BY <1>1, <1>3, <1>7, <3>1
    <3> QED BY <3>3, <3>4, <3>5 DEF Handed
  <2> QED BY <1>5, <2>4, <2>9, <2>10 DEF IInv
<1>8. CASE storeStep /\ backend # "THREAD"
  <2>1. /\ pending = <<>> /\ pending' = <<>>
        /\ Write(Accepting(direct) \cup Accepting(async), step)
    BY <1>1, <1>8 DEF StoreSolution, Handed
  <2>2. Accepting(direct) \cup Accepting(async) = Wants(async \cup direct)
    BY <1>1, <1>8, AcceptsDue DEF Accepting
  <2>3. written' = [w \in Stores |->
            IF w \in Wants(async \cup direct) THEN Append(written[w], step)
            ELSE written[w]]
    BY <2>1, <2>2 DEF Write
  <2>4. Types'
    <3>1. written' \in [Stores -> Seq(Steps)]
      BY <1>1, <1>3, <2>3 DEF Types
    <3> QED BY <1>1, <1>3, <3>1 DEF Types
  <2>5. \A w : Late(w) = {} /\ Late(w)' = {}
    BY <2>1 DEF Late
  <2>6. ASSUME NEW w \in Everywhere
        PROVE  InOrder(written'[w], DueSteps(w)' \ Late(w)')
    <3>1. w \in Stores /\ written[w] \in Seq(Steps)
      BY <1>1, <1>2 DEF Types
    <3>2. InOrder(written[w], DueSteps(w)) /\ DueSteps(w)' \ Late(w)' = DueSteps(w)'
      <4>1. DueSteps(w) \ {} = DueSteps(w) /\ DueSteps(w)' \ {} = DueSteps(w)'
        OBVIOUS
      <4> QED BY <1>1, <2>5, <4>1 DEF Complete
    <3>3. CASE StepDue(w, step)
      <4>1. w \in Wants(async \cup direct)
        BY <3>1, <3>3 DEF Everywhere
      <4>2. InOrder(Append(written[w], step), DueSteps(w) \cup {step})
        BY <1>3, <1>4, <3>1, <3>2, AppendInOrder
      <4> QED BY <1>4, <2>3, <3>1, <3>2, <3>3, <4>1, <4>2
    <3>4. CASE ~StepDue(w, step)
      BY <1>4, <2>3, <3>1, <3>2, <3>4
    <3> QED BY <3>3, <3>4
  <2>7. Complete'
    BY <1>2, <2>6 DEF Complete
  <2> QED BY <1>5, <2>1, <2>4, <2>7 DEF IInv, Handed
<1> QED BY <1>6, <1>7, <1>8

LEMMA NextInv == IInv /\ [Next]_vars => IInv'
<1> SUFFICES ASSUME IInv, [Next]_vars PROVE IInv'
  OBVIOUS
<1>1. CASE Refuse
  <2>1. /\ loc = "main" /\ loc' = "refused"
        /\ UNCHANGED <<configuration, async, direct, backend, step, currentTime,
                       pending, meshed, written>>
    BY <1>1 DEF Refuse
  <2>2. Types' /\ Control'
    BY <2>1 DEF IInv, Types, Control, Unsolved, Untouched, Everywhere
  <2>3. Complete' /\ Handed'
    BY <2>1, SameSteps DEF IInv, Complete, Handed, Late, Everywhere
  <2> QED BY <2>2, <2>3 DEF IInv
<1>2. CASE UNCHANGED vars
  <2>1. UNCHANGED <<configuration, loc, async, direct, backend, step, currentTime,
                    pending, meshed, written>>
    BY <1>2 DEF vars
  <2>2. Types' /\ Control'
    BY <2>1 DEF IInv, Types, Control, Untouched, Everywhere
  <2>3. Complete' /\ Handed'
    BY <2>1, SameSteps DEF IInv, Complete, Handed, Late, Everywhere
  <2> QED BY <2>2, <2>3 DEF IInv
<1> QED BY <1>1, <1>2, CreateStep, UpdateMeshStep, SolveStepStep, StoreSolutionStep,
           DestroyStep, ExecStep DEF Next, Main, Ended

-----------------------------------------------------------------------------
(* Theorems                                                                *)

\* The invariant of the stores.
THEOREM Invariance == Spec => []IInv
<1>1. Init => IInv
  BY InitInv
<1>2. IInv /\ [Next]_vars => IInv'
  BY NextInv
<1> QED BY <1>1, <1>2, PTL DEF Spec

\* Every store writes exactly the steps its frequency asks for, in order and
\* with the mesh, although both executors of ResultStore get every step that
\* any of the stores wants; the executor thread is at most one step late.
THEOREM WrittenAsConfiguredHolds == Spec => []WrittenAsConfigured
<1>1. IInv => WrittenAsConfigured
  <2> SUFFICES ASSUME IInv, NEW w \in StatedStores
               PROVE  /\ \/ InOrder(written[w], DueSteps(w))
                         \/ /\ w \in async /\ pending # <<>>
                            /\ \E s \in DueSteps(w) :
                                /\ InOrder(written[w], DueSteps(w) \ {s})
                                /\ \A t \in DueSteps(w) \ {s} : Before(t, s)
                      /\ written[w] # <<>> => w \in meshed
    BY DEF WrittenAsConfigured
  <2> w \in Everywhere
    BY DEF StatedStores, Everywhere
  <2>1. InOrder(written[w], DueSteps(w) \ Late(w))
    BY DEF IInv, Complete
  <2>2. written[w] # <<>> => w \in meshed
    <3>1. w \in Stores /\ Types /\ Control
      BY DEF Everywhere, IInv
    <3>2. loc \in Unsolved => written[w] = <<>>
      BY <3>1 DEF Control, Untouched
    <3> QED BY <3>1, <3>2 DEF Control, Types
  <2>3. CASE Late(w) = {}
    <3>1. DueSteps(w) \ Late(w) = DueSteps(w)
      BY <2>3
    <3> QED BY <2>1, <2>2, <3>1
  <2>4. CASE Late(w) # {}
    <3>1. pending # <<>> /\ w \in pending[1].by /\ Late(w) = {pending[1].step}
      BY <2>4 DEF Late
    <3>2. PICK s \in StoredSteps :
            /\ pending = <<[step |-> s,
                            by |-> {v \in async \cap Stores : StepDue(v, s)}]>>
            /\ \A v \in Everywhere : \A t \in DueSteps(v) \ {s} : Before(t, s)
      BY <3>1 DEF IInv, Handed
    <3>3. s = pending[1].step /\ w \in async /\ s \in DueSteps(w)
      BY <3>1, <3>2 DEF DueSteps
    <3>4. InOrder(written[w], DueSteps(w) \ {s})
      BY <2>1, <3>1, <3>3
    <3> QED BY <2>2, <3>1, <3>2, <3>3, <3>4
  <2> QED BY <2>3, <2>4
<1> QED BY <1>1, Invariance, PTL

\* Destroying the stores waits for the executor thread: each of them then has
\* all the steps of its frequency.
THEOREM NothingDroppedHolds == Spec => NothingDropped
<1>1. IInv /\ [Next]_vars =>
        (loc' = "destroyed" =>
            \A w \in StatedStores : InOrder(written'[w], DueSteps(w)))
        \/ UNCHANGED vars
  <2> SUFFICES ASSUME IInv, [Next]_vars, loc' = "destroyed", ~UNCHANGED vars,
                      NEW w \in StatedStores
               PROVE  InOrder(written'[w], DueSteps(w))
    OBVIOUS
  <2> w \in Everywhere
    BY DEF StatedStores, Everywhere
  <2>1. loc # "destroyed"
    BY DEF IInv, Control
  <2>2. Destroy
    BY <2>1 DEF Next, Main, Create, Refuse, UpdateMesh, SolveStep, StoreSolution,
                Exec, Ended
  <2>3. Late(w) = {} /\ written' = written
    BY <2>2 DEF Destroy, Late
  <2>4. DueSteps(w) \ Late(w) = DueSteps(w) /\ InOrder(written[w], DueSteps(w) \ Late(w))
    BY <2>3 DEF IInv, Complete
  <2> QED BY <2>3, <2>4
<1> QED BY <1>1, Invariance, PTL DEF Spec, NothingDropped
=============================================================================
