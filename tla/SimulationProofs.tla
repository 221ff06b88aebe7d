--------------------------- MODULE SimulationProofs ---------------------------
(***************************************************************************)
(* Proofs about Simulation: that the panel never waits in vain, and that   *)
(* what it shows was computed from the circuit on the canvas, all of it    *)
(* once the last step is shown, whichever answers came late, for all       *)
(* circuits and any number of changes.                                     *)
(***************************************************************************)
EXTENDS Simulation, FunctionTheorems, FiniteSetTheorems, TLAPS

IsRun(r) == r \in [version : {r.version}, model : {r.model}, timedOut : BOOLEAN]

\* Requests are numbered in order; only the last one is pending, and only
\* the last one is waited for.
Numbered ==
    /\ version \in Nat /\ awaited \in {0, version}
    /\ pending # NoRequest => pending.version = version /\ version > 0
    /\ \A r \in runs : IsRun(r) /\ r.version \in 1 .. version /\ r.timedOut \in BOOLEAN

\* The request waited for is about the circuit on the canvas.
AwaitedIsDisplayed ==
    /\ pending # NoRequest /\ pending.version = awaited => pending.model = displayed
    /\ \A r \in runs : r.version = awaited => r.model = displayed

\* A result on show was computed from the circuit on the canvas, whatever
\* timed out, was superseded or answers late (useWorkbenchSimulation); that
\* the computation means what it should is TLC's part of ShownIsCurrent.
ShownIsComputed == state = "READY" => view = ViewOf(displayed)

\* The editor shows one of the session's circuits, up to one of its steps.
Displayed ==
    /\ session \in Sessions /\ circuit \in session.circuits /\ step \in 0 .. Len(circuit.operations)
    /\ state \in {"RUNNING", "READY", "ERROR"} /\ changes \in 0 .. session.changes

\* No two requests have one version, and the pending one is younger than
\* those computed.
Distinct ==
    /\ IsFiniteSet(runs)
    /\ \A q, r \in runs : q.version = r.version => q = r
    /\ pending # NoRequest => \A r \in runs : r.version # version

SimulationInv ==
    Numbered /\ RunningIsAwaited /\ AwaitedIsDisplayed /\ ShownIsComputed /\ Displayed /\ Distinct

(***************************************************************************)
(* A run that timed out is the same run otherwise.                         *)
(***************************************************************************)
LEMMA TimedOutRun ==
    ASSUME NEW r, IsRun(r)
    PROVE  LET late == [r EXCEPT !.timedOut = TRUE]
           IN  IsRun(late) /\ late.version = r.version /\ late.model = r.model /\ late.timedOut = TRUE
<1> DEFINE late == [r EXCEPT !.timedOut = TRUE]
<1>1. late \in [version : {r.version}, model : {r.model}, timedOut : BOOLEAN] /\ late.timedOut = TRUE
  BY DEF IsRun
<1> HIDE DEF late
<1> QED BY <1>1 DEF IsRun

LEMMA NewRun ==
    ASSUME NEW request, NEW b \in BOOLEAN
    PROVE  /\ IsRun(Run(request, b)) /\ Run(request, b).version = request.version
           /\ Run(request, b).model = request.model /\ Run(request, b).timedOut = b
BY DEF Run, IsRun

LEMMA InitiallyTrue == Init => SimulationInv
<1> SUFFICES ASSUME Init PROVE SimulationInv
  OBVIOUS
<1>1. /\ version = 1 /\ awaited = 1 /\ runs = {} /\ state = "RUNNING"
      /\ pending = [version |-> 1, model |-> displayed]
  BY DEF Init
<1>2. pending.version = 1 /\ pending.model = displayed /\ pending # NoRequest
  <2>1. NoRequest.version = 0
    BY DEF NoRequest
  <2> QED BY <1>1, <2>1
<1>3. Displayed
  <2>1. /\ session \in Sessions /\ circuit = session.start /\ step = Len(circuit.operations)
        /\ state = "RUNNING" /\ changes = session.changes
    BY DEF Init
  <2>2. circuit \in session.circuits /\ session.changes \in Nat /\ circuit.operations \in Seq(Ops(circuit))
    BY <2>1, SessionsAssumption
  <2>3. Len(circuit.operations) \in Nat
    BY <2>2
  <2> QED BY <2>1, <2>2, <2>3 DEF Displayed
<1>4. Distinct
  BY <1>1, FS_EmptySet DEF Distinct
<1> QED BY <1>1, <1>2, <1>3, <1>4
     DEF SimulationInv, Numbered, RunningIsAwaited, AwaitedIsDisplayed, ShownIsComputed

(***************************************************************************)
(* The canvas changes: the new request is awaited, or none is.             *)
(***************************************************************************)
LEMMA ChangeStep ==
    ASSUME SimulationInv, NEW c \in session.circuits, NEW s \in 0 .. Len(c.operations), Show(c, s)
    PROVE  SimulationInv'
<1> USE DEF SimulationInv
<1>1. displayed' = Slice(c, s)
  BY DEF Show, displayed
<1>3. Displayed'
  <2>1. /\ session' = session /\ circuit' = c /\ step' = s
        /\ changes > 0 /\ changes' = changes - 1 /\ state' \in {"RUNNING", "ERROR"}
    BY DEF Show, Effect, Fails
  <2>2. session.changes \in Nat
    BY SessionsAssumption DEF Displayed
  <2> QED BY <2>1, <2>2 DEF Displayed
<1>2. CASE Simulatable(Slice(c, s))
  <2>1. /\ version' = version + 1 /\ awaited' = version' /\ state' = "RUNNING" /\ runs' = runs
        /\ pending' = [version |-> version', model |-> Slice(c, s)]
    BY <1>2 DEF Show, Effect
  <2>2. version' \in Nat /\ version' > version /\ version' > 0
    BY <2>1 DEF Numbered
  <2>3. pending'.version = version' /\ pending'.model = displayed' /\ pending' # NoRequest
    <3>1. NoRequest.version = 0
      BY DEF NoRequest
    <3> QED BY <1>1, <2>1, <2>2, <3>1
  <2>4. \A r \in runs : IsRun(r) /\ r.version \in 1 .. version' /\ r.timedOut \in BOOLEAN /\ r.version # version'
    BY <2>1 DEF Numbered
  <2>5. Numbered'
    BY <2>1, <2>2, <2>3, <2>4 DEF Numbered, IsRun
  <2>6. RunningIsAwaited'
    BY <2>1, <2>3 DEF RunningIsAwaited
  <2>7. AwaitedIsDisplayed'
    BY <2>1, <2>3, <2>4 DEF AwaitedIsDisplayed
  <2>8. ShownIsComputed'
    BY <2>1 DEF ShownIsComputed
  <2>9. Distinct'
    BY <2>1, <2>4 DEF Distinct
  <2> QED BY <1>3, <2>5, <2>6, <2>7, <2>8, <2>9
<1>4. CASE ~Simulatable(Slice(c, s))
  <2>1. awaited' = 0 /\ state' = "ERROR" /\ UNCHANGED scheduler
    BY <1>4 DEF Show, Effect, Fails
  <2>2. UNCHANGED <<version, pending, runs>>
    BY <2>1 DEF scheduler
  <2>3. Numbered'
    BY <2>1, <2>2 DEF Numbered, IsRun
  <2>4. RunningIsAwaited' /\ ShownIsComputed'
    BY <2>1 DEF RunningIsAwaited, ShownIsComputed
  <2>5. AwaitedIsDisplayed'
    BY <2>1, <2>2 DEF AwaitedIsDisplayed, Numbered
  <2>6. Distinct'
    BY <2>2 DEF Distinct
  <2> QED BY <1>3, <2>3, <2>4, <2>5, <2>6
<1> QED BY <1>2, <1>4

\* Steps of the scheduler leave the canvas alone.
LEMMA SameDisplayed == UNCHANGED <<circuit, step>> => displayed' = displayed
BY DEF displayed

LEMMA TimerStep ==
    ASSUME SimulationInv, TimerFires
    PROVE  SimulationInv'
<1> USE DEF SimulationInv
<1>1. /\ pending # NoRequest /\ pending' = NoRequest /\ runs' = runs \cup {Run(pending, FALSE)}
      /\ UNCHANGED <<awaited, version, state, view>> /\ displayed' = displayed
  BY SameDisplayed DEF TimerFires, shown
<1> DEFINE new == Run(pending, FALSE)
<1>2. IsRun(new) /\ new.version = pending.version /\ new.model = pending.model /\ new.timedOut = FALSE
  BY NewRun
<1> HIDE DEF new
<1>3. Numbered'
  <2>1. new.version \in 1 .. version
    BY <1>1, <1>2 DEF Numbered
  <2>2. new.timedOut \in BOOLEAN
    BY <1>2 DEF IsRun
  <2>3. \A r \in runs' : IsRun(r) /\ r.version \in 1 .. version /\ r.timedOut \in BOOLEAN
    BY <1>1, <1>2, <2>1, <2>2 DEF Numbered, new
  <2> QED BY <1>1, <2>3 DEF Numbered, IsRun
<1>4. RunningIsAwaited'
  BY <1>1, <1>2 DEF RunningIsAwaited, new
<1>5. AwaitedIsDisplayed' /\ ShownIsComputed'
  BY <1>1, <1>2 DEF AwaitedIsDisplayed, ShownIsComputed, new
<1>6. Displayed'
  <2>1. UNCHANGED <<session, circuit, step, state, changes>>
    BY DEF TimerFires, shown
  <2> QED BY <2>1 DEF Displayed
<1>7. Distinct'
  <2>1. new.version = version /\ \A r \in runs : r.version # version
    BY <1>1, <1>2 DEF Numbered, Distinct
  <2>2. IsFiniteSet(runs \cup {new})
    BY FS_AddElement DEF Distinct
  <2>3. runs' = runs \cup {new} /\ pending' = NoRequest
    BY <1>1 DEF new
  <2>4. \A q, r \in runs' : q.version = r.version => q = r
    BY <2>1, <2>3 DEF Distinct
  <2> QED BY <2>2, <2>3, <2>4 DEF Distinct
<1> QED BY <1>3, <1>4, <1>5, <1>6, <1>7

(***************************************************************************)
(* A run is given up, answers or fails.  If it is the one waited for, the  *)
(* panel no longer waits; otherwise that one is still there.               *)
(***************************************************************************)
LEMMA RunStep ==
    ASSUME SimulationInv, NEW r \in runs, Timeout(r) \/ WorkerAnswers(r) \/ WorkerFails(r)
    PROVE  SimulationInv'
<1> USE DEF SimulationInv
<1>1. UNCHANGED <<awaited, version, pending>> /\ displayed' = displayed
  BY SameDisplayed DEF Timeout, WorkerAnswers, WorkerFails
<1>2. IsRun(r) /\ r.version \in 1 .. version /\ r.timedOut \in BOOLEAN
  BY DEF Numbered
<1>3. /\ \A q \in runs' : IsRun(q) /\ q.version \in 1 .. version /\ q.timedOut \in BOOLEAN
                          /\ (q.version = awaited => q.model = displayed)
      /\ \A q \in runs : q # r => q \in runs'
  <2>1. CASE Timeout(r)
    <3> DEFINE late == [r EXCEPT !.timedOut = TRUE]
    <3>1. IsRun(late) /\ late.version = r.version /\ late.model = r.model /\ late.timedOut = TRUE
      BY <1>2, TimedOutRun
    <3>2. runs' = (runs \ {r}) \cup {late}
      BY <2>1 DEF Timeout
    <3> HIDE DEF late
    <3> QED BY <1>2, <3>1, <3>2 DEF Numbered, AwaitedIsDisplayed
  <2>2. CASE WorkerAnswers(r) \/ WorkerFails(r)
    <3>1. runs' = runs \ {r}
      BY <2>2 DEF WorkerAnswers, WorkerFails
    <3> QED BY <3>1 DEF Numbered, AwaitedIsDisplayed
  <2> QED BY <2>1, <2>2
<1>4. Numbered'
  BY <1>1, <1>3 DEF Numbered, IsRun
<1>5. AwaitedIsDisplayed'
  BY <1>1, <1>3 DEF AwaitedIsDisplayed
<1>8. Displayed'
  <2>1. UNCHANGED <<session, circuit, step, changes>> /\ (state' = state \/ state' \in {"READY", "ERROR"})
    BY DEF Timeout, WorkerAnswers, WorkerFails, shown, Fails
  <2> QED BY <2>1 DEF Displayed
<1>9. Distinct'
  <2>1. IsFiniteSet(runs \ {r})
    BY FS_RemoveElement DEF Distinct
  <2>2. CASE Timeout(r)
    <3> DEFINE late == [r EXCEPT !.timedOut = TRUE]
    <3>1. late.version = r.version
      BY <1>2, TimedOutRun
    <3>2. runs' = (runs \ {r}) \cup {late}
      BY <2>2 DEF Timeout
    <3> HIDE DEF late
    <3>3. IsFiniteSet(runs')
      BY <2>1, <3>2, FS_AddElement
    <3>4. \A q \in runs \ {r} : q.version # late.version
      BY <3>1 DEF Distinct
    <3>5. \A p, q \in runs' : p.version = q.version => p = q
      BY <3>2, <3>4 DEF Distinct
    <3>6. pending # NoRequest => \A q \in runs' : q.version # version
      BY <3>1, <3>2 DEF Distinct
    <3> QED BY <1>1, <3>3, <3>5, <3>6 DEF Distinct
  <2>3. CASE WorkerAnswers(r) \/ WorkerFails(r)
    <3>1. runs' = runs \ {r}
      BY <2>3 DEF WorkerAnswers, WorkerFails
    <3> QED BY <1>1, <2>1, <3>1 DEF Distinct
  <2> QED BY <2>2, <2>3
<1>6. CASE r.version = awaited /\ ~r.timedOut
  <2>1. r.version = version
    BY <1>2, <1>6 DEF Numbered
  <2>2. state' = "ERROR" \/ (state' = "READY" /\ view' = ViewOf(r.model))
    BY <1>6, <2>1 DEF Timeout, WorkerAnswers, WorkerFails, Fails
  <2>3. r.model = displayed
    BY <1>6 DEF AwaitedIsDisplayed
  <2>4. RunningIsAwaited' /\ ShownIsComputed'
    BY <1>1, <2>2, <2>3 DEF RunningIsAwaited, ShownIsComputed
  <2> QED BY <1>4, <1>5, <1>8, <1>9, <2>4
<1>7. CASE ~(r.version = awaited /\ ~r.timedOut)
  <2>1. UNCHANGED <<state, view>>
    BY <1>2, <1>7 DEF Timeout, WorkerAnswers, WorkerFails, shown
  <2>2. RunningIsAwaited'
    BY <1>1, <1>3, <1>7, <2>1 DEF RunningIsAwaited
  <2>3. ShownIsComputed'
    BY <1>1, <2>1 DEF ShownIsComputed
  <2> QED BY <1>4, <1>5, <1>8, <1>9, <2>2, <2>3
<1> QED BY <1>6, <1>7

LEMMA Inductive == SimulationInv /\ [Next]_vars => SimulationInv'
<1> SUFFICES ASSUME SimulationInv, [Next]_vars PROVE SimulationInv'
  OBVIOUS
<1>1. CASE ShowsAnother
  BY <1>1, ChangeStep DEF ShowsAnother
<1>2. CASE TimerFires
  BY <1>2, TimerStep
<1>3. CASE \E r \in runs : Timeout(r) \/ WorkerAnswers(r) \/ WorkerFails(r)
  BY <1>3, RunStep
<1>4. CASE UNCHANGED vars
  <2>1. UNCHANGED <<circuit, step, state, view, awaited, version, pending, runs>> /\ displayed' = displayed
    BY <1>4, SameDisplayed DEF vars, shown, scheduler
  <2>2. Displayed' /\ Distinct'
    BY <1>4 DEF SimulationInv, Displayed, Distinct, vars, shown, scheduler
  <2> QED BY <2>1, <2>2
       DEF SimulationInv, Numbered, RunningIsAwaited, AwaitedIsDisplayed, ShownIsComputed, IsRun
<1> QED BY <1>1, <1>2, <1>3, <1>4 DEF Next

LEMMA SimulationInvariant == Spec => []SimulationInv
BY InitiallyTrue, Inductive, PTL DEF Spec

(***************************************************************************)
(* A running panel always waits for a request that is pending or computed  *)
(* and not given up, for all circuits and any number of changes            *)
(* (createSimulationScheduler, useWorkbenchSimulation).                    *)
(***************************************************************************)
THEOREM PanelNeverWaitsInVain == Spec => []RunningIsAwaited
<1>1. SimulationInv => RunningIsAwaited
  BY DEF SimulationInv
<1> QED BY <1>1, SimulationInvariant, PTL

(***************************************************************************)
(* What the panel shows was computed from the circuit on the canvas, for   *)
(* all circuits and any number of changes.                                 *)
(***************************************************************************)
THEOREM PanelShowsTheCanvas == Spec => []ShownIsComputed
<1>1. SimulationInv => ShownIsComputed
  BY DEF SimulationInv
<1> QED BY <1>1, SimulationInvariant, PTL

(***************************************************************************)
(* There are as many requests as there are versions under way.             *)
(***************************************************************************)
LEMMA RequestsCounted ==
    ASSUME SimulationInv
    PROVE  Cardinality(Requests) = Cardinality(runs) + IF pending = NoRequest THEN 0 ELSE 1
<1> USE DEF SimulationInv
<1> DEFINE computed == {r.version : r \in runs}
           versionOf == [r \in runs |-> r.version]
<1>1. versionOf \in Bijection(runs, computed)
  <2>1. versionOf \in [runs -> computed]
    OBVIOUS
  <2>2. \A q, r \in runs : versionOf[q] = versionOf[r] => q = r
    BY DEF Distinct
  <2>3. \A v \in computed : \E r \in runs : versionOf[r] = v
    OBVIOUS
  <2> HIDE DEF computed, versionOf
  <2> QED BY <2>1, <2>2, <2>3, Fun_IsBij
<1>2. IsFiniteSet(computed) /\ Cardinality(computed) = Cardinality(runs)
  <2>1. ExistsBijection(runs, computed)
    BY <1>1 DEF ExistsBijection
  <2> QED BY <2>1, FS_Bijection DEF Distinct
<1>3. CASE pending = NoRequest
  <2>1. Requests = computed
    BY <1>3 DEF Requests
  <2>2. Cardinality(runs) \in Nat
    BY FS_CardinalityType DEF Distinct
  <2> QED BY <1>2, <1>3, <2>1, <2>2
<1>4. CASE pending # NoRequest
  <2>1. pending.version \notin computed
    BY <1>4 DEF Distinct, Numbered
  <2>2. Requests = computed \cup {pending.version}
    BY <1>4 DEF Requests
  <2> HIDE DEF computed
  <2>3. Cardinality(Requests) = Cardinality(computed) + 1
    BY <1>2, <2>1, <2>2, FS_AddElement
  <2> QED BY <1>2, <1>4, <2>3
<1> QED BY <1>3, <1>4

(***************************************************************************)
(* The state of the panel and its scheduler stays well formed, and no two  *)
(* requests under way have one version, for all circuits and any number of *)
(* changes (createSimulationScheduler).                                    *)
(***************************************************************************)
THEOREM TypeCorrect == Spec => []TypeOK
<1>1. SimulationInv => TypeOK
  <2> SUFFICES ASSUME SimulationInv PROVE TypeOK
    OBVIOUS
  <2>1. Requests \subseteq 1 .. version /\ awaited \in {0, version}
    BY DEF SimulationInv, Numbered, Requests
  <2> QED BY <2>1, RequestsCounted DEF TypeOK, SimulationInv, Displayed
<1> QED BY <1>1, SimulationInvariant, PTL

(***************************************************************************)
(* Once the step is at the end of the circuit, what is shown was computed  *)
(* from the whole of it, which is what the workbench submits and prints    *)
(* (sliceCircuitBySimulationStep): the slice loses no operation.           *)
(***************************************************************************)
WholeIsShown == Complete => view = ViewOf(circuit)

\* A slice up to the last operation is the circuit itself.
LEMMA WholeSlice ==
    ASSUME NEW S, NEW c \in [numQubits : Nat, operations : Seq(S)]
    PROVE  Slice(c, Len(c.operations)) = c
<1>1. \A q \in Seq(S) : SubSeq(q, 1, Len(q)) = q
  OBVIOUS
<1>2. SubSeq(c.operations, 1, Len(c.operations)) = c.operations
  BY <1>1
<1>3. [c EXCEPT !.operations = c.operations] = c
  OBVIOUS
<1> QED BY <1>2, <1>3, Zenon DEF Slice, WithOperations

(***************************************************************************)
(* At the last step the panel shows the outcome of the circuit that is     *)
(* submitted, whatever steps, edits and answers came before                *)
(* (useWorkbenchSimulation, sliceCircuitBySimulationStep).                 *)
(***************************************************************************)
THEOREM PanelShowsTheWhole == Spec => []WholeIsShown
<1>1. SimulationInv => WholeIsShown
  <2> SUFFICES ASSUME SimulationInv, Complete PROVE view = ViewOf(circuit)
    BY DEF WholeIsShown
  <2>1. circuit \in [numQubits : Nat, operations : Seq(Ops(circuit))]
    BY SessionsAssumption DEF SimulationInv, Displayed
  <2>2. displayed = circuit
    BY <2>1, WholeSlice DEF displayed, Complete
  <2>3. view = ViewOf(displayed)
    BY DEF Complete, SimulationInv, ShownIsComputed
  <2> QED BY <2>2, <2>3
<1> QED BY <1>1, SimulationInvariant, PTL

===============================================================================
