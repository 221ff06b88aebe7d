------------------------------ MODULE Simulation ------------------------------
(***************************************************************************)
(* The workbench's live simulation.  Whenever the circuit up to the time   *)
(* step changes, an effect of use-workbench-simulation.ts asks the         *)
(* scheduler for its distribution: after 200 ms without another change a   *)
(* worker of its own computes it, and is given up after a second, though   *)
(* not stopped.  The answers come in any order and the panel must show     *)
(* none but that of the circuit on the canvas.                             *)
(***************************************************************************)
EXTENDS CircuitSimulation

CONSTANTS
    Sessions,       \* bound: the circuits at hand, and how often one changes
    MaxSimulated    \* LOCAL_SIM_MAX_QUBITS

ASSUME SessionsAssumption == \A s \in Sessions :
    /\ s.start \in s.circuits /\ s.changes \in Nat /\ s.stepping \in BOOLEAN
    /\ \A c \in s.circuits : c \in [numQubits : Nat, operations : Seq(Ops(c))]
ASSUME MaxSimulatedAssumption == MaxSimulated \in Nat \ {0}

MaxDepth == 200
MaxGates == 1000

VARIABLES
    session,
    circuit, step,  \* the editor's present circuit and time step
    state, view,    \* simulationState and probabilityView (and blochVectors)
    awaited,        \* the version the effect of this circuit waits for, or 0
    version,        \* of the last request
    pending,        \* the request whose timer runs
    runs,           \* the requests in a worker
    changes         \* changes left

shown     == <<state, view>>
scheduler == <<version, pending, runs>>
vars == <<session, circuit, step, shown, awaited, scheduler, changes>>

NoView == [probabilities |-> [k |-> 0, of |-> <<>>], visible |-> {}, bloch |-> [k |-> 0, of |-> <<>>]]
NoRequest == [version |-> 0, model |-> CreateCircuit(0)]
Run(request, timedOut) ==
    [version |-> request.version, model |-> request.model, timedOut |-> timedOut]

\* sliceCircuitBySimulationStep: the operations are sorted already.
Slice(c, s) == WithOperations(c, SubSeq(c.operations, 1, s))
displayed == Slice(circuit, step)

WithinLimits(c) == CircuitDepth(c) <= MaxDepth /\ Len(c.operations) <= MaxGates
Simulatable(c) == Validates(c) /\ c.numQubits <= MaxSimulated /\ WithinLimits(c)

\* The numbers are exact here: a probability of just 1/2^(n+2) is hidden.
Epsilon(n, k) == (10000 * 2^k) \div 2^(n + 2)
FilterProbabilities(n, p) ==
    {b \in 0 .. Len(p.of) - 1 : Approximately(p.of[b + 1]) > Epsilon(n, p.k)}

ViewOf(c) ==
    LET final == SimulatedState(c)
        all   == Probabilities(final)
    IN  [probabilities |-> all, visible |-> FilterProbabilities(c.numQubits, all),
         bloch |-> BlochVectors(final, c.numQubits)]

-----------------------------------------------------------------------------
\* The effect: what it awaited before is cancelled, and the guards come
\* before the scheduler, which then still holds the request of another circuit.
Fails == state' = "ERROR" /\ view' = NoView

\* Faulty variant: what was awaited stays so, and may still be answered.
EffectUncancelled(c, s) ==
    LET model == Slice(c, s) IN
    IF Simulatable(model)
    THEN /\ version' = version + 1
         /\ awaited' = version'
         /\ pending' = [version |-> version', model |-> model]
         /\ state' = "RUNNING"
         /\ UNCHANGED <<runs, view>>
    ELSE Fails /\ UNCHANGED <<scheduler, awaited>>

\* Faulty variant: the scheduler cancels what is pending after its own request.
EffectCancelsOwn(c, s) ==
    LET model == Slice(c, s) IN
    IF Simulatable(model)
    THEN /\ version' = version + 1
         /\ awaited' = version'
         /\ pending' = NoRequest
         /\ state' = "RUNNING"
         /\ UNCHANGED <<runs, view>>
    ELSE awaited' = 0 /\ Fails /\ UNCHANGED scheduler

Effect(c, s) ==
    LET model == Slice(c, s) IN
    IF Simulatable(model)
    THEN /\ version' = version + 1
         /\ awaited' = version'
         /\ pending' = [version |-> version', model |-> model]
         /\ state' = "RUNNING"
         /\ UNCHANGED <<runs, view>>
    ELSE awaited' = 0 /\ Fails /\ UNCHANGED scheduler

Init ==
    /\ session \in Sessions
    /\ circuit = session.start /\ step = Len(circuit.operations)
    /\ version = 1 /\ awaited = 1 /\ runs = {}
    /\ pending = [version |-> 1, model |-> displayed]
    /\ state = "RUNNING" /\ view = NoView
    /\ changes = session.changes

Show(c, s) ==
    /\ changes > 0 /\ changes' = changes - 1
    /\ <<c, s>> # <<circuit, step>>
    /\ circuit' = c /\ step' = s
    /\ Effect(c, s)
    /\ UNCHANGED session

\* Faulty variant: the timer starts a worker but keeps the request pending.
TimerFiresAgain ==
    /\ pending # NoRequest
    /\ runs' = runs \cup {Run(pending, FALSE)}
    /\ UNCHANGED <<session, circuit, step, shown, awaited, version, pending, changes>>

TimerFires ==
    /\ pending # NoRequest
    /\ pending' = NoRequest
    /\ runs' = runs \cup {Run(pending, FALSE)}
    /\ UNCHANGED <<session, circuit, step, shown, awaited, version, changes>>

\* Faulty variant: the caller never hears of it.
TimeoutUnheard(r) ==
    /\ ~r.timedOut
    /\ runs' = (runs \ {r}) \cup {[r EXCEPT !.timedOut = TRUE]}
    /\ UNCHANGED <<session, circuit, step, shown, awaited, version, pending, changes>>

\* withTimeout: the caller hears of it, the worker goes on.
Timeout(r) ==
    /\ ~r.timedOut
    /\ runs' = (runs \ {r}) \cup {[r EXCEPT !.timedOut = TRUE]}
    /\ IF r.version = awaited THEN Fails ELSE UNCHANGED shown
    /\ UNCHANGED <<session, circuit, step, awaited, version, pending, changes>>

\* An answer counts unless it is late, superseded (SIM_STALE) or cancelled.
WorkerAnswers(r) ==
    /\ runs' = runs \ {r}
    /\ IF ~r.timedOut /\ r.version = version /\ r.version = awaited
       THEN state' = "READY" /\ view' = ViewOf(r.model)
       ELSE UNCHANGED shown
    /\ UNCHANGED <<session, circuit, step, awaited, version, pending, changes>>

\* The worker does not load, or breaks down.
WorkerFails(r) ==
    /\ runs' = runs \ {r}
    /\ IF ~r.timedOut /\ r.version = awaited THEN Fails ELSE UNCHANGED shown
    /\ UNCHANGED <<session, circuit, step, awaited, version, pending, changes>>

ShowsAnother ==
    \E c \in session.circuits : \E s \in 0 .. Len(c.operations) :
        (session.stepping \/ s = Len(c.operations)) /\ Show(c, s)

Next ==
    \/ ShowsAnother
    \/ TimerFires
    \/ \E r \in runs : Timeout(r) \/ WorkerAnswers(r) \/ WorkerFails(r)

\* The browser runs its timers; a worker need never answer.
Fairness == WF_vars(TimerFires) /\ WF_vars(\E r \in runs : Timeout(r))

Spec == Init /\ [][Next]_vars /\ Fairness

-----------------------------------------------------------------------------
Requests == (IF pending = NoRequest THEN {} ELSE {pending.version}) \cup {r.version : r \in runs}

\* The state is well formed, and no two requests have one version.
TypeOK ==
    /\ session \in Sessions /\ circuit \in session.circuits
    /\ step \in 0 .. Len(circuit.operations)
    /\ state \in {"RUNNING", "READY", "ERROR"}
    /\ Requests \subseteq 1..version /\ awaited \in {0, version}
    /\ Cardinality(Requests) = Cardinality(runs) + IF pending = NoRequest THEN 0 ELSE 1
    /\ changes \in 0 .. session.changes

\* A running panel is never left waiting for a request that is gone.
RunningIsAwaited ==
    state = "RUNNING" =>
        \/ pending # NoRequest /\ pending.version = awaited
        \/ \E r \in runs : r.version = awaited /\ ~r.timedOut

\* What a result of the circuit is: the distribution its gates mean, by the
\* definitions the palette shows, and the Bloch vectors of its final state.
Means(v, c) ==
    LET final == MeantState(c.numQubits, c.operations)
        Expected(name, q) == Expectation(final, name, q)
        Same(a, b) == Scaled(2^final.k, a) = Scaled(2^v.bloch.k, b)
    IN  /\ SameProbabilities(v.probabilities, Probabilities(final))
        /\ \A q \in 0 .. c.numQubits - 1 :
              LET vector == v.bloch.of[q + 1]
              IN  /\ Same(vector.x, Expected("X", q))
                  /\ Same(vector.y, Expected("Y", q))
                  /\ Same(vector.z, Expected("Z", q))

\* A result on show is that of the circuit on the canvas, whatever timed out,
\* was superseded or answers late.
ShownIsCurrent == state = "READY" => Means(view, displayed)

Complete == state = "READY" /\ step = Len(circuit.operations)

\* What the server computes for a submitted circuit is what the panel shows,
\* but for a u gate whose angles differ (workbench_u_gate).
Turns(op) == op.gate = "u" /\ op.params[2] # op.params[3]
SubmittedMeansShown ==
    Complete /\ (\A op \in Ops(circuit) : ~Turns(op)) =>
        SameProbabilities(ServerProbabilities(PayloadOf(circuit)), view.probabilities)

\* The same for every circuit and without the panel: the server computes what
\* the matrices in the palette's tooltips say.
SubmittedAsDefined ==
    SameProbabilities(ServerProbabilities(PayloadOf(circuit)), MeantProbabilities(circuit))

\* The text of a circuit, which the pane reads back and a project keeps, is
\* the text of a circuit with the same distribution, though gates the text
\* cannot name are spelt in others.
TextMeansCircuit ==
    Complete => LET read == FromQasm3(ToQasm3(circuit))
                IN  /\ read.ok
                    /\ SameProbabilities(SimulateCircuit(read.model), view.probabilities)

\* The templates compute what they are called after: a Bell pair, a uniform
\* superposition, the transform of |000>, and Grover's marked patterns.
Outcomes(name) ==
    CASE name = "bell" -> {0, 3}
      [] name \in {"superposition", "qft"} -> 0..7
      [] name = "grover" -> {FoldLeft(LAMBDA sum, q : sum + 2^(q - 1) * p[q], 0, <<1, 2, 3, 4>>) :
                                p \in ToSet(MarkedPatterns)}
TemplatesCompute ==
    \A name \in {"bell", "superposition", "qft", "grover"} :
        Complete /\ circuit = Template(name) =>
            LET p == view.probabilities IN
            \A b \in 0 .. Len(p.of) - 1 :
                Scaled(Cardinality(Outcomes(name)), p.of[b + 1]) =
                    IF b \in Outcomes(name) THEN Scaled(2^p.k, One) ELSE NoAmplitude

\* Once the circuit no longer changes the panel comes to rest, even if no
\* worker ever answers.
SimulationSettles == <>[](state # "RUNNING")
==============================================================================
