------------------------------- MODULE Circuit -------------------------------
(***************************************************************************)
(* The circuit model of the workbench, as pure operators: operations and   *)
(* circuits, the edits of circuit-model.ts, the validation of              *)
(* circuit-validation.ts, the gate catalog, and the two ends of a          *)
(* submission: the payload the workbench builds and the one the server     *)
(* accepts.  A circuit is [numQubits, operations]; the operations are a    *)
(* sequence sorted by layer and id, as normalizeCircuit leaves them.       *)
(* Qubits and layers count from 0.  An angle is a number of eighth turns   *)
(* (units of pi/4).                                                        *)
(***************************************************************************)
EXTENDS Integers, Sequences, FiniteSets, SequencesExt, Subsequences

OneQubitGates == {"i", "x", "y", "z", "h", "sx", "sy", "s", "sdg", "t", "tdg", "m"}
Rotations     == {"rx", "ry", "rz", "p"}
Controlled    == {"cx", "cy", "ch", "cz", "cp"}
Entangling    == {"rxx", "ryy", "rzz", "rzx"}
Gates == OneQubitGates \cup Rotations \cup Controlled \cup Entangling
           \cup {"u", "ccx", "ccz", "swap", "cswap"}

\* The catalog: how many controls, targets and parameters a gate is placed with.
ControlCount(g) == IF g \in {"ccx", "ccz"} THEN 2
                   ELSE IF g \in Controlled \cup {"cswap"} THEN 1 ELSE 0
TargetCount(g)  == IF g \in Entangling \cup {"swap", "cswap"} THEN 2 ELSE 1
DefaultParams(g) == IF g = "u" THEN <<0, 0, 0>>
                    ELSE IF g \in Rotations \cup Entangling \cup {"cp"} THEN <<0>>
                    ELSE <<>>
IsParameterized(g) == DefaultParams(g) # <<>>

Operation(id, gate, layer, controls, targets, params) ==
    [id |-> id, gate |-> gate, layer |-> layer,
     controls |-> controls, targets |-> targets, params |-> params]

NotFinite == 10000   \* what is no number; no operation has it for an angle
FiniteAngles == Int \ {NotFinite}
Operations == [id : Int, gate : Gates, layer : Int,
               controls : Seq(Nat), targets : Seq(Nat), params : Seq(FiniteAngles)]

Touched(op)  == ToSet(op.targets) \cup ToSet(op.controls)
Lowest(op)   == CHOOSE q \in Touched(op) : \A r \in Touched(op) : q <= r
Highest(op)  == CHOOSE q \in Touched(op) : \A r \in Touched(op) : q >= r
IsMultiQubit(op) == Len(op.targets) + Len(op.controls) > 1

\* A multi-qubit operation also occupies the wires its connector crosses.
Occupied(op) == Lowest(op)..Highest(op)

ShiftQubits(qubits, delta) == [i \in DOMAIN qubits |-> qubits[i] + delta]
OutOfRange(qubits, n) == \E q \in qubits : q < 0 \/ q >= n

Ops(c) == ToSet(c.operations)
OperationAt(c, q, l) ==
    {op \in Ops(c) : op.layer = l /\ q \in Touched(op)}
ConnectorAt(c, q, l) ==
    {op \in Ops(c) : op.layer = l /\ IsMultiQubit(op) /\ q \in Occupied(op)}
Named(c, id) == {op \in Ops(c) : op.id = id}

-----------------------------------------------------------------------------
Precedes(a, b) == a.layer < b.layer \/ (a.layer = b.layer /\ a.id < b.id)

\* Insertion keeps the list sorted: no edit but a shift of layers moves an
\* operation that stays, and a shift keeps the order.
Inserted(ops, op) ==
    LET before == {o \in ToSet(ops) : Precedes(o, op)}
    IN  Append(Among(ops, before), op) \o Among(ops, ToSet(ops) \ before)
WithOperations(c, ops) == [c EXCEPT !.operations = ops]

CreateCircuit(n) == [numQubits |-> n, operations |-> <<>>]

AddOperation(c, op) == WithOperations(c, Inserted(c.operations, op))

RemoveOperation(c, id) ==
    WithOperations(c, Among(c.operations, Ops(c) \ Named(c, id)))

UpdateOperation(c, op) == AddOperation(RemoveOperation(c, op.id), op)

ShiftLayers(c, from, delta) ==
    WithOperations(c, [i \in DOMAIN c.operations |->
        LET op == c.operations[i]
        IN  IF op.layer >= from THEN [op EXCEPT !.layer = @ + delta] ELSE op])

InsertColumnsBefore(c, before, count) == ShiftLayers(c, before, count)

ColumnsEmpty(c, first, before) ==
    \A op \in Ops(c) : ~(op.layer >= first /\ op.layer < before)

CanDeleteColumns(c, before, count) ==
    before - count >= 0 /\ ColumnsEmpty(c, before - count, before)

DeleteEmptyColumnsBefore(c, before, count) == ShiftLayers(c, before, -count)

CircuitDepth(c) ==
    IF c.operations = <<>> THEN 0 ELSE Last(c.operations).layer + 1

\* Faulty variant: the last qubit may go while it is in use.
CanDecreaseUsed(c, min) ==
    c.numQubits > min /\ \A op \in Ops(c) : \A q \in Touched(op) : q < c.numQubits

CanIncrease(c, max) == c.numQubits < max
CanDecrease(c, min) ==
    /\ c.numQubits > min
    /\ \A op \in Ops(c) : \A q \in Touched(op) : q < c.numQubits - 1

-----------------------------------------------------------------------------
\* validateCircuitModel.  It never looks whether a qubit is within numQubits.
RepeatsQubit(op) == Cardinality(Touched(op)) # Len(op.targets) + Len(op.controls)

Conflict(a, b) == a.id # b.id /\ a.layer = b.layer /\ Occupied(a) \cap Occupied(b) # {}

\* Faulty variant: gates in the layer of the measurement pass.
FollowsMeasurementLater(c, op) ==
    op.gate # "m" /\ \E m \in Ops(c) : m.gate = "m" /\ op.layer > m.layer

FollowsMeasurement(c, op) ==
    op.gate # "m" /\ \E m \in Ops(c) : m.gate = "m" /\ op.layer >= m.layer

Validates(c) ==
    /\ \A op \in Ops(c) : ~RepeatsQubit(op) /\ ~FollowsMeasurement(c, op)
    /\ \A a, b \in Ops(c) : ~Conflict(a, b)

\* A circuit as the workbench makes them: the counts of the catalog, one
\* operation per wire and layer, none after a measurement, sorted.
FitsCatalog(op) ==
    /\ Len(op.controls) = ControlCount(op.gate) /\ Len(op.targets) = TargetCount(op.gate)
    /\ Len(op.params) = Len(DefaultParams(op.gate))
IsCircuit(c) ==
    /\ c \in [numQubits : Nat, operations : Seq(Operations)]
    /\ \A op \in Ops(c) : FitsCatalog(op)

Arranged(ops) == \A i, j \in DOMAIN ops :
    i < j => ops[i].layer <= ops[j].layer /\ ops[i].id # ops[j].id
WellFormed(c) ==
    /\ \A a, b \in Ops(c) : a # b /\ a.layer = b.layer => Occupied(a) \cap Occupied(b) = {}
    /\ \A op \in Ops(c) :
          /\ Cardinality(Touched(op)) = Len(op.targets) + Len(op.controls)
          /\ (\E m \in Ops(c) : m.gate = "m" /\ m.layer <= op.layer) => op.gate = "m"
    /\ Arranged(c.operations)
Sound(c) == IsCircuit(c) /\ WellFormed(c)

InRegister(c) == c.numQubits > 0 /\ \A op \in Ops(c) : ~OutOfRange(Touched(op), c.numQubits)

\* What two circuits that the history takes for the same one agree in.
Layout(c) == <<c.numQubits,
    [i \in DOMAIN c.operations |-> [c.operations[i] EXCEPT !.id = 0]]>>

-----------------------------------------------------------------------------
\* The body of a task: normalizeOperation throws unless the counts fit, and
\* leaves out what the gate does not have.
Buildable(op) ==
    /\ Len(op.targets) = TargetCount(op.gate)
    /\ ControlCount(op.gate) > 0 => Len(op.controls) = ControlCount(op.gate)
    /\ IsParameterized(op.gate) => Len(op.params) = Len(DefaultParams(op.gate))

PayloadOf(c) ==
    [num_qubits |-> c.numQubits,
     operations |-> [i \in DOMAIN c.operations |->
        LET op == c.operations[i]
        IN  [gate |-> op.gate, targets |-> op.targets,
             controls |-> IF ControlCount(op.gate) = 0 THEN <<>> ELSE op.controls,
             params |-> IF IsParameterized(op.gate) THEN op.params ELSE <<>>]]]

\* The server's circuit_payload.py, with its own idea of the gates.
SingleQubitGates   == {"i", "x", "y", "z", "h", "sx", "sy", "s", "sdg", "t", "tdg", "m"}
ParameterizedGates == {"rx", "ry", "rz", "u", "p", "rxx", "ryy", "rzz", "rzx"}
ControlledGates    == {"cx", "cy", "ch", "cp", "cz"}
SupportedGates == SingleQubitGates \cup ParameterizedGates \cup ControlledGates
                    \cup {"swap", "cswap", "ccx", "ccz"}

InRange(qubits, n) == \A i \in DOMAIN qubits : qubits[i] >= 0 /\ qubits[i] < n

AcceptsOperation(op, n) ==
    LET g == op.gate IN
    /\ g \in SupportedGates
    /\ Len(op.targets) = IF g \in {"swap", "rxx", "ryy", "rzz", "rzx", "cswap"} THEN 2 ELSE 1
    /\ InRange(op.targets, n)
    /\ g \in ControlledGates \cup {"cswap"} => Len(op.controls) = 1 /\ InRange(op.controls, n)
    /\ g \in {"ccx", "ccz"} => Len(op.controls) = 2 /\ InRange(op.controls, n)
    /\ g \in {"rx", "ry", "rz", "p", "cp", "rxx", "ryy", "rzz", "rzx"} => Len(op.params) = 1
    /\ g = "u" => Len(op.params) = 3

ServerAccepts(payload) ==
    /\ payload.num_qubits > 0
    /\ \A i \in DOMAIN payload.operations :
          AcceptsOperation(payload.operations[i], payload.num_qubits)
==============================================================================
