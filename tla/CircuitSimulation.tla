-------------------------- MODULE CircuitSimulation --------------------------
(***************************************************************************)
(* What a circuit computes, three times over: as the browser's simulation  *)
(* does it (simulation-core.ts, simulation-controlled.ts), as the server   *)
(* hands it to qibo (circuit_execution.py), and as the gates are defined,  *)
(* which the tooltips of the palette show (gate-matrix-preview.ts).        *)
(***************************************************************************)
EXTENDS Amplitudes, Qasm, Templates

\* A matrix: its coefficients, row by row, over sqrt(2)^k.
Matrix(k, m) == [k |-> k, m |-> m]
O == <<>>
I1 == <<0>>

MatrixForFixedGate(g) ==
    CASE g = "i"   -> Matrix(0, <<I1, O, O, I1>>)
      [] g = "x"   -> Matrix(0, <<O, I1, I1, O>>)
      [] g = "y"   -> Matrix(0, <<O, <<12>>, <<4>>, O>>)
      [] g = "z"   -> Matrix(0, <<I1, O, O, <<8>>>>)
      [] g = "h"   -> Matrix(1, <<I1, I1, I1, <<8>>>>)
      [] g = "sx"  -> Matrix(1, <<<<2>>, <<14>>, <<14>>, <<2>>>>)
      [] g = "sy"  -> Matrix(1, <<I1, <<8>>, I1, I1>>)
      [] g = "s"   -> Matrix(0, <<I1, O, O, <<4>>>>)
      [] g = "sdg" -> Matrix(0, <<I1, O, O, <<12>>>>)
      [] g = "t"   -> Matrix(0, <<I1, O, O, <<2>>>>)
      [] g = "tdg" -> Matrix(0, <<I1, O, O, <<14>>>>)

\* An angle of v has the half v pi/8.
MatrixForSingleQubitParamGate(g, v) ==
    LET c == Cos2(v[1])
        s == Sin2(v[1])
    IN CASE g = "rx" -> Matrix(2, <<c, Shifted(s, 12), Shifted(s, 12), c>>)
         [] g = "ry" -> Matrix(2, <<c, Minus(s), s, c>>)
         [] g = "rz" -> Matrix(0, <<<<-v[1]>>, O, O, <<v[1]>>>>)
         [] g = "u"  -> Matrix(2, <<c, Shifted(Minus(s), 2 * v[3]), Shifted(s, 2 * v[2]),
                                    Shifted(c, 2 * (v[2] + v[3]))>>)
         [] g = "p"  -> Matrix(0, <<I1, O, O, <<2 * v[1]>>>>)

MatrixForGate(g, v) ==
    IF g \in OneQubitGates THEN MatrixForFixedGate(g) ELSE MatrixForSingleQubitParamGate(g, v)

MatrixForTwoQubitGate(g, v) ==
    LET c == Cos2(v[1])
        s == Sin2(v[1])
        n == Shifted(s, 12)   \* -i sin
        p == Shifted(s, 4)    \*  i sin
        a == <<-v[1]>>
        b == <<v[1]>>
    IN CASE g = "rxx" -> Matrix(2, <<c, O, O, n,  O, c, n, O,  O, n, c, O,  n, O, O, c>>)
         [] g = "ryy" -> Matrix(2, <<c, O, O, p,  O, c, n, O,  O, n, c, O,  p, O, O, c>>)
         [] g = "rzz" -> Matrix(0, <<a, O, O, O,  O, b, O, O,  O, O, b, O,  O, O, O, a>>)
         [] g = "rzx" -> Matrix(2, <<c, n, O, O,  n, c, O, O,  O, O, c, p,  O, O, p, c>>)

CswapMatrix == Matrix(0, <<I1, O, O, O,  O, O, I1, O,  O, I1, O, O,  O, O, O, I1>>)

-----------------------------------------------------------------------------
\* The kernels of the simulation
\* Faulty variant: one control is enough.
IsControlActiveAny(b, controls) ==
    controls = <<>> \/ \E i \in DOMAIN controls : Bit(b, controls[i]) = 1

IsControlActive(b, controls) == \A i \in DOMAIN controls : Bit(b, controls[i]) = 1

\* A basis state off the controls keeps its amplitude; only the scale of the
\* others is that of the matrix, so it takes sqrt(2)^k along.
Kept(a, k) == IF k = 0 THEN a ELSE IF k = 1 THEN Times(a, <<2, -2>>) ELSE Scaled(2, a)

ApplyControlledSingleQubitMatrix(state, controls, target, matrix) ==
    Mapped(state, matrix.k, LAMBDA b :
        LET zero == Amp(state, b - 2^target * Bit(b, target))
            one  == Amp(state, b + 2^target * (1 - Bit(b, target)))
            row  == 2 * Bit(b, target)
        IN  IF ~IsControlActive(b, controls) THEN Kept(Amp(state, b), matrix.k)
            ELSE Plus(Times(zero, matrix.m[row + 1]), Times(one, matrix.m[row + 2])))

ApplySingleQubitMatrix(state, target, matrix) ==
    ApplyControlledSingleQubitMatrix(state, <<>>, target, matrix)

ApplyTwoQubitMatrix(state, first, second, matrix, controls) ==
    Mapped(state, matrix.k, LAMBDA b :
        LET base == b - 2^first * Bit(b, first) - 2^second * Bit(b, second)
            at == <<base, base + 2^second, base + 2^first, base + 2^first + 2^second>>
            row == 4 * (2 * Bit(b, first) + Bit(b, second))
        IN  IF ~IsControlActive(base, controls) THEN Kept(Amp(state, b), matrix.k)
            ELSE FoldLeft(LAMBDA sum, j : Plus(sum, Times(Amp(state, at[j]), matrix.m[row + j])),
                          NoAmplitude, <<1, 2, 3, 4>>))

\* A pair of basis states that differ in the target trade amplitudes.
ApplyControlledX(state, control, target) ==
    Mapped(state, 0, LAMBDA b :
        Amp(state, IF Bit(b, control) = 1 THEN Flipped(b, target) ELSE b))

ApplyDoubleControlledX(state, controlA, controlB, target) ==
    Mapped(state, 0, LAMBDA b :
        Amp(state, IF Bit(b, controlA) = 1 /\ Bit(b, controlB) = 1
                   THEN Flipped(b, target) ELSE b))

ApplyControlledPhase(state, control, target, theta) ==
    Mapped(state, 0, LAMBDA b :
        IF Bit(b, control) = 1 /\ Bit(b, target) = 1
        THEN TimesPower(Amp(state, b), 2 * theta) ELSE Amp(state, b))

ApplyControlledZ(state, control, target) ==
    Mapped(state, 0, LAMBDA b :
        IF Bit(b, control) = 1 /\ Bit(b, target) = 1
        THEN Scaled(-1, Amp(state, b)) ELSE Amp(state, b))

ApplySwap(state, left, right) ==
    Mapped(state, 0, LAMBDA b :
        Amp(state, IF Bit(b, left) # Bit(b, right) THEN Flipped(Flipped(b, left), right) ELSE b))

ApplyOperation(state, op) ==
    LET g == op.gate
        t == op.targets
        c == op.controls
    IN CASE g = "m" -> state
         [] g = "cx" -> ApplyControlledX(state, c[1], t[1])
         [] g = "cz" -> ApplyControlledZ(state, c[1], t[1])
         [] g = "cp" -> ApplyControlledPhase(state, c[1], t[1], op.params[1])
         [] g = "ccx" -> ApplyDoubleControlledX(state, c[1], c[2], t[1])
         [] g = "swap" -> ApplySwap(state, t[1], t[2])
         [] g = "cy" -> ApplyControlledSingleQubitMatrix(state, c, t[1], MatrixForFixedGate("y"))
         [] g = "ch" -> ApplyControlledSingleQubitMatrix(state, c, t[1], MatrixForFixedGate("h"))
         [] g = "ccz" -> ApplyControlledSingleQubitMatrix(state, c, t[1], MatrixForFixedGate("z"))
         [] g = "cswap" -> ApplyTwoQubitMatrix(state, t[1], t[2], CswapMatrix, c)
         [] g \in Entangling ->
                ApplyTwoQubitMatrix(state, t[1], t[2], MatrixForTwoQubitGate(g, op.params), <<>>)
         [] OTHER -> ApplySingleQubitMatrix(state, t[1], MatrixForGate(g, op.params))

\* simulateCircuit: the operations are in the order of their layers.
SimulatedState(c) == InTurn(ApplyOperation, Ground(c.numQubits), c.operations)
SimulateCircuit(c) == Probabilities(SimulatedState(c))

\* buildBlochVectors: the x, y and z of a qubit, over 2^k.
PairSum(state, q, Term(_, _)) ==
    FoldLeft(LAMBDA sum, b : IF Bit(b, q) = 1 THEN sum
                 ELSE Plus(sum, Term(Amp(state, b), Amp(state, b + 2^q))),
             NoAmplitude, [b \in 1..Len(state.amp) |-> b - 1])
BlochVector(state, q) ==
    LET cross == PairSum(state, q, Product)
        back  == Conjugate(cross)
    IN  [x |-> Plus(cross, back),
         y |-> TimesPower(Plus(cross, Scaled(-1, back)), 12),
         z |-> PairSum(state, q, LAMBDA a, b : Plus(SquaredModulus(a), Scaled(-1, SquaredModulus(b))))]
BlochVectors(state, n) == [k |-> state.k, of |-> Computed([q \in 1..n |-> BlochVector(state, q - 1)])]

-----------------------------------------------------------------------------
\* The gates as they are defined: sums of products of X, Y and Z.  A term is
\* [paulis, powers], and a product of paulis takes a basis state to another
\* one and to a power of w.
Pauli(name, q) == [name |-> name, qubit |-> q]
Term(paulis, powers) == [paulis |-> paulis, powers |-> powers]

Source(b, paulis) ==
    FoldLeft(LAMBDA s, p : IF p.name = "Z" THEN s ELSE Flipped(s, p.qubit), b, paulis)
Power(b, paulis) ==
    FoldLeft(LAMBDA sum, p :
                sum + CASE p.name = "X" -> 0
                        [] p.name = "Y" -> IF Bit(b, p.qubit) = 1 THEN 4 ELSE 12
                        [] p.name = "Z" -> 8 * Bit(b, p.qubit),
             0, paulis)

ApplyTerms(state, controls, k, terms) ==
    Mapped(state, k, LAMBDA b :
        IF \E i \in DOMAIN controls : Bit(b, controls[i]) = 0 THEN Kept(Amp(state, b), k)
        ELSE FoldLeft(LAMBDA sum, term :
                 Plus(sum, Times(Amp(state, Source(b, term.paulis)),
                                 Shifted(term.powers, Power(b, term.paulis)))),
                 NoAmplitude, terms))

\* exp(-i angle/2 P), the phase e^(i angle) on |1>, and the exchange of two.
ApplyRotation(state, paulis, v) ==
    ApplyTerms(state, <<>>, 2, <<Term(<<>>, Cos2(v)), Term(paulis, Shifted(Sin2(v), 12))>>)
ApplyPhase(state, controls, q, v) ==
    ApplyTerms(state, controls, 2,
               <<Term(<<>>, <<0, 2 * v>>), Term(<<Pauli("Z", q)>>, <<0, 2 * v + 8>>)>>)
ApplyExchange(state, controls, q, r) ==
    ApplyTerms(state, controls, 2, <<Term(<<>>, <<0>>)>> \o
        [i \in 1..3 |-> LET name == <<"X", "Y", "Z">>[i]
                        IN  Term(<<Pauli(name, q), Pauli(name, r)>>, <<0>>)])
ApplyPauli(state, controls, name, q) ==
    ApplyTerms(state, controls, 0, <<Term(<<Pauli(name, q)>>, <<0>>)>>)
ApplyHadamard(state, controls, q) ==
    ApplyTerms(state, controls, 1, <<Term(<<Pauli("X", q)>>, <<0>>), Term(<<Pauli("Z", q)>>, <<0>>)>>)

\* Meaning: the tooltip's matrix of every gate.
Meaning(state, op) ==
    LET t == op.targets
        c == op.controls
        v == op.params
        q == t[1]
    IN CASE op.gate \in {"i", "m"}     -> state
         [] op.gate \in {"x", "cx", "ccx"} -> ApplyPauli(state, c, "X", q)
         [] op.gate \in {"y", "cy"}    -> ApplyPauli(state, c, "Y", q)
         [] op.gate \in {"z", "cz", "ccz"} -> ApplyPauli(state, c, "Z", q)
         [] op.gate \in {"h", "ch"}    -> ApplyHadamard(state, c, q)
         [] op.gate = "sx"             -> ApplyRotation(state, <<Pauli("X", q)>>, 2)
         [] op.gate = "sy"             -> ApplyRotation(state, <<Pauli("Y", q)>>, 2)
         [] op.gate = "s"              -> ApplyPhase(state, c, q, 2)
         [] op.gate = "sdg"            -> ApplyPhase(state, c, q, -2)
         [] op.gate = "t"              -> ApplyPhase(state, c, q, 1)
         [] op.gate = "tdg"            -> ApplyPhase(state, c, q, -1)
         [] op.gate \in {"p", "cp"}    -> ApplyPhase(state, c, q, v[1])
         [] op.gate = "rx"             -> ApplyRotation(state, <<Pauli("X", q)>>, v[1])
         [] op.gate = "ry"             -> ApplyRotation(state, <<Pauli("Y", q)>>, v[1])
         [] op.gate = "rz"             -> ApplyRotation(state, <<Pauli("Z", q)>>, v[1])
         [] op.gate = "u"              ->
                ApplyPhase(ApplyRotation(ApplyPhase(state, c, q, v[3]),
                                         <<Pauli("Y", q)>>, v[1]), c, q, v[2])
         [] op.gate = "rxx" -> ApplyRotation(state, <<Pauli("X", q), Pauli("X", t[2])>>, v[1])
         [] op.gate = "ryy" -> ApplyRotation(state, <<Pauli("Y", q), Pauli("Y", t[2])>>, v[1])
         [] op.gate = "rzz" -> ApplyRotation(state, <<Pauli("Z", q), Pauli("Z", t[2])>>, v[1])
         [] op.gate = "rzx" -> ApplyRotation(state, <<Pauli("Z", q), Pauli("X", t[2])>>, v[1])
         [] op.gate \in {"swap", "cswap"} -> ApplyExchange(state, c, q, t[2])

MeantState(n, steps) == InTurn(Meaning, Ground(n), steps)
MeantProbabilities(c) == Probabilities(MeantState(c.numQubits, c.operations))

\* The expectation of a pauli, which a Bloch vector is made of.
Expectation(state, name, q) ==
    LET p == <<Pauli(name, q)>>
    IN  FoldLeft(LAMBDA sum, b : Plus(sum, Product(Amp(state, b),
                     TimesPower(Amp(state, Source(b, p)), Power(b, p)))),
                 NoAmplitude, [b \in 1..Len(state.amp) |-> b - 1])

-----------------------------------------------------------------------------
\* The circuit the server builds for qibo, in the gates of qibo.  The half of an
\* angle is exact for the even ones.
Rz(q, v) == Step("rz", <<q>>, <<>>, <<v>>)
\* Faulty variant: control and target are swapped.
CnotSwapped(c, t) == Step("cx", <<c>>, <<t>>, <<>>)
Cnot(c, t) == Step("cx", <<t>>, <<c>>, <<>>)
Fixed(gate, q) == Step(gate, <<q>>, <<>>, <<>>)

QiboGates(op) ==
    LET t == op.targets
        q == t[1]
        c == op.controls
        v == op.params
        half == v[1] \div 2
    IN CASE op.gate = "m"  -> <<>>
         [] op.gate = "cp" -> <<Rz(c[1], half), Cnot(c[1], q), Rz(q, -half),
                                Cnot(c[1], q), Rz(q, half)>>
         [] op.gate = "ccx" ->
                <<Fixed("h", q), Cnot(c[2], q), Fixed("tdg", q), Cnot(c[1], q), Fixed("t", q),
                  Cnot(c[2], q), Fixed("tdg", q), Cnot(c[1], q), Fixed("t", c[2]),
                  Fixed("t", q), Fixed("h", q), Cnot(c[1], c[2]), Fixed("t", c[1]),
                  Fixed("tdg", c[2]), Cnot(c[1], c[2])>>
         [] op.gate = "p"  -> <<Rz(q, v[1])>>
         [] op.gate = "u"  -> <<Rz(q, v[2]), Step("ry", <<q>>, <<>>, <<v[1]>>), Rz(q, v[3])>>
         [] op.gate = "sy" -> <<Step("ry", <<q>>, <<>>, <<2>>)>>
         [] OTHER -> <<Step(op.gate, t, c, v)>>

BuildQiboCircuit(payload) ==
    FlattenSeq([i \in DOMAIN payload.operations |-> QiboGates(payload.operations[i])])

\* The distribution the server samples its shots from.
ServerProbabilities(payload) ==
    Probabilities(MeantState(payload.num_qubits, BuildQiboCircuit(payload)))
==============================================================================
