------------------------------ MODULE Templates ------------------------------
(***************************************************************************)
(* The circuits of templates.ts.  Each operation has a layer of its own,   *)
(* but for the three H of the superposition.  The QFT's angles are         *)
(* multiples of pi/4 up to three qubits, and the module goes no further.   *)
(***************************************************************************)
EXTENDS Circuit

Step(gate, targets, controls, params) ==
    [gate |-> gate, targets |-> targets, controls |-> controls, params |-> params]
On(gate, qubits) == [i \in DOMAIN qubits |-> Step(gate, <<qubits[i]>>, <<>>, <<>>)]

InLayers(n, steps, layers) ==
    [numQubits |-> n, operations |-> [i \in DOMAIN steps |->
        Operation(200 + i, steps[i].gate, layers[i], steps[i].controls,
                  steps[i].targets, steps[i].params)]]
Serial(n, steps) == InLayers(n, steps, [i \in DOMAIN steps |-> i - 1])

Bell == Serial(2, <<Step("h", <<0>>, <<>>, <<>>), Step("cx", <<1>>, <<0>>, <<>>)>>
                    \o On("m", <<0, 1>>))

Superposition ==
    InLayers(3, On("h", <<0, 1, 2>>) \o On("m", <<0, 1, 2>>), <<0, 0, 0, 1, 2, 3>>)

\* pi / 2^(control - target)
QftAngle(distance) == 4 \div 2^distance

Qft(n) ==
    LET Turned(t) == On("h", <<t>>) \o
            [d \in 1..(n - 1 - t) |-> Step("cp", <<t>>, <<t + d>>, <<QftAngle(d)>>)]
    IN  Serial(n, FlattenSeq([i \in 1..n |-> Turned(i - 1)])
                    \o [i \in 1..(n \div 2) |-> Step("swap", <<i - 1, n - i>>, <<>>, <<>>)]
                    \o [i \in 1..n |-> Step("m", <<i - 1>>, <<>>, <<>>)])

MarkedPatterns == <<<<0, 0, 0, 1>>, <<0, 0, 1, 0>>, <<1, 1, 0, 1>>, <<1, 1, 1, 0>>>>

\* Four data qubits and an ancilla, which holds the AND of the first two.
Grover ==
    LET data == <<0, 1, 2, 3>>
        flip == <<Step("ccx", <<4>>, <<0, 1>>, <<>>), Step("ccz", <<3>>, <<4, 2>>, <<>>),
                  Step("ccx", <<4>>, <<0, 1>>, <<>>)>>
        zeros(p) == On("x", SelectSeq(data, LAMBDA q : p[q + 1] = 0))
        mark(p) == zeros(p) \o flip \o zeros(p)
    IN  Serial(5, On("h", data)
                    \o FlattenSeq([i \in DOMAIN MarkedPatterns |-> mark(MarkedPatterns[i])])
                    \o On("h", data) \o On("x", data) \o flip \o On("x", data) \o On("h", data)
                    \o On("m", <<0, 1, 2, 3, 4>>))

Template(name) == CASE name = "bell" -> Bell
                    [] name = "superposition" -> Superposition
                    [] name = "qft" -> Qft(3)
                    [] name = "grover" -> Grover
DefaultTemplate == Bell
==============================================================================
