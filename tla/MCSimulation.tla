----------------------------- MODULE MCSimulation -----------------------------
(***************************************************************************)
(* The sessions that TLC explores: one where requests race, one with every *)
(* gate on every choice of three qubits, one with the templates.           *)
(***************************************************************************)
EXTENDS Simulation

\* Every gate between layers that make the phases of all qubits visible.
Places(g) == {s \in [1 .. ControlCount(g) + TargetCount(g) -> 0..2] : IsInjective(s)}
Angles(g) == IF g = "u" THEN {<<3, 1, 1>>}
             ELSE IF g = "cp" THEN {<<2>>, <<-4>>}
             ELSE IF IsParameterized(g) THEN {<<3>>} ELSE {<<>>}
Probe(g, s, v, closing) ==
    Serial(3, On("h", <<0, 1, 2>>) \o On("t", <<0, 2>>) \o On("s", <<1>>)
        \o <<Step(g, SubSeq(s, ControlCount(g) + 1, Len(s)), SubSeq(s, 1, ControlCount(g)), v)>>
        \o On(closing, <<0, 1, 2>>))
Probes == UNION {{Probe(g, s, v, closing) : s \in Places(g), v \in Angles(g), closing \in {"h", "sx"}} :
                    g \in Gates \ {"m"}}

Turned  == Serial(1, <<Step("ry", <<0>>, <<>>, <<1>>)>>)
Flips   == Serial(2, On("x", <<1, 0>>))
Wide    == CreateCircuit(3)
Crossed == InLayers(2, <<Step("x", <<0>>, <<>>, <<>>), Step("cx", <<1>>, <<0>>, <<>>)>>, <<0, 0>>)
Deep    == InLayers(1, On("x", <<0>>), <<MaxDepth>>)

Session(start, circuits, number, stepping) ==
    [start |-> start, circuits |-> circuits \cup {start}, changes |-> number, stepping |-> stepping]
Racing  == Session(Turned, {Flips, CreateCircuit(11), Crossed, Deep}, 3, FALSE)
Stepped == Session(Bell, {Superposition}, 2, TRUE)
Library == Session(Bell, {Template(name) : name \in {"superposition", "qft", "grover"}}, 1, FALSE)
Gallery == Session(CreateCircuit(3), Probes, 1, FALSE)

AllSessions == {Racing, Stepped, Library, Gallery}

\* A u gate whose last two angles differ.
UGate == {Session(CreateCircuit(1),
            {InLayers(1, On("h", <<0>>) \o <<Step("u", <<0>>, <<>>, <<2, 2, 0>>)>>, <<0, 1>>)}, 1, FALSE)}
===============================================================================
