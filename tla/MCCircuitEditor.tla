--------------------------- MODULE MCCircuitEditor ---------------------------
(***************************************************************************)
(* The sessions that TLC explores.  Each takes up the tools that touch     *)
(* each other, so that their states add up instead of multiplying.         *)
(***************************************************************************)
EXTENDS CircuitEditor

Draft(c) == DraftOf(c, ToQasm3(c), Total(c), "ALL")
Empty(n) == CreateCircuit(n)
With(n, ops) == [numQubits |-> n, operations |-> ops]

Session(start, tools, palette, layers, number) ==
    [draft |-> start, tools |-> tools, palette |-> palette, layers |-> layers,
     edits |-> number, angles |-> {}, texts |-> {}, templates |-> {}]

Header(n) == <<Plain("OPENQASM 3", <<>>), Statement("qubit", <<n>>, <<>>)>>
Texts == {Header(1) \o <<Plain("x", <<0>>)>>,
          Header(1) \o <<Statement("u2", <<1, 3>>, <<0>>)>>,
          Header(1) \o <<Plain("junk", <<>>)>>,
          Header(2) \o <<Plain("cnot", <<0, 1>>)>> \o SubSeq(Header(1), 2, 2)}

Rotated == With(2, <<Operation(1, "rx", 0, <<>>, <<0>>, <<9>>),
                     Operation(2, "cp", 1, <<0>>, <<1>>, <<1>>)>>)
Spread == With(2, <<Operation(1, "cx", 1, <<1>>, <<0>>, <<>>),
                    Operation(2, "m", 3, <<>>, <<0>>, <<>>)>>)

Canvas   == Session(Draft(Empty(2)), {"gates", "drag", "undo"}, {"x", "cx", "m"}, 2, 3)
AllGates == Session(Draft(Empty(3)), {"gates"}, Gates, 1, 1)
Sizes    == Session(Draft(Empty(2)), {"gates", "qubits", "undo", "columns", "clear"}, {"cx"}, 1, 3)
Columns  == Session(Draft(Spread), {"columns", "undo", "gates"}, {"x"}, 3, 3)
Typing   == [Session(Draft(Empty(1)), {"text", "gates", "drag", "undo"}, {"h"}, 1, 3)
                EXCEPT !.texts = Texts]
Storage  == [Session(Nothing, {"reload", "reset", "templates", "step", "undo", "projects"}, {}, 1, 4)
                EXCEPT !.templates = {"superposition", "qft"}]
Large    == [Session([Draft(Spread) EXCEPT !.text = <<>>], {"templates", "undo", "reload", "clear"}, {}, 1, 2)
                EXCEPT !.templates = {"bell", "grover"}]
Angles   == [Session(Draft(Rotated), {"params", "gates", "undo", "text"}, {}, 2, 3)
                EXCEPT !.angles = {0, 9, TinyAngle, NotFinite}, !.texts = {ToQasm3(Rotated)}]

AllSessions == {Canvas, AllGates, Sizes, Columns, Typing, Storage, Large, Angles}
==============================================================================
