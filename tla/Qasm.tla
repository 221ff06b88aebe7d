-------------------------------- MODULE Qasm --------------------------------
(***************************************************************************)
(* The QASM bridge: what toQasm3 prints of a circuit and what fromQasm3    *)
(* reads back.  A text is a sequence of statements [word, params,          *)
(* operands]; the operands are indexes into the one register there is, and *)
(* a statement no rule of the parser matches has the word "junk".          *)
(*                                                                         *)
(* Twelve digits keep every multiple of pi/4 apart.  TinyAngle stands for  *)
(* the angles below 1e-6, which print with an exponent; the parser takes   *)
(* no letter but those of pi in an expression.                             *)
(***************************************************************************)
EXTENDS Circuit

TinyAngle  == 1000
Unreadable == 9999
FormatNumber(v) == IF v = TinyAngle THEN Unreadable ELSE v

\* The angles of an operation are printed in figures.
Printable(op) == ToSet(op.params) \cap {TinyAngle, Unreadable} = {}

Statement(word, params, operands) ==
    [word |-> word, params |-> params, operands |-> operands]
Words == Gates \cup {"cnot", "u1", "u2", "u3", "measure", "qubit", "bit", "include", "OPENQASM 3", "junk"}
Statements ==
    {st \in [word : Words, params : Seq(Int), operands : Seq(Nat)] :
        /\ IF st.word \in {"qubit", "bit"} THEN Len(st.params) = 1 /\ st.params[1] \in Nat
           ELSE st.params \in Seq(FiniteAngles)
        /\ st.word = "measure" => Len(st.operands) = 2}

Plain(word, operands) == Statement(word, <<>>, operands)
OnEach(word, qubits)  == [i \in DOMAIN qubits |-> Plain(word, <<qubits[i]>>)]

\* Faulty variant: the second cx is forgotten.
SerializeRzzOpen(theta, left, right) ==
    <<Plain("cx", <<left, right>>),
      Statement("rz", <<FormatNumber(theta)>>, <<right>>)>>

SerializeRzz(theta, left, right) ==
    <<Plain("cx", <<left, right>>),
      Statement("rz", <<FormatNumber(theta)>>, <<right>>),
      Plain("cx", <<left, right>>)>>

\* Faulty variant: every gate is printed by its name.
SerializeByName(op) ==
    <<Statement(op.gate, [i \in DOMAIN op.params |-> FormatNumber(op.params[i])],
                op.controls \o op.targets)>>

SerializeOperation(op) ==
    LET t == op.targets
        rzz == SerializeRzz(op.params[1], t[1], t[2])
    IN  CASE op.gate = "sy"  -> <<Statement("ry", <<2>>, t)>>
          [] op.gate = "ccz" -> OnEach("h", t) \o <<Plain("ccx", op.controls \o t)>>
                                  \o OnEach("h", t)
          [] op.gate = "rzz" -> rzz
          [] op.gate = "rxx" -> OnEach("h", t) \o rzz \o OnEach("h", t)
          [] op.gate = "ryy" -> OnEach("sdg", t) \o OnEach("h", t) \o rzz
                                  \o OnEach("h", t) \o OnEach("s", t)
          [] op.gate = "rzx" -> OnEach("h", <<t[2]>>) \o rzz \o OnEach("h", <<t[2]>>)
          [] op.gate = "m"   -> <<Plain("measure", t \o t)>>
          [] OTHER -> <<Statement(op.gate,
                          [i \in DOMAIN op.params |-> FormatNumber(op.params[i])],
                          op.controls \o t)>>

\* The circuit is sorted by layer already.
ToQasm3(c) ==
    <<Plain("OPENQASM 3", <<>>), Plain("include", <<>>),
      Statement("qubit", <<c.numQubits>>, <<>>), Statement("bit", <<c.numQubits>>, <<>>)>>
    \o FlattenSeq([i \in DOMAIN c.operations |-> SerializeOperation(c.operations[i])])

-----------------------------------------------------------------------------
\* Gates the text may name: those of the catalog that toQasm3 does not spell
\* out, and an alias.
TextGates == (Gates \ (Entangling \cup {"sy", "ccz", "m"})) \cup {"cnot"}
Aliases   == {"u1", "u2", "u3"}

Resolve(word, params) ==
    CASE word = "u1" -> [gate |-> "u", params |-> <<0, 0>> \o params]
      [] word = "u2" -> [gate |-> "u", params |-> <<2>> \o params]
      [] word = "u3" -> [gate |-> "u", params |-> params]
      [] word = "cnot" -> [gate |-> "cx", params |-> params]
      [] OTHER -> [gate |-> word, params |-> params]

ParsedOperation(st, number) ==
    LET r == Resolve(st.word, st.params)
        n == ControlCount(r.gate)
    IN  IF st.word = "measure"
        THEN Operation(number, "m", number - 1, <<>>, <<st.operands[2]>>, <<>>)
        ELSE Operation(number, r.gate, number - 1, SubSeq(st.operands, 1, n),
                       SubSeq(st.operands, n + 1, Len(st.operands)), r.params)

NoRegister == -1

\* What the rules for a measurement and for a gate demand of a statement.
MeasureFits(st, s) ==
    /\ s.bit # NoRegister => st.operands[1] < s.bit
    /\ st.operands[2] < s.qubit

GateFits(st, s) ==
    /\ st.word \in TextGates \cup Aliases
    /\ Unreadable \notin ToSet(st.params)
    /\ LET r == Resolve(st.word, st.params) IN
          /\ Len(r.params) = Len(DefaultParams(r.gate))
          /\ Len(st.operands) = ControlCount(r.gate) + TargetCount(r.gate)
    /\ \A i \in DOMAIN st.operands : st.operands[i] < s.qubit

StatementFits(st, s) ==
    /\ s.header /\ s.qubit # NoRegister
    /\ IF st.word = "measure" THEN MeasureFits(st, s) ELSE GateFits(st, s)

\* One turn of parseStatements.  A declaration replaces the one before it:
\* what has been read already is not looked at again.
ParseStatement(s, st) ==
    CASE ~s.ok -> s
      [] s.ok /\ st.word = "OPENQASM 3" -> [s EXCEPT !.header = TRUE]
      [] s.ok /\ st.word = "include" -> s
      [] s.ok /\ st.word = "qubit" -> [s EXCEPT !.qubit = st.params[1]]
      [] s.ok /\ st.word = "bit" -> [s EXCEPT !.bit = st.params[1]]
      [] OTHER ->
            IF StatementFits(st, s)
            THEN [s EXCEPT !.operations =
                    Append(@, ParsedOperation(st, Len(s.operations) + 1))]
            ELSE [s EXCEPT !.ok = FALSE]

NothingRead == [header |-> FALSE, qubit |-> NoRegister, bit |-> NoRegister,
                operations |-> <<>>, ok |-> TRUE]
Reading(text) ==
    LET read[n \in 0 .. Len(text)] ==
            IF n = 0 THEN NothingRead ELSE ParseStatement(read[n - 1], text[n])
    IN  read[Len(text)]

FromQasm3(text) ==
    LET s == Reading(text)
        model == [numQubits |-> s.qubit, operations |-> s.operations]
    IN  [ok |-> s.ok /\ s.header /\ s.qubit # NoRegister /\ Validates(model),
         model |-> model]

\* Faulty variant: circuits of the same size are taken for the same.
SameSize(a, b) == a.numQubits = b.numQubits /\ Len(a.operations) = Len(b.operations)

\* areCircuitsSemanticallyEquivalent
SameText(a, b) == ToQasm3(a) = ToQasm3(b)
=============================================================================
