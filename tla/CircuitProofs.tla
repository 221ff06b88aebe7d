----------------------------- MODULE CircuitProofs -----------------------------
(***************************************************************************)
(* What the edits of a circuit keep, what validation is worth, what the    *)
(* QASM bridge prints and reads, and what the server accepts.              *)
(***************************************************************************)
EXTENDS Qasm, SubsequencesProofs, SequenceTheorems, FiniteSetTheorems

Made == {op \in Operations : FitsCatalog(op)}

LEMMA CircuitType ==
    ASSUME NEW c
    PROVE  IsCircuit(c) <=> c \in [numQubits : Nat, operations : Seq(Made)]
<1>1. ASSUME IsCircuit(c) PROVE c \in [numQubits : Nat, operations : Seq(Made)]
  <2>1. /\ c \in [numQubits : Nat, operations : Seq(Operations)]
        /\ \A i \in DOMAIN c.operations : FitsCatalog(c.operations[i])
    BY <1>1 DEF IsCircuit, Ops, ToSet
  <2>2. PICK s \in Seq(Operations) : s = c.operations /\ \A i \in DOMAIN s : s[i] \in Made
    BY <2>1 DEF Made
  <2>3. s \in Seq(Made)
    BY <2>2
  <2> QED BY <2>1, <2>2, <2>3
<1>2. ASSUME c \in [numQubits : Nat, operations : Seq(Made)] PROVE IsCircuit(c)
  <2>1. PICK s \in Seq(Made) : s = c.operations
    BY <1>2
  <2>2. s \in Seq(Operations) /\ \A i \in DOMAIN s : s[i] \in Made
    BY DEF Made
  <2>3. \A op \in Ops(c) : FitsCatalog(op)
    BY <2>1, <2>2 DEF Ops, ToSet, Made
  <2> QED BY <1>2, <2>1, <2>2, <2>3 DEF IsCircuit
<1> QED BY <1>1, <1>2

LEMMA CircuitParts ==
    ASSUME NEW c, IsCircuit(c)
    PROVE  /\ c.numQubits \in Nat /\ c.operations \in Seq(Made)
           /\ Ops(c) \subseteq Made /\ Ops(c) = ToSet(c.operations)
<1>1. c.numQubits \in Nat /\ c.operations \in Seq(Made)
  BY CircuitType
<1> QED BY <1>1 DEF Ops, ToSet

LEMMA WithOperationsRight ==
    ASSUME NEW c, IsCircuit(c), NEW s \in Seq(Made)
    PROVE  LET d == WithOperations(c, s) IN
           IsCircuit(d) /\ d.numQubits = c.numQubits /\ d.operations = s /\ Ops(d) = ToSet(s)
<1>1. c \in [numQubits : Nat, operations : Seq(Made)]
  BY CircuitType
<1>2. PICK d : d = WithOperations(c, s)
  OBVIOUS
<1>3. d \in [numQubits : Nat, operations : Seq(Made)] /\ d.numQubits = c.numQubits /\ d.operations = s
  BY <1>1, <1>2 DEF WithOperations
<1> QED BY <1>2, <1>3, CircuitType DEF Ops

(***************************************************************************)
(* The order of the operations.                                            *)
(***************************************************************************)
Below(S, R) == \A x \in S, y \in R : x.layer <= y.layer /\ x.id # y.id

LEMMA JoinedArranged ==
    ASSUME NEW a \in Seq(Made), NEW b \in Seq(Made), Arranged(a), Arranged(b), Below(ToSet(a), ToSet(b))
    PROVE  a \o b \in Seq(Made) /\ Arranged(a \o b) /\ ToSet(a \o b) = ToSet(a) \cup ToSet(b)
<1> DEFINE r == a \o b
           m == Len(a)
           n == Len(b)
<1>1. /\ r \in Seq(Made) /\ m \in Nat /\ n \in Nat /\ DOMAIN r = 1 .. m + n
      /\ DOMAIN a = 1 .. m /\ DOMAIN b = 1 .. n
      /\ (\A i \in 1 .. m : r[i] = a[i]) /\ \A i \in 1 .. n : r[m + i] = b[i]
  OBVIOUS
<1> HIDE DEF r, m, n
<1>2. \A i \in 1 .. m + n : i \in 1 .. m \/ \E k \in 1 .. n : i = m + k
  <2> SUFFICES ASSUME NEW i \in 1 .. m + n, i \notin 1 .. m PROVE \E k \in 1 .. n : i = m + k
    OBVIOUS
  <2>1. i - m \in 1 .. n /\ i = m + (i - m)
    BY <1>1
  <2> QED BY <2>1
<1>3. ToSet(r) = ToSet(a) \cup ToSet(b)
  <2>1. \A i \in 1 .. n : m + i \in 1 .. m + n
    BY <1>1
  <2>2. 1 .. m \subseteq 1 .. m + n
    BY <1>1
  <2>3. \A x \in ToSet(r) : x \in ToSet(a) \cup ToSet(b)
    <3> SUFFICES ASSUME NEW i \in 1 .. m + n PROVE r[i] \in ToSet(a) \cup ToSet(b)
      BY <1>1 DEF ToSet
    <3>1. CASE i \in 1 .. m
      BY <1>1, <3>1 DEF ToSet
    <3>2. CASE \E k \in 1 .. n : i = m + k
      BY <1>1, <3>2 DEF ToSet
    <3> QED BY <1>2, <3>1, <3>2
  <2>4. \A x \in ToSet(a) : x \in ToSet(r)
    BY <1>1, <2>2 DEF ToSet
  <2>5. \A x \in ToSet(b) : x \in ToSet(r)
    BY <1>1, <2>1 DEF ToSet
  <2> QED BY <2>3, <2>4, <2>5
<1>6. /\ \A i, j \in 1 .. m : i < j => a[i].layer <= a[j].layer /\ a[i].id # a[j].id
      /\ \A i, j \in 1 .. n : i < j => b[i].layer <= b[j].layer /\ b[i].id # b[j].id
  BY <1>1 DEF Arranged
<1>4. ASSUME NEW i \in 1 .. m + n, NEW j \in 1 .. m + n, i < j
      PROVE  r[i].layer <= r[j].layer /\ r[i].id # r[j].id
  <2>1. CASE j \in 1 .. m
    <3>1. i \in 1 .. m
      BY <1>1, <1>4, <2>1
    <3>2. r[i] = a[i] /\ r[j] = a[j]
      BY <1>1, <2>1, <3>1
    <3> QED BY <1>4, <1>6, <2>1, <3>1, <3>2
  <2>2. CASE i \in 1 .. m /\ j \notin 1 .. m
    <3>1. PICK k \in 1 .. n : j = m + k
      BY <1>2, <2>2
    <3>2. a[i] \in ToSet(a) /\ b[k] \in ToSet(b)
      BY <1>1, <2>2 DEF ToSet
    <3>3. r[i] = a[i] /\ r[j] = b[k]
      BY <1>1, <2>2, <3>1
    <3> QED BY <3>2, <3>3 DEF Below
  <2>3. CASE i \notin 1 .. m /\ j \notin 1 .. m
    <3>1. PICK k \in 1 .. n, l \in 1 .. n : i = m + k /\ j = m + l
      BY <1>2, <2>3
    <3>2. k < l
      BY <1>1, <1>4, <3>1
    <3>3. r[i] = b[k] /\ r[j] = b[l]
      BY <1>1, <3>1
    <3> QED BY <1>6, <3>2, <3>3
  <2> QED BY <2>1, <2>2, <2>3
<1>5. Arranged(r)
  BY <1>1, <1>4 DEF Arranged
<1> QED BY <1>1, <1>3, <1>5 DEF r

LEMMA AmongArranged ==
    ASSUME NEW s \in Seq(Made), Arranged(s), NEW S
    PROVE  Among(s, S) \in Seq(Made) /\ Arranged(Among(s, S)) /\ ToSet(Among(s, S)) = ToSet(s) \cap S
<1>1. Among(s, S) \in Seq(Made) /\ ToSet(Among(s, S)) = ToSet(s) \cap S
  BY AmongRight
<1>2. ASSUME NEW i \in DOMAIN Among(s, S), NEW j \in DOMAIN Among(s, S), i < j
      PROVE  Among(s, S)[i].layer <= Among(s, S)[j].layer /\ Among(s, S)[i].id # Among(s, S)[j].id
  <2>1. PICK a, b \in DOMAIN s : a < b /\ Among(s, S)[i] = s[a] /\ Among(s, S)[j] = s[b]
    BY <1>2, AmongOrder
  <2> QED BY <2>1 DEF Arranged
<1> QED BY <1>1, <1>2 DEF Arranged

LEMMA InsertedArranged ==
    ASSUME NEW s \in Seq(Made), Arranged(s), NEW op \in Made, \A o \in ToSet(s) : o.id # op.id
    PROVE  /\ Inserted(s, op) \in Seq(Made) /\ Arranged(Inserted(s, op))
           /\ ToSet(Inserted(s, op)) = ToSet(s) \cup {op}
<1> DEFINE before == {o \in ToSet(s) : Precedes(o, op)}
           a == Among(s, before)
           b == Among(s, ToSet(s) \ before)
           m == <<op>>
<1>1. a \in Seq(Made) /\ Arranged(a) /\ ToSet(a) = before
  BY AmongArranged
<1>2. b \in Seq(Made) /\ Arranged(b) /\ ToSet(b) = ToSet(s) \ before
  BY AmongArranged
<1>3. m \in Seq(Made) /\ Arranged(m) /\ ToSet(m) = {op}
  BY DEF Arranged, ToSet
<1>4. \A o \in ToSet(s) : o \in Made /\ o.layer \in Int /\ o.id \in Int /\ op.layer \in Int /\ op.id \in Int
  <2>1. \A o \in ToSet(s) : o \in Made
    BY DEF ToSet
  <2>2. \A o \in Made : o.layer \in Int /\ o.id \in Int
    BY DEF Made, Operations
  <2> QED BY <2>1, <2>2
<1>5. Inserted(s, op) = (a \o m) \o b
  <2>1. Append(a, op) = a \o m
    BY <1>1, AppendIsConcat
  <2>2. Inserted(s, op) = Append(a, op) \o b
    BY DEF Inserted
  <2> HIDE DEF a, b, m
  <2> QED BY <2>1, <2>2
<1>6. Below(before, {op})
  BY <1>4 DEF Below, Precedes
<1>7. Below(before \cup {op}, ToSet(s) \ before)
  <2>1. \A x \in before, y \in ToSet(s) \ before : x.layer <= y.layer /\ x.id # y.id
    <3> SUFFICES ASSUME NEW x \in before, NEW y \in ToSet(s) \ before
                 PROVE  x.layer <= y.layer /\ x.id # y.id
      OBVIOUS
    <3>1. x.layer <= op.layer /\ op.layer <= y.layer
      BY <1>4 DEF Precedes
    <3>2. PICK i, j \in DOMAIN s : x = s[i] /\ y = s[j]
      BY DEF ToSet
    <3>3. x.id # y.id
      <4>1. i # j
        BY <3>2
      <4>2. i < j \/ j < i
        BY <4>1
      <4> QED BY <3>2, <4>2 DEF Arranged
    <3> QED BY <1>4, <3>1, <3>3
  <2>2. \A y \in ToSet(s) \ before : op.layer <= y.layer /\ op.id # y.id
    BY <1>4 DEF Precedes
  <2> HIDE DEF before
  <2> QED BY <2>1, <2>2 DEF Below
<1> HIDE DEF a, b, m, before
<1>11. Below(ToSet(a), ToSet(m)) /\ Below(before \cup {op}, ToSet(b))
  BY <1>1, <1>2, <1>3, <1>6, <1>7, Zenon
<1>8. a \o m \in Seq(Made) /\ Arranged(a \o m) /\ ToSet(a \o m) = before \cup {op}
  <2>1. a \in Seq(Made) /\ m \in Seq(Made) /\ Arranged(a) /\ Arranged(m) /\ Below(ToSet(a), ToSet(m))
    BY <1>1, <1>3, <1>11
  <2>2. a \o m \in Seq(Made) /\ Arranged(a \o m) /\ ToSet(a \o m) = ToSet(a) \cup ToSet(m)
    BY <2>1, JoinedArranged
  <2> QED BY <1>1, <1>3, <2>2
<1>9. /\ (a \o m) \o b \in Seq(Made) /\ Arranged((a \o m) \o b)
      /\ ToSet((a \o m) \o b) = (before \cup {op}) \cup (ToSet(s) \ before)
  <2>1. PICK q : q = a \o m
    OBVIOUS
  <2>2. q \in Seq(Made) /\ b \in Seq(Made) /\ Arranged(q) /\ Arranged(b) /\ Below(ToSet(q), ToSet(b))
    BY <1>2, <1>8, <1>11, <2>1
  <2>3. q \o b \in Seq(Made) /\ Arranged(q \o b) /\ ToSet(q \o b) = ToSet(q) \cup ToSet(b)
    BY <2>2, JoinedArranged
  <2> QED BY <1>2, <1>8, <2>1, <2>3
<1>10. before \subseteq ToSet(s)
  BY DEF before
<1> QED BY <1>5, <1>9, <1>10

(***************************************************************************)
(* The edits: what they make is a circuit again, and in order.             *)
(***************************************************************************)
LEMMA AddRight ==
    ASSUME NEW c, IsCircuit(c), Arranged(c.operations), NEW op \in Made, Named(c, op.id) = {}
    PROVE  LET d == AddOperation(c, op) IN
           /\ IsCircuit(d) /\ Arranged(d.operations) /\ d.numQubits = c.numQubits
           /\ Ops(d) = Ops(c) \cup {op}
<1>1. PICK s \in Seq(Made) : s = c.operations /\ Arranged(s) /\ Ops(c) = ToSet(s)
  BY CircuitParts
<1>2. \A o \in ToSet(s) : o.id # op.id
  BY <1>1 DEF Named
<1>3. PICK r \in Seq(Made) : r = Inserted(s, op) /\ Arranged(r) /\ ToSet(r) = ToSet(s) \cup {op}
  BY <1>1, <1>2, InsertedArranged
<1>4. AddOperation(c, op) = WithOperations(c, r)
  BY <1>1, <1>3 DEF AddOperation
<1> QED BY <1>1, <1>3, <1>4, WithOperationsRight

LEMMA RemoveRight ==
    ASSUME NEW c, IsCircuit(c), Arranged(c.operations), NEW id
    PROVE  LET d == RemoveOperation(c, id) IN
           /\ IsCircuit(d) /\ Arranged(d.operations) /\ d.numQubits = c.numQubits
           /\ Ops(d) = Ops(c) \ Named(c, id) /\ Named(d, id) = {}
<1>1. PICK s \in Seq(Made) : s = c.operations /\ Arranged(s) /\ Ops(c) = ToSet(s)
  BY CircuitParts
<1>2. PICK S : S = Ops(c) \ Named(c, id)
  OBVIOUS
<1>3. PICK r \in Seq(Made) : r = Among(s, S) /\ Arranged(r) /\ ToSet(r) = ToSet(s) \cap S
  BY <1>1, AmongArranged
<1>4. PICK d : d = RemoveOperation(c, id) /\ d = WithOperations(c, r)
  BY <1>1, <1>2, <1>3 DEF RemoveOperation
<1>5. /\ IsCircuit(d) /\ Arranged(d.operations) /\ d.numQubits = c.numQubits
      /\ Ops(d) = Ops(c) \ Named(c, id)
  <2>1. IsCircuit(d) /\ d.numQubits = c.numQubits /\ d.operations = r /\ Ops(d) = ToSet(r)
    BY <1>4, WithOperationsRight
  <2>2. ToSet(s) \cap S = Ops(c) \ Named(c, id)
    BY <1>1, <1>2
  <2> QED BY <1>3, <2>1, <2>2
<1>6. Named(d, id) = {}
  BY <1>5 DEF Named
<1> QED BY <1>4, <1>5, <1>6

LEMMA UpdateRight ==
    ASSUME NEW c, IsCircuit(c), Arranged(c.operations), NEW op \in Made
    PROVE  LET d == UpdateOperation(c, op) IN
           /\ IsCircuit(d) /\ Arranged(d.operations) /\ d.numQubits = c.numQubits
           /\ Ops(d) = (Ops(c) \ Named(c, op.id)) \cup {op}
<1>1. PICK r : r = RemoveOperation(c, op.id)
  OBVIOUS
<1>2. /\ IsCircuit(r) /\ Arranged(r.operations) /\ r.numQubits = c.numQubits
      /\ Ops(r) = Ops(c) \ Named(c, op.id) /\ Named(r, op.id) = {}
  BY <1>1, RemoveRight
<1>3. UpdateOperation(c, op) = AddOperation(r, op)
  BY <1>1 DEF UpdateOperation
<1> QED BY <1>2, <1>3, AddRight

\* A shift of layers moves operations and keeps all else of them.
SameWires(o, p) == o.id = p.id /\ o.gate = p.gate /\ o.controls = p.controls /\ o.targets = p.targets

LEMMA ShiftRight ==
    ASSUME NEW c, IsCircuit(c), Arranged(c.operations), NEW from \in Int, NEW delta \in Int,
           delta >= 0 \/ \A op \in Ops(c) : ~(op.layer >= from + delta /\ op.layer < from)
    PROVE  LET d == ShiftLayers(c, from, delta) IN
           /\ IsCircuit(d) /\ Arranged(d.operations) /\ d.numQubits = c.numQubits
           /\ \A o \in Ops(d) : \E p \in Ops(c) : SameWires(o, p)
<1>1. PICK s \in Seq(Made) : s = c.operations /\ Arranged(s) /\ Ops(c) = ToSet(s)
  BY CircuitParts
<1> DEFINE At(op) == IF op.layer >= from THEN [op EXCEPT !.layer = @ + delta] ELSE op
           r == [i \in DOMAIN s |-> At(s[i])]
<1>2. \A op \in Made : /\ At(op) \in Made /\ SameWires(At(op), op) /\ op.layer \in Int
                       /\ At(op).layer = IF op.layer >= from THEN op.layer + delta ELSE op.layer
  <2> SUFFICES ASSUME NEW op \in Made
               PROVE  /\ At(op) \in Made /\ SameWires(At(op), op) /\ op.layer \in Int
                      /\ At(op).layer = IF op.layer >= from THEN op.layer + delta ELSE op.layer
    OBVIOUS
  <2>1. op \in Operations /\ FitsCatalog(op) /\ op.layer \in Int
    BY DEF Made, Operations
  <2>2. CASE op.layer >= from
    <3>1. PICK o : o = [op EXCEPT !.layer = @ + delta]
      OBVIOUS
    <3>5. PICK l \in Int : l = op.layer + delta
      BY <2>1
    <3>6. o = [op EXCEPT !.layer = l]
      BY <2>1, <3>1, <3>5 DEF Operations
    <3>2. /\ o \in Operations /\ o.layer = op.layer + delta
          /\ o.id = op.id /\ o.gate = op.gate /\ o.controls = op.controls /\ o.targets = op.targets /\ o.params = op.params
      BY <2>1, <3>5, <3>6 DEF Operations
    <3>3. FitsCatalog(o)
      BY <2>1, <3>2 DEF FitsCatalog
    <3>4. At(op) = o
      BY <2>2, <3>1
    <3> QED BY <2>1, <2>2, <3>2, <3>3, <3>4 DEF Made, SameWires
  <2>3. CASE ~(op.layer >= from)
    BY <2>1, <2>3 DEF Made, SameWires
  <2> QED BY <2>2, <2>3
<1> HIDE DEF At
<1>3. /\ r \in Seq(Made) /\ DOMAIN r = DOMAIN s /\ DOMAIN s = 1 .. Len(s)
      /\ \A i \in DOMAIN s : s[i] \in Made /\ r[i] = At(s[i])
  BY <1>2
<1> HIDE DEF r
<1>4. ASSUME NEW i \in DOMAIN s, NEW j \in DOMAIN s, i < j
      PROVE  r[i].layer <= r[j].layer /\ r[i].id # r[j].id
  <2>1. s[i].layer <= s[j].layer /\ s[i].id # s[j].id
    BY <1>1, <1>4 DEF Arranged
  <2>2. r[i].id = s[i].id /\ r[j].id = s[j].id
    BY <1>2, <1>3 DEF SameWires
  <2>3. s[i] \in Ops(c) /\ s[j] \in Ops(c)
    BY <1>1 DEF ToSet
  <2>4. PICK a \in Int, b \in Int : a = s[i].layer /\ b = s[j].layer
    BY <1>2, <1>3
  <2>5. /\ r[i].layer = IF a >= from THEN a + delta ELSE a
        /\ r[j].layer = IF b >= from THEN b + delta ELSE b
    BY <1>2, <1>3, <2>4
  <2>6. delta >= 0 \/ (~(a >= from + delta /\ a < from) /\ ~(b >= from + delta /\ b < from))
    BY <2>3, <2>4
  <2>7. a <= b
    BY <2>1, <2>4
  <2>8. r[i].layer <= r[j].layer
    BY <2>5, <2>6, <2>7
  <2> QED BY <2>1, <2>2, <2>8
<1>5. Arranged(r)
  BY <1>3, <1>4 DEF Arranged
<1>6. \A o \in ToSet(r) : \E p \in ToSet(s) : SameWires(o, p)
  BY <1>2, <1>3 DEF ToSet
<1>7. ShiftLayers(c, from, delta) = WithOperations(c, r)
  BY <1>1 DEF ShiftLayers, At, r
<1> QED BY <1>1, <1>3, <1>5, <1>6, <1>7, WithOperationsRight

(***************************************************************************)
(* What validateCircuitModel lets pass is well formed, if it is in order.  *)
(***************************************************************************)
LEMMA ValidMeansWellFormed ==
    ASSUME NEW c, IsCircuit(c), Arranged(c.operations), Validates(c)
    PROVE  Sound(c)
<1>1. PICK s \in Seq(Made) : s = c.operations /\ Arranged(s) /\ Ops(c) = ToSet(s)
  BY CircuitParts
<1>2. ASSUME NEW a \in Ops(c), NEW b \in Ops(c), a # b PROVE a.id # b.id
  <2>1. PICK i, j \in DOMAIN s : a = s[i] /\ b = s[j]
    BY <1>1 DEF ToSet
  <2>2. i < j \/ j < i
    BY <1>2, <2>1
  <2> QED BY <1>1, <2>1, <2>2 DEF Arranged
<1>3. \A a, b \in Ops(c) : a # b /\ a.layer = b.layer => Occupied(a) \cap Occupied(b) = {}
  BY <1>2 DEF Validates, Conflict
<1>4. \A op \in Ops(c) : Cardinality(Touched(op)) = Len(op.targets) + Len(op.controls)
  BY DEF Validates, RepeatsQubit
<1>5. ASSUME NEW op \in Ops(c), NEW m \in Ops(c), m.gate = "m", m.layer <= op.layer
      PROVE  op.gate = "m"
  <2>1. \A o \in Made : o.layer \in Int
    BY DEF Made, Operations
  <2>2. op.layer >= m.layer
    BY <1>5, <2>1, CircuitParts
  <2> QED BY <1>5, <2>2 DEF Validates, FollowsMeasurement
<1> QED BY <1>3, <1>4, <1>5 DEF Sound, WellFormed

(***************************************************************************)
(* What toQasm3 prints: statements, and never an empty text.               *)
(***************************************************************************)
LEMMA Singles ==
    ASSUME NEW S, NEW x \in S, NEW y \in S
    PROVE  <<x>> \in Seq(S) /\ <<x, y>> \in Seq(S) /\ <<x, y, x>> \in Seq(S)
OBVIOUS

LEMMA StatementTyped ==
    ASSUME NEW word \in Words \ {"qubit", "bit", "measure"},
           NEW params \in Seq(FiniteAngles), NEW operands \in Seq(Nat)
    PROVE  Statement(word, params, operands) \in Statements
<1>1. params \in Seq(Int)
  BY DEF FiniteAngles
<1> QED BY <1>1 DEF Statement, Statements

LEMMA PlainTyped ==
    ASSUME NEW word \in Words \ {"qubit", "bit", "measure"}, NEW operands \in Seq(Nat)
    PROVE  Plain(word, operands) \in Statements
<1>1. <<>> \in Seq(FiniteAngles)
  OBVIOUS
<1> QED BY <1>1, StatementTyped DEF Plain

LEMMA OnEachTyped ==
    ASSUME NEW word \in Words \ {"qubit", "bit", "measure"}, NEW qubits \in Seq(Nat)
    PROVE  OnEach(word, qubits) \in Seq(Statements)
<1>1. DOMAIN qubits = 1 .. Len(qubits) /\ Len(qubits) \in Nat /\ \A i \in DOMAIN qubits : qubits[i] \in Nat
  OBVIOUS
<1>2. \A i \in DOMAIN qubits : Plain(word, <<qubits[i]>>) \in Statements
  <2> SUFFICES ASSUME NEW i \in DOMAIN qubits PROVE Plain(word, <<qubits[i]>>) \in Statements
    OBVIOUS
  <2>1. <<qubits[i]>> \in Seq(Nat)
    BY <1>1, Singles
  <2> QED BY <2>1, PlainTyped
<1> QED BY <1>1, <1>2 DEF OnEach

LEMMA NumbersPrinted ==
    ASSUME NEW v \in FiniteAngles
    PROVE  FormatNumber(v) \in FiniteAngles
BY DEF FormatNumber, FiniteAngles, NotFinite, Unreadable

LEMMA RzzTyped ==
    ASSUME NEW theta \in FiniteAngles, NEW a \in Nat, NEW b \in Nat
    PROVE  SerializeRzz(theta, a, b) \in Seq(Statements)
<1>0. <<a, b>> \in Seq(Nat) /\ <<b>> \in Seq(Nat) /\ <<FormatNumber(theta)>> \in Seq(FiniteAngles)
  BY NumbersPrinted, Singles
<1>1. PICK ab \in Seq(Nat), vb \in Seq(Nat), th \in Seq(FiniteAngles) :
         ab = <<a, b>> /\ vb = <<b>> /\ th = <<FormatNumber(theta)>>
  BY <1>0, Zenon
<1>2. "cx" \in Words \ {"qubit", "bit", "measure"} /\ "rz" \in Words \ {"qubit", "bit", "measure"}
  BY DEF Words, Gates, Controlled, Rotations
<1>3. PICK x, y : x = Plain("cx", ab) /\ y = Statement("rz", th, vb) /\ x \in Statements /\ y \in Statements
  BY <1>1, <1>2, PlainTyped, StatementTyped
<1>4. SerializeRzz(theta, a, b) = <<x, y, x>>
  BY <1>1, <1>3 DEF SerializeRzz
<1> QED BY <1>3, <1>4

LEMMA GatesAreWords ==
    /\ Gates \subseteq Words \ {"qubit", "bit", "measure"}
    /\ {"h", "s", "sdg", "ry", "ccx", "cx", "rz"} \subseteq Words \ {"qubit", "bit", "measure"}
BY DEF Words, Gates, OneQubitGates, Rotations, Controlled, Entangling

LEMMA OperationParts ==
    ASSUME NEW op \in Made
    PROVE  /\ op.gate \in Gates /\ op.controls \in Seq(Nat) /\ op.targets \in Seq(Nat)
           /\ op.params \in Seq(FiniteAngles) /\ op.id \in Int /\ op.layer \in Int
           /\ Len(op.controls) = ControlCount(op.gate) /\ Len(op.targets) = TargetCount(op.gate)
           /\ Len(op.params) = Len(DefaultParams(op.gate))
BY DEF Made, Operations, FitsCatalog

LEMMA SingleOperand ==
    ASSUME NEW t \in Seq(Nat), Len(t) = 1
    PROVE  \E q \in Nat : t = <<q>> /\ t \o t = <<q, q>> /\ ToSet(t) = {q}
<1>1. 1 \in 1 .. Len(t)
  OBVIOUS
<1>2. PICK q \in Nat : q = t[1]
  BY <1>1, ElementOfSeq
<1>3. PICK u \in Seq(Nat) : u = <<q>> /\ Len(u) = 1 /\ u[1] = q
  <2>1. <<q>> \in Seq(Nat) /\ Len(<<q>>) = 1 /\ <<q>>[1] = q
    OBVIOUS
  <2> QED BY <2>1, Zenon
<1>4. \A i \in 1 .. 1 : i = 1
  OBVIOUS
<1>5. t = u
  BY <1>2, <1>3, <1>4, SeqEqual
<1>6. t \o t = <<q, q>>
  <2>1. PICK x \in Seq(Nat) : x = <<q, q>> /\ Len(x) = 2 /\ x[1] = q /\ x[2] = q
    <3>1. <<q, q>> \in Seq(Nat) /\ Len(<<q, q>>) = 2 /\ <<q, q>>[1] = q /\ <<q, q>>[2] = q
      OBVIOUS
    <3> QED BY <3>1, Zenon
  <2>2. PICK y \in Seq(Nat) : y = t \o t
    BY ConcatProperties, Zenon
  <2>3. Len(y) = 1 + 1 /\ \A i \in 1 .. 1 + 1 : y[i] = IF i <= 1 THEN t[i] ELSE t[i - 1]
    <3>1. /\ Len(t \o t) = Len(t) + Len(t)
          /\ \A i \in 1 .. Len(t) + Len(t) : (t \o t)[i] = IF i <= Len(t) THEN t[i] ELSE t[i - Len(t)]
      BY ConcatProperties
    <3> QED BY <2>2, <3>1
  <2>4. Len(y) = 2 /\ y[1] = q /\ y[2] = q
    BY <1>2, <2>3
  <2>5. \A i \in 1 .. 2 : y[i] = x[i]
    BY <2>1, <2>4
  <2> QED BY <2>1, <2>2, <2>4, <2>5, SeqEqual
<1>7. DOMAIN t = 1 .. 1
  BY LenProperties
<1>8. ToSet(t) = {q}
  BY <1>2, <1>4, <1>7 DEF ToSet
<1> QED BY <1>3, <1>5, <1>6, <1>8

LEMMA MeasureTyped ==
    ASSUME NEW q \in Nat
    PROVE  Plain("measure", <<q, q>>) \in Statements
<1>1. <<>> \in Seq(FiniteAngles) /\ <<>> \in Seq(Int)
  OBVIOUS
<1>2. <<q, q>> \in Seq(Nat) /\ Len(<<q, q>>) = 2
  OBVIOUS
<1>3. PICK e \in Seq(Int), o \in Seq(Nat) : e = <<>> /\ e \in Seq(FiniteAngles) /\ o = <<q, q>> /\ Len(o) = 2
  BY <1>1, <1>2, Zenon
<1>4. PICK st : st = [word |-> "measure", params |-> e, operands |-> o]
  OBVIOUS
<1>5. st \in Statements
  BY <1>3, <1>4 DEF Statements, Words
<1> QED BY <1>3, <1>4, <1>5 DEF Plain, Statement

LEMMA SerializedTyped ==
    ASSUME NEW op \in Made
    PROVE  SerializeOperation(op) \in Seq(Statements)
<1>1. PICK g \in Gates, c \in Seq(Nat), t \in Seq(Nat), v \in Seq(FiniteAngles) :
         /\ g = op.gate /\ c = op.controls /\ t = op.targets /\ v = op.params
         /\ Len(t) = TargetCount(g) /\ Len(v) = Len(DefaultParams(g))
  BY OperationParts
<1>2. \A w \in {"h", "s", "sdg"} : OnEach(w, t) \in Seq(Statements)
  BY OnEachTyped, GatesAreWords
<1>3. c \o t \in Seq(Nat)
  BY <1>1
<1>4. \A a, b \in Seq(Statements) : a \o b \in Seq(Statements)
  OBVIOUS
<1>5. CASE g = "sy"
  <2>0. 2 \in FiniteAngles
    BY DEF FiniteAngles, NotFinite
  <2>1. PICK th \in Seq(FiniteAngles) : th = <<2>>
    BY <2>0, Singles, Zenon
  <2>2. PICK st \in Statements : st = Statement("ry", th, t)
    BY <2>1, StatementTyped, GatesAreWords
  <2>3. SerializeOperation(op) = <<st>>
    BY <1>1, <1>5, <2>1, <2>2 DEF SerializeOperation
  <2> QED BY <2>2, <2>3
<1>6. CASE g = "ccz"
  <2>1. PICK ct : ct = c \o t /\ ct \in Seq(Nat)
    BY <1>3
  <2>2. PICK st \in Statements : st = Plain("ccx", ct)
    BY <2>1, PlainTyped, GatesAreWords
  <2>3. PICK m \in Seq(Statements) : m = <<st>>
    BY Singles, Zenon
  <2>4. PICK h \in Seq(Statements) : h = OnEach("h", t)
    BY <1>2
  <2>5. SerializeOperation(op) = h \o m \o h
    BY <1>1, <1>6, <2>1, <2>2, <2>3, <2>4 DEF SerializeOperation
  <2> QED BY <1>4, <2>5
<1>7. CASE g \in Entangling
  <2>1. Len(t) = 2 /\ Len(v) = 1
    BY <1>1, <1>7 DEF TargetCount, DefaultParams, Entangling
  <2>2. t[1] \in Nat /\ t[2] \in Nat /\ v[1] \in FiniteAngles
    <3>1. 1 \in 1 .. Len(t) /\ 2 \in 1 .. Len(t) /\ 1 \in 1 .. Len(v)
      BY <2>1
    <3> QED BY <3>1, ElementOfSeq
  <2>3. PICK rzz \in Seq(Statements) : rzz = SerializeRzz(v[1], t[1], t[2])
    BY <2>2, RzzTyped
  <2>4. PICK u \in Seq(Nat) : u = <<t[2]>>
    BY <2>2, Singles, Zenon
  <2>5. PICK h2 \in Seq(Statements) : h2 = OnEach("h", u)
    BY OnEachTyped, GatesAreWords
  <2>6. PICK h \in Seq(Statements), s \in Seq(Statements), d \in Seq(Statements) :
           h = OnEach("h", t) /\ s = OnEach("s", t) /\ d = OnEach("sdg", t)
    BY <1>2
  <2>7. CASE g = "rzz"
    <3>1. SerializeOperation(op) = rzz
      BY <1>1, <2>3, <2>7 DEF SerializeOperation
    <3> QED BY <3>1
  <2>8. CASE g = "rxx"
    <3>1. SerializeOperation(op) = h \o rzz \o h
      BY <1>1, <2>3, <2>6, <2>8 DEF SerializeOperation
    <3> QED BY <1>4, <3>1
  <2>9. CASE g = "ryy"
    <3>1. SerializeOperation(op) = d \o h \o rzz \o h \o s
      BY <1>1, <2>3, <2>6, <2>9 DEF SerializeOperation
    <3> QED BY <1>4, <3>1
  <2>10. CASE g = "rzx"
    <3>1. SerializeOperation(op) = h2 \o rzz \o h2
      BY <1>1, <2>3, <2>4, <2>5, <2>10 DEF SerializeOperation
    <3> QED BY <1>4, <3>1
  <2> QED BY <1>7, <2>7, <2>8, <2>9, <2>10 DEF Entangling
<1>8. CASE g = "m"
  <2>1. Len(t) = 1
    BY <1>1, <1>8 DEF TargetCount, Entangling
  <2>2. PICK q \in Nat : t = <<q>> /\ t \o t = <<q, q>>
    BY <2>1, SingleOperand
  <2>3. PICK st : st = Plain("measure", t \o t)
    OBVIOUS
  <2>4. st \in Statements
    BY <2>2, <2>3, MeasureTyped
  <2>5. SerializeOperation(op) = <<st>>
    BY <1>1, <1>8, <2>3 DEF SerializeOperation
  <2> QED BY <2>4, <2>5
<1>9. CASE g \notin Entangling \cup {"sy", "ccz", "m"}
  <2>1. PICK ct \in Seq(Nat) : ct = c \o t
    BY <1>3
  <2>2. PICK th : th = [i \in DOMAIN v |-> FormatNumber(v[i])]
    OBVIOUS
  <2>3. th \in Seq(FiniteAngles)
    <3>1. \A i \in DOMAIN v : FormatNumber(v[i]) \in FiniteAngles
      BY NumbersPrinted
    <3> QED BY <2>2, <3>1
  <2>4. PICK st \in Statements : st = Statement(g, th, ct)
    BY <2>3, StatementTyped, GatesAreWords
  <2>5. SerializeOperation(op) = <<st>>
    BY <1>1, <1>9, <2>1, <2>2, <2>4 DEF SerializeOperation, Entangling
  <2> QED BY <2>4, <2>5
<1> QED BY <1>5, <1>6, <1>7, <1>8, <1>9

\* A text of the four statements of the header and a body.
HasHeader(text, n) ==
    /\ text[1].word = "OPENQASM 3" /\ text[2].word = "include"
    /\ text[3].word = "qubit" /\ text[3].params[1] = n
    /\ text[4].word = "bit" /\ text[4].params[1] = n
HasBody(text, body) ==
    Len(text) = 4 + Len(body) /\ \A i \in 1 .. Len(body) : text[4 + i] = body[i]

Header(n) == <<Plain("OPENQASM 3", <<>>), Plain("include", <<>>),
               Statement("qubit", <<n>>, <<>>), Statement("bit", <<n>>, <<>>)>>

LEMMA DeclarationTyped ==
    ASSUME NEW n \in Nat, NEW w \in {"qubit", "bit"}
    PROVE  \E st \in Statements : st = Statement(w, <<n>>, <<>>) /\ st.word = w /\ st.params[1] = n
<1>1. <<n>> \in Seq(Int) /\ <<>> \in Seq(Nat)
  OBVIOUS
<1>2. PICK p \in Seq(Int), o \in Seq(Nat) : p = <<n>> /\ o = <<>>
  BY <1>1, Zenon
<1>3. Len(p) = 1 /\ p[1] = n
  BY <1>2
<1>4. PICK st : st = [word |-> w, params |-> p, operands |-> o]
  OBVIOUS
<1>5. st \in Statements
  BY <1>3, <1>4 DEF Statements, Words
<1>6. st.word = w /\ st.params = p
  BY <1>4
<1> QED BY <1>2, <1>3, <1>4, <1>5, <1>6 DEF Statement

LEMMA FourInOrder ==
    ASSUME NEW S, NEW a \in S, NEW b \in S, NEW c \in S, NEW d \in S
    PROVE  \E h \in Seq(S) :
              h = <<a, b, c, d>> /\ Len(h) = 4 /\ h[1] = a /\ h[2] = b /\ h[3] = c /\ h[4] = d
<1>1. <<a, b, c, d>> \in Seq(S)
  OBVIOUS
<1>2. PICK h \in Seq(S) : h = <<a, b, c, d>>
  BY <1>1, Zenon
<1>3. Len(h) = 4 /\ h[1] = a /\ h[2] = b /\ h[3] = c /\ h[4] = d
  BY <1>2
<1> QED BY <1>2, <1>3

LEMMA HeaderParts ==
    ASSUME NEW n \in Nat
    PROVE  \E h \in Seq(Statements) : h = Header(n) /\ Len(h) = 4 /\ HasHeader(h, n)
<1>0. <<>> \in Seq(Nat) /\ {"OPENQASM 3", "include"} \subseteq Words \ {"qubit", "bit", "measure"}
  BY DEF Words
<1>1. ASSUME NEW w \in {"OPENQASM 3", "include"}
      PROVE  \E st \in Statements : st = Plain(w, <<>>) /\ st.word = w
  <2>1. Plain(w, <<>>) \in Statements
    BY <1>0, PlainTyped
  <2>2. Plain(w, <<>>).word = w
    BY DEF Plain, Statement
  <2> QED BY <2>1, <2>2
<1>2. PICK a \in Statements : a = Plain("OPENQASM 3", <<>>) /\ a.word = "OPENQASM 3"
  BY <1>1
<1>3. PICK b \in Statements : b = Plain("include", <<>>) /\ b.word = "include"
  BY <1>1
<1>4. PICK c \in Statements : c = Statement("qubit", <<n>>, <<>>) /\ c.word = "qubit" /\ c.params[1] = n
  BY DeclarationTyped
<1>5. PICK d \in Statements : d = Statement("bit", <<n>>, <<>>) /\ d.word = "bit" /\ d.params[1] = n
  BY DeclarationTyped
<1>6. PICK h \in Seq(Statements) :
         h = <<a, b, c, d>> /\ Len(h) = 4 /\ h[1] = a /\ h[2] = b /\ h[3] = c /\ h[4] = d
  BY FourInOrder, SMTT(30)
<1>7. h = Header(n)
  BY <1>2, <1>3, <1>4, <1>5, <1>6, ZenonT(60) DEF Header
<1>8. HasHeader(h, n)
  BY <1>2, <1>3, <1>4, <1>5, <1>6, Zenon DEF HasHeader
<1> QED BY <1>6, <1>7, <1>8

LEMMA PrintedParts ==
    ASSUME NEW n \in Nat, NEW body \in Seq(Statements)
    PROVE  LET text == Header(n) \o body IN
           text \in Seq(Statements) /\ HasHeader(text, n) /\ HasBody(text, body)
<1>1. PICK h \in Seq(Statements) : h = Header(n) /\ Len(h) = 4 /\ HasHeader(h, n)
  BY HeaderParts
<1>2. PICK N \in Nat : N = Len(body)
  BY LenProperties
<1>3. PICK text \in Seq(Statements) :
         /\ text = h \o body /\ Len(text) = Len(h) + Len(body)
         /\ \A i \in 1 .. Len(h) + Len(body) : text[i] = IF i <= Len(h) THEN h[i] ELSE body[i - Len(h)]
  <2>1. h \o body \in Seq(Statements)
    BY ConcatProperties
  <2>2. PICK text \in Seq(Statements) : text = h \o body
    BY <2>1, Zenon
  <2> QED BY <2>2, ConcatProperties
<1>4. text[1] = h[1] /\ text[2] = h[2] /\ text[3] = h[3] /\ text[4] = h[4]
  <2>1. \A i \in {1, 2, 3, 4} : i \in 1 .. 4 + N /\ i <= 4
    BY <1>2
  <2> QED BY <1>1, <1>2, <1>3, <2>1
<1>5. \A i \in 1 .. N : text[4 + i] = body[i]
  <2>1. \A i \in 1 .. N : 4 + i \in 1 .. 4 + N /\ ~(4 + i <= 4) /\ 4 + i - 4 = i
    BY <1>2
  <2> QED BY <1>1, <1>2, <1>3, <2>1
<1>6. HasHeader(text, n)
  BY <1>1, <1>4 DEF HasHeader
<1>7. HasBody(text, body)
  BY <1>1, <1>2, <1>3, <1>5 DEF HasBody
<1> QED BY <1>1, <1>3, <1>6, <1>7

\* The statements each operation of a circuit is printed in.
Blocks(c) == [i \in DOMAIN c.operations |-> SerializeOperation(c.operations[i])]

LEMMA PrintedInBlocks ==
    ASSUME NEW c
    PROVE  ToQasm3(c) = Header(c.numQubits) \o FlattenSeq(Blocks(c))
BY Zenon DEF ToQasm3, Header, Blocks

LEMMA PrintedTyped ==
    ASSUME NEW c, IsCircuit(c)
    PROVE  ToQasm3(c) \in Seq(Statements) /\ ToQasm3(c) # <<>>
<1>1. PICK s \in Seq(Made), n \in Nat : s = c.operations /\ n = c.numQubits
  BY CircuitParts
<1>2. PICK r \in Seq(Seq(Statements)) : r = Blocks(c)
  <2>1. \A i \in DOMAIN s : SerializeOperation(s[i]) \in Seq(Statements)
    BY SerializedTyped
  <2>2. [i \in DOMAIN s |-> SerializeOperation(s[i])] \in Seq(Seq(Statements))
    BY <2>1
  <2> QED BY <1>1, <2>2, Zenon DEF Blocks
<1>3. PICK b \in Seq(Statements) : b = FlattenSeq(r)
  BY Flattened
<1>4. PICK t : t = Header(n) \o b /\ t \in Seq(Statements) /\ HasBody(t, b)
  BY PrintedParts
<1>5. t = ToQasm3(c)
  BY <1>1, <1>2, <1>3, <1>4, PrintedInBlocks
<1>6. Len(t) = 4 + Len(b) /\ Len(b) \in Nat
  BY <1>4, LenProperties DEF HasBody
<1> QED BY <1>4, <1>5, <1>6, EmptySeq

\* The ids do not show in the text.
LEMMA LayoutPrinted ==
    ASSUME NEW c, NEW d, IsCircuit(c), IsCircuit(d), Layout(c) = Layout(d)
    PROVE  ToQasm3(c) = ToQasm3(d)
<1>1. PICK s \in Seq(Made), n \in Nat : s = c.operations /\ n = c.numQubits
  BY CircuitParts
<1>2. PICK r \in Seq(Made), m \in Nat : r = d.operations /\ m = d.numQubits
  BY CircuitParts
<1> DEFINE a == [i \in DOMAIN s |-> [s[i] EXCEPT !.id = 0]]
           b == [i \in DOMAIN r |-> [r[i] EXCEPT !.id = 0]]
<1>3. n = m /\ a = b
  BY <1>1, <1>2 DEF Layout
<1>4. DOMAIN s = DOMAIN r
  BY <1>3
<1>5. ASSUME NEW i \in DOMAIN s PROVE SerializeOperation(s[i]) = SerializeOperation(r[i])
  <2>1. PICK o \in Made, p \in Made : o = s[i] /\ p = r[i] /\ [o EXCEPT !.id = 0] = [p EXCEPT !.id = 0]
    <3>1. s[i] \in Made /\ r[i] \in Made /\ a[i] = b[i]
      BY <1>3, <1>4
    <3> QED BY <1>4, <3>1
  <2>2. o \in Operations /\ p \in Operations
    BY DEF Made
  <2>3. /\ [o EXCEPT !.id = 0].gate = o.gate /\ [p EXCEPT !.id = 0].gate = p.gate
        /\ [o EXCEPT !.id = 0].targets = o.targets /\ [p EXCEPT !.id = 0].targets = p.targets
        /\ [o EXCEPT !.id = 0].controls = o.controls /\ [p EXCEPT !.id = 0].controls = p.controls
        /\ [o EXCEPT !.id = 0].params = o.params /\ [p EXCEPT !.id = 0].params = p.params
    BY <2>2 DEF Operations
  <2>4. o.gate = p.gate /\ o.targets = p.targets /\ o.controls = p.controls /\ o.params = p.params
    BY <2>1, <2>3
  <2>5. SerializeOperation(o) = SerializeOperation(p)
    BY <2>4 DEF SerializeOperation
  <2> QED BY <2>1, <2>5
<1>6. [i \in DOMAIN s |-> SerializeOperation(s[i])] = [i \in DOMAIN r |-> SerializeOperation(r[i])]
  BY <1>4, <1>5
<1> QED BY <1>1, <1>2, <1>3, <1>6 DEF ToQasm3

(***************************************************************************)
(* What fromQasm3 reads: operations of the catalog, numbered and one to a  *)
(* layer, each within the register declared when it was read.              *)
(***************************************************************************)
Registers == Nat \cup {NoRegister}
ReadStates == [header : BOOLEAN, qubit : Registers, bit : Registers,
               operations : Seq(Made), ok : BOOLEAN]

\* What a statement does to what has been read.
Keeps(s, t) == t.operations = s.operations /\ t.qubit = s.qubit
Declares(s, st, t) == st.word = "qubit" /\ t.operations = s.operations /\ t.qubit = st.params[1]
Reads(s, t) ==
    /\ t.qubit = s.qubit /\ s.qubit # NoRegister
    /\ \E op \in Made : /\ t.operations = Append(s.operations, op)
                         /\ op.id = Len(s.operations) + 1 /\ op.layer = Len(s.operations)
                         /\ \A q \in Touched(op) : q < s.qubit

LEMMA ResolvedTyped ==
    ASSUME NEW word \in TextGates \cup Aliases, NEW params \in Seq(FiniteAngles)
    PROVE  Resolve(word, params).gate \in Gates /\ Resolve(word, params).params \in Seq(FiniteAngles)
<1> USE DEF TextGates, Aliases, Gates, Controlled
<1>1. 0 \in FiniteAngles /\ 2 \in FiniteAngles
  BY DEF FiniteAngles, NotFinite
<1>2. <<0, 0>> \in Seq(FiniteAngles) /\ <<2>> \in Seq(FiniteAngles)
  BY <1>1, Singles
<1>3. \A a, b \in Seq(FiniteAngles) : a \o b \in Seq(FiniteAngles)
  OBVIOUS
<1>4. CASE word = "u1"
  BY <1>2, <1>3, <1>4 DEF Resolve
<1>5. CASE word = "u2"
  BY <1>2, <1>3, <1>5 DEF Resolve
<1>6. CASE word \in {"u3", "cnot"}
  BY <1>6 DEF Resolve
<1>7. CASE word \notin {"u1", "u2", "u3", "cnot"}
  BY <1>7 DEF Resolve
<1> QED BY <1>4, <1>5, <1>6, <1>7

LEMMA ParsedRight ==
    ASSUME NEW s \in ReadStates, NEW st \in Statements, StatementFits(st, s),
           st.word \notin {"qubit", "bit"}
    PROVE  LET op == ParsedOperation(st, Len(s.operations) + 1) IN
           /\ op \in Made /\ op.id = Len(s.operations) + 1 /\ op.layer = Len(s.operations)
           /\ \A q \in Touched(op) : q < s.qubit
           /\ op.gate = IF st.word = "measure" THEN "m" ELSE Resolve(st.word, st.params).gate
           /\ Touched(op) = IF st.word = "measure" THEN {st.operands[2]} ELSE ToSet(st.operands)
           /\ IF st.word = "measure" THEN op.targets = <<st.operands[2]>>
              ELSE /\ op.params = Resolve(st.word, st.params).params
                   /\ op.controls \o op.targets = st.operands
<1>1. PICK n \in Nat : n = Len(s.operations)
  BY DEF ReadStates
<1>2. PICK w \in Words, p \in Seq(FiniteAngles), o \in Seq(Nat) :
         w = st.word /\ p = st.params /\ o = st.operands
  BY DEF Statements
<1>3. PICK op : op = ParsedOperation(st, Len(s.operations) + 1) /\ op = ParsedOperation(st, n + 1)
  BY <1>1
<1>4. n + 1 \in Int /\ n + 1 - 1 = n /\ n \in Int
  OBVIOUS
<1>5. CASE w = "measure"
  <2>1. Len(o) = 2 /\ o[2] < s.qubit
    BY <1>2, <1>5 DEF Statements, StatementFits, MeasureFits
  <2>2. PICK q \in Nat : q = o[2] /\ q < s.qubit
    <3>1. 2 \in 1 .. Len(o)
      BY <2>1
    <3>2. o[2] \in Nat
      BY <3>1, ElementOfSeq
    <3> QED BY <2>1, <3>2
  <2>3. op = Operation(n + 1, "m", n, <<>>, <<q>>, <<>>)
    BY <1>2, <1>3, <1>4, <1>5, <2>2 DEF ParsedOperation
  <2>4. <<q>> \in Seq(Nat) /\ <<>> \in Seq(Nat) /\ <<>> \in Seq(FiniteAngles) /\ Len(<<>>) = 0 /\ Len(<<q>>) = 1
    OBVIOUS
  <2>5. PICK e, t : e = <<>> /\ t = <<q>> /\ e \in Seq(Nat) /\ t \in Seq(Nat) /\ e \in Seq(FiniteAngles)
                    /\ Len(e) = 0 /\ Len(t) = 1 /\ ToSet(t) = {q} /\ ToSet(e) = {}
    <3>1. PICK e : e = <<>> /\ e \in Seq(Nat) /\ e \in Seq(FiniteAngles) /\ Len(e) = 0
      BY <2>4
    <3>2. PICK t : t = <<q>> /\ t \in Seq(Nat) /\ Len(t) = 1 /\ t[1] = q
      <4>1. <<q>>[1] = q
        OBVIOUS
      <4> QED BY <2>4, <4>1, Zenon
    <3>3. DOMAIN t = 1 .. 1 /\ DOMAIN e = 1 .. 0
      BY <3>1, <3>2, LenProperties
    <3>4. ToSet(t) = {q} /\ ToSet(e) = {}
      BY <3>2, <3>3 DEF ToSet
    <3> QED BY <3>1, <3>2, <3>4, Zenon
  <2>6. "m" \in Gates /\ ControlCount("m") = 0 /\ TargetCount("m") = 1 /\ DefaultParams("m") = <<>>
    BY DEF Gates, OneQubitGates, ControlCount, TargetCount, DefaultParams, Controlled, Entangling, Rotations
  <2>7. op = [id |-> n + 1, gate |-> "m", layer |-> n, controls |-> e, targets |-> t, params |-> e]
    BY <2>3, <2>5 DEF Operation
  <2>8. op \in Operations
    BY <1>4, <2>5, <2>6, <2>7 DEF Operations
  <2>9. FitsCatalog(op)
    BY <2>5, <2>6, <2>7 DEF FitsCatalog
  <2>10. Touched(op) = {q}
    BY <2>5, <2>7 DEF Touched
  <2>11. /\ op.id = n + 1 /\ op.layer = n /\ op.gate = "m" /\ op.targets = <<st.operands[2]>>
         /\ st.operands[2] = q /\ st.word = "measure"
    BY <1>2, <1>5, <2>2, <2>5, <2>7
  <2> QED BY <1>1, <1>3, <2>2, <2>8, <2>9, <2>10, <2>11 DEF Made
<1>6. CASE w # "measure"
  <2>1. GateFits(st, s)
    BY <1>2, <1>6 DEF StatementFits
  <2>2. PICK g \in Gates, v \in Seq(FiniteAngles) : g = Resolve(w, p).gate /\ v = Resolve(w, p).params
    BY <1>2, <2>1, ResolvedTyped DEF GateFits
  <2>3. PICK a \in Nat, b \in Nat : a = ControlCount(g) /\ b = TargetCount(g)
    BY DEF ControlCount, TargetCount
  <2>4. /\ Len(v) = Len(DefaultParams(g)) /\ Len(o) = a + b /\ \A i \in DOMAIN o : o[i] < s.qubit
    BY <1>2, <2>1, <2>2, <2>3 DEF GateFits
  <2>5. PICK c, t : c = SubSeq(o, 1, a) /\ t = SubSeq(o, a + 1, Len(o))
    OBVIOUS
  <2>6. /\ c \in Seq(Nat) /\ Len(c) = a /\ t \in Seq(Nat) /\ Len(t) = b
        /\ (\A i \in 1 .. a : c[i] = o[i]) /\ (\A i \in 1 .. b : t[i] = o[a + i])
    <3>1. \A i \in 1 .. a + b : o[i] \in Nat
      BY <2>4, ElementOfSeq
    <3>2. c \in Seq(Nat) /\ Len(c) = a /\ \A i \in 1 .. a : c[i] = o[i]
      <4>1. \A i \in 1 .. a : o[i] \in Nat
        BY <3>1
      <4>2. 1 \in Int /\ a \in Int
        OBVIOUS
      <4>3. /\ c \in Seq(Nat) /\ Len(c) = (IF 1 <= a THEN a - 1 + 1 ELSE 0)
            /\ \A i \in 1 .. a - 1 + 1 : c[i] = o[1 + i - 1]
        BY <2>5, <4>1, <4>2, SubSeqProperties, SMTT(30)
      <4> QED BY <4>3
    <3>3. t \in Seq(Nat) /\ Len(t) = b /\ \A i \in 1 .. b : t[i] = o[a + i]
      <4>1. PICK lo \in Int, hi \in Int : lo = a + 1 /\ hi = a + b
        OBVIOUS
      <4>2. \A i \in lo .. hi : o[i] \in Nat
        BY <3>1, <4>1
      <4>3. /\ SubSeq(o, lo, hi) \in Seq(Nat)
            /\ Len(SubSeq(o, lo, hi)) = (IF lo <= hi THEN hi - lo + 1 ELSE 0)
            /\ \A i \in 1 .. hi - lo + 1 : SubSeq(o, lo, hi)[i] = o[lo + i - 1]
        BY <4>2, SubSeqProperties
      <4>4. t = SubSeq(o, lo, hi)
        BY <2>4, <2>5, <4>1
      <4> QED BY <4>1, <4>3, <4>4
    <3> QED BY <3>2, <3>3
  <2>7. op = [id |-> n + 1, gate |-> g, layer |-> n, controls |-> c, targets |-> t, params |-> v]
    <3>1. op = Operation(n + 1, Resolve(w, p).gate, n + 1 - 1,
                         SubSeq(o, 1, ControlCount(Resolve(w, p).gate)),
                         SubSeq(o, ControlCount(Resolve(w, p).gate) + 1, Len(o)), Resolve(w, p).params)
      <4>1. st.word # "measure"
        BY <1>2, <1>6
      <4>2. PICK k : k = n + 1
        OBVIOUS
      <4>3. ParsedOperation(st, k) =
               Operation(k, Resolve(st.word, st.params).gate, k - 1,
                         SubSeq(st.operands, 1, ControlCount(Resolve(st.word, st.params).gate)),
                         SubSeq(st.operands, ControlCount(Resolve(st.word, st.params).gate) + 1, Len(st.operands)),
                         Resolve(st.word, st.params).params)
        BY <4>1, Zenon DEF ParsedOperation
      <4>4. Resolve(st.word, st.params) = Resolve(w, p)
        BY <1>2
      <4> QED BY <1>2, <1>3, <4>2, <4>3, <4>4
    <3>2. op = Operation(n + 1, g, n, c, t, v)
      BY <1>4, <2>2, <2>3, <2>5, <3>1
    <3> QED BY <3>2 DEF Operation
  <2>8. op \in Operations
    BY <1>4, <2>6, <2>7 DEF Operations
  <2>9. FitsCatalog(op)
    BY <2>3, <2>4, <2>6, <2>7 DEF FitsCatalog
  <2>10. (\A q \in Touched(op) : q < s.qubit) /\ Touched(op) = ToSet(o)
    <3>1. DOMAIN o = 1 .. a + b /\ DOMAIN c = 1 .. a /\ DOMAIN t = 1 .. b
      BY <2>4, <2>6
    <3>2. \A q \in ToSet(c) : q < s.qubit
      <4>1. \A i \in 1 .. a : i \in 1 .. a + b
        OBVIOUS
      <4> QED BY <2>4, <2>6, <3>1, <4>1 DEF ToSet
    <3>3. \A q \in ToSet(t) : q < s.qubit
      <4>1. \A i \in 1 .. b : a + i \in 1 .. a + b /\ t[i] = o[a + i]
        BY <2>6
      <4>2. \A i \in 1 .. b : t[i] < s.qubit
        BY <2>4, <3>1, <4>1
      <4> QED BY <3>1, <4>2 DEF ToSet
    <3>4. \A i \in 1 .. a + b : i \in 1 .. a \/ (i - a \in 1 .. b /\ a + (i - a) = i)
      OBVIOUS
    <3>5. \A i \in 1 .. a + b : o[i] \in ToSet(c) \cup ToSet(t)
      <4> SUFFICES ASSUME NEW i \in 1 .. a + b PROVE o[i] \in ToSet(c) \cup ToSet(t)
        OBVIOUS
      <4>1. CASE i \in 1 .. a
        BY <2>6, <3>1, <4>1 DEF ToSet
      <4>2. CASE i - a \in 1 .. b /\ a + (i - a) = i
        <5>1. t[i - a] = o[i]
          BY <2>6, <4>2
        <5> QED BY <3>1, <4>2, <5>1 DEF ToSet
      <4> QED BY <3>4, <4>1, <4>2
    <3>6. ToSet(o) \subseteq ToSet(c) \cup ToSet(t)
      BY <3>1, <3>5 DEF ToSet
    <3>7. ToSet(c) \subseteq ToSet(o)
      <4>1. \A i \in 1 .. a : i \in 1 .. a + b
        OBVIOUS
      <4> QED BY <2>6, <3>1, <4>1 DEF ToSet
    <3>8. ToSet(t) \subseteq ToSet(o)
      <4>1. \A i \in 1 .. b : a + i \in 1 .. a + b /\ t[i] = o[a + i]
        BY <2>6
      <4> QED BY <3>1, <4>1 DEF ToSet
    <3> QED BY <2>7, <3>2, <3>3, <3>6, <3>7, <3>8 DEF Touched
  <2>11. /\ g = Resolve(st.word, st.params).gate /\ v = Resolve(st.word, st.params).params
         /\ st.word # "measure" /\ st.operands = o
    BY <1>2, <1>6, <2>2
  <2>12. c \o t = o
    <3>1. PICK r \in Seq(Nat) : r = c \o t
      <4>1. c \o t \in Seq(Nat)
        BY <2>6
      <4> QED BY <4>1, Zenon
    <3>2. Len(r) = a + b /\ (\A i \in 1 .. a : r[i] = c[i]) /\ \A i \in a + 1 .. a + b : r[i] = t[i - a]
      <4>1. /\ Len(c \o t) = Len(c) + Len(t)
            /\ \A i \in 1 .. Len(c) + Len(t) : (c \o t)[i] = IF i <= Len(c) THEN c[i] ELSE t[i - Len(c)]
        BY <2>6, ConcatProperties, ZenonT(60)
      <4>2. Len(r) = a + b /\ \A i \in 1 .. a + b : r[i] = IF i <= a THEN c[i] ELSE t[i - a]
        BY <2>6, <3>1, <4>1, SMTT(30)
      <4>3. \A i \in 1 .. a : i \in 1 .. a + b /\ i <= a
        OBVIOUS
      <4>4. \A i \in a + 1 .. a + b : i \in 1 .. a + b /\ ~(i <= a)
        OBVIOUS
      <4> QED BY <4>2, <4>3, <4>4, Zenon
    <3>3. \A i \in 1 .. a + b : r[i] = o[i]
      <4> SUFFICES ASSUME NEW i \in 1 .. a + b PROVE r[i] = o[i]
        OBVIOUS
      <4>1. CASE i \in 1 .. a
        BY <2>6, <3>2, <4>1
      <4>2. CASE i \in a + 1 .. a + b
        <5>1. i - a \in 1 .. b /\ a + (i - a) = i
          BY <4>2
        <5>2. t[i - a] = o[i]
          BY <2>6, <5>1
        <5> QED BY <3>2, <4>2, <5>2
      <4> QED BY <4>1, <4>2
    <3> QED BY <2>4, <3>1, <3>2, <3>3, SeqEqual
  <2>13. op.gate = g /\ op.params = v /\ op.controls = c /\ op.targets = t /\ op.id = n + 1 /\ op.layer = n
    BY <2>7
  <2> QED BY <1>1, <1>3, <2>8, <2>9, <2>10, <2>11, <2>12, <2>13 DEF Made
<1> QED BY <1>5, <1>6

LEMMA ReadStep ==
    ASSUME NEW s \in ReadStates, NEW st \in Statements
    PROVE  LET t == ParseStatement(s, st) IN
           t \in ReadStates /\ (Keeps(s, t) \/ Declares(s, st, t) \/ Reads(s, t))
<1>1. PICK t : t = ParseStatement(s, st)
  OBVIOUS
<1>2. CASE ~s.ok \/ st.word = "include"
  <2>1. t = s
    BY <1>1, <1>2 DEF ParseStatement
  <2> QED BY <1>1, <2>1 DEF Keeps
<1>3. CASE s.ok /\ st.word = "OPENQASM 3"
  <2>1. t = [s EXCEPT !.header = TRUE]
    BY <1>1, <1>3 DEF ParseStatement
  <2> QED BY <1>1, <2>1 DEF Keeps, ReadStates
<1>4. CASE s.ok /\ st.word = "qubit"
  <2>1. PICK n \in Nat : n = st.params[1]
    BY <1>4 DEF Statements
  <2>2. t = [s EXCEPT !.qubit = n]
    BY <1>1, <1>4, <2>1 DEF ParseStatement
  <2> QED BY <1>1, <1>4, <2>1, <2>2 DEF Declares, ReadStates, Registers
<1>5. CASE s.ok /\ st.word = "bit"
  <2>1. PICK n \in Nat : n = st.params[1]
    BY <1>5 DEF Statements
  <2>2. t = [s EXCEPT !.bit = n]
    BY <1>1, <1>5, <2>1 DEF ParseStatement
  <2> QED BY <1>1, <2>1, <2>2 DEF Keeps, ReadStates, Registers
<1>6. CASE s.ok /\ st.word \notin {"OPENQASM 3", "include", "qubit", "bit"} /\ StatementFits(st, s)
  <2>1. PICK op : op = ParsedOperation(st, Len(s.operations) + 1)
    OBVIOUS
  <2>2. /\ op \in Made /\ op.id = Len(s.operations) + 1 /\ op.layer = Len(s.operations)
        /\ \A q \in Touched(op) : q < s.qubit
    BY <1>6, <2>1, ParsedRight
  <2>3. PICK r \in Seq(Made) : r = Append(s.operations, op)
    BY <2>2, AppendProperties DEF ReadStates
  <2>4. t = [s EXCEPT !.operations = Append(@, op)]
    BY <1>1, <1>6, <2>1 DEF ParseStatement
  <2>5. t = [s EXCEPT !.operations = r]
    BY <2>3, <2>4 DEF ReadStates
  <2>6. t \in ReadStates /\ t.operations = r /\ t.qubit = s.qubit
    BY <2>3, <2>5 DEF ReadStates
  <2>7. s.qubit # NoRegister
    BY <1>6 DEF StatementFits
  <2> QED BY <1>1, <2>2, <2>3, <2>6, <2>7 DEF Reads
<1>7. CASE s.ok /\ st.word \notin {"OPENQASM 3", "include", "qubit", "bit"} /\ ~StatementFits(st, s)
  <2>1. t = [s EXCEPT !.ok = FALSE]
    BY <1>1, <1>7 DEF ParseStatement
  <2> QED BY <1>1, <2>1 DEF Keeps, ReadStates
<1> QED BY <1>2, <1>3, <1>4, <1>5, <1>6, <1>7

\* The reading of a text, statement by statement.
ReadsOn(f, text) ==
    /\ f[0] = NothingRead /\ Reading(text) = f[Len(text)]
    /\ \A n \in 1 .. Len(text) : f[n] = ParseStatement(f[n - 1], text[n])

LEMMA ReadingEquation ==
    ASSUME NEW text \in Seq(Statements)
    PROVE  \E f : ReadsOn(f, text)
<1> DEFINE N == Len(text)
           Eq(f) == f = [n \in 0 .. N |-> IF n = 0 THEN NothingRead ELSE ParseStatement(f[n - 1], text[n])]
           F == CHOOSE f : Eq(f)
           G == [p \in (1 .. N) \X ReadStates |-> ParseStatement(p[2], text[p[1]])]
<1>1. N \in Nat /\ \A n \in 1 .. N : text[n] \in Statements
  OBVIOUS
<1>2. Reading(text) = F[N]
  BY DEF Reading
<1> HIDE DEF N
<1>3. NothingRead \in ReadStates
  <2>1. <<>> \in Seq(Made)
    OBVIOUS
  <2> QED BY <2>1 DEF NothingRead, ReadStates, Registers
<1>4. \A n \in 1 .. N, q \in ReadStates : G[<<n, q>>] = ParseStatement(q, text[n]) /\ G[<<n, q>>] \in ReadStates
  BY <1>1, ReadStep
<1> HIDE DEF G
<1>5. \A n \in 1 .. N, q \in ReadStates : G[<<n, q>>] \in ReadStates
  BY <1>4
<1>6. PICK f : RunsOn(f, ReadStates, N, NothingRead, G)
  BY <1>1, <1>3, <1>5, Recursion
<1>7. /\ f \in [0 .. N -> ReadStates] /\ f[0] = NothingRead
      /\ \A n \in 1 .. N : f[n] = ParseStatement(f[n - 1], text[n])
  <2>1. /\ f \in [0 .. N -> ReadStates] /\ f[0] = NothingRead
        /\ \A n \in 1 .. N : f[n] = G[<<n, f[n - 1]>>]
    BY <1>6 DEF RunsOn
  <2>2. \A n \in 1 .. N : f[n - 1] \in ReadStates
    <3>1. \A n \in 1 .. N : n - 1 \in 0 .. N
      BY <1>1
    <3> QED BY <2>1, <3>1
  <2> QED BY <1>4, <2>1, <2>2
<1>8. Eq(f)
  <2> DEFINE h == [n \in 0 .. N |-> IF n = 0 THEN NothingRead ELSE ParseStatement(f[n - 1], text[n])]
  <2>1. \A n \in 0 .. N : f[n] = h[n]
    <3> SUFFICES ASSUME NEW n \in 0 .. N PROVE f[n] = h[n]
      OBVIOUS
    <3>1. h[n] = IF n = 0 THEN NothingRead ELSE ParseStatement(f[n - 1], text[n])
      OBVIOUS
    <3>2. n = 0 \/ n \in 1 .. N
      BY <1>1
    <3> HIDE DEF h
    <3> QED BY <1>7, <3>1, <3>2
  <2>2. f = [n \in 0 .. N |-> f[n]] /\ h = [n \in 0 .. N |-> h[n]]
    <3>1. h = [n \in 0 .. N |-> h[n]]
      OBVIOUS
    <3> QED BY <1>7, <3>1
  <2>3. f = h
    <3> HIDE DEF h
    <3> QED BY <2>1, <2>2
  <2> QED BY <2>3
<1>9. Eq(F)
  <2> HIDE DEF Eq
  <2> QED BY <1>8
<1> HIDE DEF F
<1>10. \A n \in 0 .. N : F[n] = IF n = 0 THEN NothingRead ELSE ParseStatement(F[n - 1], text[n])
  BY <1>9
<1>11. F[0] = NothingRead
  BY <1>1, <1>10
<1>12. \A n \in 1 .. N : F[n] = ParseStatement(F[n - 1], text[n])
  <2> SUFFICES ASSUME NEW n \in 1 .. N PROVE F[n] = ParseStatement(F[n - 1], text[n])
    OBVIOUS
  <2>1. n \in 0 .. N /\ n # 0
    BY <1>1
  <2> QED BY <1>10, <2>1
<1> QED BY <1>2, <1>11, <1>12 DEF ReadsOn, N

Numbered(ops) == \A i \in DOMAIN ops : ops[i].id = i /\ ops[i].layer = i - 1
OneRegister(text) == \A i, j \in DOMAIN text :
    text[i].word = "qubit" /\ text[j].word = "qubit" => i = j /\ text[i].params[1] # 0
Within(s) == \A op \in ToSet(s.operations) : \A q \in Touched(op) : q < s.qubit

\* What holds of what has been read of the first n statements.
ReadRight(s, text, n) ==
    /\ s \in ReadStates /\ Numbered(s.operations)
    /\ OneRegister(text) =>
        /\ s.qubit = NoRegister => s.operations = <<>>
        /\ s.qubit # NoRegister => s.qubit > 0 /\ \E i \in 1 .. n : text[i].word = "qubit"
        /\ Within(s)

LEMMA ReadRightStep ==
    ASSUME NEW text \in Seq(Statements), NEW n \in Nat, n + 1 <= Len(text),
           NEW s, ReadRight(s, text, n)
    PROVE  ReadRight(ParseStatement(s, text[n + 1]), text, n + 1)
<1>1. PICK st \in Statements : st = text[n + 1]
  BY ElementOfSeq
<1>2. s \in ReadStates /\ Numbered(s.operations)
  BY DEF ReadRight
<1>3. PICK t : t = ParseStatement(s, st) /\ t \in ReadStates /\ (Keeps(s, t) \/ Declares(s, st, t) \/ Reads(s, t))
  BY <1>2, ReadStep
<1>4. DOMAIN text = 1 .. Len(text) /\ n + 1 \in DOMAIN text /\ 1 .. n \subseteq 1 .. n + 1
      /\ n + 1 \in 1 .. n + 1 /\ (\A i \in 1 .. n : i \in DOMAIN text /\ i # n + 1) /\ Len(text) \in Nat
  BY LenProperties
<1>5. CASE Keeps(s, t)
  <2>1. t.operations = s.operations /\ t.qubit = s.qubit
    BY <1>5 DEF Keeps
  <2>2. Numbered(t.operations)
    BY <1>2, <2>1
  <2>3. ASSUME OneRegister(text)
        PROVE  /\ t.qubit = NoRegister => t.operations = <<>>
               /\ t.qubit # NoRegister => t.qubit > 0 /\ \E i \in 1 .. n : text[i].word = "qubit"
    BY <2>1, <2>3 DEF ReadRight
  <2>4. OneRegister(text) => Within(t)
    BY <2>1 DEF ReadRight, Within
  <2> QED BY <1>1, <1>3, <1>4, <2>2, <2>3, <2>4 DEF ReadRight
<1>6. CASE Declares(s, st, t)
  <2>1. t.operations = s.operations /\ t.qubit = st.params[1] /\ st.word = "qubit"
    BY <1>6 DEF Declares
  <2>2. PICK k \in Nat : k = st.params[1] /\ k # NoRegister
    BY <2>1 DEF Statements, NoRegister
  <2>3. Numbered(t.operations)
    BY <1>2, <2>1
  <2>4. ASSUME OneRegister(text) PROVE s.qubit = NoRegister /\ t.qubit > 0 /\ t.operations = <<>>
    <3>1. \A i \in 1 .. n : text[i].word # "qubit"
      BY <1>1, <1>4, <2>1, <2>4 DEF OneRegister
    <3>2. s.qubit = NoRegister /\ s.operations = <<>>
      BY <2>4, <3>1 DEF ReadRight
    <3>3. k # 0
      BY <1>1, <1>4, <2>1, <2>2, <2>4 DEF OneRegister
    <3> QED BY <2>1, <2>2, <3>2, <3>3
  <2>5. OneRegister(text) => Within(t)
    <3> SUFFICES ASSUME OneRegister(text) PROVE Within(t)
      OBVIOUS
    <3>1. ToSet(t.operations) = {}
      BY <2>4 DEF ToSet
    <3> QED BY <3>1 DEF Within
  <2>6. \E i \in 1 .. n + 1 : text[i].word = "qubit"
    BY <1>1, <1>4, <2>1
  <2>7. t.qubit # NoRegister
    BY <2>1, <2>2
  <2> QED BY <1>1, <1>3, <2>3, <2>4, <2>5, <2>6, <2>7 DEF ReadRight
<1>7. CASE Reads(s, t)
  <2>1. PICK op \in Made : /\ t.operations = Append(s.operations, op) /\ t.qubit = s.qubit /\ s.qubit # NoRegister
                           /\ op.id = Len(s.operations) + 1 /\ op.layer = Len(s.operations)
                           /\ \A q \in Touched(op) : q < s.qubit
    BY <1>7 DEF Reads
  <2>2. PICK a \in Seq(Made), b \in Seq(Made), m \in Nat :
           /\ a = s.operations /\ b = t.operations /\ b = Append(a, op) /\ m = Len(a)
           /\ DOMAIN a = 1 .. m /\ DOMAIN b = 1 .. m + 1 /\ b[m + 1] = op /\ \A i \in 1 .. m : b[i] = a[i]
    <3>1. PICK a \in Seq(Made) : a = s.operations
      BY <1>2 DEF ReadStates
    <3>2. PICK b \in Seq(Made) : b = t.operations
      BY <1>3 DEF ReadStates
    <3>3. PICK m \in Nat : m = Len(a) /\ DOMAIN a = 1 .. m
      BY LenProperties
    <3>4. b = Append(a, op)
      BY <2>1, <3>1, <3>2
    <3>5. Len(b) = m + 1 /\ b[m + 1] = op /\ \A i \in 1 .. m : b[i] = a[i]
      BY <3>3, <3>4, AppendProperties
    <3>6. DOMAIN b = 1 .. m + 1
      BY <3>5, LenProperties
    <3> QED BY <3>1, <3>2, <3>3, <3>4, <3>5, <3>6
  <2>3. Numbered(b)
    <3> SUFFICES ASSUME NEW i \in 1 .. m + 1 PROVE b[i].id = i /\ b[i].layer = i - 1
      BY <2>2 DEF Numbered
    <3>1. CASE i \in 1 .. m
      BY <1>2, <2>2, <3>1 DEF Numbered
    <3>2. CASE i = m + 1
      BY <2>1, <2>2, <3>2
    <3> QED BY <3>1, <3>2
  <2>4. ToSet(b) = ToSet(a) \cup {op}
    BY <2>2, Appended
  <2>5. Within(s) => Within(t)
    BY <2>1, <2>2, <2>4 DEF Within
  <2>6. Numbered(t.operations)
    BY <2>2, <2>3
  <2> QED BY <1>1, <1>3, <1>4, <2>1, <2>5, <2>6 DEF ReadRight
<1> QED BY <1>3, <1>5, <1>6, <1>7

LEMMA ReadingRight ==
    ASSUME NEW text \in Seq(Statements)
    PROVE  ReadRight(Reading(text), text, Len(text))
<1>1. PICK f : ReadsOn(f, text)
  BY ReadingEquation
<1> DEFINE B == {n \in Nat : n <= Len(text) => ReadRight(f[n], text, n)}
<1>2. Len(text) \in Nat
  BY LenProperties
<1>3. 0 \in B
  <2>1. PICK e \in Seq(Made) : e = <<>> /\ DOMAIN e = {} /\ ToSet(e) = {}
    <3>1. <<>> \in Seq(Made) /\ DOMAIN <<>> = {}
      OBVIOUS
    <3> QED BY <3>1 DEF ToSet
  <2>2. NothingRead \in ReadStates /\ NothingRead.operations = e /\ NothingRead.qubit = NoRegister
    BY <2>1 DEF NothingRead, ReadStates, Registers
  <2>3. ReadRight(NothingRead, text, 0)
    BY <2>1, <2>2 DEF ReadRight, Numbered, Within
  <2> QED BY <1>1, <2>3 DEF ReadsOn
<1>4. ASSUME NEW n \in Nat, n \in B PROVE n + 1 \in B
  <2> SUFFICES ASSUME n + 1 <= Len(text) PROVE ReadRight(f[n + 1], text, n + 1)
    OBVIOUS
  <2>1. ReadRight(f[n], text, n)
    BY <1>2, <1>4
  <2>2. n + 1 \in 1 .. Len(text) /\ n + 1 - 1 = n
    BY <1>2
  <2>3. f[n + 1] = ParseStatement(f[n], text[n + 1])
    BY <1>1, <2>2 DEF ReadsOn
  <2> QED BY <2>1, <2>3, ReadRightStep
<1>5. Len(text) \in B
  <2> HIDE DEF B
  <2> QED BY <1>2, <1>3, <1>4, NatSetInduction
<1> QED BY <1>1, <1>2, <1>5 DEF ReadsOn

LEMMA ModelRight ==
    ASSUME NEW text \in Seq(Statements), FromQasm3(text).ok
    PROVE  LET m == FromQasm3(text).model IN
           /\ Sound(m) /\ \A op \in Ops(m) : op.id > 0
           /\ OneRegister(text) => InRegister(m)
<1>1. PICK s : s = Reading(text) /\ ReadRight(s, text, Len(text))
  BY ReadingRight
<1>2. PICK m : m = [numQubits |-> s.qubit, operations |-> s.operations]
  OBVIOUS
<1>3. FromQasm3(text).model = m /\ s.qubit # NoRegister /\ Validates(m)
  BY <1>1, <1>2 DEF FromQasm3
<1>4. PICK a \in Seq(Made), n \in Nat : a = s.operations /\ n = s.qubit /\ Numbered(a)
  BY <1>1, <1>3 DEF ReadRight, ReadStates, Registers
<1>5. m.numQubits = n /\ m.operations = a /\ m \in [numQubits : Nat, operations : Seq(Made)] /\ Ops(m) = ToSet(a)
  BY <1>2, <1>4 DEF Ops
<1>6. IsCircuit(m)
  BY <1>5, CircuitType
<1>7. DOMAIN a = 1 .. Len(a) /\ Len(a) \in Nat
  BY LenProperties
<1>8. Arranged(a)
  BY <1>4, <1>7 DEF Arranged, Numbered
<1>9. Sound(m)
  BY <1>3, <1>5, <1>6, <1>8, ValidMeansWellFormed
<1>10. \A op \in Ops(m) : op.id > 0
  BY <1>4, <1>5, <1>7 DEF Numbered, ToSet
<1>11. ASSUME OneRegister(text) PROVE InRegister(m)
  <2>1. n > 0 /\ \A op \in Ops(m) : \A q \in Touched(op) : q < n
    BY <1>1, <1>3, <1>4, <1>5, <1>11 DEF ReadRight, Within
  <2>2. \A op \in Made : \A q \in Touched(op) : q \in Nat
    BY OperationParts DEF Touched, ToSet
  <2>3. Ops(m) \subseteq Made
    BY <1>6, CircuitParts
  <2> QED BY <1>5, <2>1, <2>2, <2>3 DEF InRegister, OutOfRange
<1> QED BY <1>3, <1>9, <1>10, <1>11

(***************************************************************************)
(* What the server accepts.                                                *)
(***************************************************************************)
LEMMA TouchedNumbers ==
    ASSUME NEW op \in Made
    PROVE  Touched(op) \subseteq Nat
BY OperationParts DEF Touched, ToSet

LEMMA OperationAccepted ==
    ASSUME NEW op \in Made, NEW n \in Nat, \A q \in Touched(op) : q < n
    PROVE  LET sent == [gate |-> op.gate, targets |-> op.targets,
                        controls |-> IF ControlCount(op.gate) = 0 THEN <<>> ELSE op.controls,
                        params |-> IF IsParameterized(op.gate) THEN op.params ELSE <<>>]
           IN  Buildable(op) /\ AcceptsOperation(sent, n)
<1>1. PICK g \in Gates, c \in Seq(Nat), t \in Seq(Nat), v \in Seq(FiniteAngles) :
         /\ g = op.gate /\ c = op.controls /\ t = op.targets /\ v = op.params
         /\ Len(c) = ControlCount(g) /\ Len(t) = TargetCount(g) /\ Len(v) = Len(DefaultParams(g))
  BY OperationParts
<1>2. Buildable(op)
  BY <1>1 DEF Buildable
<1>3. InRange(t, n) /\ InRange(c, n)
  <2>1. \A q \in ToSet(t) \cup ToSet(c) : q < n /\ q >= 0
    BY <1>1, TouchedNumbers DEF Touched
  <2> QED BY <2>1 DEF InRange, ToSet
<1>4. PICK sent : sent = [gate |-> g, targets |-> t,
                          controls |-> IF ControlCount(g) = 0 THEN <<>> ELSE c,
                          params |-> IF IsParameterized(g) THEN v ELSE <<>>]
  OBVIOUS
<1>5. /\ sent.gate = g /\ sent.targets = t
      /\ ControlCount(g) # 0 => sent.controls = c
      /\ DefaultParams(g) # <<>> => sent.params = v
  BY <1>4 DEF IsParameterized
<1> USE DEF OneQubitGates, Rotations, Controlled, Entangling, SingleQubitGates, ParameterizedGates, ControlledGates
<1>6. g \in SupportedGates
  BY DEF Gates, SupportedGates
<1>7. Len(t) = IF g \in {"swap", "rxx", "ryy", "rzz", "rzx", "cswap"} THEN 2 ELSE 1
  BY <1>1 DEF TargetCount
<1>8. ASSUME g \in ControlledGates \cup {"cswap"} PROVE sent.controls = c /\ Len(c) = 1
  BY <1>1, <1>5, <1>8 DEF ControlCount
<1>9. ASSUME g \in {"ccx", "ccz"} PROVE sent.controls = c /\ Len(c) = 2
  BY <1>1, <1>5, <1>9 DEF ControlCount
<1>10. ASSUME g \in {"rx", "ry", "rz", "p", "cp", "rxx", "ryy", "rzz", "rzx"} PROVE Len(sent.params) = 1
  <2>1. DefaultParams(g) = <<0>>
    BY <1>10 DEF DefaultParams
  <2>2. <<0>> # <<>> /\ Len(<<0>>) = 1
    OBVIOUS
  <2> QED BY <1>1, <1>5, <2>1, <2>2
<1>11. ASSUME g = "u" PROVE Len(sent.params) = 3
  <2>1. DefaultParams(g) = <<0, 0, 0>>
    BY <1>11 DEF DefaultParams
  <2>2. <<0, 0, 0>> # <<>> /\ Len(<<0, 0, 0>>) = 3
    OBVIOUS
  <2> QED BY <1>1, <1>5, <2>1, <2>2
<1>12. AcceptsOperation(sent, n)
  BY <1>3, <1>5, <1>6, <1>7, <1>8, <1>9, <1>10, <1>11 DEF AcceptsOperation
<1> QED BY <1>1, <1>2, <1>4, <1>12

LEMMA CircuitAccepted ==
    ASSUME NEW c, IsCircuit(c), InRegister(c)
    PROVE  (\A op \in Ops(c) : Buildable(op)) /\ ServerAccepts(PayloadOf(c))
<1>1. PICK s \in Seq(Made), n \in Nat : s = c.operations /\ n = c.numQubits /\ Ops(c) = ToSet(s)
  BY CircuitParts
<1>2. n > 0 /\ \A op \in ToSet(s) : op \in Made /\ \A q \in Touched(op) : q < n
  <2>1. \A op \in ToSet(s) : op \in Made
    BY DEF ToSet
  <2>2. \A op \in ToSet(s) : \A q \in Touched(op) : ~(q >= n)
    BY <1>1 DEF InRegister, OutOfRange
  <2> QED BY <1>1, <2>1, <2>2, TouchedNumbers DEF InRegister
<1>3. \A op \in Ops(c) : Buildable(op)
  BY <1>1, <1>2, OperationAccepted
<1> DEFINE Sent(op) == [gate |-> op.gate, targets |-> op.targets,
                        controls |-> IF ControlCount(op.gate) = 0 THEN <<>> ELSE op.controls,
                        params |-> IF IsParameterized(op.gate) THEN op.params ELSE <<>>]
<1>4. PICK p : p = [num_qubits |-> n, operations |-> [i \in DOMAIN s |-> Sent(s[i])]]
  OBVIOUS
<1>5. \A i \in DOMAIN s : AcceptsOperation(Sent(s[i]), n)
  BY <1>2, OperationAccepted DEF ToSet
<1>6. PayloadOf(c) = p
  BY <1>1, <1>4 DEF PayloadOf
<1> HIDE DEF Sent
<1>7. p.num_qubits = n /\ p.operations = [i \in DOMAIN s |-> Sent(s[i])]
  BY <1>4
<1>8. \A i \in DOMAIN p.operations : AcceptsOperation(p.operations[i], p.num_qubits)
  BY <1>5, <1>7
<1> QED BY <1>2, <1>3, <1>6, <1>7, <1>8 DEF ServerAccepts

(***************************************************************************)
(* What the workbench lets into its history: circuits that are sound, with *)
(* the ids of those it loads or of the n-th edit from the end and before,  *)
(* and within their register unless one has been misplaced.                *)
(***************************************************************************)
Goods(n, misplaced) ==
    {c \in [numQubits : Nat, operations : Seq(Operations)] :
        /\ Sound(c)
        /\ \A op \in Ops(c) : op.id > 0 \/ op.id < -n
        /\ misplaced \/ InRegister(c)}

LEMMA GoodParts ==
    ASSUME NEW n, NEW m, NEW c
    PROVE  c \in Goods(n, m) <=> /\ IsCircuit(c) /\ WellFormed(c)
                                 /\ \A op \in Ops(c) : op.id > 0 \/ op.id < -n
                                 /\ m \/ InRegister(c)
BY DEF Goods, Sound, IsCircuit

LEMMA GoodsGrow ==
    ASSUME NEW n \in Nat, NEW k \in 0 .. n, NEW m, NEW w, m => w
    PROVE  Goods(n, m) \subseteq Goods(k, w)
<1> SUFFICES ASSUME NEW c \in Goods(n, m) PROVE c \in Goods(k, w)
  OBVIOUS
<1>1. IsCircuit(c) /\ WellFormed(c) /\ (\A op \in Ops(c) : op.id > 0 \/ op.id < -n) /\ (m \/ InRegister(c))
  BY GoodParts
<1>2. \A op \in Ops(c) : op.id \in Int
  BY <1>1, CircuitParts, OperationParts
<1>3. \A op \in Ops(c) : op.id > 0 \/ op.id < -k
  BY <1>1, <1>2
<1> QED BY <1>1, <1>3, GoodParts

\* What a commit lets in has passed validation.
LEMMA ValidIsGood ==
    ASSUME NEW n, NEW m, NEW c, IsCircuit(c), Arranged(c.operations), Validates(c),
           \A op \in Ops(c) : op.id > 0 \/ op.id < -n, m \/ InRegister(c)
    PROVE  c \in Goods(n, m)
BY ValidMeansWellFormed, GoodParts DEF Sound

\* Whether operations are within the register, one by one.
LEMMA RegisterKept ==
    ASSUME NEW c, InRegister(c), NEW d, d.numQubits = c.numQubits,
           \A o \in Ops(d) : o \in Ops(c) \/ ~OutOfRange(Touched(o), c.numQubits)
    PROVE  InRegister(d)
BY DEF InRegister

LEMMA GoodAdd ==
    ASSUME NEW n \in Nat \ {0}, NEW m, NEW w, m => w, NEW c \in Goods(n, m),
           NEW op \in Made, op.id = -n, w \/ ~OutOfRange(Touched(op), c.numQubits),
           Validates(AddOperation(c, op))
    PROVE  AddOperation(c, op) \in Goods(n - 1, w)
<1>1. IsCircuit(c) /\ WellFormed(c) /\ (\A o \in Ops(c) : o.id > 0 \/ o.id < -n) /\ (m \/ InRegister(c))
  BY GoodParts
<1>2. \A o \in Ops(c) : o.id \in Int
  BY <1>1, CircuitParts, OperationParts
<1>3. Named(c, op.id) = {}
  BY <1>1, <1>2 DEF Named
<1>4. PICK d : d = AddOperation(c, op)
  OBVIOUS
<1>5. IsCircuit(d) /\ Arranged(d.operations) /\ d.numQubits = c.numQubits /\ Ops(d) = Ops(c) \cup {op}
  BY <1>1, <1>3, <1>4, AddRight DEF WellFormed
<1>6. \A o \in Ops(d) : o.id > 0 \/ o.id < -(n - 1)
  BY <1>1, <1>2, <1>5
<1>7. w \/ InRegister(d)
  BY <1>1, <1>5, RegisterKept
<1> QED BY <1>4, <1>5, <1>6, <1>7, ValidIsGood

LEMMA GoodRemove ==
    ASSUME NEW n \in Nat, NEW m, NEW c \in Goods(n, m), NEW id, Validates(RemoveOperation(c, id))
    PROVE  RemoveOperation(c, id) \in Goods(n, m)
<1>1. IsCircuit(c) /\ WellFormed(c) /\ (\A o \in Ops(c) : o.id > 0 \/ o.id < -n) /\ (m \/ InRegister(c))
  BY GoodParts
<1>2. PICK d : d = RemoveOperation(c, id)
  OBVIOUS
<1>3. IsCircuit(d) /\ Arranged(d.operations) /\ d.numQubits = c.numQubits /\ Ops(d) \subseteq Ops(c)
  BY <1>1, <1>2, RemoveRight DEF WellFormed
<1>4. m \/ InRegister(d)
  BY <1>1, <1>3, RegisterKept
<1> QED BY <1>1, <1>2, <1>3, <1>4, ValidIsGood

LEMMA GoodUpdate ==
    ASSUME NEW n \in Nat, NEW m, NEW c \in Goods(n, m),
           NEW op \in Made, op.id > 0 \/ op.id < -n, m \/ ~OutOfRange(Touched(op), c.numQubits),
           Validates(UpdateOperation(c, op))
    PROVE  UpdateOperation(c, op) \in Goods(n, m)
<1>1. IsCircuit(c) /\ WellFormed(c) /\ (\A o \in Ops(c) : o.id > 0 \/ o.id < -n) /\ (m \/ InRegister(c))
  BY GoodParts
<1>2. PICK d : d = UpdateOperation(c, op)
  OBVIOUS
<1>3. /\ IsCircuit(d) /\ Arranged(d.operations) /\ d.numQubits = c.numQubits
      /\ Ops(d) = (Ops(c) \ Named(c, op.id)) \cup {op}
  BY <1>1, <1>2, UpdateRight DEF WellFormed
<1>4. m \/ InRegister(d)
  BY <1>1, <1>3, RegisterKept
<1>5. \A o \in Ops(d) : o.id > 0 \/ o.id < -n
  BY <1>1, <1>3
<1> QED BY <1>2, <1>3, <1>4, <1>5, ValidIsGood

LEMMA GoodShift ==
    ASSUME NEW n \in Nat, NEW m, NEW c \in Goods(n, m), NEW from \in Int, NEW delta \in Int,
           delta >= 0 \/ \A op \in Ops(c) : ~(op.layer >= from + delta /\ op.layer < from),
           Validates(ShiftLayers(c, from, delta))
    PROVE  ShiftLayers(c, from, delta) \in Goods(n, m)
<1>1. IsCircuit(c) /\ WellFormed(c) /\ (\A o \in Ops(c) : o.id > 0 \/ o.id < -n) /\ (m \/ InRegister(c))
  BY GoodParts
<1>2. PICK d : d = ShiftLayers(c, from, delta)
  OBVIOUS
<1>3. /\ IsCircuit(d) /\ Arranged(d.operations) /\ d.numQubits = c.numQubits
      /\ \A o \in Ops(d) : \E p \in Ops(c) : SameWires(o, p)
  BY <1>1, <1>2, ShiftRight DEF WellFormed
<1>4. \A o \in Ops(d) : \E p \in Ops(c) : o.id = p.id /\ Touched(o) = Touched(p)
  BY <1>3 DEF SameWires, Touched
<1>5. m \/ InRegister(d)
  BY <1>1, <1>3, <1>4 DEF InRegister
<1>6. \A o \in Ops(d) : o.id > 0 \/ o.id < -n
  BY <1>1, <1>4
<1> QED BY <1>2, <1>3, <1>5, <1>6, ValidIsGood

\* The toolbar changes the register without asking validation again.
LEMMA GoodResize ==
    ASSUME NEW n, NEW m, NEW c \in Goods(n, m), NEW k \in Nat,
           InRegister(c) => k > 0 /\ \A op \in Ops(c) : ~OutOfRange(Touched(op), k)
    PROVE  [c EXCEPT !.numQubits = k] \in Goods(n, m)
<1>1. IsCircuit(c) /\ WellFormed(c) /\ (\A o \in Ops(c) : o.id > 0 \/ o.id < -n) /\ (m \/ InRegister(c))
  BY GoodParts
<1>2. PICK s \in Seq(Made) : s = c.operations /\ c \in [numQubits : Nat, operations : Seq(Made)]
  BY <1>1, CircuitType, CircuitParts
<1>3. PICK d : d = [c EXCEPT !.numQubits = k]
  OBVIOUS
<1>4. d \in [numQubits : Nat, operations : Seq(Made)] /\ d.numQubits = k /\ d.operations = c.operations
  BY <1>2, <1>3
<1>5. IsCircuit(d) /\ Ops(d) = Ops(c)
  BY <1>4, CircuitType DEF Ops
<1>6. WellFormed(d)
  BY <1>1, <1>4, <1>5 DEF WellFormed
<1>7. m \/ InRegister(d)
  BY <1>1, <1>4, <1>5 DEF InRegister
<1> QED BY <1>1, <1>3, <1>5, <1>6, <1>7, GoodParts

LEMMA GoodEmpty ==
    ASSUME NEW n, NEW m, NEW c \in Goods(n, m)
    PROVE  CreateCircuit(c.numQubits) \in Goods(n, m)
<1>1. IsCircuit(c) /\ (m \/ InRegister(c))
  BY GoodParts
<1>2. PICK k \in Nat : k = c.numQubits
  BY <1>1, CircuitParts
<1>3. PICK e \in Seq(Made) : e = <<>> /\ DOMAIN e = {}
  <2>1. <<>> \in Seq(Made) /\ DOMAIN <<>> = {}
    OBVIOUS
  <2> QED BY <2>1
<1>4. PICK d : d = CreateCircuit(k)
  OBVIOUS
<1>5. d \in [numQubits : Nat, operations : Seq(Made)] /\ d.numQubits = k /\ d.operations = e
  BY <1>3, <1>4 DEF CreateCircuit
<1>6. Ops(d) = {}
  BY <1>3, <1>5 DEF Ops, ToSet
<1>7. WellFormed(d)
  BY <1>3, <1>5, <1>6 DEF WellFormed, Arranged
<1>8. m \/ InRegister(d)
  BY <1>1, <1>2, <1>5, <1>6 DEF InRegister
<1> QED BY <1>2, <1>4, <1>5, <1>6, <1>7, <1>8, CircuitType, GoodParts

\* Such a circuit can be read back from a draft, printed, and submitted.
LEMMA GoodUse ==
    ASSUME NEW n \in Nat, NEW m, NEW c \in Goods(n, m)
    PROVE  /\ IsCircuit(c) /\ WellFormed(c) /\ ToQasm3(c) \in Seq(Statements) /\ ToQasm3(c) # <<>>
           /\ Len(c.operations) \in Nat /\ c.numQubits \in Nat
           /\ \A op \in Ops(c) : /\ op \in Made /\ op.id \in Int /\ op.id # 0
                                 /\ op.gate \in Gates /\ NotFinite \notin ToSet(op.params)
<1>1. IsCircuit(c) /\ WellFormed(c) /\ \A o \in Ops(c) : o.id > 0 \/ o.id < -n
  BY GoodParts
<1>2. Ops(c) \subseteq Made /\ c.operations \in Seq(Made) /\ c.numQubits \in Nat
  BY <1>1, CircuitParts
<1>3. ASSUME NEW op \in Made PROVE op.id \in Int /\ op.gate \in Gates /\ NotFinite \notin ToSet(op.params)
  <2>1. PICK v \in Seq(FiniteAngles) : v = op.params
    BY OperationParts
  <2>2. \A i \in DOMAIN v : v[i] \in FiniteAngles
    OBVIOUS
  <2>3. NotFinite \notin ToSet(v)
    BY <2>2 DEF FiniteAngles, ToSet
  <2> QED BY <2>1, <2>3, OperationParts
<1>4. \A op \in Ops(c) : op.id # 0
  BY <1>1, <1>2, <1>3
<1>5. Len(c.operations) \in Nat
  BY <1>2, LenProperties
<1> QED BY <1>1, <1>2, <1>3, <1>4, <1>5, PrintedTyped

(***************************************************************************)
(* What toQasm3 prints, fromQasm3 reads, and toQasm3 prints again.         *)
(***************************************************************************)
\* The statements a circuit with a register of n qubits is printed in.
OwnWords == TextGates \ {"cnot"}
OwnGates(n) ==
    {st \in Statements :
        /\ st.word \in OwnWords
        /\ ToSet(st.params) \cap {TinyAngle, Unreadable} = {}
        /\ Len(st.params) = Len(DefaultParams(st.word))
        /\ Len(st.operands) = ControlCount(st.word) + TargetCount(st.word)
        /\ Cardinality(ToSet(st.operands)) = Len(st.operands)
        /\ \A q \in ToSet(st.operands) : q < n}
OwnMeasures(n) == {st \in Statements : \E q \in Nat : q < n /\ st = Plain("measure", <<q, q>>)}

LEMMA OwnGate ==
    ASSUME NEW n, NEW word \in OwnWords, NEW params \in Seq(FiniteAngles), NEW operands \in Seq(Nat),
           ToSet(params) \cap {TinyAngle, Unreadable} = {},
           Len(params) = Len(DefaultParams(word)),
           Len(operands) = ControlCount(word) + TargetCount(word),
           Cardinality(ToSet(operands)) = Len(operands), \A q \in ToSet(operands) : q < n
    PROVE  Statement(word, params, operands) \in OwnGates(n)
<1>1. word \in Words \ {"qubit", "bit", "measure"}
  BY GatesAreWords DEF OwnWords, TextGates
<1>2. PICK st \in Statements : st = Statement(word, params, operands)
  BY <1>1, StatementTyped
<1>3. st.word = word /\ st.params = params /\ st.operands = operands
  BY <1>2 DEF Statement
<1> QED BY <1>2, <1>3 DEF OwnGates

LEMMA NoParams ==
    \E e : /\ e = <<>> /\ e \in Seq(FiniteAngles) /\ e \in Seq(Nat) /\ Len(e) = 0 /\ ToSet(e) = {}
<1>1. <<>> \in Seq(FiniteAngles) /\ <<>> \in Seq(Nat) /\ Len(<<>>) = 0 /\ DOMAIN <<>> = {}
  OBVIOUS
<1> QED BY <1>1, Zenon DEF ToSet

LEMMA OneOperand ==
    ASSUME NEW q \in Nat
    PROVE  \E o \in Seq(Nat) : o = <<q>> /\ Len(o) = 1 /\ ToSet(o) = {q} /\ Cardinality(ToSet(o)) = 1
<1>1. <<q>> \in Seq(Nat) /\ Len(<<q>>) = 1 /\ <<q>>[1] = q
  OBVIOUS
<1>2. PICK o \in Seq(Nat) : o = <<q>> /\ Len(o) = 1 /\ o[1] = q
  BY <1>1, Zenon
<1>3. PICK r \in Nat : ToSet(o) = {r} /\ o = <<r>>
  BY <1>2, SingleOperand
<1>4. r = q
  BY <1>2, <1>3
<1> QED BY <1>2, <1>3, <1>4, FS_Singleton

LEMMA OwnOnEach ==
    ASSUME NEW n, NEW word \in {"h", "s", "sdg"}, NEW qubits \in Seq(Nat), \A q \in ToSet(qubits) : q < n
    PROVE  OnEach(word, qubits) \in Seq(OwnGates(n))
<1>1. /\ DOMAIN qubits = 1 .. Len(qubits) /\ Len(qubits) \in Nat
      /\ \A i \in DOMAIN qubits : qubits[i] \in Nat /\ qubits[i] \in ToSet(qubits)
  BY DEF ToSet
<1>2. /\ word \in OwnWords /\ ControlCount(word) = 0 /\ TargetCount(word) = 1 /\ DefaultParams(word) = <<>>
  BY DEF OwnWords, TextGates, Gates, OneQubitGates, Rotations, Controlled, Entangling,
         ControlCount, TargetCount, DefaultParams
<1>3. PICK e : /\ e = <<>> /\ e \in Seq(FiniteAngles) /\ Len(e) = 0 /\ ToSet(e) = {}
  BY NoParams
<1>4. ASSUME NEW q \in Nat, q < n PROVE Plain(word, <<q>>) \in OwnGates(n)
  <2>1. PICK o \in Seq(Nat) : o = <<q>> /\ Len(o) = 1 /\ ToSet(o) = {q} /\ Cardinality(ToSet(o)) = 1
    BY OneOperand
  <2>2. Statement(word, e, o) \in OwnGates(n)
    <3>1. /\ ToSet(e) \cap {TinyAngle, Unreadable} = {} /\ Len(e) = Len(DefaultParams(word))
          /\ Len(o) = ControlCount(word) + TargetCount(word)
          /\ Cardinality(ToSet(o)) = Len(o) /\ \A r \in ToSet(o) : r < n
      BY <1>2, <1>3, <1>4, <2>1
    <3> QED BY <1>2, <1>3, <3>1, OwnGate
  <2> QED BY <1>3, <2>1, <2>2 DEF Plain
<1>5. \A i \in DOMAIN qubits : Plain(word, <<qubits[i]>>) \in OwnGates(n)
  BY <1>1, <1>4
<1> QED BY <1>1, <1>5 DEF OnEach

LEMMA OwnRzz ==
    ASSUME NEW n, NEW theta \in FiniteAngles, theta \notin {TinyAngle, Unreadable},
           NEW a \in Nat, NEW b \in Nat, a < n, b < n, Cardinality({a, b}) = 2
    PROVE  SerializeRzz(theta, a, b) \in Seq(OwnGates(n))
<1>1. PICK e : /\ e = <<>> /\ e \in Seq(FiniteAngles) /\ Len(e) = 0 /\ ToSet(e) = {}
  BY NoParams
<1>2. PICK ob \in Seq(Nat) : ob = <<b>> /\ Len(ob) = 1 /\ ToSet(ob) = {b} /\ Cardinality(ToSet(ob)) = 1
  BY OneOperand
<1>3. PICK ab \in Seq(Nat) : ab = <<a, b>> /\ Len(ab) = 2 /\ ToSet(ab) = {a, b}
  <2>1. <<a, b>> \in Seq(Nat) /\ Len(<<a, b>>) = 2 /\ <<a, b>>[1] = a /\ <<a, b>>[2] = b
    OBVIOUS
  <2>2. PICK ab \in Seq(Nat) : ab = <<a, b>> /\ Len(ab) = 2 /\ ab[1] = a /\ ab[2] = b
    BY <2>1, Zenon
  <2>3. DOMAIN ab = 1 .. 2
    BY <2>2, LenProperties
  <2>4. \A i : i \in 1 .. 2 <=> i = 1 \/ i = 2
    OBVIOUS
  <2>5. ToSet(ab) = {a, b}
    BY <2>2, <2>3, <2>4 DEF ToSet
  <2> QED BY <2>2, <2>5
<1>4. PICK th \in Seq(FiniteAngles) : th = <<FormatNumber(theta)>> /\ Len(th) = 1 /\ ToSet(th) = {theta}
  <2>1. FormatNumber(theta) = theta
    BY DEF FormatNumber
  <2>2. <<theta>> \in Seq(FiniteAngles) /\ Len(<<theta>>) = 1 /\ <<theta>>[1] = theta
    OBVIOUS
  <2>3. PICK th \in Seq(FiniteAngles) : th = <<theta>> /\ Len(th) = 1 /\ th[1] = theta
    BY <2>2, Zenon
  <2>4. DOMAIN th = 1 .. 1 /\ \A i \in 1 .. 1 : i = 1
    BY <2>3, LenProperties
  <2>5. ToSet(th) = {theta}
    BY <2>3, <2>4 DEF ToSet
  <2> QED BY <2>1, <2>3, <2>5
<1>5. /\ "cx" \in OwnWords /\ ControlCount("cx") = 1 /\ TargetCount("cx") = 1 /\ DefaultParams("cx") = <<>>
      /\ "rz" \in OwnWords /\ ControlCount("rz") = 0 /\ TargetCount("rz") = 1 /\ DefaultParams("rz") = <<0>>
  BY DEF OwnWords, TextGates, Gates, OneQubitGates, Rotations, Controlled, Entangling,
         ControlCount, TargetCount, DefaultParams
<1>6. Statement("cx", e, ab) \in OwnGates(n)
  <2>1. /\ ToSet(e) \cap {TinyAngle, Unreadable} = {} /\ Len(e) = Len(DefaultParams("cx"))
        /\ Len(ab) = ControlCount("cx") + TargetCount("cx")
        /\ Cardinality(ToSet(ab)) = Len(ab) /\ \A r \in ToSet(ab) : r < n
    <3>1. Len(e) = Len(DefaultParams("cx")) /\ Len(ab) = ControlCount("cx") + TargetCount("cx")
      BY <1>1, <1>3, <1>5
    <3>2. Cardinality(ToSet(ab)) = Len(ab) /\ \A r \in ToSet(ab) : r < n
      BY <1>3
    <3>3. ToSet(e) \cap {TinyAngle, Unreadable} = {}
      BY <1>1
    <3> QED BY <3>1, <3>2, <3>3
  <2> QED BY <1>1, <1>5, <2>1, OwnGate
<1>7. Statement("rz", th, ob) \in OwnGates(n)
  <2>1. Len(<<0>>) = 1
    OBVIOUS
  <2>2. /\ ToSet(th) \cap {TinyAngle, Unreadable} = {} /\ Len(th) = Len(DefaultParams("rz"))
        /\ Len(ob) = ControlCount("rz") + TargetCount("rz")
        /\ Cardinality(ToSet(ob)) = Len(ob) /\ \A r \in ToSet(ob) : r < n
    BY <1>2, <1>4, <1>5, <2>1
  <2> QED BY <1>5, <2>2, OwnGate
<1>8. PICK x \in OwnGates(n), y \in OwnGates(n) : x = Statement("cx", e, ab) /\ y = Statement("rz", th, ob)
  BY <1>6, <1>7
<1>9. SerializeRzz(theta, a, b) = <<x, y, x>>
  BY <1>1, <1>2, <1>3, <1>4, <1>8 DEF SerializeRzz, Plain
<1> QED BY <1>8, <1>9

\* An operation within the register is printed in such statements: a
\* measurement in one of its own, and every other gate without one.
LEMMA OwnSerialized ==
    ASSUME NEW n \in Nat, NEW op \in Made, \A q \in Touched(op) : q < n, ~RepeatsQubit(op), Printable(op)
    PROVE  SerializeOperation(op) \in IF op.gate = "m" THEN Seq(OwnMeasures(n)) ELSE Seq(OwnGates(n))
<1>1. PICK g \in Gates, c \in Seq(Nat), t \in Seq(Nat), v \in Seq(FiniteAngles) :
         /\ g = op.gate /\ c = op.controls /\ t = op.targets /\ v = op.params
         /\ Len(c) = ControlCount(g) /\ Len(t) = TargetCount(g) /\ Len(v) = Len(DefaultParams(g))
  BY OperationParts
<1>2. /\ Touched(op) = ToSet(t) \cup ToSet(c) /\ Cardinality(ToSet(t) \cup ToSet(c)) = Len(t) + Len(c)
      /\ ToSet(v) \cap {TinyAngle, Unreadable} = {}
  BY <1>1 DEF Touched, RepeatsQubit, Printable
<1>3. (\A q \in ToSet(t) : q < n) /\ \A q \in ToSet(c) : q < n
  BY <1>2
<1>4. PICK ct \in Seq(Nat) : ct = c \o t /\ Len(ct) = Len(c) + Len(t) /\ ToSet(ct) = ToSet(t) \cup ToSet(c)
  <2>1. c \o t \in Seq(Nat) /\ Len(c \o t) = Len(c) + Len(t)
    BY ConcatProperties
  <2>2. ToSet(c \o t) = ToSet(t) \cup ToSet(c)
    BY JoinedStays
  <2> QED BY <2>1, <2>2, Zenon
<1>5. \A w \in {"h", "s", "sdg"} : OnEach(w, t) \in Seq(OwnGates(n))
  BY <1>3, OwnOnEach
<1>6. /\ \A a, b \in Seq(OwnGates(n)) : a \o b \in Seq(OwnGates(n))
      /\ \A x \in OwnGates(n) : <<x>> \in Seq(OwnGates(n))
  OBVIOUS
<1>7. PICK e : /\ e = <<>> /\ e \in Seq(FiniteAngles) /\ Len(e) = 0 /\ ToSet(e) = {}
  BY NoParams
<1>8. Len(c) \in Nat /\ Len(t) \in Nat /\ Len(v) \in Nat
  BY LenProperties
<1>9. CASE g = "m"
  <2>1. Len(t) = 1
    BY <1>1, <1>9 DEF TargetCount, Entangling
  <2>2. PICK q \in Nat : t \o t = <<q, q>> /\ ToSet(t) = {q}
    BY <2>1, SingleOperand
  <2>3. PICK st \in Statements : st = Plain("measure", t \o t) /\ st = Plain("measure", <<q, q>>)
    BY <2>2, MeasureTyped
  <2>4. st \in OwnMeasures(n)
    BY <1>3, <2>2, <2>3 DEF OwnMeasures
  <2>5. SerializeOperation(op) = <<st>>
    BY <1>1, <1>9, <2>3 DEF SerializeOperation
  <2> QED BY <1>1, <1>9, <2>4, <2>5
<1>10. CASE g = "sy"
  <2>1. Len(t) = 1
    BY <1>1, <1>10 DEF TargetCount, Entangling
  <2>2. PICK q \in Nat : ToSet(t) = {q}
    BY <2>1, SingleOperand
  <2>3. PICK th \in Seq(FiniteAngles) : th = <<2>> /\ Len(th) = 1 /\ ToSet(th) = {2}
    <3>1. 2 \in FiniteAngles
      BY DEF FiniteAngles, NotFinite
    <3>2. <<2>> \in Seq(FiniteAngles) /\ Len(<<2>>) = 1 /\ <<2>>[1] = 2
      BY <3>1
    <3>3. PICK th \in Seq(FiniteAngles) : th = <<2>> /\ Len(th) = 1 /\ th[1] = 2
      BY <3>2, Zenon
    <3>4. DOMAIN th = 1 .. 1 /\ \A i \in 1 .. 1 : i = 1
      BY <3>3, LenProperties
    <3>5. ToSet(th) = {2}
      BY <3>3, <3>4 DEF ToSet
    <3> QED BY <3>3, <3>5
  <2>4. "ry" \in OwnWords /\ ControlCount("ry") = 0 /\ TargetCount("ry") = 1 /\ DefaultParams("ry") = <<0>>
    BY DEF OwnWords, TextGates, Gates, OneQubitGates, Rotations, Controlled, Entangling,
           ControlCount, TargetCount, DefaultParams
  <2>5. Cardinality(ToSet(t)) = 1
    BY <2>2, FS_Singleton
  <2>6. Len(<<0>>) = 1
    OBVIOUS
  <2>7. /\ ToSet(th) \cap {TinyAngle, Unreadable} = {} /\ Len(th) = Len(DefaultParams("ry"))
        /\ Len(t) = ControlCount("ry") + TargetCount("ry") /\ Cardinality(ToSet(t)) = Len(t)
    BY <2>1, <2>3, <2>4, <2>5, <2>6 DEF TinyAngle, Unreadable
  <2>8. PICK st \in OwnGates(n) : st = Statement("ry", th, t)
    BY <1>3, <2>4, <2>7, OwnGate
  <2>9. SerializeOperation(op) = <<st>>
    BY <1>1, <1>10, <2>3, <2>8 DEF SerializeOperation
  <2> QED BY <1>1, <1>6, <1>10, <2>9
<1>11. CASE g = "ccz"
  <2>1. Len(c) = 2 /\ Len(t) = 1
    BY <1>1, <1>11 DEF ControlCount, TargetCount, Entangling, Controlled
  <2>2. "ccx" \in OwnWords /\ ControlCount("ccx") = 2 /\ TargetCount("ccx") = 1 /\ DefaultParams("ccx") = <<>>
    BY DEF OwnWords, TextGates, Gates, OneQubitGates, Rotations, Controlled, Entangling,
           ControlCount, TargetCount, DefaultParams
  <2>3. /\ ToSet(e) \cap {TinyAngle, Unreadable} = {} /\ Len(e) = Len(DefaultParams("ccx"))
        /\ Len(ct) = ControlCount("ccx") + TargetCount("ccx") /\ Cardinality(ToSet(ct)) = Len(ct)
        /\ \A q \in ToSet(ct) : q < n
    <3>1. Len(e) = Len(DefaultParams("ccx")) /\ ToSet(e) \cap {TinyAngle, Unreadable} = {}
      BY <1>7, <2>2
    <3>2. Len(ct) = 3 /\ Cardinality(ToSet(ct)) = 3 /\ \A q \in ToSet(ct) : q < n
      BY <1>2, <1>3, <1>4, <2>1
    <3> QED BY <2>2, <3>1, <3>2
  <2>4. PICK st \in OwnGates(n) : st = Statement("ccx", e, ct)
    BY <1>7, <2>2, <2>3, OwnGate
  <2>5. SerializeOperation(op) = OnEach("h", t) \o <<st>> \o OnEach("h", t)
    BY <1>1, <1>4, <1>7, <1>11, <2>4 DEF SerializeOperation, Plain
  <2>6. PICK h \in Seq(OwnGates(n)), m \in Seq(OwnGates(n)) : h = OnEach("h", t) /\ m = <<st>>
    BY <1>5, <1>6
  <2>7. h \o m \o h \in Seq(OwnGates(n))
    BY <1>6
  <2> QED BY <1>1, <1>11, <2>5, <2>6, <2>7
<1>12. CASE g \in Entangling
  <2>1. Len(t) = 2 /\ Len(v) = 1 /\ Len(c) = 0
    BY <1>1, <1>12 DEF TargetCount, DefaultParams, Entangling, ControlCount, Controlled
  <2>2. /\ t[1] \in Nat /\ t[2] \in Nat /\ v[1] \in FiniteAngles /\ v[1] \in ToSet(v)
        /\ ToSet(t) = {t[1], t[2]} /\ ToSet(c) = {}
    <3>1. 1 \in 1 .. Len(t) /\ 2 \in 1 .. Len(t) /\ 1 \in 1 .. Len(v)
      BY <2>1
    <3>2. DOMAIN t = 1 .. 2 /\ DOMAIN v = 1 .. 1 /\ DOMAIN c = {} /\ \A i : i \in 1 .. 2 <=> i = 1 \/ i = 2
      BY <2>1, LenProperties
    <3>3. v[1] \in ToSet(v) /\ ToSet(t) = {t[1], t[2]} /\ ToSet(c) = {}
      BY <3>1, <3>2 DEF ToSet
    <3> QED BY <3>1, <3>3, ElementOfSeq
  <2>3. Cardinality({t[1], t[2]}) = 2 /\ t[1] < n /\ t[2] < n /\ v[1] \notin {TinyAngle, Unreadable}
    <3>1. ToSet(t) \cup ToSet(c) = {t[1], t[2]}
      BY <2>2
    <3> QED BY <1>2, <1>3, <2>1, <2>2, <3>1
  <2>4. PICK rzz \in Seq(OwnGates(n)) : rzz = SerializeRzz(v[1], t[1], t[2])
    BY <2>2, <2>3, OwnRzz
  <2>5. PICK u \in Seq(Nat) : u = <<t[2]>> /\ ToSet(u) = {t[2]}
    BY <2>2, OneOperand
  <2>6. PICK h2 \in Seq(OwnGates(n)) : h2 = OnEach("h", u)
    BY <2>3, <2>5, OwnOnEach
  <2>7. PICK h \in Seq(OwnGates(n)), s \in Seq(OwnGates(n)), d \in Seq(OwnGates(n)) :
           h = OnEach("h", t) /\ s = OnEach("s", t) /\ d = OnEach("sdg", t)
    BY <1>5
  <2>8. SerializeOperation(op) \in Seq(OwnGates(n))
    <3>1. CASE g = "rzz"
      <4>1. SerializeOperation(op) = rzz
        BY <1>1, <2>4, <3>1 DEF SerializeOperation
      <4> QED BY <4>1
    <3>2. CASE g = "rxx"
      <4>1. SerializeOperation(op) = h \o rzz \o h
        BY <1>1, <2>4, <2>7, <3>2 DEF SerializeOperation
      <4> QED BY <1>6, <4>1
    <3>3. CASE g = "ryy"
      <4>1. SerializeOperation(op) = d \o h \o rzz \o h \o s
        BY <1>1, <2>4, <2>7, <3>3 DEF SerializeOperation
      <4> QED BY <1>6, <4>1
    <3>4. CASE g = "rzx"
      <4>1. SerializeOperation(op) = h2 \o rzz \o h2
        BY <1>1, <2>4, <2>5, <2>6, <3>4 DEF SerializeOperation
      <4> QED BY <1>6, <4>1
    <3> QED BY <1>12, <3>1, <3>2, <3>3, <3>4 DEF Entangling
  <2>9. g # "m"
    BY <1>12 DEF Entangling
  <2> QED BY <1>1, <2>8, <2>9
<1>13. CASE g \notin Entangling \cup {"sy", "ccz", "m"}
  <2>1. g \in OwnWords
    BY <1>13 DEF OwnWords, TextGates, Gates, OneQubitGates, Rotations, Controlled
  <2>2. PICK th : th = [i \in DOMAIN v |-> FormatNumber(v[i])]
    OBVIOUS
  <2>3. th = v
    <3>1. \A i \in DOMAIN v : FormatNumber(v[i]) = v[i]
      BY <1>2 DEF FormatNumber, ToSet
    <3>2. th = [i \in DOMAIN v |-> v[i]]
      BY <2>2, <3>1
    <3> QED BY <3>2
  <2>4. PICK st \in OwnGates(n) : st = Statement(g, v, ct)
    <3>1. Len(ct) = ControlCount(g) + TargetCount(g) /\ Cardinality(ToSet(ct)) = Len(ct)
      BY <1>1, <1>2, <1>4, <1>8
    <3>2. \A q \in ToSet(ct) : q < n
      BY <1>3, <1>4
    <3> QED BY <1>1, <1>2, <2>1, <3>1, <3>2, OwnGate
  <2>5. SerializeOperation(op) = <<st>>
    BY <1>1, <1>4, <1>13, <2>2, <2>3, <2>4 DEF SerializeOperation, Entangling
  <2> QED BY <1>1, <1>6, <1>13, <2>5
<1> QED BY <1>9, <1>10, <1>11, <1>12, <1>13

\* What the parser makes of such a statement, the i-th it reads.
OwnOperation(op, i, st, n) ==
    /\ op.id = i /\ op.layer = i - 1 /\ ~RepeatsQubit(op)
    /\ op.gate = "m" <=> st \in OwnMeasures(n)
    /\ SerializeOperation(op) = <<st>>

LEMMA MeasureOperands ==
    ASSUME NEW q \in Nat, NEW st, st = Plain("measure", <<q, q>>)
    PROVE  st.word = "measure" /\ st.operands[1] = q /\ st.operands[2] = q
<1>1. <<q, q>>[1] = q /\ <<q, q>>[2] = q
  OBVIOUS
<1>2. PICK o : o = <<q, q>> /\ o[1] = q /\ o[2] = q
  BY <1>1, Zenon
<1> QED BY <1>2 DEF Plain, Statement

LEMMA OwnFits ==
    ASSUME NEW n \in Nat, NEW s \in ReadStates, s.header, s.qubit = n, s.bit = n,
           NEW st \in OwnGates(n) \cup OwnMeasures(n)
    PROVE  /\ st \in Statements /\ st.word \notin {"OPENQASM 3", "include", "qubit", "bit"}
           /\ StatementFits(st, s)
           /\ st.word = "measure" <=> st \in OwnMeasures(n)
<1>1. st \in Statements
  BY DEF OwnGates, OwnMeasures
<1>2. n # NoRegister
  BY DEF NoRegister
<1>3. CASE st \in OwnMeasures(n)
  <2>1. PICK q \in Nat : q < n /\ st = Plain("measure", <<q, q>>)
    BY <1>3 DEF OwnMeasures
  <2>2. st.word = "measure" /\ st.operands[1] = q /\ st.operands[2] = q
    BY <2>1, MeasureOperands
  <2>3. StatementFits(st, s)
    BY <1>2, <2>1, <2>2 DEF StatementFits, MeasureFits
  <2> QED BY <1>1, <1>3, <2>2, <2>3
<1>4. CASE st \in OwnGates(n)
  <2>1. PICK w \in OwnWords, v \in Seq(Int), o \in Seq(Nat) :
           /\ w = st.word /\ v = st.params /\ o = st.operands
           /\ ToSet(v) \cap {TinyAngle, Unreadable} = {} /\ Len(v) = Len(DefaultParams(w))
           /\ Len(o) = ControlCount(w) + TargetCount(w) /\ \A q \in ToSet(o) : q < n
    BY <1>1, <1>4 DEF OwnGates, Statements
  <2>2. w \in TextGates /\ w \notin {"OPENQASM 3", "include", "qubit", "bit", "measure", "cnot", "u1", "u2", "u3"}
    BY DEF OwnWords, TextGates, Gates, OneQubitGates, Rotations, Controlled, Entangling
  <2>3. Resolve(w, v) = [gate |-> w, params |-> v]
    BY <2>2 DEF Resolve
  <2>4. \A i \in DOMAIN o : o[i] < n
    BY <2>1 DEF ToSet
  <2>5. GateFits(st, s)
    <3>1. Resolve(w, v).gate = w /\ Resolve(w, v).params = v
      BY <2>3
    <3>2. Unreadable \notin ToSet(v)
      BY <2>1
    <3>3. \A i \in DOMAIN st.operands : st.operands[i] < s.qubit
      BY <2>1, <2>4
    <3> QED BY <2>1, <2>2, <3>1, <3>2, <3>3 DEF GateFits
  <2>6. StatementFits(st, s)
    BY <1>2, <2>1, <2>2, <2>5 DEF StatementFits
  <2>7. st \notin OwnMeasures(n)
    <3> SUFFICES ASSUME NEW q \in Nat, st = Plain("measure", <<q, q>>) PROVE FALSE
      BY DEF OwnMeasures
    <3>1. st.word = "measure"
      BY DEF Plain, Statement
    <3> QED BY <2>1, <2>2, <3>1
  <2> QED BY <1>1, <2>1, <2>2, <2>6, <2>7
<1> QED BY <1>3, <1>4

LEMMA OwnParsed ==
    ASSUME NEW n \in Nat, NEW s \in ReadStates, s.header, s.qubit = n, s.bit = n,
           NEW st \in OwnGates(n) \cup OwnMeasures(n)
    PROVE  OwnOperation(ParsedOperation(st, Len(s.operations) + 1), Len(s.operations) + 1, st, n)
<1>1. /\ st \in Statements /\ st.word \notin {"OPENQASM 3", "include", "qubit", "bit"}
      /\ StatementFits(st, s) /\ (st.word = "measure" <=> st \in OwnMeasures(n))
  BY OwnFits
<1>2. PICK k \in Nat : k = Len(s.operations)
  BY DEF ReadStates
<1>3. PICK op \in Made :
         /\ op = ParsedOperation(st, Len(s.operations) + 1)
         /\ op.id = Len(s.operations) + 1 /\ op.layer = Len(s.operations)
         /\ op.gate = IF st.word = "measure" THEN "m" ELSE Resolve(st.word, st.params).gate
         /\ Touched(op) = IF st.word = "measure" THEN {st.operands[2]} ELSE ToSet(st.operands)
         /\ IF st.word = "measure" THEN op.targets = <<st.operands[2]>>
            ELSE /\ op.params = Resolve(st.word, st.params).params
                 /\ op.controls \o op.targets = st.operands
  BY <1>1, ParsedRight
<1>4. op.id = k + 1 /\ op.layer = k + 1 - 1
  BY <1>2, <1>3
<1>5. /\ Len(op.controls) = ControlCount(op.gate) /\ Len(op.targets) = TargetCount(op.gate)
      /\ Len(op.params) = Len(DefaultParams(op.gate))
      /\ ControlCount(op.gate) \in Nat /\ TargetCount(op.gate) \in Nat
  BY OperationParts DEF ControlCount, TargetCount
<1>6. CASE st \in OwnMeasures(n)
  <2>1. PICK q \in Nat : q < n /\ st = Plain("measure", <<q, q>>)
    BY <1>6 DEF OwnMeasures
  <2>2. st.word = "measure" /\ st.operands[2] = q
    BY <2>1, MeasureOperands
  <2>3. op.gate = "m" /\ Touched(op) = {q} /\ op.targets = <<q>>
    BY <1>3, <2>2
  <2>4. ControlCount("m") = 0 /\ TargetCount("m") = 1
    BY DEF ControlCount, TargetCount, Controlled, Entangling
  <2>5. ~RepeatsQubit(op)
    <3>1. Cardinality({q}) = 1
      BY FS_Singleton
    <3> QED BY <1>5, <2>3, <2>4, <3>1 DEF RepeatsQubit
  <2>6. PICK t \in Seq(Nat) : t = <<q>> /\ Len(t) = 1 /\ ToSet(t) = {q}
    BY OneOperand
  <2>7. t \o t = <<q, q>>
    <3>1. PICK r \in Nat : t = <<r>> /\ t \o t = <<r, r>> /\ ToSet(t) = {r}
      BY <2>6, SingleOperand
    <3>2. r = q
      BY <2>6, <3>1
    <3> QED BY <3>1, <3>2
  <2>8. SerializeOperation(op) = <<st>>
    <3>1. SerializeOperation(op) = <<Plain("measure", t \o t)>>
      BY <2>3, <2>6 DEF SerializeOperation
    <3> QED BY <2>1, <2>7, <3>1
  <2> QED BY <1>2, <1>3, <1>4, <1>6, <2>3, <2>5, <2>8 DEF OwnOperation
<1>7. CASE st \in OwnGates(n) /\ st \notin OwnMeasures(n)
  <2>1. PICK w \in OwnWords, v \in Seq(Int), o \in Seq(Nat) :
           /\ w = st.word /\ v = st.params /\ o = st.operands
           /\ ToSet(v) \cap {TinyAngle, Unreadable} = {} /\ Len(o) = ControlCount(w) + TargetCount(w)
           /\ Cardinality(ToSet(o)) = Len(o)
    BY <1>1, <1>7 DEF OwnGates, Statements
  <2>2. w \notin Entangling \cup {"sy", "ccz", "m", "measure", "cnot", "u1", "u2", "u3"}
    BY DEF OwnWords, TextGates, Gates, OneQubitGates, Rotations, Controlled, Entangling
  <2>3. Resolve(w, v) = [gate |-> w, params |-> v]
    BY <2>2 DEF Resolve
  <2>4. op.gate = w /\ Touched(op) = ToSet(o) /\ op.params = v /\ op.controls \o op.targets = o
    <3>1. Resolve(w, v).gate = w /\ Resolve(w, v).params = v
      BY <2>3
    <3> QED BY <1>3, <2>1, <2>2, <3>1
  <2>5. ~RepeatsQubit(op)
    BY <1>5, <2>1, <2>4 DEF RepeatsQubit
  <2>6. [i \in DOMAIN v |-> FormatNumber(v[i])] = v
    <3>1. PICK u \in Seq(FiniteAngles) : u = v
      BY <2>4, OperationParts
    <3>2. \A i \in DOMAIN u : FormatNumber(u[i]) = u[i]
      BY <2>1, <3>1 DEF FormatNumber, ToSet
    <3>3. [i \in DOMAIN u |-> FormatNumber(u[i])] = [i \in DOMAIN u |-> u[i]]
      BY <3>2
    <3>4. u = [i \in DOMAIN u |-> u[i]]
      OBVIOUS
    <3> QED BY <3>1, <3>3, <3>4
  <2>7. st = Statement(w, v, o)
    BY <1>1, <2>1 DEF Statements, Statement
  <2>8. SerializeOperation(op) =
           <<Statement(w, [i \in DOMAIN v |-> FormatNumber(v[i])], op.controls \o op.targets)>>
    BY <2>2, <2>4 DEF SerializeOperation, Entangling
  <2>9. SerializeOperation(op) = <<st>>
    BY <2>4, <2>6, <2>7, <2>8
  <2>10. op.gate # "m"
    BY <2>2, <2>4
  <2> QED BY <1>2, <1>3, <1>4, <1>7, <2>5, <2>9, <2>10 DEF OwnOperation
<1> QED BY <1>6, <1>7

\* What the parser has read of the first k statements of a body.
ReadOwn(s, body, n, k) ==
    /\ s \in ReadStates /\ s.ok /\ s.header /\ s.qubit = n /\ s.bit = n
    /\ Len(s.operations) = k
    /\ \A i \in 1 .. k : OwnOperation(s.operations[i], i, body[i], n)

LEMMA ReadOwnStep ==
    ASSUME NEW n \in Nat, NEW body \in Seq(OwnGates(n) \cup OwnMeasures(n)),
           NEW k \in Nat, k + 1 <= Len(body), NEW s, ReadOwn(s, body, n, k)
    PROVE  ReadOwn(ParseStatement(s, body[k + 1]), body, n, k + 1)
<1>1. s \in ReadStates /\ s.ok /\ s.header /\ s.qubit = n /\ s.bit = n /\ Len(s.operations) = k
  BY DEF ReadOwn
<1>2. PICK st \in OwnGates(n) \cup OwnMeasures(n) : st = body[k + 1]
  <2>1. k + 1 \in 1 .. Len(body)
    BY LenProperties
  <2> QED BY <2>1, ElementOfSeq
<1>3. /\ st \in Statements /\ st.word \notin {"OPENQASM 3", "include", "qubit", "bit"}
      /\ StatementFits(st, s)
  BY <1>1, OwnFits
<1>4. PICK op : op = ParsedOperation(st, Len(s.operations) + 1)
  OBVIOUS
<1>5. OwnOperation(op, k + 1, st, n)
  BY <1>1, <1>4, OwnParsed
<1>6. op \in Made
  BY <1>1, <1>3, <1>4, ParsedRight
<1>7. PICK a \in Seq(Made), b \in Seq(Made) : a = s.operations /\ b = Append(s.operations, op)
  BY <1>1, <1>6, AppendProperties DEF ReadStates
<1>8. PICK t : t = ParseStatement(s, st)
  OBVIOUS
<1>9. t = [s EXCEPT !.operations = b]
  <2>1. t = [s EXCEPT !.operations = Append(@, op)]
    BY <1>1, <1>3, <1>4, <1>8 DEF ParseStatement
  <2> QED BY <1>1, <1>7, <2>1 DEF ReadStates
<1>10. t \in ReadStates /\ t.ok /\ t.header /\ t.qubit = n /\ t.bit = n /\ t.operations = b
  BY <1>1, <1>7, <1>9 DEF ReadStates
<1>11. Len(b) = k + 1 /\ b[k + 1] = op /\ \A i \in 1 .. k : b[i] = a[i]
  BY <1>1, <1>6, <1>7, AppendProperties
<1>12. ASSUME NEW i \in 1 .. k + 1 PROVE OwnOperation(b[i], i, body[i], n)
  <2>1. CASE i \in 1 .. k
    BY <1>7, <1>11, <2>1 DEF ReadOwn
  <2>2. CASE i = k + 1
    BY <1>2, <1>5, <1>11, <2>2
  <2> QED BY <2>1, <2>2
<1> QED BY <1>2, <1>8, <1>10, <1>11, <1>12 DEF ReadOwn

LEMMA OpeningStep ==
    ASSUME NEW s \in ReadStates, s.ok, NEW st \in Statements, st.word \in {"OPENQASM 3", "include"}
    PROVE  \E t \in ReadStates :
              /\ t = ParseStatement(s, st) /\ t.ok /\ t.operations = s.operations
              /\ st.word = "OPENQASM 3" \/ s.header => t.header
<1>1. PICK t : t = ParseStatement(s, st)
  OBVIOUS
<1>2. CASE st.word = "include"
  <2>1. t = s
    BY <1>1, <1>2 DEF ParseStatement
  <2> QED BY <1>1, <1>2, <2>1
<1>3. CASE st.word = "OPENQASM 3"
  <2>1. t = [s EXCEPT !.header = TRUE]
    BY <1>1, <1>3 DEF ParseStatement
  <2> QED BY <1>1, <1>3, <2>1 DEF ReadStates
<1> QED BY <1>2, <1>3

LEMMA DeclarationStep ==
    ASSUME NEW s \in ReadStates, s.ok, NEW st, NEW n \in Nat, st.params[1] = n, st.word \in {"qubit", "bit"}
    PROVE  \E t \in ReadStates :
              /\ t = ParseStatement(s, st) /\ t.ok /\ t.operations = s.operations /\ t.header = s.header
              /\ st.word = "qubit" => t.qubit = n
              /\ st.word = "bit" => t.bit = n /\ t.qubit = s.qubit
<1>1. PICK t : t = ParseStatement(s, st)
  OBVIOUS
<1>2. CASE st.word = "qubit"
  <2>1. t = [s EXCEPT !.qubit = n]
    BY <1>1, <1>2 DEF ParseStatement
  <2> QED BY <1>1, <1>2, <2>1 DEF ReadStates, Registers
<1>3. CASE st.word = "bit"
  <2>1. t = [s EXCEPT !.bit = n]
    BY <1>1, <1>3 DEF ParseStatement
  <2> QED BY <1>1, <1>3, <2>1 DEF ReadStates, Registers
<1> QED BY <1>2, <1>3

LEMMA NoOperations == \E e \in Seq(Made) : e = <<>> /\ Len(e) = 0
<1>1. <<>> \in Seq(Made) /\ Len(<<>>) = 0
  OBVIOUS
<1> QED BY <1>1, Zenon

LEMMA HeaderRead ==
    ASSUME NEW n \in Nat, NEW text \in Seq(Statements), NEW f, ReadsOn(f, text),
           NEW body, NEW N \in Nat, Len(text) = 4 + N, HasHeader(text, n)
    PROVE  ReadOwn(f[4], body, n, 0)
<1>1. PICK m \in Nat : m = Len(text) /\ m >= 4
  OBVIOUS
<1>2. /\ 1 \in 1 .. m /\ 2 \in 1 .. m /\ 3 \in 1 .. m /\ 4 \in 1 .. m
      /\ 1 - 1 = 0 /\ 2 - 1 = 1 /\ 3 - 1 = 2 /\ 4 - 1 = 3
  BY <1>1
<1>3. f[0] = NothingRead /\ \A k \in 1 .. m : f[k] = ParseStatement(f[k - 1], text[k])
  BY <1>1 DEF ReadsOn
<1>4. PICK a \in Statements, b \in Statements, c \in Statements, d \in Statements :
         a = text[1] /\ b = text[2] /\ c = text[3] /\ d = text[4]
  BY <1>1, <1>2, ElementOfSeq
<1>5. /\ a.word = "OPENQASM 3" /\ b.word = "include" /\ c.word = "qubit" /\ c.params[1] = n
      /\ d.word = "bit" /\ d.params[1] = n
  BY <1>4 DEF HasHeader
<1>6. PICK e \in Seq(Made) : e = <<>> /\ Len(e) = 0
  BY NoOperations
<1>7. f[0] \in ReadStates /\ f[0].ok /\ f[0].operations = e
  BY <1>3, <1>6 DEF NothingRead, ReadStates, Registers
<1>8. PICK s1 \in ReadStates : s1 = f[1] /\ s1.ok /\ s1.operations = e /\ s1.header
  <2>1. f[1] = ParseStatement(f[0], a)
    BY <1>2, <1>3, <1>4
  <2> QED BY <1>5, <1>7, <2>1, OpeningStep
<1>9. PICK s2 \in ReadStates : s2 = f[2] /\ s2.ok /\ s2.operations = e /\ s2.header
  <2>1. f[2] = ParseStatement(s1, b)
    BY <1>2, <1>3, <1>4, <1>8
  <2>2. s1 \in ReadStates /\ s1.ok /\ b.word = "include"
    BY <1>5, <1>8
  <2>3. PICK t \in ReadStates : t = ParseStatement(s1, b) /\ t.ok /\ t.operations = s1.operations /\ (s1.header => t.header)
    BY <2>2, OpeningStep
  <2> QED BY <1>8, <2>1, <2>3
<1>10. PICK s3 \in ReadStates : s3 = f[3] /\ s3.ok /\ s3.operations = e /\ s3.header /\ s3.qubit = n
  <2>1. f[3] = ParseStatement(s2, c)
    BY <1>2, <1>3, <1>4, <1>9
  <2>2. s2 \in ReadStates /\ s2.ok /\ c.word = "qubit" /\ c.params[1] = n
    BY <1>5, <1>9
  <2>3. PICK t \in ReadStates : t = ParseStatement(s2, c) /\ t.ok /\ t.operations = s2.operations /\ (s2.header => t.header)
                 /\ t.qubit = n
    BY <2>2, DeclarationStep
  <2> QED BY <1>9, <2>1, <2>3
<1>11. PICK s4 \in ReadStates : s4 = f[4] /\ s4.ok /\ s4.operations = e /\ s4.header /\ s4.qubit = n /\ s4.bit = n
  <2>1. f[4] = ParseStatement(s3, d)
    BY <1>2, <1>3, <1>4, <1>10
  <2>2. s3 \in ReadStates /\ s3.ok /\ d.word = "bit" /\ d.params[1] = n
    BY <1>5, <1>10
  <2>3. PICK t \in ReadStates : t = ParseStatement(s3, d) /\ t.ok /\ t.operations = s3.operations /\ (s3.header => t.header)
                 /\ t.qubit = s3.qubit /\ t.bit = n
    BY <2>2, DeclarationStep
  <2> QED BY <1>10, <2>1, <2>3
<1> QED BY <1>6, <1>11 DEF ReadOwn

LEMMA BodyRead ==
    ASSUME NEW n \in Nat, NEW body \in Seq(OwnGates(n) \cup OwnMeasures(n)),
           NEW text \in Seq(Statements), HasHeader(text, n), HasBody(text, body)
    PROVE  ReadOwn(Reading(text), body, n, Len(body))
<1>1. PICK f : ReadsOn(f, text)
  BY ReadingEquation
<1>2. PICK N \in Nat : N = Len(body) /\ Len(text) = 4 + N
  BY LenProperties DEF HasBody
<1> DEFINE B == {k \in Nat : k <= N => ReadOwn(f[4 + k], body, n, k)}
<1>3. 0 \in B
  <2>1. ReadOwn(f[4], body, n, 0)
    BY <1>1, <1>2, HeaderRead
  <2> QED BY <2>1
<1>4. ASSUME NEW k \in Nat, k \in B PROVE k + 1 \in B
  <2> SUFFICES ASSUME k + 1 <= N PROVE ReadOwn(f[4 + (k + 1)], body, n, k + 1)
    OBVIOUS
  <2>1. ReadOwn(f[4 + k], body, n, k)
    BY <1>2, <1>4
  <2>2. PICK m \in 1 .. 4 + N : m = 4 + (k + 1) /\ m - 1 = 4 + k /\ k + 1 \in 1 .. N
    BY <1>2
  <2>3. f[m] = ParseStatement(f[m - 1], text[m])
    BY <1>1, <1>2 DEF ReadsOn
  <2>4. text[m] = body[k + 1]
    BY <1>2, <2>2 DEF HasBody
  <2>5. ReadOwn(ParseStatement(f[4 + k], body[k + 1]), body, n, k + 1)
    BY <1>2, <2>1, ReadOwnStep
  <2> QED BY <2>2, <2>3, <2>4, <2>5
<1>5. N \in B
  <2> HIDE DEF B
  <2> QED BY <1>3, <1>4, NatSetInduction
<1> QED BY <1>1, <1>2, <1>5 DEF ReadsOn

LEMMA WithinSuperset ==
    ASSUME NEW S, NEW T, S \subseteq T, NEW q \in Seq(S)
    PROVE  q \in Seq(T) /\ ToSet(q) \subseteq S
<1>1. \A i \in DOMAIN q : q[i] \in S
  OBVIOUS
<1>2. ToSet(q) \subseteq S
  BY <1>1 DEF ToSet
<1> QED BY <1>2

\* The blocks of a sound circuit within its register: those of its
\* measurements come last.
LEMMA OwnBlocks ==
    ASSUME NEW c, IsCircuit(c), WellFormed(c), InRegister(c), \A op \in Ops(c) : Printable(op),
           NEW n \in Nat, n = c.numQubits
    PROVE  /\ Blocks(c) \in Seq(Seq(OwnGates(n) \cup OwnMeasures(n)))
           /\ LateBlocks(Blocks(c), OwnMeasures(n))
<1>1. PICK s \in Seq(Made) : s = c.operations
  BY CircuitParts
<1>2. PICK N \in Nat : N = Len(s) /\ DOMAIN s = 1 .. N /\ \A i \in 1 .. N : s[i] \in Made /\ s[i] \in Ops(c)
  BY <1>1 DEF Ops, ToSet
<1> DEFINE S(i) == SerializeOperation(s[i])
<1>3. \A i \in 1 .. N : S(i) \in IF s[i].gate = "m" THEN Seq(OwnMeasures(n)) ELSE Seq(OwnGates(n))
  <2> SUFFICES ASSUME NEW i \in 1 .. N
               PROVE  S(i) \in IF s[i].gate = "m" THEN Seq(OwnMeasures(n)) ELSE Seq(OwnGates(n))
    OBVIOUS
  <2>1. PICK op \in Made : op = s[i] /\ op \in Ops(c)
    BY <1>2
  <2>2. \A q \in Touched(op) : q < n
    <3>1. \A q \in Touched(op) : q \in Nat
      BY TouchedNumbers
    <3>2. ~OutOfRange(Touched(op), n)
      BY <2>1 DEF InRegister
    <3> QED BY <3>1, <3>2 DEF OutOfRange
  <2>3. ~RepeatsQubit(op) /\ Printable(op)
    BY <2>1 DEF WellFormed, RepeatsQubit
  <2> QED BY <2>1, <2>2, <2>3, OwnSerialized
<1>4. OwnGates(n) \cap OwnMeasures(n) = {}
  <2> SUFFICES ASSUME NEW st \in OwnGates(n), NEW q \in Nat, st = Plain("measure", <<q, q>>) PROVE FALSE
    BY DEF OwnMeasures
  <2>1. st.word = "measure"
    BY DEF Plain, Statement
  <2>2. st.word # "measure"
    BY DEF OwnGates, OwnWords, TextGates, Gates, OneQubitGates, Rotations, Controlled, Entangling
  <2> QED BY <2>1, <2>2
<1> HIDE DEF S
<1>5. ASSUME NEW i \in 1 .. N
      PROVE  /\ S(i) \in Seq(OwnGates(n) \cup OwnMeasures(n))
             /\ s[i].gate = "m" => ToSet(S(i)) \subseteq OwnMeasures(n)
             /\ s[i].gate # "m" => ToSet(S(i)) \cap OwnMeasures(n) = {}
  <2>1. CASE s[i].gate = "m"
    <3>1. PICK q \in Seq(OwnMeasures(n)) : q = S(i)
      BY <1>3, <2>1
    <3> QED BY <2>1, <3>1, WithinSuperset
  <2>2. CASE s[i].gate # "m"
    <3>1. PICK q \in Seq(OwnGates(n)) : q = S(i)
      BY <1>3, <2>2
    <3> QED BY <1>4, <2>2, <3>1, WithinSuperset
  <2> QED BY <2>1, <2>2
<1>6. PICK r : r = [i \in 1 .. N |-> S(i)]
  OBVIOUS
<1>7. r = Blocks(c)
  BY <1>1, <1>2, <1>6 DEF Blocks, S
<1>8. r \in Seq(Seq(OwnGates(n) \cup OwnMeasures(n)))
  BY <1>5, <1>6
<1>9. LateBlocks(r, OwnMeasures(n))
  <2> SUFFICES ASSUME NEW i \in 1 .. N, NEW j \in 1 .. N, i <= j, ToSet(S(i)) \cap OwnMeasures(n) # {}
               PROVE  ToSet(S(j)) \subseteq OwnMeasures(n)
    BY <1>6 DEF LateBlocks
  <2>1. s[i].gate = "m"
    BY <1>5
  <2>2. s[j].gate = "m"
    <3>1. CASE i = j
      BY <2>1, <3>1
    <3>2. CASE i < j
      <4>1. s[i].layer <= s[j].layer
        BY <1>1, <1>2, <3>2 DEF WellFormed, Arranged
      <4> QED BY <1>2, <2>1, <4>1 DEF WellFormed
    <3> QED BY <3>1, <3>2
  <2> QED BY <1>5, <2>2
<1> QED BY <1>7, <1>8, <1>9

\* What has been read of such a body validates and is printed the same.
LEMMA OwnModel ==
    ASSUME NEW n \in Nat, NEW body \in Seq(OwnGates(n) \cup OwnMeasures(n)), LateIn(body, OwnMeasures(n)),
           NEW s, ReadOwn(s, body, n, Len(body)),
           NEW model, model = [numQubits |-> s.qubit, operations |-> s.operations]
    PROVE  Validates(model) /\ FlattenSeq(Blocks(model)) = body
<1>1. PICK N \in Nat, a \in Seq(Made) :
         /\ N = Len(body) /\ DOMAIN body = 1 .. N /\ a = s.operations /\ Len(a) = N /\ DOMAIN a = 1 .. N
         /\ \A i \in 1 .. N : OwnOperation(a[i], i, body[i], n)
  BY DEF ReadOwn, ReadStates
<1>2. model.operations = a /\ Ops(model) = {a[i] : i \in 1 .. N}
  BY <1>1 DEF Ops, ToSet
<1>3. ASSUME NEW i \in 1 .. N, NEW j \in 1 .. N, a[i].gate # "m", a[j].gate = "m", a[i].layer >= a[j].layer
      PROVE  FALSE
  <2>1. i >= j
    BY <1>1, <1>3 DEF OwnOperation
  <2>2. body[j] \in OwnMeasures(n) /\ body[i] \notin OwnMeasures(n)
    BY <1>1, <1>3 DEF OwnOperation
  <2>3. j < i
    BY <2>1, <2>2
  <2> QED BY <1>1, <2>2, <2>3 DEF LateIn
<1>4. \A i, j \in 1 .. N : ~Conflict(a[i], a[j])
  <2> SUFFICES ASSUME NEW i \in 1 .. N, NEW j \in 1 .. N, a[i].id # a[j].id, a[i].layer = a[j].layer PROVE FALSE
    BY DEF Conflict
  <2> QED BY <1>1 DEF OwnOperation
<1>5. \A i \in 1 .. N : ~RepeatsQubit(a[i])
  BY <1>1 DEF OwnOperation
<1>6. Validates(model)
  <2>1. \A op \in Ops(model) : ~FollowsMeasurement(model, op)
    BY <1>2, <1>3 DEF FollowsMeasurement
  <2> QED BY <1>2, <1>4, <1>5, <2>1 DEF Validates
<1>7. PICK T : T = OwnGates(n) \cup OwnMeasures(n)
  OBVIOUS
<1>8. ASSUME NEW i \in 1 .. N
      PROVE  \E q \in Seq(T) : q = SerializeOperation(a[i]) /\ Len(q) = 1 /\ q[1] = body[i]
  <2>1. PICK st \in T : st = body[i] /\ SerializeOperation(a[i]) = <<st>>
    BY <1>1, <1>7 DEF OwnOperation
  <2>2. <<st>> \in Seq(T) /\ Len(<<st>>) = 1 /\ <<st>>[1] = st
    OBVIOUS
  <2> QED BY <2>1, <2>2, Zenon
<1>9. PICK r : r = [i \in 1 .. N |-> SerializeOperation(a[i])]
  OBVIOUS
<1>10. r \in Seq(Seq(T)) /\ Len(r) = N /\ \A i \in 1 .. N : Len(r[i]) = 1 /\ r[i][1] = body[i]
  BY <1>1, <1>8, <1>9
<1>11. FlattenSeq(r) = body
  <2>1. body \in Seq(T)
    BY <1>7
  <2> QED BY <1>1, <1>10, <2>1, FlattenSingles
<1>12. r = Blocks(model)
  BY <1>1, <1>2, <1>9 DEF Blocks
<1> QED BY <1>6, <1>11, <1>12

\* The text toQasm3 prints of a circuit that is sound, within its register
\* and without an angle printed with an exponent is read by fromQasm3, and
\* the circuit read is printed in the same text.
THEOREM PrintedIsRead ==
    ASSUME NEW c, IsCircuit(c), WellFormed(c), InRegister(c), \A op \in Ops(c) : Printable(op)
    PROVE  /\ FromQasm3(ToQasm3(c)).ok
           /\ SameText(FromQasm3(ToQasm3(c)).model, c)
<1>1. PICK n \in Nat : n = c.numQubits
  BY CircuitParts
<1>2. PICK T : T = OwnGates(n) \cup OwnMeasures(n)
  OBVIOUS
<1>3. PICK r \in Seq(Seq(T)) : r = Blocks(c) /\ LateBlocks(r, OwnMeasures(n))
  BY <1>1, <1>2, OwnBlocks
<1>4. PICK body \in Seq(T) : body = FlattenSeq(r) /\ LateIn(body, OwnMeasures(n))
  BY <1>3, Flattened
<1>5. body \in Seq(Statements)
  <2>1. T \subseteq Statements
    BY <1>2 DEF OwnGates, OwnMeasures
  <2> QED BY <2>1, WithinSuperset
<1>6. PICK text \in Seq(Statements) : text = Header(n) \o body /\ HasHeader(text, n) /\ HasBody(text, body)
  BY <1>5, PrintedParts
<1>7. text = ToQasm3(c)
  BY <1>1, <1>3, <1>4, <1>6, PrintedInBlocks
<1>8. PICK s : s = Reading(text) /\ ReadOwn(s, body, n, Len(body))
  BY <1>2, <1>6, BodyRead
<1>9. PICK model : model = [numQubits |-> s.qubit, operations |-> s.operations]
  OBVIOUS
<1>10. Validates(model) /\ FlattenSeq(Blocks(model)) = body
  BY <1>2, <1>4, <1>8, <1>9, OwnModel
<1>11. FromQasm3(text) = [ok |-> s.ok /\ s.header /\ s.qubit # NoRegister /\ Validates(model), model |-> model]
  BY <1>8, <1>9, Zenon DEF FromQasm3
<1>12. s.ok /\ s.header /\ s.qubit = n /\ n # NoRegister
  BY <1>8 DEF ReadOwn, NoRegister
<1>13. FromQasm3(text).ok /\ FromQasm3(text).model = model
  <2>1. PICK v : v = (s.ok /\ s.header /\ s.qubit # NoRegister /\ Validates(model))
    OBVIOUS
  <2>2. v
    BY <1>10, <1>12, <2>1
  <2>3. FromQasm3(text) = [ok |-> v, model |-> model]
    BY <1>11, <2>1, Zenon
  <2>4. FromQasm3(text).ok = v /\ FromQasm3(text).model = model
    BY <2>3
  <2> QED BY <2>2, <2>4
<1>14. SameText(model, c)
  <2>1. model.numQubits = n
    BY <1>9, <1>12
  <2>2. ToQasm3(model) = Header(n) \o body
    BY <1>10, <2>1, PrintedInBlocks
  <2> QED BY <1>6, <1>7, <2>2 DEF SameText
<1> QED BY <1>7, <1>13, <1>14
===============================================================================
