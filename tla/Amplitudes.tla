------------------------------ MODULE Amplitudes ------------------------------
(***************************************************************************)
(* Exact amplitudes.  With w = e^(i pi / 8), every amplitude that angles   *)
(* of a multiple of pi/4 lead to is an integer combination of 1, w, ...,   *)
(* w^7 divided by a power of sqrt(2): eight integers, and one exponent for *)
(* the whole state.  A coefficient of a matrix is a sequence of exponents, *)
(* the sum of those powers of w.                                           *)
(***************************************************************************)
EXTENDS Integers, Sequences, SequencesExt

\* TLC computes the elements of a concatenation at once and once.
Computed(s) == s \o <<>>

NoAmplitude == <<0, 0, 0, 0, 0, 0, 0, 0>>
One         == <<1, 0, 0, 0, 0, 0, 0, 0>>

Plus(a, b)  == Computed([j \in 1..8 |-> a[j] + b[j]])
Scaled(n, a) == Computed([j \in 1..8 |-> n * a[j]])

\* w^8 = -1
TimesPower(a, e) ==
    Computed([j \in 1..8 |-> LET i == (j - 1 - e) % 16
                             IN  IF i < 8 THEN a[i + 1] ELSE -a[i - 7]])

Times(a, powers) ==
    FoldLeft(LAMBDA sum, e : Plus(sum, TimesPower(a, e)), NoAmplitude, powers)

Conjugate(a) == Computed([j \in 1..8 |-> IF j = 1 THEN a[1] ELSE -a[10 - j]])

\* The product of the conjugate of a with b.
Product(a, b) ==
    FoldLeft(LAMBDA sum, j : Plus(sum, Scaled(b[j], TimesPower(Conjugate(a), j - 1))),
             NoAmplitude, <<1, 2, 3, 4, 5, 6, 7, 8>>)
SquaredModulus(a) == Product(a, a)

\* 10000 times a real number, from the cosines of the multiples of pi/8.
Approximately(a) ==
    10000 * a[1] + 9239 * a[2] + 7071 * a[3] + 3827 * a[4]
      - 3827 * a[6] - 7071 * a[7] - 9239 * a[8]

\* Powers of w for cos(n pi / 8) and sin(n pi / 8), both doubled.
Cos2(n) == <<n, -n>>
Sin2(n) == <<n - 4, 4 - n>>
Shifted(powers, e) == [i \in DOMAIN powers |-> powers[i] + e]
Minus(powers) == Shifted(powers, 8)

\* A state of n qubits: amplitude b + 1 belongs to the basis state b, and all
\* are divided by sqrt(2)^k.
Bit(b, q) == (b \div 2^q) % 2
Flipped(b, q) == IF Bit(b, q) = 1 THEN b - 2^q ELSE b + 2^q

Basis(state) == 0 .. Len(state.amp) - 1
Ground(n) == [k |-> 0, amp |-> Computed([b \in 1..2^n |-> IF b = 1 THEN One ELSE NoAmplitude])]

Even(a) == \A j \in 1..8 : a[j] % 2 = 0
Halved(a) == Computed([j \in 1..8 |-> a[j] \div 2])
Reduced(state) ==
    IF state.k >= 2 /\ \A b \in DOMAIN state.amp : Even(state.amp[b])
    THEN [k |-> state.k - 2, amp |-> Computed([b \in DOMAIN state.amp |-> Halved(state.amp[b])])]
    ELSE state

\* The state whose amplitudes are New(b), divided by sqrt(2)^k once more.
Mapped(state, k, New(_)) ==
    Reduced([k |-> state.k + k, amp |-> Computed([b \in DOMAIN state.amp |-> New(b - 1)])])
Amp(state, b) == state.amp[b + 1]

\* One step after the other.  The test makes TLC compute a state before the
\* next step looks into it.
InTurn(Apply(_, _), state, steps) ==
    FoldLeft(LAMBDA s, step : IF s.k >= 0 THEN Apply(s, step) ELSE s, state, steps)

\* The probability of each basis state: eight integers over 2^k.
Probabilities(state) ==
    [k |-> state.k, of |-> Computed([b \in DOMAIN state.amp |-> SquaredModulus(state.amp[b])])]

SameProbabilities(p, r) ==
    /\ Len(p.of) = Len(r.of)
    /\ \A b \in DOMAIN p.of : Scaled(2^r.k, p.of[b]) = Scaled(2^p.k, r.of[b])
================================================================================
