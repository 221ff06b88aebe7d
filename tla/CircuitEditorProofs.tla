------------------------- MODULE CircuitEditorProofs -------------------------
(***************************************************************************)
(* Proofs about the workbench, for every session and every limit: whatever *)
(* its tools do, the history is one line of circuits that only edits and   *)
(* new starts change, its circuits are well formed, the text and the draft *)
(* agree with the circuit shown, and the server accepts it.                *)
(***************************************************************************)
EXTENDS CircuitEditor, CircuitProofs, FiniteSetTheorems

Behind(h) == h.past \o <<h.present>>
Line(h) == Behind(h) \o h.future
At(h) == Len(h.past) + 1
Typed(h, S) == h.past \in Seq(S) /\ h.present \in S /\ h.future \in Seq(S)
InLimit(h) == Len(h.past) + Len(h.future) <= HistoryLimit

HistoryInv == InLimit(history) /\ \E S : Typed(history, S)

(***************************************************************************)
(* The line up to the present circuit, and the whole of it.                *)
(***************************************************************************)
LEMMA BehindProperties ==
    ASSUME NEW S, NEW h, Typed(h, S)
    PROVE  /\ Behind(h) \in Seq(S) /\ Len(h.past) \in Nat /\ Len(Behind(h)) = Len(h.past) + 1
           /\ Behind(h)[Len(h.past) + 1] = h.present
           /\ Behind(h) = Append(h.past, h.present)
<1>1. h.past \in Seq(S) /\ h.present \in S
  BY DEF Typed
<1>2. Behind(h) = Append(h.past, h.present)
  BY <1>1, AppendIsConcat DEF Behind
<1> QED BY <1>1, <1>2, AppendProperties, LenProperties

LEMMA LineProperties ==
    ASSUME NEW S, NEW h, Typed(h, S)
    PROVE  /\ Line(h) \in Seq(S) /\ Len(h.past) \in Nat /\ Len(h.future) \in Nat
           /\ Len(Line(h)) = Len(h.past) + 1 + Len(h.future)
           /\ DOMAIN Line(h) = 1 .. Len(Line(h))
           /\ Line(h)[At(h)] = h.present
<1>1. /\ Behind(h) \in Seq(S) /\ Len(h.past) \in Nat /\ Len(Behind(h)) = Len(h.past) + 1
      /\ Behind(h)[Len(h.past) + 1] = h.present
  BY BehindProperties
<1>2. h.future \in Seq(S) /\ Len(h.future) \in Nat
  BY LenProperties DEF Typed
<1>3. /\ Line(h) \in Seq(S) /\ Len(Line(h)) = Len(Behind(h)) + Len(h.future)
      /\ \A i \in 1 .. Len(Behind(h)) + Len(h.future) :
            Line(h)[i] = IF i <= Len(Behind(h)) THEN Behind(h)[i] ELSE h.future[i - Len(Behind(h))]
  BY <1>1, <1>2, ConcatProperties DEF Line
<1>4. DOMAIN Line(h) = 1 .. Len(Line(h))
  BY <1>3, LenProperties
<1>5. At(h) \in 1 .. Len(Behind(h)) + Len(h.future) /\ At(h) <= Len(Behind(h))
  <2>1. \A a, b, c : a \in Nat /\ b \in Nat /\ c = a + 1 => a + 1 \in 1 .. c + b /\ a + 1 <= c
    OBVIOUS
  <2> QED BY <1>1, <1>2, <2>1, Zenon DEF At
<1>6. Line(h)[At(h)] = Behind(h)[At(h)]
  BY <1>3, <1>5
<1> QED BY <1>1, <1>2, <1>3, <1>4, <1>6 DEF At

LEMMA Around ==
    ASSUME NEW S, NEW s \in Seq(S), NEW x \in S, NEW t \in Seq(S)
    PROVE  (s \o <<x>>) \o t = s \o (<<x>> \o t)
<1> DEFINE m == <<x>>
<1>1. m \in Seq(S)
  OBVIOUS
<1> HIDE DEF m
<1>2. (s \o m) \o t = s \o (m \o t)
  BY <1>1, ConcatAssociative
<1> QED BY <1>2 DEF m

(***************************************************************************)
(* Undo and redo leave the line as it is and move by one.                  *)
(***************************************************************************)
LEMMA UndoMoves ==
    ASSUME NEW S, NEW h, Typed(h, S), InLimit(h), h.past # <<>>
    PROVE  LET g == Undone(h) IN
           Typed(g, S) /\ InLimit(g) /\ Line(g) = Line(h) /\ At(g) = At(h) - 1
<1> DEFINE n == Len(h.past)
           kept == SubSeq(h.past, 1, n - 1)
           last == h.past[n]
           g == Undone(h)
<1>1. h.past \in Seq(S) /\ h.present \in S /\ h.future \in Seq(S)
  BY DEF Typed
<1>2. n \in Nat /\ n >= 1 /\ n \in 1 .. n
  <2>1. n \in Nat \ {0}
    BY <1>1, EmptySeq
  <2> QED BY <2>1
<1>3. last \in S
  BY <1>1, <1>2, ElementOfSeq
<1>4. kept \in Seq(S) /\ Len(kept) = n - 1
  <2>1. \A i \in 1 .. n - 1 : h.past[i] \in S
    BY <1>1, <1>2, ElementOfSeq
  <2>2. 1 \in Int /\ n - 1 \in Int
    BY <1>2
  <2>3. kept \in Seq(S) /\ Len(kept) = IF 1 <= n - 1 THEN n - 1 - 1 + 1 ELSE 0
    BY <2>1, <2>2, SubSeqProperties
  <2> QED BY <1>2, <2>3
<1>5. h.past = kept \o <<last>>
  <2>1. SubSeq(h.past, 1, n) = h.past
    BY <1>1, SubSeqFull
  <2>2. 1 \in 1 .. n /\ n \in 1 .. n
    BY <1>2
  <2>3. SubSeq(h.past, 1, n) = kept \o <<last>>
    BY <1>1, <2>2, SubSeqRecursiveSecond
  <2> QED BY <2>1, <2>3
<1>6. /\ g.past = kept /\ g.present = last /\ g.future = <<h.present>> \o h.future
  BY DEF Undone
<1>7. <<h.present>> \in Seq(S) /\ Len(<<h.present>>) = 1
  BY <1>1
<1>8. g.future \in Seq(S) /\ Len(g.future) = 1 + Len(h.future)
  BY <1>1, <1>6, <1>7, ConcatProperties
<1>9. Len(h.future) \in Nat
  BY <1>1, LenProperties
<1>10. Line(g) = Line(h)
  <2>1. Line(g) = h.past \o (<<h.present>> \o h.future)
    BY <1>5, <1>6 DEF Line, Behind
  <2>2. (h.past \o <<h.present>>) \o h.future = h.past \o (<<h.present>> \o h.future)
    <3> DEFINE a == h.past
               b == h.present
               c == h.future
    <3>1. a \in Seq(S) /\ b \in S /\ c \in Seq(S)
      BY <1>1
    <3> HIDE DEF a, b, c
    <3>2. (a \o <<b>>) \o c = a \o (<<b>> \o c)
      BY <3>1, Around
    <3> QED BY <3>2 DEF a, b, c
  <2> QED BY <2>1, <2>2 DEF Line, Behind
<1>11. Typed(g, S)
  BY <1>3, <1>4, <1>6, <1>8 DEF Typed
<1>12. Len(g.past) + Len(g.future) = n + Len(h.future) /\ Len(g.past) + 1 = n
  <2> DEFINE a == Len(g.past)
             b == Len(g.future)
             d == Len(h.future)
  <2>1. a = n - 1 /\ b = 1 + d
    BY <1>4, <1>6, <1>8
  <2>2. n \in Nat /\ d \in Nat
    BY <1>2, <1>9
  <2> HIDE DEF a, b, d, n
  <2>3. a + b = n + d /\ a + 1 = n
    BY <2>1, <2>2
  <2> QED BY <2>3 DEF a, b, d
<1>13. InLimit(g)
  BY <1>12 DEF InLimit
<1>14. At(g) = At(h) - 1
  BY <1>2, <1>12 DEF At
<1> QED BY <1>10, <1>11, <1>13, <1>14

LEMMA RedoMoves ==
    ASSUME NEW S, NEW h, Typed(h, S), InLimit(h), h.future # <<>>
    PROVE  LET g == Redone(h) IN
           Typed(g, S) /\ InLimit(g) /\ Line(g) = Line(h) /\ At(g) = At(h) + 1
<1> DEFINE f == h.future
           g == Redone(h)
<1>1. h.past \in Seq(S) /\ h.present \in S /\ f \in Seq(S)
  BY DEF Typed
<1>2. Len(f) \in Nat /\ Len(f) >= 1 /\ Len(h.past) \in Nat
  <2>1. Len(f) \in Nat \ {0}
    BY <1>1, EmptySeq
  <2> QED BY <1>1, <2>1, LenProperties
<1>3. Head(f) \in S /\ Tail(f) \in Seq(S) /\ Len(Tail(f)) = Len(f) - 1
  BY <1>1, HeadTailProperties
<1>4. f = <<Head(f)>> \o Tail(f)
  <2>1. SubSeq(f, 1, Len(f)) = f /\ Tail(f) = SubSeq(f, 2, Len(f))
    BY <1>1, SubSeqFull, TailIsSubSeq
  <2>2. 1 \in 1 .. Len(f) /\ Len(f) \in 1 .. Len(f)
    BY <1>2
  <2>3. SubSeq(f, 1, Len(f)) = <<f[1]>> \o SubSeq(f, 1 + 1, Len(f))
    BY <1>1, <2>2, SubSeqRecursiveFirst
  <2>4. Head(f) = f[1] /\ 1 + 1 = 2
    BY <1>1
  <2> QED BY <2>1, <2>3, <2>4
<1>5. /\ Behind(h) \in Seq(S) /\ Len(Behind(h)) = Len(h.past) + 1
      /\ Behind(h) = Append(h.past, h.present)
  BY BehindProperties
<1>6. g.past = Behind(h) /\ g.present = Head(f) /\ g.future = Tail(f)
  BY <1>5 DEF Redone
<1>7. <<Head(f)>> \in Seq(S)
  BY <1>3
<1>8. Line(g) = Line(h)
  <2>1. Line(g) = (Behind(h) \o <<Head(f)>>) \o Tail(f)
    BY <1>6 DEF Line, Behind
  <2>2. (Behind(h) \o <<Head(f)>>) \o Tail(f) = Behind(h) \o (<<Head(f)>> \o Tail(f))
    <3> DEFINE a == Behind(h)
               b == Head(f)
               c == Tail(f)
    <3>1. a \in Seq(S) /\ b \in S /\ c \in Seq(S)
      BY <1>3, <1>5
    <3> HIDE DEF a, b, c
    <3>2. (a \o <<b>>) \o c = a \o (<<b>> \o c)
      BY <3>1, Around
    <3> QED BY <3>2 DEF a, b, c
  <2> QED BY <1>4, <2>1, <2>2 DEF Line
<1>9. Typed(g, S)
  BY <1>3, <1>5, <1>6 DEF Typed
<1>10. Len(g.past) = Len(h.past) + 1 /\ Len(g.future) = Len(f) - 1
  BY <1>3, <1>5, <1>6
<1>11. Len(g.past) + Len(g.future) = Len(h.past) + Len(h.future)
  <2> DEFINE a == Len(g.past)
             b == Len(g.future)
             c == Len(h.past)
             d == Len(h.future)
  <2>1. a = c + 1 /\ b = d - 1 /\ c \in Nat /\ d \in Nat
    BY <1>2, <1>10
  <2> HIDE DEF a, b, c, d
  <2>2. a + b = c + d
    BY <2>1
  <2> QED BY <2>2 DEF a, b, c, d
<1>12. InLimit(g)
  BY <1>11 DEF InLimit
<1>13. At(g) = At(h) + 1
  BY <1>10 DEF At
<1> QED BY <1>8, <1>9, <1>12, <1>13

(***************************************************************************)
(* An edit cuts what lies ahead and appends; at the limit the oldest       *)
(* circuit goes.                                                           *)
(***************************************************************************)
Edited(h, g) ==
    /\ At(g) = Len(Line(g))
    /\ Line(g)[At(g)] # Line(h)[At(h)]
    /\ \/ /\ At(h) <= HistoryLimit
          /\ Line(g) = Append(SubSeq(Line(h), 1, At(h)), Line(g)[At(g)])
       \/ /\ At(h) > HistoryLimit
          /\ Line(g) = Append(SubSeq(Line(h), 2, At(h)), Line(g)[At(g)])

LEMMA NothingAhead ==
    ASSUME NEW S, NEW p \in Seq(S), NEW c \in S, NEW g,
           g.past = p, g.present = c, g.future = <<>>
    PROVE  /\ Typed(g, S) /\ Len(p) \in Nat /\ Len(g.past) = Len(p) /\ Len(g.future) = 0
           /\ At(g) = Len(Line(g)) /\ Len(Line(g)) = Len(p) + 1
           /\ Line(g)[At(g)] = c /\ Line(g) = Append(p, c)
<1>1. g.past = p /\ g.present = c /\ g.future = <<>>
  OBVIOUS
<1>2. <<>> \in Seq(S) /\ Len(<<>>) = 0
  BY EmptySeq
<1>3. Typed(g, S)
  BY <1>1, <1>2 DEF Typed
<1>4. Behind(g) \in Seq(S) /\ Behind(g) = Append(g.past, g.present)
  BY <1>3, BehindProperties
<1>5. Behind(g) \o <<>> = Behind(g)
  BY <1>4, ConcatEmptySeq
<1>6. Line(g) = Append(p, c)
  BY <1>1, <1>4, <1>5 DEF Line
<1>7. /\ Len(p) \in Nat /\ Len(Append(p, c)) = Len(p) + 1 /\ Append(p, c)[Len(p) + 1] = c
  BY LenProperties, AppendProperties
<1>8. At(g) = Len(p) + 1
  BY <1>1 DEF At
<1> QED BY <1>1, <1>2, <1>3, <1>6, <1>7, <1>8

LEMMA PushEdits ==
    ASSUME NEW S, NEW h, Typed(h, S), InLimit(h), NEW c, Pushed(h, c) # h
    PROVE  LET g == Pushed(h, c) IN
           Typed(g, S \cup {c}) /\ InLimit(g) /\ Edited(h, g)
<1> DEFINE T == S \cup {c}
           all == Behind(h)
           n == Len(h.past)
           g == Pushed(h, c)
           kept == SubSeq(all, Len(all) - HistoryLimit + 1, Len(all))
<1>1. h.past \in Seq(T) /\ h.present \in T /\ h.future \in Seq(T) /\ c \in T /\ Typed(h, T)
  BY SeqMonotonic DEF Typed
<1>2. /\ all \in Seq(T) /\ n \in Nat /\ Len(all) = n + 1
      /\ all = Append(h.past, h.present)
  BY <1>1, BehindProperties
<1>3. Len(h.future) \in Nat /\ HistoryLimit \in Nat /\ HistoryLimit >= 1
  BY <1>1, LenProperties, LimitAssumption
<1>4. n <= HistoryLimit
  <2> DEFINE b == Len(h.future)
  <2>1. n + b <= HistoryLimit /\ n \in Nat /\ b \in Nat /\ HistoryLimit \in Nat
    BY <1>2, <1>3 DEF InLimit
  <2> HIDE DEF n, b
  <2> QED BY <2>1
<1>5. Layout(c) # Layout(h.present)
  BY DEF Pushed
<1>6. c # h.present
  BY <1>5
<1>7. Line(h)[At(h)] = h.present /\ At(h) = n + 1
  BY <1>1, LineProperties DEF At
<1>8. ASSUME NEW i \in 1 .. n + 1 PROVE SubSeq(Line(h), i, At(h)) = SubSeq(all, i, n + 1)
  <2> DEFINE a == all
             b == h.future
  <2>1. a \in Seq(T) /\ b \in Seq(T) /\ i \in 1 .. Len(a) /\ n + 1 = Len(a) /\ n + 1 \in 1 .. Len(a)
    BY <1>1, <1>2
  <2> HIDE DEF a, b
  <2>2. SubSeq(a \o b, i, n + 1) = SubSeq(a, i, n + 1)
    BY <2>1, SubSeqOfConcat1
  <2> QED BY <1>7, <2>2 DEF a, b, Line
<1>9. CASE n < HistoryLimit
  <2>1. Len(all) <= HistoryLimit /\ At(h) <= HistoryLimit
    BY <1>2, <1>3, <1>7, <1>9
  <2>2. g.past = all /\ g.present = c /\ g.future = <<>>
    BY <1>2, <1>5, <2>1 DEF Pushed
  <2>3. /\ Typed(g, T) /\ Len(g.past) = Len(all) /\ Len(g.future) = 0
        /\ At(g) = Len(Line(g)) /\ Line(g)[At(g)] = c /\ Line(g) = Append(all, c)
    <3>1. all \in Seq(T) /\ c \in T
      BY <1>1, <1>2
    <3> HIDE DEF T, all, g
    <3> QED BY <2>2, <3>1, NothingAhead
  <2>4. InLimit(g)
    BY <1>2, <2>1, <2>3 DEF InLimit
  <2>5. SubSeq(Line(h), 1, At(h)) = all
    <3>1. SubSeq(all, 1, Len(all)) = all
      BY <1>2, SubSeqFull
    <3>2. 1 \in 1 .. n + 1
      BY <1>2
    <3> QED BY <1>2, <1>8, <3>1, <3>2
  <2>6. Line(g) = Append(SubSeq(Line(h), 1, At(h)), Line(g)[At(g)])
    BY <2>3, <2>5
  <2>7. Edited(h, g)
    BY <1>6, <1>7, <2>1, <2>3, <2>6 DEF Edited
  <2> QED BY <2>3, <2>4, <2>7
<1>10. CASE n = HistoryLimit
  <2>1. /\ ~(Len(all) <= HistoryLimit) /\ At(h) > HistoryLimit
        /\ Len(all) - HistoryLimit + 1 = 2 /\ Len(all) = HistoryLimit + 1
    BY <1>2, <1>3, <1>7, <1>10
  <2>2. g.past = SubSeq(all, 2, n + 1) /\ g.present = c /\ g.future = <<>>
    BY <1>2, <1>5, <2>1 DEF Pushed
  <2>3. SubSeq(all, 2, n + 1) \in Seq(T) /\ Len(SubSeq(all, 2, n + 1)) = n
    <3>1. 2 \in Int /\ n + 1 \in Int /\ 2 <= n + 1 /\ n + 1 - 2 + 1 = n
      BY <1>2, <1>3, <1>10
    <3>2. \A i \in 2 .. n + 1 : all[i] \in T
      BY <1>2, ElementOfSeq
    <3> DEFINE hi == n + 1
    <3>3. hi \in Int /\ \A i \in 2 .. hi : all[i] \in T
      BY <3>1, <3>2
    <3> HIDE DEF all, T, hi
    <3>4. SubSeq(all, 2, hi) \in Seq(T) /\ Len(SubSeq(all, 2, hi)) = IF 2 <= hi THEN hi - 2 + 1 ELSE 0
      BY <3>3, SubSeqProperties
    <3> QED BY <3>1, <3>4 DEF hi
  <2>4. /\ Typed(g, T) /\ Len(g.past) = n /\ Len(g.future) = 0
        /\ At(g) = Len(Line(g)) /\ Line(g)[At(g)] = c
        /\ Line(g) = Append(SubSeq(all, 2, n + 1), c)
    <3> DEFINE rest == SubSeq(all, 2, n + 1)
    <3>1. rest \in Seq(T) /\ Len(rest) = n /\ g.past = rest /\ g.present = c /\ g.future = <<>>
      BY <2>2, <2>3
    <3> HIDE DEF T, rest, g
    <3>2. /\ Typed(g, T) /\ Len(g.past) = Len(rest) /\ Len(g.future) = 0
          /\ At(g) = Len(Line(g)) /\ Line(g)[At(g)] = c
          /\ Line(g) = Append(rest, c)
      BY <1>1, <3>1, NothingAhead
    <3> QED BY <3>1, <3>2 DEF rest
  <2>5. InLimit(g)
    BY <1>2, <1>4, <2>4 DEF InLimit
  <2>6. SubSeq(Line(h), 2, At(h)) = SubSeq(all, 2, n + 1)
    <3>1. 2 \in 1 .. n + 1
      BY <1>2, <1>3, <1>10
    <3> QED BY <1>8, <3>1
  <2>7. Line(g) = Append(SubSeq(Line(h), 2, At(h)), Line(g)[At(g)])
    BY <2>4, <2>6
  <2>8. Edited(h, g)
    BY <1>6, <1>7, <2>1, <2>4, <2>7 DEF Edited
  <2> QED BY <2>4, <2>5, <2>8
<1> QED BY <1>2, <1>3, <1>4, <1>9, <1>10

(***************************************************************************)
(* What one step does to the history: nothing, an edit, undo, redo, or a   *)
(* new start.                                                              *)
(***************************************************************************)
PushStep == \E c : history' = Pushed(history, c)
UndoStep == history.past # <<>> /\ history' = Undone(history)
RedoStep == history.future # <<>> /\ history' = Redone(history)
StartStep == \E c : history' = Created(c)
HistoryStep == history' = history \/ PushStep \/ UndoStep \/ RedoStep \/ StartStep

LEMMA TurnStep ==
    ASSUME NEW h, NEW s, NEW running, Turn(h, s, running)
    PROVE  history' = h
BY DEF Turn

LEMMA CommitStep ==
    ASSUME NEW c, Commit(c)
    PROVE  history' = history \/ PushStep
<1>1. CASE Validates(c)
  <2>1. Turn(Pushed(history, c), StepAfter(step, Total(present), Total(c)), timer)
    BY <1>1 DEF Commit, Push
  <2> QED BY <2>1, TurnStep DEF PushStep
<1>2. CASE ~Validates(c)
  BY <1>2 DEF Commit, doc
<1> QED BY <1>1, <1>2

LEMMA PushIsStep ==
    ASSUME NEW c, NEW running, Push(c, running)
    PROVE  PushStep
BY TurnStep DEF Push, PushStep

\* Placing, moving and deleting operations.
LEMMA GateSteps ==
    ASSUME NEW q, NEW l
    PROVE  /\ \A g : DropGate(g, q, l) => HistoryStep
           /\ ClickOperation(q, l) \/ ClickPending(q, l) \/ DropMovedOperation(q, l) => HistoryStep
           /\ \A op : DeleteOperation(op) => HistoryStep
           /\ \A op, a : DragStart(op, a) => HistoryStep
           /\ CancelPlacement \/ DragEnd => HistoryStep
<1>1. ASSUME NEW g, DropGate(g, q, l) PROVE HistoryStep
  <2>1. CASE Required(g) > 1
    BY <1>1, <2>1 DEF DropGate, doc, HistoryStep
  <2>2. CASE ~(Required(g) > 1)
    <3>1. Commit(AddOperation(present, Operation(FreshId, g, l, <<>>, <<q>>, DefaultParams(g))))
      BY <1>1, <2>2 DEF DropGate
    <3> QED BY <3>1, CommitStep DEF HistoryStep
  <2> QED BY <2>1, <2>2
<1>2. ClickOperation(q, l) => HistoryStep
  BY DEF ClickOperation, doc, HistoryStep
<1>3. ASSUME ClickPending(q, l) PROVE HistoryStep
  <2> DEFINE qubits == Append(pending.qubits, q)
             placed == AddOperation(present, PlacedOperation(pending, qubits))
  <2>1. UNCHANGED doc \/ Commit(placed)
    BY <1>3 DEF ClickPending
  <2> HIDE DEF placed
  <2> QED BY <2>1, CommitStep DEF doc, HistoryStep
<1>4. ASSUME DropMovedOperation(q, l) PROVE HistoryStep
  <2>1. UNCHANGED doc \/ \E c : Commit(c)
    BY <1>4 DEF DropMovedOperation
  <2> QED BY <2>1, CommitStep DEF doc, HistoryStep
<1>5. ASSUME NEW op, DeleteOperation(op) PROVE HistoryStep
  <2>1. Commit(RemoveOperation(present, op.id))
    BY <1>5 DEF DeleteOperation
  <2> QED BY <2>1, CommitStep DEF HistoryStep
<1>6. ASSUME NEW op, NEW a, DragStart(op, a) PROVE HistoryStep
  BY <1>6 DEF DragStart, doc, HistoryStep
<1>7. CancelPlacement \/ DragEnd => HistoryStep
  BY DEF CancelPlacement, DragEnd, doc, HistoryStep
<1> QED BY <1>1, <1>2, <1>3, <1>4, <1>5, <1>6, <1>7

\* The panel, columns, and the toolbar.
LEMMA ToolSteps ==
    /\ \A op, i : ChangeParam(op, i) \/ NormalizeParam(op, i) => HistoryStep
    /\ \A b, n : InsertColumns(b, n) \/ DeleteEmptyColumns(b, n) => HistoryStep
    /\ IncreaseQubits \/ DecreaseQubits \/ ClearCircuit \/ Undo \/ Redo \/ Reset => HistoryStep
    /\ \A name : LoadTemplate(name) => HistoryStep
    /\ \A s : SetStep(s) => HistoryStep
    /\ \A m : SetMode(m) => HistoryStep
<1>1. ASSUME NEW op, NEW i, NEW v, ChangeParamTo(op, i, v) PROVE HistoryStep
  <2>1. UNCHANGED doc \/ Commit(UpdateOperation(present, [op EXCEPT !.params[i] = v]))
    BY <1>1 DEF ChangeParamTo
  <2> QED BY <2>1, CommitStep DEF doc, HistoryStep
<1>2. \A op, i : ChangeParam(op, i) \/ NormalizeParam(op, i) => HistoryStep
  BY <1>1 DEF ChangeParam, NormalizeParam
<1>3. ASSUME NEW b, NEW n, InsertColumns(b, n) PROVE HistoryStep
  <2>1. PICK c : Commit(c)
    BY <1>3 DEF InsertColumns
  <2> QED BY <2>1, CommitStep DEF HistoryStep
<1>4. ASSUME NEW b, NEW n, DeleteEmptyColumns(b, n) PROVE HistoryStep
  <2>1. UNCHANGED doc \/ \E c : Commit(c)
    BY <1>4 DEF DeleteEmptyColumns
  <2> QED BY <2>1, CommitStep DEF doc, HistoryStep
<1>5. IncreaseQubits \/ DecreaseQubits \/ ClearCircuit => HistoryStep
  <2>1. IncreaseQubits \/ DecreaseQubits \/ ClearCircuit => \E c : Push(c, timer)
    BY DEF IncreaseQubits, DecreaseQubits, ClearCircuit
  <2> QED BY <2>1, PushIsStep DEF HistoryStep
<1>6. Undo => HistoryStep
  BY TurnStep DEF Undo, UndoStep, HistoryStep
<1>7. Redo => HistoryStep
  BY TurnStep DEF Redo, RedoStep, HistoryStep
<1>8. Reset => HistoryStep
  BY DEF Reset, StartStep, HistoryStep
<1>9. \A name : LoadTemplate(name) => HistoryStep
  BY PushIsStep DEF LoadTemplate, HistoryStep
<1>10. (\A s : SetStep(s) => HistoryStep) /\ (\A m : SetMode(m) => HistoryStep)
  BY DEF SetStep, SetMode, HistoryStep
<1> QED BY <1>2, <1>3, <1>4, <1>5, <1>6, <1>7, <1>8, <1>9, <1>10

\* The pane, the projects, a reload.
LEMMA TextAndNetSteps ==
    /\ \A t : TypeText(t) => HistoryStep
    /\ ReadText \/ Reload => HistoryStep
    /\ SaveProject \/ SaveServed \/ LoadProject \/ LoadServed \/ LoadAnswered \/ CallFails
          => HistoryStep
<1>1. \A t : TypeText(t) => HistoryStep
  BY DEF TypeText, HistoryStep
<1>2. ASSUME ReadText PROVE HistoryStep
  <2>1. UNCHANGED history \/ Push(FromQasm3(text).model, FALSE)
    BY <1>2 DEF ReadText
  <2> QED BY <2>1, PushIsStep DEF HistoryStep
<1>3. Reload => HistoryStep
  BY DEF Reload, Mounted, StartStep, HistoryStep
<1>4. LoadAnswered => HistoryStep
  BY DEF LoadAnswered, StartStep, HistoryStep
<1>5. SaveProject \/ SaveServed \/ LoadProject \/ LoadServed \/ CallFails => HistoryStep
  BY DEF SaveProject, SaveServed, LoadProject, LoadServed, CallFails, doc, HistoryStep
<1> QED BY <1>1, <1>2, <1>3, <1>4, <1>5

LEMMA NextSteps == Next => HistoryStep
BY GateSteps, ToolSteps, TextAndNetSteps, Zenon DEF Next

(***************************************************************************)
(* The invariant, and what each step does to the line.                     *)
(***************************************************************************)
LEMMA CreatedProperties ==
    ASSUME NEW c
    PROVE  LET g == Created(c) IN
           /\ Typed(g, {c}) /\ InLimit(g) /\ At(g) = 1 /\ Len(Line(g)) = 1
<1>1. PICK S : S = {c}
  OBVIOUS
<1>2. PICK p : p = <<>>
  OBVIOUS
<1>3. PICK g : g = Created(c)
  OBVIOUS
<1>4. g.past = p /\ g.present = c /\ g.future = <<>>
  BY <1>2, <1>3 DEF Created
<1>5. c \in S
  BY <1>1
<1>6. p \in Seq(S) /\ Len(p) = 0
  BY <1>2, EmptySeq
<1>7. /\ Typed(g, S) /\ Len(g.past) = Len(p) /\ Len(g.future) = 0
      /\ At(g) = Len(Line(g)) /\ Len(Line(g)) = Len(p) + 1
  <2>1. p \in Seq(S)
    BY <1>6
  <2>2. Typed(g, S)
    BY <1>4, <1>5, <2>1, NothingAhead
  <2>3. Len(g.past) = Len(p) /\ Len(g.future) = 0
    BY <1>4, <1>5, <2>1, NothingAhead
  <2>4. At(g) = Len(Line(g)) /\ Len(Line(g)) = Len(p) + 1
    BY <1>4, <1>5, <2>1, NothingAhead
  <2> QED BY <2>2, <2>3, <2>4
<1>8. InLimit(g) /\ At(g) = 1 /\ Len(Line(g)) = 1
  BY <1>6, <1>7, LimitAssumption DEF InLimit
<1> QED BY <1>1, <1>3, <1>7, <1>8

LineStep(h, g) ==
    \/ Line(g) = Line(h) /\ At(g) = At(h)
    \/ Edited(h, g)
    \/ At(g) \in {At(h) - 1, At(h) + 1} /\ At(g) \in DOMAIN Line(h) /\ Line(g) = Line(h)
    \/ Len(Line(g)) = 1 /\ At(g) = 1

LEMMA MovedInside ==
    ASSUME NEW S, NEW g, NEW h, Typed(g, S), Line(g) = Line(h)
    PROVE  At(g) \in DOMAIN Line(h)
<1> DEFINE a == Len(g.past)
           b == Len(g.future)
<1>1. a \in Nat /\ b \in Nat /\ DOMAIN Line(h) = 1 .. a + 1 + b /\ At(g) = a + 1
  BY LineProperties DEF At
<1> HIDE DEF a, b
<1> QED BY <1>1

LEMMA StepsOfTheLine ==
    ASSUME HistoryInv, HistoryStep
    PROVE  HistoryInv' /\ LineStep(history, history')
<1>1. PICK S : Typed(history, S)
  BY DEF HistoryInv
<1>2. InLimit(history)
  BY DEF HistoryInv
<1>3. CASE history' = history
  BY <1>3 DEF HistoryInv, LineStep
<1>4. CASE PushStep
  <2>1. PICK c : history' = Pushed(history, c)
    BY <1>4 DEF PushStep
  <2>2. CASE history' = history
    BY <1>3, <2>2
  <2>3. CASE history' # history
    <3>1. Typed(history', S \cup {c}) /\ InLimit(history') /\ Edited(history, history')
      BY <1>1, <1>2, <2>1, <2>3, PushEdits
    <3> QED BY <3>1 DEF HistoryInv, LineStep
  <2> QED BY <2>2, <2>3
<1>5. CASE UndoStep
  <2>1. /\ Typed(history', S) /\ InLimit(history') /\ Line(history') = Line(history)
        /\ At(history') = At(history) - 1
    BY <1>1, <1>2, <1>5, UndoMoves DEF UndoStep
  <2>2. At(history') \in DOMAIN Line(history)
    BY <2>1, MovedInside
  <2> QED BY <2>1, <2>2 DEF HistoryInv, LineStep
<1>6. CASE RedoStep
  <2>1. /\ Typed(history', S) /\ InLimit(history') /\ Line(history') = Line(history)
        /\ At(history') = At(history) + 1
    BY <1>1, <1>2, <1>6, RedoMoves DEF RedoStep
  <2>2. At(history') \in DOMAIN Line(history)
    BY <2>1, MovedInside
  <2> QED BY <2>1, <2>2 DEF HistoryInv, LineStep
<1>7. CASE StartStep
  <2>1. PICK c : history' = Created(c)
    BY <1>7 DEF StartStep
  <2>2. Typed(history', {c}) /\ InLimit(history') /\ At(history') = 1 /\ Len(Line(history')) = 1
    BY <2>1, CreatedProperties
  <2> QED BY <2>2 DEF HistoryInv, LineStep
<1> QED BY <1>3, <1>4, <1>5, <1>6, <1>7 DEF HistoryStep

LEMMA InitHolds == Init => HistoryInv /\ Timeline!Init
<1> SUFFICES ASSUME Init PROVE HistoryInv /\ Timeline!Init
  OBVIOUS
<1>1. PICK c : history = Created(c)
  BY DEF Init, Mounted
<1>2. Typed(history, {c}) /\ InLimit(history) /\ At(history) = 1 /\ Len(Line(history)) = 1
  BY <1>1, CreatedProperties
<1>3. HistoryInv
  BY <1>2 DEF HistoryInv
<1>4. Timeline!Init
  BY <1>2 DEF Timeline!Init, Line, Behind, At, present
<1> QED BY <1>3, <1>4

LEMMA LineStepIsTimelineStep ==
    ASSUME LineStep(history, history')
    PROVE  [Timeline!Next]_(Timeline!timeline)
<1> USE DEF Line, Behind, At, present
<1>1. CASE Line(history') = Line(history) /\ At(history') = At(history)
  BY <1>1 DEF Timeline!timeline
<1>2. CASE Edited(history, history')
  BY <1>2 DEF Edited, Timeline!Next, Timeline!Edit
<1>3. CASE /\ At(history') \in {At(history) - 1, At(history) + 1}
           /\ At(history') \in DOMAIN Line(history) /\ Line(history') = Line(history)
  BY <1>3 DEF Timeline!Next, Timeline!Move
<1>4. CASE Len(Line(history')) = 1 /\ At(history') = 1
  BY <1>4 DEF Timeline!Next, Timeline!Restart
<1> QED BY <1>1, <1>2, <1>3, <1>4 DEF LineStep

LEMMA EveryStep ==
    ASSUME HistoryInv, [Next]_vars
    PROVE  HistoryInv' /\ [Timeline!Next]_(Timeline!timeline)
<1>1. HistoryStep
  BY NextSteps DEF vars, doc, HistoryStep
<1> QED BY <1>1, StepsOfTheLine, LineStepIsTimelineStep

(***************************************************************************)
(* The undo history keeps to its limit, in both directions together: undo  *)
(* and redo never find more than the limit allows (history.ts).            *)
(***************************************************************************)
THEOREM HistoryBounded == Spec => []HistoryInv
<1>1. Init => HistoryInv
  BY InitHolds
<1>2. HistoryInv /\ [Next]_vars => HistoryInv'
  BY EveryStep
<1> QED BY <1>1, <1>2, PTL DEF Spec

(***************************************************************************)
(* Whatever the user does with the workbench, undo and redo move along one *)
(* line of circuits and only an edit, a reset or a load changes it         *)
(* (history.ts, use-workbench-editor-state.ts).                            *)
(***************************************************************************)
THEOREM EditorImplementsTimeline == Spec => ImplementsTimeline
<1>1. Init => Timeline!Init
  BY InitHolds
<1>2. HistoryInv /\ [Next]_vars => [Timeline!Next]_(Timeline!timeline)
  BY EveryStep
<1> QED BY <1>1, <1>2, HistoryBounded, PTL DEF Spec, ImplementsTimeline, Timeline!Spec

(***************************************************************************)
(* The invariant of the editor's state.  Whatever holds a circuit -- the   *)
(* history, the draft, a project, a call under way -- holds a good one,    *)
(* and the draft is what is shown, so that a reload finds it again.        *)
(***************************************************************************)
Good == Goods(edits, misplaced)

Agrees(d, c, s, m) ==
    IF d = Nothing THEN c = DefaultTemplate /\ s = Total(DefaultTemplate) /\ m = "FILTERED"
    ELSE d.circuit = c /\ d.mode = m /\ d.step \in Nat /\ ClampStep(d.step, Total(c)) = s

DocInv ==
    /\ Typed(history, Good)
    /\ step \in 0 .. Total(present) /\ mode \in Modes
    /\ text \in Seq(Statements) /\ timer \in BOOLEAN /\ parseError \in BOOLEAN
    /\ overtyped \in BOOLEAN
    /\ Agrees(draft, present, step, mode)

Placing(p) == /\ p.gate \in Gates /\ p.layer \in Int /\ p.qubits \in Seq(Nat)
              /\ Len(p.qubits) < Required(p.gate)
HandInv ==
    /\ pending = NoPending \/ Placing(pending)
    /\ selected = 0 \/ Selected # {}
    /\ drag.id \in Int /\ drag.anchor \in Int /\ warned \subseteq 1 .. 3

Payload(p) == p.circuit \in Good /\ p.mode \in Modes
NetInv ==
    /\ project = Nothing \/ Payload(project)
    /\ (\A p \in saving : Payload(p)) /\ IsFiniteSet(saving) /\ Cardinality(saving) <= 1
    /\ loading.asked => Payload(project)
    /\ loading.served => Payload(loading.payload)

BoundInv == session \in Sessions /\ edits \in 0 .. session.edits /\ misplaced \in BOOLEAN
EditorInv == BoundInv /\ DocInv /\ HandInv /\ NetInv

\* What has been typed over a text the pane had not read, it does not know;
\* and an error the pane shows at rest is an error of its text.
TextInv ==
    /\ TextAgrees
    /\ ~timer /\ parseError => ~FromQasm3(text).ok
    /\ ~overtyped => text = ToQasm3(present) \/ synced \in {<<>>, ToQasm3(present)}

(***************************************************************************)
(* What a step may do to the bounds and to the document, by its parts.     *)
(***************************************************************************)
Forward == /\ session' = session /\ edits' \in 0 .. edits
           /\ misplaced' \in BOOLEAN /\ (misplaced => misplaced')

Printed == text' = ToQasm3(present') /\ ~overtyped' /\ ~parseError'
TextKept == UNCHANGED <<history, text, timer, parseError, overtyped, synced>>
TextStep == TextKept \/ Printed \/ ReadText \/ \E t : TypeText(t)

LEMMA BoundsMove ==
    ASSUME BoundInv, Forward
    PROVE  BoundInv' /\ Good \subseteq Good' /\ edits \in Nat /\ edits' \in Nat
<1>1. session \in Sessions /\ session.edits \in Nat
  BY SessionsAssumption DEF BoundInv
<1>2. edits \in Nat /\ edits' \in Nat /\ edits' \in 0 .. session.edits
  BY <1>1 DEF BoundInv, Forward
<1>3. Goods(edits, misplaced) \subseteq Goods(edits', misplaced')
  BY <1>2, GoodsGrow DEF Forward
<1> QED BY <1>1, <1>2, <1>3 DEF BoundInv, Forward, Good

LEMMA TypedGrows ==
    ASSUME NEW S, NEW T, S \subseteq T, NEW h, Typed(h, S)
    PROVE  Typed(h, T)
BY SeqMonotonic DEF Typed

LEMMA DocKept ==
    ASSUME BoundInv, Forward, DocInv, UNCHANGED <<doc, mode>>
    PROVE  DocInv'
<1>1. Typed(history', Good')
  BY BoundsMove, TypedGrows DEF DocInv, doc
<1> QED BY <1>1 DEF DocInv, doc, present

LEMMA NothingIsNoMode == "none" \notin Modes /\ Nothing.mode = "none"
BY DEF Modes, Nothing

LEMMA DraftAgrees ==
    ASSUME NEW c, Len(c.operations) \in Nat, NEW t, NEW s \in 0 .. Total(c), NEW m \in Modes
    PROVE  Agrees(DraftOf(c, t, s, m), c, s, m)
<1>1. PICK d : d = DraftOf(c, t, s, m)
  OBVIOUS
<1>2. d.circuit = c /\ d.step = s /\ d.mode = m
  BY <1>1 DEF DraftOf
<1>3. d # Nothing
  BY <1>2, NothingIsNoMode
<1>4. s \in Nat /\ ClampStep(s, Total(c)) = s
  BY DEF ClampStep, Total
<1> QED BY <1>1, <1>2, <1>3, <1>4 DEF Agrees

\* Another circuit on the canvas, however it got there.
LEMMA Shown ==
    ASSUME BoundInv, Forward, Typed(history', Good'), step' \in 0 .. Total(present'), mode' \in Modes,
           text' = ToQasm3(present'), timer' \in BOOLEAN, parseError' = FALSE, overtyped' = FALSE,
           Agrees(draft', present', step', mode')
    PROVE  DocInv' /\ Printed
<1>1. present' \in Good'
  BY DEF Typed, present
<1>2. ToQasm3(present') \in Seq(Statements)
  BY <1>1, BoundsMove, GoodUse DEF Good
<1> QED BY <1>2 DEF DocInv, Printed

LEMMA Total0 ==
    ASSUME NEW n \in Nat, NEW m, NEW c \in Goods(n, m)
    PROVE  Total(c) \in Nat
BY GoodUse DEF Total

LEMMA StepInside ==
    ASSUME NEW a \in Nat, NEW b \in Nat, NEW s \in 0 .. a
    PROVE  StepAfter(s, a, b) \in 0 .. b
BY DEF StepAfter, ClampStep

LEMMA TurnKeeps ==
    ASSUME BoundInv, Forward, DocInv, mode' = mode,
           NEW h, Typed(h, Good'), NEW running \in BOOLEAN,
           Turn(h, StepAfter(step, Total(present), Total(h.present)), running)
    PROVE  /\ DocInv'
           /\ running = timer /\ synced' = synced => TextStep
           /\ h # history => Printed
<1> DEFINE s == StepAfter(step, Total(present), Total(h.present))
<1>1. CASE h = history
  <2>1. /\ timer' = running
        /\ UNCHANGED <<history, text, parseError, step, draft, overtyped>>
    BY <1>1 DEF Turn
  <2>2. DocInv'
    BY <1>1, <2>1 DEF DocInv, present
  <2>3. running = timer /\ synced' = synced => TextStep
    BY <2>1 DEF TextStep, TextKept
  <2> QED BY <1>1, <2>2, <2>3
<1>2. CASE h # history
  <2>1. /\ history' = h /\ step' = s /\ text' = ToQasm3(h.present)
        /\ timer' = (running \/ text' # text) /\ parseError' = FALSE
        /\ draft' = DraftOf(h.present, text', s, mode) /\ overtyped' = FALSE
    BY <1>2 DEF Turn
  <2>2. present' = h.present /\ h.present \in Good' /\ present \in Good
    BY <2>1 DEF present, Typed, DocInv
  <2>3. Total(h.present) \in Nat /\ Total(present) \in Nat
    BY <2>2, BoundsMove, Total0 DEF Good
  <2>4. s \in 0 .. Total(h.present)
    BY <2>3, StepInside DEF DocInv
  <2>5. Agrees(DraftOf(h.present, text', s, mode), h.present, s, mode)
    <3>1. Len(h.present.operations) \in Nat /\ mode \in Modes
      BY <2>3 DEF Total, DocInv
    <3> HIDE DEF s
    <3> QED BY <2>4, <3>1, DraftAgrees
  <2> HIDE DEF s
  <2>6. Agrees(draft', present', step', mode')
    BY <2>1, <2>2, <2>5
  <2>7. timer' \in BOOLEAN /\ mode' \in Modes
    BY <2>1 DEF DocInv
  <2>8. DocInv' /\ Printed
    BY <2>1, <2>2, <2>4, <2>6, <2>7, Shown
  <2> QED BY <2>8 DEF TextStep
<1> QED BY <1>1, <1>2

LEMMA PushKeeps ==
    ASSUME BoundInv, Forward, DocInv, HistoryInv, mode' = mode,
           NEW c \in Good', NEW running \in BOOLEAN, Push(c, running)
    PROVE  /\ DocInv'
           /\ running = timer /\ synced' = synced => TextStep
           /\ Layout(c) # Layout(present) => Printed
<1>1. PICK h : h = Pushed(history, c)
  OBVIOUS
<1>2. Turn(h, StepAfter(step, Total(present), Total(c)), running)
  BY <1>1 DEF Push
<1>3. Typed(history, Good')
  BY BoundsMove, TypedGrows DEF DocInv
<1>4. CASE h = history
  <2>1. Turn(h, StepAfter(step, Total(present), Total(h.present)), running)
    BY <1>2, <1>4 DEF Turn
  <2>2. Layout(c) = Layout(present)
    <3> SUFFICES ASSUME Layout(c) # Layout(history.present) PROVE FALSE
      BY DEF present
    <3>1. h.present = c
      BY <1>1 DEF Pushed
    <3> QED BY <1>4, <3>1
  <2> QED BY <1>3, <1>4, <2>1, <2>2, TurnKeeps
<1>5. CASE h # history
  <2>1. InLimit(history)
    BY DEF HistoryInv
  <2>2. Typed(h, Good' \cup {c})
    BY <1>1, <1>3, <1>5, <2>1, PushEdits
  <2>3. Good' \cup {c} = Good'
    OBVIOUS
  <2>4. h.present = c
    BY <1>1, <1>5 DEF Pushed
  <2> QED BY <1>2, <1>5, <2>2, <2>3, <2>4, TurnKeeps
<1> QED BY <1>4, <1>5

LEMMA CommitKeeps ==
    ASSUME BoundInv, Forward, DocInv, HistoryInv, mode' = mode, synced' = synced,
           NEW c, Validates(c) => c \in Good', Commit(c)
    PROVE  DocInv' /\ TextStep
<1>1. CASE Validates(c)
  <2>1. Push(c, timer) /\ c \in Good' /\ timer \in BOOLEAN
    BY <1>1 DEF Commit, DocInv
  <2> QED BY <2>1, PushKeeps
<1>2. CASE ~Validates(c)
  <2>1. UNCHANGED doc
    BY <1>2 DEF Commit
  <2>2. TextStep
    BY <2>1 DEF doc, TextStep, TextKept
  <2> QED BY <2>1, <2>2, DocKept
<1> QED BY <1>1, <1>2

\* The hands and the calls.
LEMMA Selecting ==
    ASSUME NEW id, Select(id)
    PROVE  (selected = 0 \/ Selected # {})'
BY DEF Select, Selected, Named, present

LEMMA NetKept ==
    ASSUME BoundInv, Forward, NetInv, UNCHANGED net
    PROVE  NetInv'
BY BoundsMove DEF NetInv, net, Payload

LEMMA ForwardKept ==
    ASSUME BoundInv, UNCHANGED <<session, edits, misplaced>>
    PROVE  Forward
<1>1. session.edits \in Nat
  BY SessionsAssumption DEF BoundInv
<1> QED BY <1>1 DEF BoundInv, Forward

LEMMA ForwardSpent ==
    ASSUME BoundInv, UNCHANGED <<session, misplaced>>, Spend
    PROVE  Forward /\ edits \in Nat \ {0} /\ edits' = edits - 1
<1>1. session.edits \in Nat
  BY SessionsAssumption DEF BoundInv
<1> QED BY <1>1 DEF BoundInv, Forward, Spend

(***************************************************************************)
(* Each action keeps the invariant.  First, placing and deleting.          *)
(***************************************************************************)
Kept == Forward /\ DocInv' /\ HandInv' /\ NetInv' /\ TextStep

LEMMA Feedback ==
    ASSUME ClearFeedback, HandInv
    PROVE  warned' \subseteq 1 .. 3
BY DEF ClearFeedback, HandInv

LEMMA SelectionKept ==
    ASSUME HandInv, UNCHANGED <<history, selected>>
    PROVE  (selected = 0 \/ Selected # {})'
BY DEF HandInv, Selected, present

LEMMA DocUnchanged ==
    ASSUME EditorInv, Forward, UNCHANGED <<doc, synced, mode>>
    PROVE  DocInv' /\ TextStep
<1>1. DocInv'
  BY DocKept DEF EditorInv
<1>2. TextStep
  BY DEF doc, TextStep, TextKept
<1> QED BY <1>1, <1>2

LEMMA PresentIsGood ==
    ASSUME EditorInv
    PROVE  /\ present \in Good /\ edits \in Nat /\ misplaced \in BOOLEAN
           /\ present.numQubits \in Nat /\ Len(present.operations) \in Nat
           /\ misplaced \/ InRegister(present)
           /\ \A op \in Ops(present) : /\ op \in Made /\ op.id \in Int /\ op.id # 0
                                       /\ op.id > 0 \/ op.id < -edits
<1>1. session.edits \in Nat
  BY SessionsAssumption DEF EditorInv, BoundInv
<1>2. present \in Goods(edits, misplaced) /\ edits \in Nat /\ misplaced \in BOOLEAN
  BY <1>1 DEF EditorInv, BoundInv, DocInv, Typed, present, Good
<1> QED BY <1>2, GoodParts, GoodUse DEF Good

LEMMA OperationMade ==
    ASSUME NEW id \in Int, NEW g \in Gates, NEW l \in Int, NEW c \in Seq(Nat), NEW t \in Seq(Nat),
           Len(c) = ControlCount(g), Len(t) = TargetCount(g)
    PROVE  LET op == Operation(id, g, l, c, t, DefaultParams(g)) IN
           op \in Made /\ op.id = id /\ Touched(op) = ToSet(t) \cup ToSet(c)
<1>1. PICK p : p = DefaultParams(g)
  OBVIOUS
<1>2. p \in Seq(FiniteAngles)
  <2>1. 0 \in FiniteAngles
    BY DEF FiniteAngles, NotFinite
  <2>2. <<>> \in Seq(FiniteAngles) /\ <<0>> \in Seq(FiniteAngles) /\ <<0, 0, 0>> \in Seq(FiniteAngles)
    BY <2>1
  <2> QED BY <1>1, <2>2 DEF DefaultParams
<1>3. PICK op : op = Operation(id, g, l, c, t, p)
  OBVIOUS
<1>4. /\ op \in Operations /\ op.id = id /\ op.gate = g /\ op.controls = c /\ op.targets = t
      /\ op.params = p
  BY <1>2, <1>3 DEF Operation, Operations
<1>5. op \in Made
  BY <1>1, <1>4 DEF Made, FitsCatalog
<1> QED BY <1>1, <1>3, <1>4, <1>5 DEF Touched

LEMMA Counts ==
    ASSUME NEW g
    PROVE  ControlCount(g) \in Nat /\ TargetCount(g) \in Nat /\ TargetCount(g) >= 1
           /\ Required(g) = ControlCount(g) + TargetCount(g)
BY DEF ControlCount, TargetCount, Required

LEMMA DropGateKeeps ==
    ASSUME EditorInv, HistoryInv, NEW q \in 0 .. present.numQubits - 1, NEW l \in Nat, NEW g \in Gates,
           DropGate(g, q, l)
    PROVE  Kept
<1>1. q \in Nat /\ q < present.numQubits /\ present.numQubits \in Nat
  BY PresentIsGood
<1>2. PICK t \in Seq(Nat) : t = <<q>> /\ Len(t) = 1 /\ ToSet(t) = {q}
  <2>1. <<q>> \in Seq(Nat) /\ Len(<<q>>) = 1
    BY <1>1
  <2>2. DOMAIN <<q>> = {1} /\ <<q>>[1] = q
    OBVIOUS
  <2>3. ToSet(<<q>>) = {q}
    BY <2>2 DEF ToSet
  <2> QED BY <2>1, <2>3
<1>3. warned' \subseteq 1 .. 3 /\ UNCHANGED <<session, synced, mode, drag, net, misplaced>>
  BY Feedback DEF DropGate, EditorInv
<1>4. CASE Required(g) > 1
  <2>1. /\ pending' = [gate |-> g, layer |-> l, qubits |-> t] /\ selected' = 0
        /\ UNCHANGED <<doc, edits>>
    BY <1>2, <1>4 DEF DropGate
  <2>2. Forward
    BY <1>3, <2>1, ForwardKept DEF EditorInv
  <2>3. Placing(pending')
    <3>1. PICK p : p = [gate |-> g, layer |-> l, qubits |-> t]
      OBVIOUS
    <3>2. p.gate = g /\ p.layer = l /\ p.qubits = t
      BY <3>1
    <3>3. Placing(p)
      BY <1>2, <1>4, <3>2, Counts DEF Placing
    <3> QED BY <2>1, <3>1, <3>3
  <2>4. HandInv'
    BY <1>3, <2>1, <2>3 DEF HandInv, EditorInv
  <2> QED BY <1>3, <2>1, <2>2, <2>4, DocUnchanged, NetKept DEF Kept, EditorInv
<1>5. CASE ~(Required(g) > 1)
  <2> DEFINE op == Operation(FreshId, g, l, <<>>, <<q>>, DefaultParams(g))
  <2>1. Spend /\ pending' = NoPending /\ Commit(AddOperation(present, op)) /\ Select(selected)
    BY <1>5 DEF DropGate
  <2>2. Forward /\ edits \in Nat \ {0} /\ edits' = edits - 1
    BY <1>3, <2>1, ForwardSpent DEF EditorInv
  <2>3. op \in Made /\ op.id = -edits /\ Touched(op) = {q}
    <3>1. ControlCount(g) = 0 /\ TargetCount(g) = 1
      BY <1>5, Counts
    <3>2. PICK c \in Seq(Nat) : c = <<>> /\ Len(c) = 0 /\ ToSet(c) = {}
      <4>1. <<>> \in Seq(Nat) /\ Len(<<>>) = 0 /\ DOMAIN <<>> = {}
        OBVIOUS
      <4>2. ToSet(<<>>) = {}
        BY <4>1 DEF ToSet
      <4> QED BY <4>1, <4>2
    <3>3. PICK id \in Int : id = FreshId /\ id = -edits
      BY <2>2 DEF FreshId
    <3>4. PICK o : o = Operation(id, g, l, c, t, DefaultParams(g))
      OBVIOUS
    <3>5. Len(c) = ControlCount(g) /\ Len(t) = TargetCount(g) /\ l \in Int
      BY <1>2, <3>1, <3>2
    <3>6. o \in Made /\ o.id = id /\ Touched(o) = ToSet(t) \cup ToSet(c)
      BY <3>4, <3>5, OperationMade
    <3>7. o = op
      BY <1>2, <3>2, <3>3, <3>4
    <3> QED BY <1>2, <3>2, <3>3, <3>6, <3>7
  <2> HIDE DEF op
  <2>4. ~OutOfRange(Touched(op), present.numQubits)
    BY <1>1, <2>3 DEF OutOfRange
  <2>5. Validates(AddOperation(present, op)) => AddOperation(present, op) \in Good'
    BY <1>3, <2>2, <2>3, <2>4, PresentIsGood, GoodAdd DEF Good
  <2>6. DocInv' /\ TextStep
    BY <1>3, <2>1, <2>2, <2>5, CommitKeeps DEF EditorInv
  <2>7. HandInv'
    <3>1. (selected = 0 \/ Selected # {})'
      BY <2>1, Selecting
    <3> QED BY <1>3, <2>1, <3>1 DEF HandInv, EditorInv
  <2> QED BY <1>3, <2>2, <2>6, <2>7, NetKept DEF Kept, EditorInv
<1> QED BY <1>4, <1>5

LEMMA ClickOperationKeeps ==
    ASSUME EditorInv, NEW q, NEW l, ClickOperation(q, l)
    PROVE  Kept
<1>1. UNCHANGED <<session, doc, synced, mode, pending, drag, net, edits, misplaced>>
  BY DEF ClickOperation
<1>2. Forward
  BY <1>1, ForwardKept DEF EditorInv
<1>3. warned' \subseteq 1 .. 3
  BY DEF ClickOperation, EditorInv, HandInv
<1>4. (selected = 0 \/ Selected # {})'
  <2> DEFINE here == OperationAt(present, q, l)
  <2>1. selected' = IF here = {} THEN 0 ELSE (CHOOSE op \in here : TRUE).id
    BY DEF ClickOperation
  <2>2. CASE here = {}
    BY <2>1, <2>2
  <2>3. CASE here # {}
    <3>1. PICK op : op = CHOOSE o \in here : TRUE
      OBVIOUS
    <3>2. op \in here
      BY <2>3, <3>1
    <3>3. op \in Ops(present) /\ selected' = op.id
      BY <2>1, <2>3, <3>1, <3>2 DEF OperationAt
    <3> QED BY <1>1, <3>3 DEF Selected, Named, present, doc
  <2> QED BY <2>2, <2>3
<1>5. HandInv'
  BY <1>1, <1>3, <1>4 DEF HandInv, EditorInv
<1> QED BY <1>1, <1>2, <1>5, DocUnchanged, NetKept DEF Kept, EditorInv

LEMMA PlacedMade ==
    ASSUME NEW p, p.gate \in Gates, p.layer \in Int, NEW qs \in Seq(Nat), Len(qs) = Required(p.gate),
           edits \in Nat
    PROVE  LET op == PlacedOperation(p, qs) IN
           op \in Made /\ op.id = -edits /\ Touched(op) \subseteq ToSet(qs)
<1>1. PICK g \in Gates, l \in Int, id \in Int : g = p.gate /\ l = p.layer /\ id = FreshId /\ id = -edits
  BY DEF FreshId
<1>2. PICK n \in Nat, k \in Nat : /\ n = ControlCount(g) /\ k = TargetCount(g) /\ Len(qs) = n + k
  BY <1>1, Counts
<1>3. PICK c \in Seq(Nat) : c = SubSeq(qs, 1, n) /\ Len(c) = n /\ ToSet(c) \subseteq ToSet(qs)
  <2>1. \A i \in 1 .. n : qs[i] \in Nat
    BY <1>2, ElementOfSeq
  <2>2. /\ SubSeq(qs, 1, n) \in Seq(Nat)
        /\ Len(SubSeq(qs, 1, n)) = IF 1 <= n THEN n - 1 + 1 ELSE 0
        /\ \A i \in 1 .. n - 1 + 1 : SubSeq(qs, 1, n)[i] = qs[1 + i - 1]
    BY <2>1, SubSeqProperties
  <2>3. PICK c \in Seq(Nat) : c = SubSeq(qs, 1, n)
    BY <2>2
  <2>4. Len(c) = n /\ \A i \in 1 .. n : c[i] = qs[i]
    BY <1>2, <2>2, <2>3
  <2>5. DOMAIN c = 1 .. n /\ 1 .. n \subseteq DOMAIN qs
    BY <1>2, <2>4
  <2>6. ToSet(c) \subseteq ToSet(qs)
    BY <2>4, <2>5 DEF ToSet
  <2> QED BY <2>3, <2>4, <2>6
<1>4. PICK t \in Seq(Nat) : t = SubSeq(qs, n + 1, n + k) /\ Len(t) = k /\ ToSet(t) \subseteq ToSet(qs)
  <2>1. \A i \in n + 1 .. n + k : qs[i] \in Nat
    BY <1>2, ElementOfSeq, SMTT(30)
  <2>2. PICK a \in Nat, b \in Nat : a = n + 1 /\ b = n + k
    BY <1>2
  <2>3. /\ SubSeq(qs, a, b) \in Seq(Nat)
        /\ Len(SubSeq(qs, a, b)) = IF a <= b THEN b - a + 1 ELSE 0
        /\ \A i \in 1 .. b - a + 1 : SubSeq(qs, a, b)[i] = qs[a + i - 1]
    BY <2>1, <2>2, SubSeqProperties
  <2>4. PICK t \in Seq(Nat) : t = SubSeq(qs, a, b)
    BY <2>3
  <2>5. Len(t) = k /\ \A i \in 1 .. k : t[i] = qs[n + i] /\ n + i \in 1 .. n + k
    <3>1. b - a + 1 = k /\ (a <= b <=> k >= 1)
      BY <2>2
    <3>2. Len(t) = k
      BY <2>3, <2>4, <3>1
    <3> SUFFICES ASSUME NEW i \in 1 .. k PROVE t[i] = qs[n + i] /\ n + i \in 1 .. n + k
      BY <3>2
    <3>3. a + i - 1 = n + i /\ n + i \in 1 .. n + k
      BY <2>2
    <3> QED BY <2>3, <2>4, <3>1, <3>3
  <2>6. DOMAIN t = 1 .. k /\ 1 .. n + k = DOMAIN qs
    BY <1>2, <2>5
  <2>7. ToSet(t) \subseteq ToSet(qs)
    BY <2>5, <2>6 DEF ToSet
  <2> QED BY <2>2, <2>4, <2>5, <2>7
<1>5. PICK op : op = Operation(id, g, l, c, t, DefaultParams(g))
  OBVIOUS
<1>6. op \in Made /\ op.id = id /\ Touched(op) = ToSet(t) \cup ToSet(c)
  <2>1. Len(c) = ControlCount(g) /\ Len(t) = TargetCount(g)
    BY <1>2, <1>3, <1>4
  <2> QED BY <1>5, <2>1, OperationMade
<1>7. PlacedOperation(p, qs) = op
  BY <1>1, <1>2, <1>3, <1>4, <1>5 DEF PlacedOperation
<1> QED BY <1>1, <1>3, <1>4, <1>6, <1>7

LEMMA ClickPendingKeeps ==
    ASSUME EditorInv, HistoryInv, NEW q \in Nat, NEW l, ClickPending(q, l)
    PROVE  Kept
<1>1. PICK qs : qs = Append(pending.qubits, q)
  OBVIOUS
<1>2. PICK op : op = PlacedOperation(pending, qs)
  OBVIOUS
<1>3. PICK placed : placed = AddOperation(present, op)
  OBVIOUS
<1>4. Placing(pending)
  BY DEF ClickPending, EditorInv, HandInv
<1>5. qs \in Seq(Nat) /\ Len(qs) \in Nat /\ Len(qs) <= Required(pending.gate)
  <2>1. PICK a \in Seq(Nat) : a = pending.qubits
    BY <1>4 DEF Placing
  <2>2. qs \in Seq(Nat) /\ Len(qs) = Len(a) + 1 /\ Len(a) \in Nat
    BY <1>1, <2>1, AppendProperties, LenProperties
  <2>3. Len(a) < Required(pending.gate) /\ Required(pending.gate) \in Nat
    BY <1>4, <2>1, Counts DEF Placing
  <2> QED BY <2>2, <2>3
<1>6. warned' \subseteq 1 .. 3 /\ UNCHANGED <<session, synced, mode, drag, net>>
  BY Feedback DEF ClickPending, EditorInv
<1>7. CASE Len(qs) < Required(pending.gate)
  <2>1. pending' = [pending EXCEPT !.qubits = qs] /\ UNCHANGED <<doc, selected, edits, misplaced>>
    BY <1>1, <1>7 DEF ClickPending
  <2>2. Forward
    BY <1>6, <2>1, ForwardKept DEF EditorInv
  <2>3. Placing(pending') \/ pending' = NoPending
    <3>1. PICK p : p = [pending EXCEPT !.qubits = qs]
      OBVIOUS
    <3>2. p.gate = pending.gate /\ p.layer = pending.layer
      BY <3>1
    <3>3. p.qubits = qs \/ p.qubits = pending.qubits
      BY <3>1
    <3>4. Len(p.qubits) < Required(p.gate) /\ p.qubits \in Seq(Nat)
      BY <1>4, <1>5, <1>7, <3>2, <3>3 DEF Placing
    <3>5. Placing(p)
      BY <1>4, <3>2, <3>4 DEF Placing
    <3> QED BY <2>1, <3>1, <3>5
  <2>4. HandInv'
    <3>1. (selected = 0 \/ Selected # {})'
      BY <2>1, SelectionKept DEF EditorInv, doc
    <3> QED BY <1>6, <2>3, <3>1 DEF HandInv, EditorInv
  <2> QED BY <1>6, <2>1, <2>2, <2>4, DocUnchanged, NetKept DEF Kept, EditorInv
<1>8. CASE ~(Len(qs) < Required(pending.gate))
  <2>1. /\ Spend /\ Commit(placed) /\ Select(selected)
        /\ pending' = IF Validates(placed) THEN NoPending ELSE pending
        /\ misplaced' = (misplaced \/ (Validates(placed)
                                /\ OutOfRange(ToSet(qs), present.numQubits)))
    BY <1>1, <1>2, <1>3, <1>8 DEF ClickPending
  <2>2. misplaced' \in BOOLEAN /\ (misplaced => misplaced')
        /\ (Validates(placed) => misplaced' \/ ~OutOfRange(ToSet(qs), present.numQubits))
    BY <2>1, PresentIsGood
  <2>3. edits \in Nat \ {0} /\ edits' = edits - 1 /\ edits' \in 0 .. edits
    BY <2>1, PresentIsGood DEF Spend
  <2>4. Forward
    BY <1>6, <2>2, <2>3 DEF Forward
  <2>5. Len(qs) = Required(pending.gate)
    BY <1>4, <1>5, <1>8, Counts DEF Placing
  <2>6. op \in Made /\ op.id = -edits /\ Touched(op) \subseteq ToSet(qs)
    BY <1>2, <1>4, <1>5, <2>3, <2>5, PlacedMade DEF Placing
  <2>7. Validates(placed) => placed \in Good'
    <3> SUFFICES ASSUME Validates(placed) PROVE placed \in Good'
      OBVIOUS
    <3>1. misplaced' \/ ~OutOfRange(Touched(op), present.numQubits)
      BY <2>2, <2>6 DEF OutOfRange
    <3> QED BY <1>3, <2>2, <2>3, <2>6, <3>1, PresentIsGood, GoodAdd DEF Good
  <2>8. DocInv' /\ TextStep
    BY <1>6, <2>1, <2>4, <2>7, CommitKeeps DEF EditorInv
  <2>9. HandInv'
    <3>1. (selected = 0 \/ Selected # {})'
      BY <2>1, Selecting
    <3> QED BY <1>4, <1>6, <2>1, <3>1 DEF HandInv, EditorInv
  <2> QED BY <1>6, <2>4, <2>8, <2>9, NetKept DEF Kept, EditorInv
<1> QED BY <1>7, <1>8

LEMMA CancelKeeps ==
    ASSUME EditorInv, CancelPlacement \/ DragEnd
    PROVE  Kept
<1>1. UNCHANGED <<session, doc, synced, mode, selected, warned, net, edits, misplaced>>
  BY DEF CancelPlacement, DragEnd
<1>2. pending' \in {NoPending, pending} /\ drag' \in {NoDrag, drag} /\ NoDrag.id \in Int /\ NoDrag.anchor \in Int
  BY DEF CancelPlacement, DragEnd, NoDrag
<1>3. Forward
  BY <1>1, ForwardKept DEF EditorInv
<1>4. (selected = 0 \/ Selected # {})'
  BY <1>1, SelectionKept DEF EditorInv, doc
<1>5. HandInv'
  BY <1>1, <1>2, <1>4 DEF HandInv, EditorInv
<1> QED BY <1>1, <1>3, <1>5, DocUnchanged, NetKept DEF Kept, EditorInv

LEMMA DeleteKeeps ==
    ASSUME EditorInv, HistoryInv, NEW op, DeleteOperation(op)
    PROVE  Kept
<1>1. /\ Spend /\ Commit(RemoveOperation(present, op.id)) /\ Select(selected) /\ ClearFeedback
      /\ UNCHANGED <<session, synced, mode, pending, drag, net, misplaced>>
  BY DEF DeleteOperation
<1>2. Forward /\ edits \in Nat /\ edits' \in Nat
  BY <1>1, ForwardSpent DEF EditorInv, Forward
<1>3. Good \subseteq Good'
  BY <1>2, BoundsMove DEF EditorInv
<1>4. Validates(RemoveOperation(present, op.id)) => RemoveOperation(present, op.id) \in Good'
  BY <1>3, PresentIsGood, GoodRemove DEF Good
<1>5. DocInv' /\ TextStep
  BY <1>1, <1>2, <1>4, CommitKeeps DEF EditorInv
<1>6. HandInv'
  BY <1>1, Selecting, Feedback DEF HandInv, EditorInv
<1> QED BY <1>1, <1>2, <1>5, <1>6, NetKept DEF Kept, EditorInv

LEMMA OccupiedNumbers ==
    ASSUME NEW op \in Made
    PROVE  Occupied(op) \subseteq Int
BY DEF Occupied

LEMMA DragStartKeeps ==
    ASSUME EditorInv, NEW op \in Ops(present), NEW anchor \in Occupied(op), DragStart(op, anchor)
    PROVE  Kept
<1>1. /\ drag' = [id |-> op.id, anchor |-> anchor] /\ pending' = NoPending /\ selected' = op.id
      /\ warned' \subseteq warned /\ UNCHANGED <<session, doc, synced, mode, net, edits, misplaced>>
  BY DEF DragStart
<1>2. op \in Made /\ op.id \in Int /\ anchor \in Int
  BY PresentIsGood, OccupiedNumbers
<1>3. Forward
  BY <1>1, ForwardKept DEF EditorInv
<1>4. drag'.id \in Int /\ drag'.anchor \in Int
  BY <1>1, <1>2
<1>5. (selected = 0 \/ Selected # {})'
  BY <1>1 DEF Selected, Named, present, doc
<1>6. HandInv'
  BY <1>1, <1>4, <1>5 DEF HandInv, EditorInv
<1> QED BY <1>1, <1>3, <1>6, DocUnchanged, NetKept DEF Kept, EditorInv

\* Shifted qubits that are within the register are qubits.
LEMMA ShiftedQubits ==
    ASSUME NEW qs \in Seq(Nat), NEW d \in Int, \A q \in ToSet(ShiftQubits(qs, d)) : q >= 0
    PROVE  ShiftQubits(qs, d) \in Seq(Nat) /\ Len(ShiftQubits(qs, d)) = Len(qs)
<1>1. PICK r : r = ShiftQubits(qs, d) /\ r = [i \in DOMAIN qs |-> qs[i] + d]
  BY DEF ShiftQubits
<1>2. PICK n \in Nat : n = Len(qs) /\ DOMAIN qs = 1 .. n /\ \A i \in 1 .. n : qs[i] \in Nat
  BY LenProperties, ElementOfSeq
<1>3. \A i \in 1 .. n : r[i] \in Nat
  <2> SUFFICES ASSUME NEW i \in 1 .. n PROVE r[i] \in Nat
    OBVIOUS
  <2>1. r[i] \in ToSet(r) /\ r[i] = qs[i] + d /\ qs[i] \in Nat
    BY <1>1, <1>2 DEF ToSet
  <2>2. r[i] >= 0 /\ r[i] \in Int
    BY <1>1, <2>1
  <2> QED BY <2>2
<1>4. r \in [1 .. n -> Nat]
  BY <1>1, <1>2, <1>3
<1>5. r \in Seq(Nat) /\ Len(r) = n
  BY <1>4
<1> QED BY <1>1, <1>2, <1>5

LEMMA MovedMade ==
    ASSUME EditorInv, NEW op \in Made, NEW q \in Nat, NEW l \in Nat,
           ~OutOfRange(Touched(Moved(op, q, l)), present.numQubits)
    PROVE  Moved(op, q, l) \in Made /\ Moved(op, q, l).id = op.id
<1>1. PICK d \in Int : d = q - drag.anchor
  BY DEF EditorInv, HandInv
<1>2. PICK t \in Seq(Nat), c \in Seq(Nat) : /\ t = op.targets /\ c = op.controls
                                            /\ op \in Operations /\ FitsCatalog(op)
  BY OperationParts DEF Made
<1>3. PICK u, v : u = ShiftQubits(t, d) /\ v = ShiftQubits(c, d)
  OBVIOUS
<1>4. PICK o : o = Moved(op, q, l)
  OBVIOUS
<1>5. /\ o.targets = u /\ o.controls = v /\ o.gate = op.gate /\ o.params = op.params /\ o.id = op.id
      /\ o = [op EXCEPT !.layer = l, !.targets = u, !.controls = v]
  <2>1. o = [op EXCEPT !.layer = l, !.targets = u, !.controls = v]
    BY <1>1, <1>2, <1>3, <1>4 DEF Moved
  <2>2. op \in [id : Int, gate : Gates, layer : Int,
               controls : Seq(Nat), targets : Seq(Nat), params : Seq(FiniteAngles)]
    BY <1>2 DEF Operations
  <2> QED BY <2>1, <2>2
<1>6. \A x \in ToSet(u) \cup ToSet(v) : ~(x < 0 \/ x >= present.numQubits)
  BY <1>4, <1>5 DEF Touched, OutOfRange
<1>7. (\A x \in ToSet(u) : x >= 0) /\ \A x \in ToSet(v) : x >= 0
  <2>1. \A s \in Seq(Nat) : \A x \in ToSet(ShiftQubits(s, d)) : x \in Int
    BY DEF ShiftQubits, ToSet
  <2>2. \A x \in ToSet(u) \cup ToSet(v) : x \in Int
    BY <1>3, <2>1
  <2> QED BY <1>6, <2>2
<1>8. u \in Seq(Nat) /\ Len(u) = Len(t)
  BY <1>3, <1>7, ShiftedQubits
<1>9. v \in Seq(Nat) /\ Len(v) = Len(c)
  BY <1>3, <1>7, ShiftedQubits
<1>10. o \in Operations
  <2>1. PICK x \in Seq(Nat), y \in Seq(Nat) : x = u /\ y = v
    BY <1>8, <1>9
  <2>2. op \in [id : Int, gate : Gates, layer : Int,
               controls : Seq(Nat), targets : Seq(Nat), params : Seq(FiniteAngles)]
    BY <1>2 DEF Operations
  <2>3. o = [op EXCEPT !.layer = l, !.targets = x, !.controls = y] /\ l \in Int
    BY <1>5, <2>1
  <2>4. o \in [id : Int, gate : Gates, layer : Int,
               controls : Seq(Nat), targets : Seq(Nat), params : Seq(FiniteAngles)]
    BY <2>2, <2>3
  <2> QED BY <2>4 DEF Operations
<1>11. FitsCatalog(o)
  BY <1>2, <1>5, <1>8, <1>9 DEF FitsCatalog
<1> QED BY <1>4, <1>5, <1>10, <1>11 DEF Made

LEMMA DropMovedKeeps ==
    ASSUME EditorInv, HistoryInv, NEW q \in Nat, NEW l \in Nat, DropMovedOperation(q, l)
    PROVE  Kept
<1>1. /\ drag' = NoDrag /\ pending' = NoPending /\ ClearFeedback
      /\ UNCHANGED <<session, synced, mode, net, misplaced>>
      /\ NoDrag.id \in Int /\ NoDrag.anchor \in Int
  BY DEF DropMovedOperation, NoDrag
<1>2. warned' \subseteq 1 .. 3
  BY <1>1, Feedback DEF EditorInv
<1>3. CASE UNCHANGED <<doc, edits>> /\ (selected' = selected \/ Named(present, selected') # {})
  <2>1. Forward
    BY <1>1, <1>3, ForwardKept DEF EditorInv
  <2>2. (selected = 0 \/ Selected # {})'
    BY <1>3 DEF EditorInv, HandInv, Selected, present, doc
  <2>3. HandInv'
    BY <1>1, <1>2, <2>2 DEF HandInv
  <2> QED BY <1>1, <1>3, <2>1, <2>3, DocUnchanged, NetKept DEF Kept, EditorInv
<1>4. ASSUME NEW op \in Named(present, drag.id), ~OutOfRange(Touched(Moved(op, q, l)), present.numQubits),
             Spend, Commit(UpdateOperation(present, Moved(op, q, l))),
             Select(IF history' = history THEN selected ELSE drag.id)
      PROVE  Kept
  <2>1. PICK o : o = Moved(op, q, l)
    OBVIOUS
  <2>2. op \in Ops(present)
    BY DEF Named
  <2>3. Forward
    BY <1>1, <1>4, ForwardSpent DEF EditorInv
  <2>4. Good \subseteq Good'
    BY <2>3, BoundsMove DEF EditorInv
  <2>5. o \in Made /\ (o.id > 0 \/ o.id < -edits)
    BY <1>4, <2>1, <2>2, PresentIsGood, MovedMade
  <2>6. Validates(UpdateOperation(present, o)) => UpdateOperation(present, o) \in Good'
    BY <1>4, <2>1, <2>4, <2>5, PresentIsGood, GoodUpdate DEF Good
  <2>7. DocInv' /\ TextStep
    BY <1>1, <1>4, <2>1, <2>3, <2>6, CommitKeeps DEF EditorInv
  <2>8. HandInv'
    <3>1. (selected = 0 \/ Selected # {})'
      BY <1>4, Selecting
    <3> QED BY <1>1, <1>2, <3>1 DEF HandInv
  <2> QED BY <1>1, <2>3, <2>7, <2>8, NetKept DEF Kept, EditorInv
<1>5. CASE UNCHANGED <<doc, selected, edits>>
  BY <1>3, <1>5
<1>6. CASE \E op \in Named(present, drag.id) : selected' = drag.id /\ UNCHANGED <<doc, edits>>
  BY <1>3, <1>6
<1> QED BY <1>4, <1>5, <1>6 DEF DropMovedOperation

(***************************************************************************)
(* The parameter panel and the columns.                                    *)
(***************************************************************************)
LEMMA ChangedMade ==
    ASSUME NEW op \in Made, NEW i \in DOMAIN op.params, NEW v \in FiniteAngles
    PROVE  LET o == [op EXCEPT !.params[i] = v] IN
           o \in Made /\ o.id = op.id /\ Touched(o) = Touched(op) /\ i \in 1 .. 3
<1>1. PICK p \in Seq(FiniteAngles) : p = op.params /\ op \in Operations /\ FitsCatalog(op)
  BY OperationParts DEF Made
<1>2. PICK r : r = [p EXCEPT ![i] = v]
  OBVIOUS
<1>3. r \in Seq(FiniteAngles) /\ Len(r) = Len(p)
  BY <1>1, <1>2
<1>4. PICK o : o = [op EXCEPT !.params[i] = v]
  OBVIOUS
<1>5. /\ o \in Operations /\ o.params = r /\ o.id = op.id /\ o.gate = op.gate
      /\ o.targets = op.targets /\ o.controls = op.controls
  BY <1>1, <1>2, <1>3, <1>4 DEF Operations
<1>6. o \in Made
  BY <1>1, <1>3, <1>5 DEF FitsCatalog, Made
<1>7. i \in 1 .. 3
  <2>1. Len(p) = Len(DefaultParams(op.gate))
    BY <1>1 DEF FitsCatalog
  <2>2. Len(<<>>) = 0 /\ Len(<<0>>) = 1 /\ Len(<<0, 0, 0>>) = 3
    OBVIOUS
  <2>3. Len(p) \in {0, 1, 3}
    BY <2>1, <2>2 DEF DefaultParams
  <2>4. PICK n \in {0, 1, 3} : n = Len(p) /\ i \in 1 .. n
    BY <1>1, <2>3, LenProperties
  <2> QED BY <2>4
<1> QED BY <1>4, <1>5, <1>6, <1>7 DEF Touched

LEMMA ChangeKeeps ==
    ASSUME EditorInv, HistoryInv, NEW op \in Selected, NEW i \in DOMAIN op.params, NEW v \in Int,
           ChangeParamTo(op, i, v)
    PROVE  Kept
<1>1. Spend /\ UNCHANGED <<session, synced, mode, pending, drag, net, misplaced>>
  BY DEF ChangeParamTo
<1>2. Forward
  BY <1>1, ForwardSpent DEF EditorInv
<1>3. op \in Made /\ (op.id > 0 \/ op.id < -edits) /\ op \in Ops(present)
  BY PresentIsGood DEF Selected, Named
<1>4. warned \subseteq 1 .. 3
  BY DEF EditorInv, HandInv
<1>5. CASE v = NotFinite
  <2>1. warned' = warned \ {i} /\ UNCHANGED <<doc, selected>>
    BY <1>5 DEF ChangeParamTo
  <2>2. HandInv'
    <3>1. (selected = 0 \/ Selected # {})'
      BY <2>1, SelectionKept DEF EditorInv, doc
    <3> QED BY <1>1, <1>4, <2>1, <3>1 DEF HandInv, EditorInv
  <2> QED BY <1>1, <1>2, <2>1, <2>2, DocUnchanged, NetKept DEF Kept, EditorInv
<1>6. CASE v # NotFinite
  <2>1. PICK o : o = [op EXCEPT !.params[i] = v]
    OBVIOUS
  <2>2. /\ Commit(UpdateOperation(present, o)) /\ Select(selected)
        /\ warned' \subseteq warned \cup {i}
    BY <1>6, <2>1 DEF ChangeParamTo
  <2>3. v \in FiniteAngles
    BY <1>6 DEF FiniteAngles
  <2>4. o \in Made /\ o.id = op.id /\ Touched(o) = Touched(op) /\ i \in 1 .. 3
    BY <1>3, <2>1, <2>3, ChangedMade
  <2>5. Good \subseteq Good'
    BY <1>2, BoundsMove DEF EditorInv
  <2>6. misplaced \/ ~OutOfRange(Touched(o), present.numQubits)
    BY <1>3, <2>4, PresentIsGood DEF InRegister
  <2>7. o.id > 0 \/ o.id < -edits
    BY <1>3, <2>4
  <2>8. Validates(UpdateOperation(present, o)) => UpdateOperation(present, o) \in Good'
    BY <2>4, <2>5, <2>6, <2>7, PresentIsGood, GoodUpdate DEF Good
  <2>9. DocInv' /\ TextStep
    BY <1>1, <1>2, <2>2, <2>8, CommitKeeps DEF EditorInv
  <2>10. HandInv'
    <3>1. (selected = 0 \/ Selected # {})'
      BY <2>2, Selecting
    <3> QED BY <1>1, <1>4, <2>2, <2>4, <3>1 DEF HandInv, EditorInv
  <2> QED BY <1>1, <1>2, <2>9, <2>10, NetKept DEF Kept, EditorInv
<1> QED BY <1>5, <1>6

LEMMA ParamKeeps ==
    ASSUME EditorInv, HistoryInv, NEW op \in Selected, NEW i \in DOMAIN op.params,
           ChangeParam(op, i) \/ NormalizeParam(op, i)
    PROVE  Kept
<1>1. CASE ChangeParam(op, i)
  <2>1. PICK v \in session.angles : ChangeParamTo(op, i, v)
    BY <1>1 DEF ChangeParam
  <2>2. v \in Int
    BY SessionsAssumption DEF EditorInv, BoundInv
  <2> QED BY <2>1, <2>2, ChangeKeeps
<1>2. CASE NormalizeParam(op, i)
  <2>1. PICK v : v = NormalizeToSoftBoundary(op.params[i]) /\ ChangeParamTo(op, i, v)
    BY <1>2 DEF NormalizeParam
  <2>2. op \in Made
    BY PresentIsGood DEF Selected, Named
  <2>3. PICK x \in Int : x = op.params[i]
    BY <2>2, OperationParts DEF FiniteAngles
  <2>4. v \in Int
    BY <2>1, <2>3 DEF NormalizeToSoftBoundary
  <2> QED BY <2>1, <2>4, ChangeKeeps
<1> QED BY <1>1, <1>2

LEMMA DepthIsInt ==
    ASSUME EditorInv
    PROVE  \E d \in Int : d = CircuitDepth(present)
<1>1. IsCircuit(present)
  BY PresentIsGood, GoodParts DEF Good
<1>2. PICK s \in Seq(Made) : s = present.operations
  BY <1>1, CircuitParts
<1>3. CASE s = <<>>
  BY <1>2, <1>3 DEF CircuitDepth
<1>4. CASE s # <<>>
  <2>1. Len(s) \in Nat \ {0}
    BY <1>4, EmptySeq
  <2>2. Last(s) \in Made
    BY <2>1, ElementOfSeq DEF Last
  <2>3. Last(s).layer \in Int
    BY <2>2, OperationParts
  <2> QED BY <1>2, <1>4, <2>3 DEF CircuitDepth
<1> QED BY <1>3, <1>4

LEMMA ColumnsKeep ==
    ASSUME EditorInv, HistoryInv, NEW b \in 0 .. 3, NEW n \in 0 .. 3,
           InsertColumns(b, n) \/ DeleteEmptyColumns(b, n)
    PROVE  Kept
<1>1. /\ Spend /\ pending' = NoPending /\ Select(selected) /\ ClearFeedback
      /\ UNCHANGED <<session, synced, mode, drag, net, misplaced>>
  BY DEF InsertColumns, DeleteEmptyColumns
<1>2. Forward
  BY <1>1, ForwardSpent DEF EditorInv
<1>3. Good \subseteq Good'
  BY <1>2, BoundsMove DEF EditorInv
<1>4. HandInv'
  BY <1>1, Selecting, Feedback DEF HandInv, EditorInv
<1>5. PICK before \in Int : before = Clamp(b, 1, MaxBeforeColumn)
  <2>1. PICK d \in Int : d = CircuitDepth(present)
    BY DepthIsInt
  <2> QED BY <2>1 DEF Clamp, MaxBeforeColumn
<1>6. ASSUME NEW from \in Int, NEW delta \in Int,
             delta >= 0 \/ \A op \in Ops(present) : ~(op.layer >= from + delta /\ op.layer < from),
             Commit(ShiftLayers(present, from, delta))
      PROVE  DocInv' /\ TextStep
  <2>1. Validates(ShiftLayers(present, from, delta)) => ShiftLayers(present, from, delta) \in Good'
    BY <1>3, <1>6, PresentIsGood, GoodShift DEF Good
  <2> QED BY <1>1, <1>2, <1>6, <2>1, CommitKeeps DEF EditorInv
<1>7. CASE InsertColumns(b, n)
  <2>1. PICK k \in Int : k >= 0 /\ k = IF n < 1 THEN 1 ELSE n
    OBVIOUS
  <2>2. Commit(ShiftLayers(present, before - 1, k))
    BY <1>5, <1>7, <2>1 DEF InsertColumns, InsertColumnsBefore
  <2>3. DocInv' /\ TextStep
    BY <1>6, <2>1, <2>2
  <2> QED BY <1>1, <1>2, <1>4, <2>3, NetKept DEF Kept, EditorInv
<1>8. CASE DeleteEmptyColumns(b, n)
  <2>1. PICK k \in Int : k = Clamp(IF n < 1 THEN 1 ELSE n, 0, before - 1)
    BY DEF Clamp
  <2>2. CASE k > 0 /\ CanDeleteColumns(present, before - 1, k)
    <3>1. Commit(ShiftLayers(present, before - 1, -k))
      BY <1>5, <1>8, <2>1, <2>2 DEF DeleteEmptyColumns, DeleteEmptyColumnsBefore
    <3>2. \A op \in Ops(present) : ~(op.layer >= before - 1 + (-k) /\ op.layer < before - 1)
      <4>1. before - 1 + (-k) = before - 1 - k
        OBVIOUS
      <4> QED BY <2>2, <4>1 DEF CanDeleteColumns, ColumnsEmpty
    <3>3. DocInv' /\ TextStep
      BY <1>6, <3>1, <3>2
    <3> QED BY <1>1, <1>2, <1>4, <3>3, NetKept DEF Kept, EditorInv
  <2>3. CASE ~(k > 0 /\ CanDeleteColumns(present, before - 1, k))
    <3>1. UNCHANGED doc
      BY <1>5, <1>8, <2>1, <2>3 DEF DeleteEmptyColumns
    <3> QED BY <1>1, <1>2, <1>4, <3>1, DocUnchanged, NetKept DEF Kept, EditorInv
  <2> QED BY <2>2, <2>3
<1> QED BY <1>7, <1>8

(***************************************************************************)
(* The toolbar around the canvas.                                          *)
(***************************************************************************)
LEMMA TemplateIsGood ==
    ASSUME NEW n, NEW m, NEW name \in {"bell", "superposition", "qft", "grover"}
    PROVE  Template(name) \in Goods(n, m)
BY TemplatesAssumption, GoodParts DEF Sound

LEMMA DefaultIsGood ==
    ASSUME NEW n, NEW m
    PROVE  DefaultTemplate \in Goods(n, m)
<1>1. Template("bell") = DefaultTemplate
  BY DEF Template, DefaultTemplate
<1> QED BY <1>1, TemplateIsGood

LEMMA FromToolbarKeeps ==
    ASSUME EditorInv, NEW tool, FromToolbar(tool), warned' \subseteq 1 .. 3
    PROVE  /\ Forward /\ HandInv' /\ NetInv' /\ Good \subseteq Good'
           /\ UNCHANGED <<synced, mode>> /\ timer \in BOOLEAN
<1>1. /\ Spend /\ Select(selected)
      /\ UNCHANGED <<session, synced, mode, pending, drag, net, misplaced>>
  BY DEF FromToolbar
<1>2. Forward
  BY <1>1, ForwardSpent DEF EditorInv
<1>3. HandInv'
  BY <1>1, Selecting DEF HandInv, EditorInv
<1> QED BY <1>1, <1>2, <1>3, NetKept, BoundsMove DEF EditorInv, DocInv

LEMMA ToolbarPushKeeps ==
    ASSUME EditorInv, HistoryInv, NEW tool, FromToolbar(tool), warned' \subseteq 1 .. 3,
           NEW c, c \in Good' \/ c \in Good, Push(c, timer)
    PROVE  Kept
<1>1. /\ Forward /\ HandInv' /\ NetInv' /\ Good \subseteq Good'
      /\ UNCHANGED <<synced, mode>> /\ timer \in BOOLEAN
  BY FromToolbarKeeps
<1>2. DocInv' /\ TextStep
  BY <1>1, PushKeeps DEF EditorInv
<1> QED BY <1>1, <1>2 DEF Kept

LEMMA QubitsKeep ==
    ASSUME EditorInv, HistoryInv, IncreaseQubits \/ DecreaseQubits
    PROVE  Kept
<1>1. PICK k \in Nat : k = present.numQubits
  BY PresentIsGood
<1>2. warned' \subseteq 1 .. 3
  BY DEF IncreaseQubits, DecreaseQubits, EditorInv, HandInv
<1>3. ASSUME NEW op \in Ops(present) PROVE Touched(op) \subseteq Nat
  BY PresentIsGood, TouchedNumbers
<1>4. CASE IncreaseQubits
  <2>1. PICK c : c = [present EXCEPT !.numQubits = k + 1]
    OBVIOUS
  <2>2. Push(c, timer) /\ FromToolbar("qubits")
    BY <1>1, <1>4, <2>1 DEF IncreaseQubits
  <2>3. \A op \in Ops(present) : ~OutOfRange(Touched(op), k) => ~OutOfRange(Touched(op), k + 1)
    BY <1>3 DEF OutOfRange
  <2>4. c \in Good
    <3>1. InRegister(present) => k + 1 > 0 /\ \A op \in Ops(present) : ~OutOfRange(Touched(op), k + 1)
      BY <1>1, <2>3 DEF InRegister
    <3>2. k + 1 \in Nat
      OBVIOUS
    <3> QED BY <2>1, <3>1, <3>2, PresentIsGood, GoodResize DEF Good
  <2> QED BY <1>2, <2>2, <2>4, ToolbarPushKeeps
<1>5. CASE DecreaseQubits
  <2>1. PICK c : c = [present EXCEPT !.numQubits = k - 1]
    OBVIOUS
  <2>2. Push(c, timer) /\ FromToolbar("qubits") /\ CanDecrease(present, MinQubits)
    BY <1>1, <1>5, <2>1 DEF DecreaseQubits
  <2>3. k > MinQubits /\ MinQubits >= 1 /\ \A op \in Ops(present) : \A q \in Touched(op) : q < k - 1
    BY <1>1, <2>2, QubitsAssumption DEF CanDecrease
  <2>4. c \in Good
    <3>1. k - 1 \in Nat /\ k - 1 > 0
      BY <2>3, QubitsAssumption
    <3>2. \A op \in Ops(present) : ~OutOfRange(Touched(op), k - 1)
      BY <1>3, <2>3 DEF OutOfRange
    <3> QED BY <2>1, <3>1, <3>2, PresentIsGood, GoodResize DEF Good
  <2> QED BY <1>2, <2>2, <2>4, ToolbarPushKeeps
<1> QED BY <1>4, <1>5

LEMMA ClearKeeps ==
    ASSUME EditorInv, HistoryInv, ClearCircuit
    PROVE  Kept
<1>1. PICK c : c = CreateCircuit(present.numQubits)
  OBVIOUS
<1>2. Push(c, timer) /\ FromToolbar("clear") /\ warned' \subseteq 1 .. 3
  BY <1>1, Feedback DEF ClearCircuit, EditorInv
<1>3. c \in Good
  BY <1>1, PresentIsGood, GoodEmpty DEF Good
<1> QED BY <1>2, <1>3, ToolbarPushKeeps

LEMMA TemplateKeeps ==
    ASSUME EditorInv, HistoryInv, NEW name \in session.templates, LoadTemplate(name)
    PROVE  Kept
<1>1. PICK c : c = Template(name)
  OBVIOUS
<1>2. Push(c, timer) /\ FromToolbar("templates") /\ warned' \subseteq 1 .. 3
  BY <1>1, Feedback DEF LoadTemplate, EditorInv
<1>3. c \in Good
  BY <1>1, SessionsAssumption, TemplateIsGood DEF Good, EditorInv, BoundInv
<1> QED BY <1>2, <1>3, ToolbarPushKeeps

LEMMA UndoKeeps ==
    ASSUME EditorInv, HistoryInv, Undo \/ Redo
    PROVE  Kept
<1>1. PICK h : /\ \/ h = Undone(history) /\ history.past # <<>>
                  \/ h = Redone(history) /\ history.future # <<>>
               /\ Turn(h, StepAfter(step, Total(present), Total(h.present)), timer)
  <2>1. CASE Undo
    BY <2>1 DEF Undo
  <2>2. CASE Redo
    BY <2>2 DEF Redo
  <2> QED BY <2>1, <2>2
<1>2. FromToolbar("undo") /\ warned' \subseteq 1 .. 3
  BY Feedback DEF Undo, Redo, EditorInv
<1>3. /\ Forward /\ HandInv' /\ NetInv' /\ Good \subseteq Good'
      /\ UNCHANGED <<synced, mode>> /\ timer \in BOOLEAN
  BY <1>2, FromToolbarKeeps
<1>4. Typed(h, Good')
  <2>1. Typed(history, Good) /\ InLimit(history)
    BY DEF EditorInv, DocInv, HistoryInv
  <2>2. Typed(h, Good)
    BY <1>1, <2>1, UndoMoves, RedoMoves
  <2> QED BY <1>3, <2>2, TypedGrows
<1>5. DocInv' /\ TextStep
  BY <1>1, <1>3, <1>4, TurnKeeps DEF EditorInv
<1> QED BY <1>3, <1>5 DEF Kept

LEMMA ResetKeeps ==
    ASSUME EditorInv, Reset
    PROVE  Kept
<1>1. /\ Spend /\ history' = Created(DefaultTemplate) /\ text' = ToQasm3(DefaultTemplate)
      /\ timer' = (timer \/ text' # text) /\ parseError' = FALSE
      /\ step' = Total(DefaultTemplate) /\ mode' = "FILTERED" /\ draft' = Nothing
      /\ Select(selected) /\ warned' = {} /\ overtyped' = FALSE
      /\ UNCHANGED <<session, synced, pending, drag, net, misplaced>>
  BY DEF Reset
<1>2. Forward
  BY <1>1, ForwardSpent DEF EditorInv
<1>3. DefaultTemplate \in Good' /\ edits' \in Nat /\ present' = DefaultTemplate
  BY <1>1, <1>2, DefaultIsGood, BoundsMove DEF Good, EditorInv, Created, present
<1>4. Typed(history', Good')
  BY <1>1, <1>3, CreatedProperties, TypedGrows
<1>5. step' \in 0 .. Total(present')
  <2>1. Total(DefaultTemplate) \in Nat
    BY <1>3, Total0 DEF Good
  <2> QED BY <1>1, <1>3, <2>1
<1>6. Agrees(draft', present', step', mode')
  BY <1>1, <1>3 DEF Agrees
<1>7. mode' \in Modes /\ timer' \in BOOLEAN
  BY <1>1 DEF Modes, EditorInv, DocInv
<1>8. DocInv' /\ Printed
  BY <1>1, <1>2, <1>3, <1>4, <1>5, <1>6, <1>7, Shown DEF EditorInv
<1>9. HandInv'
  <2>1. (selected = 0 \/ Selected # {})'
    BY <1>1, Selecting
  <2> QED BY <1>1, <2>1 DEF HandInv, EditorInv
<1> QED BY <1>1, <1>2, <1>8, <1>9, NetKept DEF Kept, TextStep, EditorInv

LEMMA StepAndModeKeep ==
    ASSUME EditorInv, (\E s \in 0 .. Total(present) : SetStep(s)) \/ \E m \in Modes : SetMode(m)
    PROVE  Kept
<1>1. /\ Spend /\ Saved
      /\ UNCHANGED <<session, history, text, timer, parseError, synced, hand, net, overtyped, misplaced>>
  BY DEF SetStep, SetMode
<1>2. step' \in 0 .. Total(present) /\ mode' \in Modes
  BY DEF SetStep, SetMode, EditorInv, DocInv
<1>3. Forward
  BY <1>1, ForwardSpent DEF EditorInv
<1>4. present' = present
  BY <1>1 DEF present
<1>5. Agrees(draft', present', step', mode')
  <2>1. draft' = DraftOf(present, text', step', mode') /\ Len(present.operations) \in Nat
    BY <1>1, <1>4, PresentIsGood DEF Saved, present
  <2>2. PICK s \in 0 .. Total(present), m \in Modes, t \in Seq(Statements) : s = step' /\ m = mode' /\ t = text'
    BY <1>1, <1>2 DEF EditorInv, DocInv
  <2>3. Agrees(DraftOf(present, t, s, m), present, s, m)
    BY <2>1, <2>2, DraftAgrees
  <2> QED BY <1>4, <2>1, <2>2, <2>3
<1>6. Typed(history', Good')
  BY <1>1, <1>3, BoundsMove, TypedGrows DEF EditorInv, DocInv
<1>7. DocInv'
  BY <1>1, <1>2, <1>4, <1>5, <1>6 DEF DocInv, EditorInv
<1>8. TextStep
  BY <1>1 DEF TextStep, TextKept
<1>9. HandInv'
  BY <1>1, <1>4 DEF HandInv, hand, EditorInv, Selected
<1> QED BY <1>1, <1>3, <1>7, <1>8, <1>9, NetKept DEF Kept, EditorInv

(***************************************************************************)
(* The QASM pane, the projects and a reload.                               *)
(***************************************************************************)
LEMMA TypeTextKeeps ==
    ASSUME EditorInv, NEW t \in session.texts, TypeText(t)
    PROVE  Kept
<1>1. /\ Spend /\ Saved /\ text' = t /\ timer' = TRUE
      /\ overtyped' = (overtyped \/ synced \notin {<<>>, ToQasm3(present)})
      /\ UNCHANGED <<session, history, step, mode, parseError, synced, hand, net, misplaced>>
  BY DEF TypeText
<1>2. Forward /\ t \in Seq(Statements)
  BY <1>1, ForwardSpent, SessionsAssumption DEF EditorInv, BoundInv
<1>3. present' = present
  BY <1>1 DEF present
<1>4. Agrees(draft', present', step', mode')
  <2>1. draft' = DraftOf(present, t, step, mode) /\ Len(present.operations) \in Nat
    BY <1>1, PresentIsGood DEF Saved, present
  <2>2. Agrees(DraftOf(present, t, step, mode), present, step, mode)
    BY <2>1, DraftAgrees DEF EditorInv, DocInv
  <2> QED BY <1>1, <1>3, <2>1, <2>2
<1>5. Typed(history', Good')
  BY <1>1, <1>2, BoundsMove, TypedGrows DEF EditorInv, DocInv
<1>6. overtyped' \in BOOLEAN
  BY <1>1 DEF EditorInv, DocInv
<1>7. DocInv'
  BY <1>1, <1>2, <1>3, <1>4, <1>5, <1>6 DEF DocInv, EditorInv
<1>8. HandInv'
  BY <1>1, <1>3 DEF HandInv, hand, EditorInv, Selected
<1> QED BY <1>1, <1>2, <1>7, <1>8, NetKept DEF Kept, TextStep, EditorInv

LEMMA OnceDeclared ==
    ASSUME NEW t
    PROVE  OneRegister(t) <=> ~Redeclares(t)
BY DEF OneRegister, Redeclares

\* The three outcomes of a reading.
ReadError ==
    /\ ~FromQasm3(text).ok /\ parseError' = TRUE /\ timer' = FALSE
    /\ UNCHANGED <<history, text, step, draft, synced, overtyped, misplaced>>
ReadSame ==
    /\ FromQasm3(text).ok
    /\ ToQasm3(FromQasm3(text).model) \in {synced, ToQasm3(present)}
    /\ parseError' = FALSE /\ timer' = FALSE /\ synced' = ToQasm3(FromQasm3(text).model)
    /\ UNCHANGED <<history, text, step, draft, overtyped, misplaced>>
ReadNew ==
    /\ FromQasm3(text).ok /\ ToQasm3(FromQasm3(text).model) # ToQasm3(present)
    /\ synced' = ToQasm3(FromQasm3(text).model)
    /\ Push(FromQasm3(text).model, FALSE)
    /\ misplaced' = (misplaced \/ Redeclares(text))

LEMMA ReadOutcomes ==
    ASSUME ReadText
    PROVE  /\ ReadError \/ ReadSame \/ ReadNew
           /\ Select(selected) /\ ClearFeedback
           /\ UNCHANGED <<session, mode, pending, drag, net, edits>>
<1> DEFINE p == FromQasm3(text)
<1>1. CASE ~p.ok
  BY <1>1 DEF ReadText, ReadError
<1>2. CASE p.ok /\ (ToQasm3(p.model) = synced \/ SameText(p.model, present))
  <2>1. ToQasm3(p.model) \in {synced, ToQasm3(present)}
    BY <1>2 DEF SameText
  <2> QED BY <1>2, <2>1 DEF ReadText, ReadSame
<1>3. CASE p.ok /\ ToQasm3(p.model) # synced /\ ~SameText(p.model, present)
  <2>1. ToQasm3(p.model) # ToQasm3(present)
    BY <1>3 DEF SameText
  <2> QED BY <1>3, <2>1 DEF ReadText, ReadNew
<1> QED BY <1>1, <1>2, <1>3

LEMMA ReadTextKeeps ==
    ASSUME EditorInv, HistoryInv, ReadText
    PROVE  Kept /\ (ReadError \/ ReadSame \/ Printed)
<1>1. /\ ReadError \/ ReadSame \/ ReadNew
      /\ Select(selected) /\ ClearFeedback
      /\ UNCHANGED <<session, mode, pending, drag, net, edits>>
  BY ReadOutcomes
<1>2. HandInv'
  BY <1>1, Selecting, Feedback DEF HandInv, EditorInv
<1>3. CASE ReadError \/ ReadSame
  <2>1. UNCHANGED <<history, text, step, draft, overtyped, misplaced>> /\ timer' = FALSE
        /\ parseError' \in BOOLEAN
    BY <1>3 DEF ReadError, ReadSame
  <2>2. Forward
    BY <1>1, <2>1, ForwardKept DEF EditorInv
  <2>3. DocInv'
    BY <1>1, <2>1 DEF DocInv, EditorInv, Good, present
  <2> QED BY <1>1, <1>2, <1>3, <2>2, <2>3, NetKept DEF Kept, TextStep, EditorInv
<1>4. CASE ReadNew
  <2>1. PICK c : c = FromQasm3(text).model /\ ToQasm3(c) # ToQasm3(present)
    BY <1>4 DEF ReadNew
  <2>2. Sound(c) /\ (\A op \in Ops(c) : op.id > 0) /\ (OneRegister(text) => InRegister(c))
    BY <1>4, <2>1, ModelRight DEF ReadNew, EditorInv, DocInv
  <2>3. /\ misplaced' \in BOOLEAN /\ (misplaced => misplaced') /\ Push(c, FALSE)
        /\ misplaced' \/ OneRegister(text)
    BY <1>4, <2>1, OnceDeclared, PresentIsGood DEF ReadNew
  <2>4. Forward
    BY <1>1, <2>3, PresentIsGood DEF Forward
  <2>5. c \in Good'
    BY <2>2, <2>3, GoodParts DEF Good, Sound
  <2>6. Layout(c) # Layout(present)
    <3>1. IsCircuit(present) /\ IsCircuit(c)
      BY <2>2, PresentIsGood, GoodParts DEF Good, Sound
    <3> QED BY <2>1, <3>1, LayoutPrinted
  <2>7. DocInv' /\ Printed
    BY <1>1, <2>3, <2>4, <2>5, <2>6, PushKeeps DEF EditorInv
  <2> QED BY <1>1, <1>2, <2>4, <2>7, NetKept DEF Kept, TextStep, EditorInv
<1> QED BY <1>1, <1>3, <1>4

LEMMA ProjectsKeep ==
    ASSUME EditorInv, SaveProject \/ SaveServed \/ LoadProject \/ LoadServed \/ CallFails
    PROVE  Kept
<1>1. UNCHANGED <<session, doc, synced, mode, hand, misplaced>>
  BY DEF SaveProject, SaveServed, LoadProject, LoadServed, CallFails
<1>2. Forward
  BY <1>1, ForwardSpent, ForwardKept
  DEF SaveProject, SaveServed, LoadProject, LoadServed, CallFails, EditorInv
<1>3. Good \subseteq Good'
  BY <1>2, BoundsMove DEF EditorInv
<1>4. HandInv'
  BY <1>1 DEF HandInv, hand, EditorInv, Selected, present, doc
<1>5. /\ (project = Nothing \/ Payload(project)) /\ (\A p \in saving : Payload(p))
      /\ IsFiniteSet(saving) /\ Cardinality(saving) <= 1
      /\ loading.asked => Payload(project)
      /\ loading.served => Payload(loading.payload)
  BY DEF EditorInv, NetInv
<1>6. ASSUME project' = project \/ Payload(project'),
             saving' = saving \/ saving' = {} \/ \E p : saving' = {p} /\ Payload(p),
             loading'.asked => Payload(project'), loading'.served => Payload(loading'.payload)
      PROVE  NetInv'
  <2>1. (project = Nothing \/ Payload(project))'
    BY <1>3, <1>5, <1>6 DEF Payload
  <2>2. (\A p \in saving : Payload(p))'
    BY <1>3, <1>5, <1>6 DEF Payload
  <2>3. IsFiniteSet(saving') /\ Cardinality(saving') <= 1
    <3>1. CASE saving' = saving
      BY <1>5, <3>1
    <3>2. CASE saving' = {}
      BY <3>2, FS_EmptySet
    <3>3. CASE \E p : saving' = {p}
      <4>1. PICK p : saving' = {p}
        BY <3>3
      <4>2. IsFiniteSet({p}) /\ Cardinality({p}) = 1
        BY FS_Singleton
      <4> QED BY <4>1, <4>2
    <3> QED BY <1>6, <3>1, <3>2, <3>3
  <2>4. (loading.asked => Payload(project))' /\ (loading.served => Payload(loading.payload))'
    BY <1>3, <1>6 DEF Payload
  <2> QED BY <2>1, <2>2, <2>3, <2>4 DEF NetInv
<1>7. ASSUME SaveProject PROVE NetInv'
  <2>1. PICK p : p = DraftOf(present, text, 0, mode)
    OBVIOUS
  <2>2. p.circuit = present /\ p.mode = mode
    BY <2>1 DEF DraftOf
  <2>3. Payload(p)
    BY <2>2, PresentIsGood DEF Payload, EditorInv, DocInv
  <2>4. saving' = {p} /\ UNCHANGED <<project, loading>>
    BY <1>7, <2>1 DEF SaveProject
  <2> QED BY <1>5, <1>6, <2>3, <2>4
<1>8. ASSUME SaveServed PROVE NetInv'
  <2>1. PICK p \in saving : project' = p
    BY <1>8 DEF SaveServed
  <2>2. Payload(project') /\ saving' = {} /\ loading' = loading
    BY <1>5, <1>8, <2>1 DEF SaveServed
  <2> QED BY <1>5, <1>6, <2>2
<1>9. ASSUME LoadProject PROVE NetInv'
  <2>1. Payload(project) /\ UNCHANGED <<project, saving>>
    BY <1>5, <1>9 DEF LoadProject
  <2>2. PICK r : r = [NotLoading EXCEPT !.asked = TRUE]
    OBVIOUS
  <2>3. loading' = r /\ r.served = FALSE
    BY <1>9, <2>2 DEF LoadProject, NotLoading
  <2> QED BY <1>6, <2>1, <2>3
<1>10. ASSUME LoadServed PROVE NetInv'
  <2>1. Payload(project) /\ UNCHANGED <<project, saving>>
    BY <1>5, <1>10 DEF LoadServed
  <2>2. PICK r : r = [asked |-> TRUE, served |-> TRUE, payload |-> project]
    OBVIOUS
  <2>3. loading' = r /\ r.payload = project
    BY <1>10, <2>2 DEF LoadServed
  <2> QED BY <1>6, <2>1, <2>3
<1>11. ASSUME CallFails PROVE NetInv'
  <2>1. PICK r : r = NotLoading
    OBVIOUS
  <2>2. r.asked = FALSE /\ r.served = FALSE
    BY <2>1 DEF NotLoading
  <2>3. project' = project /\ ((saving' = {} /\ loading' = loading) \/ (loading' = r /\ saving' = saving))
    BY <1>11, <2>1 DEF CallFails
  <2> QED BY <1>5, <1>6, <2>2, <2>3
<1>12. NetInv'
  BY <1>7, <1>8, <1>9, <1>10, <1>11
<1> QED BY <1>1, <1>2, <1>4, <1>12, DocUnchanged DEF Kept

LEMMA AnsweredKeeps ==
    ASSUME EditorInv, LoadAnswered
    PROVE  Kept
<1>1. PICK c, m : c = loading.payload.circuit /\ m = loading.payload.mode
  OBVIOUS
<1>2. /\ history' = Created(c) /\ text' = ToQasm3(c) /\ timer' = (timer \/ text' # text)
      /\ parseError' = FALSE /\ step' = StepAfter(step, Total(present), Total(c)) /\ mode' = m
      /\ Saved /\ loading' = NotLoading /\ Select(selected) /\ warned' = {} /\ overtyped' = FALSE
      /\ UNCHANGED <<session, synced, pending, drag, project, saving, edits, misplaced>>
  BY <1>1 DEF LoadAnswered
<1>3. Forward
  BY <1>2, ForwardKept DEF EditorInv
<1>4. c \in Good /\ m \in Modes
  BY <1>1 DEF LoadAnswered, EditorInv, NetInv, Payload
<1>5. c \in Good' /\ present' = c /\ Good \subseteq Good'
  BY <1>2, <1>3, <1>4, BoundsMove DEF EditorInv, Created, present
<1>6. Typed(history', Good')
  BY <1>2, <1>5, CreatedProperties, TypedGrows
<1>7. Total(c) \in Nat /\ Total(present) \in Nat
  BY <1>4, PresentIsGood, Total0 DEF Good
<1>8. step' \in 0 .. Total(c)
  BY <1>2, <1>7, StepInside DEF EditorInv, DocInv
<1>9. Agrees(draft', present', step', mode')
  <2>1. draft' = DraftOf(c, text', step', m)
    BY <1>2, <1>5 DEF Saved, present
  <2>2. PICK s \in 0 .. Total(c), t \in {ToQasm3(c)} : s = step'
    BY <1>8
  <2>3. Agrees(DraftOf(c, t, s, m), c, s, m)
    BY <1>4, <1>7, DraftAgrees DEF Total
  <2> QED BY <1>2, <1>5, <2>1, <2>2, <2>3
<1>10. DocInv' /\ Printed
  BY <1>2, <1>3, <1>4, <1>5, <1>6, <1>8, <1>9, Shown DEF EditorInv, DocInv
<1>11. HandInv'
  <2>1. (selected = 0 \/ Selected # {})'
    BY <1>2, Selecting
  <2> QED BY <1>2, <2>1 DEF HandInv, EditorInv
<1>12. NetInv'
  <2>1. PICK r : r = NotLoading
    OBVIOUS
  <2>2. r.asked = FALSE /\ r.served = FALSE
    BY <2>1 DEF NotLoading
  <2> QED BY <1>2, <1>5, <2>1, <2>2 DEF NetInv, Payload, EditorInv
<1> QED BY <1>3, <1>10, <1>11, <1>12 DEF Kept, TextStep

\* A draft that agrees with what is shown brings it back.
LEMMA MountedAgain ==
    ASSUME NEW n \in Nat, NEW m, NEW d, NEW c \in Goods(n, m), NEW s \in 0 .. Total(c), NEW w \in Modes,
           Agrees(d, c, s, w)
    PROVE  /\ Mounted(d).history = Created(c) /\ Mounted(d).text = ToQasm3(c)
           /\ Mounted(d).step = s /\ Mounted(d).mode = w
           /\ Created(c).present = c
           /\ Agrees(DraftAtMount(d), c, s, w)
<1>1. PICK r : r = Restored(DraftRead(d))
  OBVIOUS
<1>2. r.circuit = c /\ r.step = s /\ r.mode = w
  <2>1. CASE d = Nothing
    <3>1. DraftRead(d) = Nothing
      BY <2>1 DEF DraftRead
    <3>2. c = DefaultTemplate /\ s = Total(DefaultTemplate) /\ w = "FILTERED"
      BY <2>1 DEF Agrees
    <3>3. r = [circuit |-> DefaultTemplate, step |-> Total(DefaultTemplate), mode |-> "FILTERED"]
      BY <1>1, <3>1 DEF Restored
    <3> QED BY <3>2, <3>3
  <2>2. CASE d # Nothing
    <3>1. d.circuit = c /\ d.mode = w /\ ClampStep(d.step, Total(c)) = s
      BY <2>2 DEF Agrees
    <3>2. Readable(d)
      BY <3>1, GoodUse DEF Readable
    <3>3. DraftRead(d) = d
      BY <3>2 DEF DraftRead
    <3>4. r = [circuit |-> d.circuit, step |-> ClampStep(d.step, Total(d.circuit)), mode |-> d.mode]
      BY <1>1, <2>2, <3>3 DEF Restored
    <3> QED BY <3>1, <3>4
  <2> QED BY <2>1, <2>2
<1>3. PICK a : a = Mounted(d)
  OBVIOUS
<1>4. a = [history |-> Created(r.circuit), text |-> ToQasm3(r.circuit), step |-> r.step, mode |-> r.mode]
  BY <1>1, <1>3 DEF Mounted
<1>5. a.history = Created(c) /\ a.text = ToQasm3(c) /\ a.step = s /\ a.mode = w
  BY <1>2, <1>4
<1>6. Created(c).present = c
  BY DEF Created
<1>7. Agrees(DraftAtMount(d), c, s, w)
  <2>1. DraftAtMount(d) = d \/ DraftAtMount(d) = DraftOf(c, ToQasm3(c), s, w)
    BY <1>3, <1>5, <1>6 DEF DraftAtMount
  <2>2. Len(c.operations) \in Nat
    BY GoodUse
  <2>3. Agrees(DraftOf(c, ToQasm3(c), s, w), c, s, w)
    BY <2>2, DraftAgrees
  <2> QED BY <2>1, <2>3
<1> QED BY <1>3, <1>5, <1>6, <1>7

LEMMA ReloadKeeps ==
    ASSUME EditorInv, Reload
    PROVE  Kept
<1>1. /\ Spend /\ history' = Mounted(draft).history /\ text' = Mounted(draft).text
      /\ step' = Mounted(draft).step /\ mode' = Mounted(draft).mode
      /\ draft' = DraftAtMount(draft) /\ timer' = TRUE /\ parseError' = FALSE
      /\ pending' = NoPending /\ selected' = 0 /\ drag' = NoDrag /\ warned' = {}
      /\ loading' = NotLoading /\ overtyped' = FALSE
      /\ UNCHANGED <<session, project, saving, misplaced>>
  BY DEF Reload
<1>2. Forward
  BY <1>1, ForwardSpent DEF EditorInv
<1>3. PICK c, n, m : c = present /\ n = edits /\ m = misplaced
  OBVIOUS
<1>4. PICK d, s, w : d = draft /\ s = step /\ w = mode
  OBVIOUS
<1>5. n \in Nat /\ c \in Goods(n, m) /\ s \in 0 .. Total(c) /\ w \in Modes /\ Agrees(d, c, s, w)
  BY <1>3, <1>4, PresentIsGood DEF EditorInv, DocInv, Good
<1>6. /\ Mounted(d).history = Created(c) /\ Mounted(d).text = ToQasm3(c)
      /\ Mounted(d).step = s /\ Mounted(d).mode = w
      /\ Created(c).present = c
      /\ Agrees(DraftAtMount(d), c, s, w)
  BY <1>5, MountedAgain
<1>7. history' = Created(c) /\ present' = c /\ step' = s /\ mode' = w /\ text' = ToQasm3(c)
  BY <1>1, <1>4, <1>6 DEF present
<1>8. Good \subseteq Good'
  BY <1>2, BoundsMove DEF EditorInv
<1>9. Typed(history', Good')
  BY <1>3, <1>7, <1>8, PresentIsGood, CreatedProperties, TypedGrows
<1>10. Agrees(draft', present', step', mode')
  BY <1>1, <1>4, <1>6, <1>7
<1>11. DocInv' /\ Printed
  BY <1>1, <1>2, <1>5, <1>7, <1>9, <1>10, Shown DEF EditorInv
<1>12. HandInv'
  BY <1>1 DEF HandInv, NoDrag
<1>13. NetInv'
  <2>1. PICK r : r = NotLoading
    OBVIOUS
  <2>2. r.asked = FALSE /\ r.served = FALSE
    BY <2>1 DEF NotLoading
  <2> QED BY <1>1, <1>8, <2>1, <2>2 DEF NetInv, Payload, EditorInv
<1> QED BY <1>2, <1>11, <1>12, <1>13 DEF Kept, TextStep

LEMMA InitKeeps ==
    ASSUME Init
    PROVE  EditorInv /\ TextInv
<1>1. PICK d, n : d = session.draft /\ n = session.edits
  OBVIOUS
<1>2. /\ session \in Sessions /\ n \in Nat
      /\ d # Nothing => /\ Sound(d.circuit) /\ InRegister(d.circuit)
                        /\ \A op \in Ops(d.circuit) : op.id > 0
                        /\ d.step \in Nat /\ d.mode \in Modes
  BY <1>1, SessionsAssumption DEF Init
<1>3. PICK c : c = IF d = Nothing THEN DefaultTemplate ELSE d.circuit
  OBVIOUS
<1>4. c \in Goods(n, FALSE)
  BY <1>2, <1>3, DefaultIsGood, GoodParts DEF Sound
<1>5. PICK k \in Nat : k = Total(c)
  BY <1>2, <1>4, Total0
<1>6. PICK s : s = IF d = Nothing THEN Total(DefaultTemplate) ELSE ClampStep(d.step, Total(c))
  OBVIOUS
<1>7. PICK w : w = IF d = Nothing THEN "FILTERED" ELSE d.mode
  OBVIOUS
<1>8. s \in 0 .. Total(c) /\ w \in Modes /\ Agrees(d, c, s, w)
  <2>1. CASE d = Nothing
    BY <1>3, <1>5, <1>6, <1>7, <2>1 DEF Agrees, Modes
  <2>2. CASE d # Nothing
    <3>1. PICK x \in Nat : x = d.step /\ s = ClampStep(x, k)
      BY <1>2, <1>5, <1>6, <2>2
    <3>2. s \in 0 .. k
      BY <3>1 DEF ClampStep
    <3> QED BY <1>2, <1>3, <1>5, <1>6, <1>7, <2>2, <3>2 DEF Agrees
  <2> QED BY <2>1, <2>2
<1>9. /\ Mounted(d).history = Created(c) /\ Mounted(d).text = ToQasm3(c)
      /\ Mounted(d).step = s /\ Mounted(d).mode = w
      /\ Created(c).present = c
      /\ Agrees(DraftAtMount(d), c, s, w)
  BY <1>2, <1>4, <1>8, MountedAgain
<1>10. /\ history = Created(c) /\ present = c /\ text = ToQasm3(c) /\ step = s /\ mode = w
       /\ draft = DraftAtMount(d)
  BY <1>1, <1>9 DEF Init, present
<1>11. timer = TRUE /\ parseError = FALSE /\ synced = <<>> /\ overtyped = FALSE /\ misplaced = FALSE /\ edits = n
  BY <1>1 DEF Init
<1>12. Good = Goods(n, FALSE)
  BY <1>11 DEF Good
<1>13. DocInv
  <2>1. Typed(history, Good)
    BY <1>4, <1>10, <1>12, CreatedProperties, TypedGrows
  <2>2. text \in Seq(Statements)
    BY <1>2, <1>4, <1>10, GoodUse
  <2> QED BY <1>8, <1>9, <1>10, <1>11, <2>1, <2>2 DEF DocInv
<1>14. BoundInv
  <2>1. n \in 0 .. n
    BY <1>2
  <2>2. edits \in 0 .. session.edits
    BY <1>1, <1>11, <2>1
  <2> QED BY <1>2, <1>11, <2>2 DEF BoundInv
<1>15. HandInv
  BY DEF Init, HandInv, NoDrag
<1>16. NetInv
  <2>1. PICK r : r = NotLoading
    OBVIOUS
  <2>2. r.asked = FALSE /\ r.served = FALSE
    BY <2>1 DEF NotLoading
  <2>3. project = Nothing /\ saving = {} /\ loading = r
    BY <2>1 DEF Init
  <2>4. IsFiniteSet({}) /\ Cardinality({}) = 0
    BY FS_EmptySet
  <2> QED BY <2>2, <2>3, <2>4 DEF NetInv
<1>17. TextInv
  BY <1>10, <1>11 DEF TextInv, TextAgrees
<1> QED BY <1>13, <1>14, <1>15, <1>16, <1>17 DEF EditorInv

(***************************************************************************)
(* Every step.                                                             *)
(***************************************************************************)
LEMMA CellNumbers ==
    ASSUME EditorInv, NEW cell \in Cells
    PROVE  cell[1] \in 0 .. present.numQubits - 1 /\ cell[1] \in Nat /\ cell[2] \in Nat
<1>1. session.layers \in Nat /\ present.numQubits \in Nat
  BY SessionsAssumption, PresentIsGood DEF EditorInv, BoundInv
<1> QED BY <1>1 DEF Cells

LEMMA NextKeeps ==
    ASSUME EditorInv, HistoryInv, Next
    PROVE  Kept
<1>1. ASSUME NEW cell \in Cells, NEW g \in session.palette, DropGate(g, cell[1], cell[2]) PROVE Kept
  <2>1. g \in Gates
    BY SessionsAssumption DEF EditorInv, BoundInv
  <2> QED BY <1>1, <2>1, CellNumbers, DropGateKeeps
<1>2. ASSUME NEW cell \in Cells,
             \/ ClickOperation(cell[1], cell[2]) \/ ClickPending(cell[1], cell[2])
             \/ DropMovedOperation(cell[1], cell[2])
      PROVE  Kept
  BY <1>2, CellNumbers, ClickOperationKeeps, ClickPendingKeeps, DropMovedKeeps
<1>3. CancelPlacement \/ DragEnd => Kept
  BY CancelKeeps
<1>4. \A op \in Ops(present) : DeleteOperation(op) \/ (\E q \in Occupied(op) : DragStart(op, q)) => Kept
  BY DeleteKeeps, DragStartKeeps
<1>5. \A op \in Selected : \A i \in DOMAIN op.params : ChangeParam(op, i) \/ NormalizeParam(op, i) => Kept
  BY ParamKeeps
<1>6. \A b, n \in 0 .. 3 : InsertColumns(b, n) \/ DeleteEmptyColumns(b, n) => Kept
  BY ColumnsKeep
<1>7. IncreaseQubits \/ DecreaseQubits \/ ClearCircuit \/ Undo \/ Redo \/ Reset => Kept
  BY QubitsKeep, ClearKeeps, UndoKeeps, ResetKeeps
<1>8. \A name \in session.templates : LoadTemplate(name) => Kept
  BY TemplateKeeps
<1>9. (\A s \in 0 .. Total(present) : SetStep(s) => Kept) /\ (\A m \in Modes : SetMode(m) => Kept)
  BY StepAndModeKeep
<1>10. \A t \in session.texts : TypeText(t) => Kept
  BY TypeTextKeeps
<1>11. ReadText \/ Reload \/ LoadAnswered => Kept
  BY ReadTextKeeps, ReloadKeeps, AnsweredKeeps
<1>12. SaveProject \/ SaveServed \/ LoadProject \/ LoadServed \/ CallFails => Kept
  BY ProjectsKeep
<1> HIDE DEF Kept
<1> QED BY <1>1, <1>2, <1>3, <1>4, <1>5, <1>6, <1>7, <1>8, <1>9, <1>10, <1>11, <1>12, Zenon DEF Next

LEMMA TextStepKeeps ==
    ASSUME EditorInv, HistoryInv, TextInv, TextStep
    PROVE  TextInv'
<1>1. CASE TextKept
  BY <1>1 DEF TextKept, TextInv, TextAgrees, present
<1>2. CASE Printed
  BY <1>2 DEF Printed, TextInv, TextAgrees
<1>3. ASSUME NEW t, TypeText(t) PROVE TextInv'
  <2>1. /\ timer' = TRUE /\ present' = present /\ synced' = synced
        /\ overtyped' = (overtyped \/ synced \notin {<<>>, ToQasm3(present)})
    BY <1>3 DEF TypeText, present
  <2> QED BY <2>1 DEF TextInv, TextAgrees
<1>4. CASE ReadText
  <2>1. ReadError \/ ReadSame \/ Printed
    BY <1>4, ReadTextKeeps
  <2>2. CASE ReadError
    <3>1. /\ parseError' = TRUE /\ ~FromQasm3(text).ok
          /\ UNCHANGED <<text, synced, overtyped>> /\ present' = present
      BY <2>2 DEF ReadError, present
    <3> QED BY <3>1 DEF TextInv, TextAgrees
  <2>3. CASE ReadSame
    <3>1. PICK p : p = FromQasm3(text)
      OBVIOUS
    <3>2. /\ p.ok /\ ToQasm3(p.model) \in {synced, ToQasm3(present)} /\ synced' = ToQasm3(p.model)
          /\ parseError' = FALSE /\ UNCHANGED <<text, overtyped>> /\ present' = present
      BY <2>3, <3>1 DEF ReadSame, present
    <3>3. ToQasm3(p.model) # <<>>
      BY <3>1, <3>2, ModelRight, PrintedTyped DEF EditorInv, DocInv, Sound
    <3>4. ASSUME ~overtyped PROVE text = ToQasm3(present) \/ ToQasm3(p.model) = ToQasm3(present)
      BY <3>2, <3>3, <3>4 DEF TextInv
    <3> QED BY <3>1, <3>2, <3>4 DEF TextInv, TextAgrees
  <2> QED BY <1>2, <2>1, <2>2, <2>3
<1> QED BY <1>1, <1>2, <1>3, <1>4 DEF TextStep

LEMMA EditorSteps ==
    ASSUME EditorInv, HistoryInv, TextInv, [Next]_vars
    PROVE  EditorInv' /\ TextInv'
<1>1. CASE Next
  <2>1. Kept
    BY <1>1, NextKeeps
  <2>2. BoundInv'
    BY <2>1, BoundsMove DEF Kept, EditorInv
  <2> QED BY <2>1, <2>2, TextStepKeeps DEF Kept, EditorInv
<1>2. CASE UNCHANGED vars
  <2>1. UNCHANGED <<session, doc, synced, mode, hand, net, edits, misplaced>>
    BY <1>2 DEF vars
  <2>2. Forward
    BY <2>1, ForwardKept DEF EditorInv
  <2>3. DocInv' /\ TextStep
    BY <2>1, <2>2, DocUnchanged
  <2>4. HandInv'
    BY <2>1 DEF HandInv, hand, EditorInv, Selected, present, doc
  <2>5. BoundInv'
    BY <2>2, BoundsMove DEF EditorInv
  <2> QED BY <2>1, <2>2, <2>3, <2>4, <2>5, NetKept, TextStepKeeps DEF EditorInv
<1> QED BY <1>1, <1>2

LEMMA EditorInvariant == Spec => [](EditorInv /\ TextInv)
<1>1. Init => EditorInv /\ TextInv
  BY InitKeeps
<1>2. EditorInv /\ TextInv /\ HistoryInv /\ [Next]_vars => (EditorInv /\ TextInv)'
  BY EditorSteps
<1> QED BY <1>1, <1>2, HistoryBounded, PTL DEF Spec

(***************************************************************************)
(* The state is well formed: the time step is within the circuit, the      *)
(* selection is an operation that is there, a placement still lacks a      *)
(* qubit, and one save is under way at most                                *)
(* (use-workbench-editor-state.ts, CircuitCanvas.tsx).                     *)
(***************************************************************************)
THEOREM EditorTyped == Spec => []TypeOK
<1>1. EditorInv => TypeOK
  BY DEF EditorInv, BoundInv, DocInv, HandInv, NetInv, TypeOK, Placing
<1> QED BY <1>1, EditorInvariant, PTL

(***************************************************************************)
(* Every circuit that undo or redo could bring back is well formed, though *)
(* only commits and the parser validate (circuit-validation.ts).           *)
(***************************************************************************)
THEOREM HistoryIsWellFormed == Spec => []HistoryWellFormed
<1>1. EditorInv => HistoryWellFormed
  <2> SUFFICES ASSUME EditorInv, NEW c \in Circuits(history) PROVE WellFormed(c)
    BY DEF HistoryWellFormed
  <2>1. PICK a \in Seq(Good), b \in Seq(Good) :
            a = history.past /\ b = history.future /\ history.present \in Good
    BY DEF EditorInv, DocInv, Typed
  <2>2. ToSet(a) \subseteq Good /\ ToSet(b) \subseteq Good
    BY DEF ToSet
  <2>3. c \in Good
    BY <2>1, <2>2 DEF Circuits
  <2> QED BY <2>3, GoodParts DEF Good
<1> QED BY <1>1, EditorInvariant, PTL

(***************************************************************************)
(* With the pane at rest its text is the circuit's, unless the user typed  *)
(* over a text the pane had not read (QasmEditorPane.tsx).                 *)
(***************************************************************************)
THEOREM TextAlwaysAgrees == Spec => []TextAgrees
<1>1. TextInv => TextAgrees
  BY DEF TextInv
<1> QED BY <1>1, EditorInvariant, PTL

(***************************************************************************)
(* The pane reads what the canvas prints: the reading gives a circuit of   *)
(* the same text and no error stays, unless an operation is on a qubit     *)
(* that is not there or an angle prints with an exponent (toQasm3,         *)
(* fromQasm3).                                                             *)
(***************************************************************************)
THEOREM OwnTextIsAlwaysRead == Spec => []OwnTextIsRead
<1>1. EditorInv /\ TextInv => OwnTextIsRead
  <2> SUFFICES ASSUME EditorInv, TextInv, text = ToQasm3(present), ~misplaced,
                      \A op \in Ops(present) : Printable(op)
               PROVE  /\ FromQasm3(text).ok /\ SameText(FromQasm3(text).model, present)
                      /\ timer \/ ~parseError
    BY DEF OwnTextIsRead
  <2>1. IsCircuit(present) /\ WellFormed(present) /\ InRegister(present)
    BY PresentIsGood, GoodParts DEF Good
  <2>2. FromQasm3(text).ok /\ SameText(FromQasm3(text).model, present)
    BY <2>1, PrintedIsRead
  <2> QED BY <2>2 DEF TextInv
<1> QED BY <1>1, EditorInvariant, PTL

(***************************************************************************)
(* A reload brings back the circuit, the time step and the mode, whenever  *)
(* it comes (loadWorkbenchDraft, buildInitialState).                       *)
(***************************************************************************)
THEOREM ReloadAlwaysRestores == Spec => []ReloadRestores
<1>1. EditorInv => ReloadRestores
  <2> SUFFICES ASSUME EditorInv PROVE ReloadRestores
    OBVIOUS
  <2>1. PICK c, n, m : c = present /\ n = edits /\ m = misplaced
    OBVIOUS
  <2>2. PICK d, s, w : d = draft /\ s = step /\ w = mode
    OBVIOUS
  <2>3. n \in Nat /\ c \in Goods(n, m) /\ s \in 0 .. Total(c) /\ w \in Modes /\ Agrees(d, c, s, w)
    BY <2>1, <2>2, PresentIsGood DEF EditorInv, DocInv, Good
  <2>4. /\ Mounted(d).history = Created(c) /\ Mounted(d).step = s /\ Mounted(d).mode = w
        /\ Created(c).present = c
    BY <2>3, MountedAgain
  <2> QED BY <2>1, <2>2, <2>4 DEF ReloadRestores
<1> QED BY <1>1, EditorInvariant, PTL

(***************************************************************************)
(* The server accepts whatever the workbench would submit, but for the     *)
(* circuits with a misplaced operation (circuit-task-submit.ts,            *)
(* circuit_payload.py).                                                    *)
(***************************************************************************)
THEOREM SubmittedAlwaysAccepted == Spec => []SubmittedAccepted
<1>1. EditorInv => SubmittedAccepted
  <2> SUFFICES ASSUME EditorInv, ~misplaced
               PROVE  (\A op \in Ops(present) : Buildable(op)) /\ ServerAccepts(PayloadOf(present))
    BY DEF SubmittedAccepted
  <2>1. IsCircuit(present) /\ InRegister(present)
    BY PresentIsGood, GoodParts DEF Good
  <2> QED BY <2>1, CircuitAccepted
<1> QED BY <1>1, EditorInvariant, PTL
===============================================================================
