---------------------------- MODULE CircuitEditor ----------------------------
(***************************************************************************)
(* The workbench as one edits in it: the canvas with its two-step          *)
(* placement, drag and parameter panel, the undo history, the QASM pane    *)
(* that reads its text 200 ms after it last changed, the time step, the    *)
(* draft in local storage and the projects on the server.                  *)
(*                                                                         *)
(* JavaScript runs one callback at a time, and React runs the effects of a *)
(* callback before the next: a handler and its effects are one action.     *)
(* What interleaves is the pane's timer, the answers of the project calls, *)
(* reloads, and the user's hands.  A drag holds the pointer: until it ends *)
(* only timers and answers come in between.                                *)
(***************************************************************************)
EXTENDS Qasm, Templates

CONSTANTS
    Sessions,      \* bound: what the user may do, and from where
    HistoryLimit,  \* DEFAULT_HISTORY_LIMIT
    MinQubits,     \* EDITOR_MIN_QUBITS
    MaxQubits      \* EDITOR_MAX_QUBITS

Nothing   == [circuit |-> CreateCircuit(0), text |-> <<>>, step |-> 0, mode |-> "none"]
Modes     == {"FILTERED", "ALL"}
\* A session has the draft it starts from, which the workbench has saved, the
\* tools the user takes up, the gates, angles, texts and templates at hand,
\* the layers within reach and the number of edits.
ASSUME SessionsAssumption == \A s \in Sessions :
    /\ s.draft # Nothing =>
        /\ Sound(s.draft.circuit) /\ InRegister(s.draft.circuit)
        /\ \A op \in Ops(s.draft.circuit) : op.id > 0
        /\ s.draft.step \in Nat /\ s.draft.mode \in Modes
    /\ s.palette \subseteq Gates /\ s.angles \subseteq Int
    /\ s.texts \subseteq Seq(Statements)
    /\ s.templates \subseteq {"bell", "superposition", "qft", "grover"}
    /\ s.layers \in Nat /\ s.edits \in Nat
ASSUME LimitAssumption == HistoryLimit \in Nat \ {0}
ASSUME QubitsAssumption == MinQubits \in Nat \ {0} /\ MaxQubits \in Nat

\* The templates are what the catalog and validation ask of a circuit.
ASSUME TemplatesAssumption == \A name \in {"bell", "superposition", "qft", "grover"} :
    /\ Sound(Template(name)) /\ InRegister(Template(name))
    /\ \A op \in Ops(Template(name)) : op.id > 0

VARIABLES
    session,
    history,     \* [past, present, future]
    text,        \* qasm: what the pane shows
    timer,       \* the pane has yet to read it
    parseError,
    synced,      \* lastSyncedSignatureRef: what the pane handed over last
    step,        \* simulationStep
    mode,        \* displayMode
    draft,       \* local storage
    pending,     \* pendingPlacement
    selected,    \* selectedOperationId, 0 for none
    drag,        \* activeMoveDragPayload
    warned,      \* the parameters whose feedback is a warning
    project,     \* server: the project's payload
    saving,      \* payloads under way to the server
    loading,     \* [asked, served, payload]: the load under way
    edits,       \* edits left
    overtyped,   \* history: the text was typed over one the pane had not read
    misplaced    \* history: an operation got a qubit that was not there

doc  == <<history, text, timer, parseError, step, draft, overtyped>>
hand == <<pending, selected, drag, warned>>
net  == <<project, saving, loading>>
vars == <<session, doc, synced, mode, hand, net, edits, misplaced>>

NoPending == [gate |-> "none", layer |-> 0, qubits |-> <<>>]
NoDrag    == [id |-> 0, anchor |-> 0]
NotLoading == [asked |-> FALSE, served |-> FALSE, payload |-> Nothing]

present == history.present
Total(c) == Len(c.operations)
Idle == drag = NoDrag
Uses(tool) == Idle /\ tool \in session.tools

-----------------------------------------------------------------------------
\* History (history.ts)
Created(c) == [past |-> <<>>, present |-> c, future |-> <<>>]

Pushed(h, c) ==
    IF Layout(c) = Layout(h.present) THEN h
    ELSE LET all == Append(h.past, h.present)
         IN  [past |-> IF Len(all) <= HistoryLimit THEN all
                       ELSE SubSeq(all, Len(all) - HistoryLimit + 1, Len(all)),
              present |-> c, future |-> <<>>]

\* Faulty variant: undo drops what it leaves.
UndoneForgets(h) == [past |-> SubSeq(h.past, 1, Len(h.past) - 1),
                     present |-> h.past[Len(h.past)], future |-> h.future]

Undone(h) == [past |-> SubSeq(h.past, 1, Len(h.past) - 1),
              present |-> h.past[Len(h.past)],
              future |-> <<h.present>> \o h.future]

Redone(h) == [past |-> Append(h.past, h.present),
              present |-> Head(h.future), future |-> Tail(h.future)]

ClampStep(s, n) == IF s > n THEN n ELSE s

\* Faulty variant: the step stays where it was.
StepAfterUnclamped(s, before, after) == IF s = before THEN after ELSE s

\* clampSimulationStepOnCircuitChange: at the end one stays at the end.
StepAfter(s, before, after) == IF s = before THEN after ELSE ClampStep(s, after)

\* Faulty variant: a draft is opened at its last step.
RestoredAtEnd(d) ==
    LET c == IF d = Nothing THEN DefaultTemplate ELSE d.circuit
    IN  [circuit |-> c, step |-> Total(c), mode |-> IF d = Nothing THEN "FILTERED" ELSE d.mode]

\* buildInitialState
Restored(d) ==
    IF d = Nothing
    THEN [circuit |-> DefaultTemplate, step |-> Total(DefaultTemplate), mode |-> "FILTERED"]
    ELSE [circuit |-> d.circuit, step |-> ClampStep(d.step, Total(d.circuit)), mode |-> d.mode]

\* The draft sync saves whenever one of the four has changed.
DraftOf(c, t, s, m) == [circuit |-> c, text |-> t, step |-> s, mode |-> m]
Saved == draft' = DraftOf(history'.present, text', step', mode')

\* A new circuit is printed into the pane, which reads it in a while; the
\* error of the text before goes at once.
Turn(h, s, running) ==
    IF h = history
    THEN timer' = running /\ UNCHANGED <<history, text, parseError, step, draft, overtyped>>
    ELSE /\ history' = h /\ step' = s
         /\ text' = ToQasm3(h.present)
         /\ timer' = (running \/ text' # text)
         /\ parseError' = FALSE
         /\ draft' = DraftOf(h.present, text', s, mode)
         /\ overtyped' = FALSE

Push(c, running) == Turn(Pushed(history, c), StepAfter(step, Total(present), Total(c)), running)

\* commitCircuit
Commit(c) == IF Validates(c) THEN Push(c, timer) ELSE UNCHANGED doc

\* The canvas's effects: a selection that is gone, feedback of another state.
Select(id) ==
    selected' = IF \E op \in Ops(history'.present) : op.id = id THEN id ELSE 0
ClearFeedback ==
    warned' = IF history' = history /\ selected' = selected THEN warned ELSE {}

Spend == edits > 0 /\ edits' = edits - 1
\* An id is a time: a later one, and never one that the parser, a template
\* or a draft gives, which are positive.
FreshId == -edits

-----------------------------------------------------------------------------
\* Start of the page, and a reload: what is under way to the server arrives.
\* loadWorkbenchDraft drops a draft with an operation it cannot read.
Readable(d) == \A op \in Ops(d.circuit) : op.gate \in Gates /\ NotFinite \notin ToSet(op.params)
DraftRead(d) == IF d = Nothing \/ ~Readable(d) THEN Nothing ELSE d

Mounted(d) ==
    LET r == Restored(DraftRead(d)) IN
    [history |-> Created(r.circuit), text |-> ToQasm3(r.circuit), step |-> r.step, mode |-> r.mode]

\* Normalizing the text is a change: it saves the draft again.
DraftAtMount(d) ==
    IF d = Nothing \/ d.text = Mounted(d).text THEN d
    ELSE DraftOf(Mounted(d).history.present, Mounted(d).text, Mounted(d).step, Mounted(d).mode)

Init ==
    /\ session \in Sessions
    /\ LET m == Mounted(session.draft) IN
         history = m.history /\ text = m.text /\ step = m.step /\ mode = m.mode
    /\ draft = DraftAtMount(session.draft)
    /\ timer = TRUE /\ parseError = FALSE /\ synced = <<>>
    /\ pending = NoPending /\ selected = 0 /\ drag = NoDrag /\ warned = {}
    /\ project = Nothing /\ saving = {} /\ loading = NotLoading
    /\ edits = session.edits
    /\ overtyped = FALSE /\ misplaced = FALSE

Reload ==
    /\ Uses("reload") /\ Spend
    /\ LET m == Mounted(draft) IN
         history' = m.history /\ text' = m.text /\ step' = m.step /\ mode' = m.mode
    /\ draft' = DraftAtMount(draft)
    /\ timer' = TRUE /\ parseError' = FALSE /\ synced' = <<>>
    /\ pending' = NoPending /\ selected' = 0 /\ drag' = NoDrag /\ warned' = {}
    /\ loading' = NotLoading
    /\ overtyped' = FALSE
    /\ UNCHANGED <<session, project, saving, misplaced>>

-----------------------------------------------------------------------------
\* Placing gates
Cells == (0 .. present.numQubits - 1) \X (0 .. session.layers - 1)
Free(q, l) == OperationAt(present, q, l) = {} /\ ConnectorAt(present, q, l) = {}
Required(g) == ControlCount(g) + TargetCount(g)

DropGate(g, q, l) ==
    /\ Uses("gates") /\ Free(q, l)
    /\ IF Required(g) > 1
       THEN /\ pending' = [gate |-> g, layer |-> l, qubits |-> <<q>>]
            /\ selected' = 0
            /\ UNCHANGED <<doc, edits>>
       ELSE /\ Spend
            /\ pending' = NoPending
            /\ Commit(AddOperation(present, Operation(FreshId, g, l, <<>>, <<q>>, DefaultParams(g))))
            /\ Select(selected)
    /\ ClearFeedback
    /\ UNCHANGED <<session, synced, mode, drag, net, misplaced>>

ClickOperation(q, l) ==
    /\ Uses("gates") /\ pending = NoPending
    /\ LET here == OperationAt(present, q, l)
       IN  selected' = IF here = {} THEN 0 ELSE (CHOOSE op \in here : TRUE).id
    /\ warned' = IF selected' = selected THEN warned ELSE {}
    /\ UNCHANGED <<session, doc, synced, mode, pending, drag, net, edits, misplaced>>

PlacedOperation(p, qubits) ==
    LET n == ControlCount(p.gate)
    IN  Operation(FreshId, p.gate, p.layer, SubSeq(qubits, 1, n),
                  SubSeq(qubits, n + 1, n + TargetCount(p.gate)), DefaultParams(p.gate))

\* The click that names the next qubit.  A qubit named earlier may be gone
\* by now: nothing looks at it again.
ClickPending(q, l) ==
    /\ Uses("gates") /\ pending # NoPending
    /\ l = pending.layer /\ Free(q, l) /\ q \notin ToSet(pending.qubits)
    /\ LET qubits == Append(pending.qubits, q)
           placed == AddOperation(present, PlacedOperation(pending, qubits))
       IN  IF Len(qubits) < Required(pending.gate)
           THEN /\ pending' = [pending EXCEPT !.qubits = qubits]
                /\ UNCHANGED <<doc, selected, edits, misplaced>>
           ELSE /\ Spend
                /\ Commit(placed)
                /\ pending' = IF Validates(placed) THEN NoPending ELSE pending
                /\ misplaced' = (misplaced \/ (Validates(placed)
                                    /\ OutOfRange(ToSet(qubits), present.numQubits)))
                /\ Select(selected)
    /\ ClearFeedback
    /\ UNCHANGED <<session, synced, mode, drag, net>>

CancelPlacement ==
    /\ Uses("gates") /\ pending # NoPending
    /\ pending' = NoPending
    /\ UNCHANGED <<session, doc, synced, mode, selected, drag, warned, net, edits, misplaced>>

DeleteOperation(op) ==
    /\ Uses("gates") /\ Spend
    /\ Commit(RemoveOperation(present, op.id))
    /\ Select(selected) /\ ClearFeedback
    /\ UNCHANGED <<session, synced, mode, pending, drag, net, misplaced>>

-----------------------------------------------------------------------------
\* Dragging an operation, by one of its qubits or the line between them: the
\* payload is taken at the start.
DragStart(op, anchor) ==
    /\ Uses("drag")
    /\ drag' = [id |-> op.id, anchor |-> anchor]
    /\ pending' = NoPending /\ selected' = op.id
    /\ warned' = IF selected' = selected THEN warned ELSE {}
    /\ UNCHANGED <<session, doc, synced, mode, net, edits, misplaced>>

Moved(op, q, l) ==
    [op EXCEPT !.layer = l, !.targets = ShiftQubits(@, q - drag.anchor),
               !.controls = ShiftQubits(@, q - drag.anchor)]

DropMovedOperation(q, l) ==
    /\ ~Idle
    /\ drag' = NoDrag /\ pending' = NoPending
    /\ \/ /\ \A op \in Named(present, drag.id) : OutOfRange(Touched(Moved(op, q, l)), present.numQubits)
          /\ UNCHANGED <<doc, selected, edits>>
       \/ \E op \in Named(present, drag.id) :
            LET moved == Moved(op, q, l) IN
            /\ ~OutOfRange(Touched(moved), present.numQubits)
            /\ IF moved = op THEN selected' = drag.id /\ UNCHANGED <<doc, edits>>
               ELSE /\ Spend
                    /\ Commit(UpdateOperation(present, moved))
                    /\ Select(IF history' = history THEN selected ELSE drag.id)
    /\ ClearFeedback
    /\ UNCHANGED <<session, synced, mode, net, misplaced>>

DragEnd ==
    /\ ~Idle
    /\ drag' = NoDrag
    /\ UNCHANGED <<session, doc, synced, mode, pending, selected, warned, net, edits, misplaced>>

-----------------------------------------------------------------------------
\* The parameter panel of the selected operation.  Its draft is the
\* operation's own values whenever a handler starts.
Selected == Named(present, selected)
InSoftRange(v) == v = TinyAngle \/ v \in -8..8
NormalizeToSoftBoundary(v) == ((v + 8) % 16) - 8

ChangeParamTo(op, i, v) ==
    /\ Uses("params") /\ Spend
    /\ IF v = NotFinite THEN warned' = warned \ {i} /\ UNCHANGED <<doc, selected>>
       ELSE /\ Commit(UpdateOperation(present, [op EXCEPT !.params[i] = v]))
            /\ Select(selected)
            /\ warned' = IF history' # history THEN {}
                         ELSE IF InSoftRange(v) THEN warned \ {i} ELSE warned \cup {i}
    /\ UNCHANGED <<session, synced, mode, pending, drag, net, misplaced>>

ChangeParam(op, i) == \E v \in session.angles : ChangeParamTo(op, i, v)

\* A warning outlives its change only when the value was there already.
NormalizeParam(op, i) ==
    i \in warned /\ ChangeParamTo(op, i, NormalizeToSoftBoundary(op.params[i]))

-----------------------------------------------------------------------------
\* Columns, counted from 1 in the toolbar
Clamp(v, lo, hi) == IF v < lo THEN lo ELSE IF v > hi THEN hi ELSE v
MaxBeforeColumn == Clamp(CircuitDepth(present) + 1, 1, CircuitDepth(present) + 1)

InsertColumns(rawBefore, rawCount) ==
    /\ Uses("columns") /\ Spend
    /\ pending' = NoPending
    /\ Commit(InsertColumnsBefore(present, Clamp(rawBefore, 1, MaxBeforeColumn) - 1,
                                  IF rawCount < 1 THEN 1 ELSE rawCount))
    /\ Select(selected) /\ ClearFeedback
    /\ UNCHANGED <<session, synced, mode, drag, net, misplaced>>

DeleteEmptyColumns(rawBefore, rawCount) ==
    /\ Uses("columns") /\ Spend
    /\ pending' = NoPending
    /\ LET before == Clamp(rawBefore, 1, MaxBeforeColumn)
           count == Clamp(IF rawCount < 1 THEN 1 ELSE rawCount, 0, before - 1)
       IN  IF count > 0 /\ CanDeleteColumns(present, before - 1, count)
           THEN Commit(DeleteEmptyColumnsBefore(present, before - 1, count))
           ELSE UNCHANGED doc
    /\ Select(selected) /\ ClearFeedback
    /\ UNCHANGED <<session, synced, mode, drag, net, misplaced>>

\* What the toolbar does around the canvas, whose placement stays pending.
FromToolbar(tool) ==
    /\ Uses(tool) /\ Spend
    /\ Select(selected)
    /\ UNCHANGED <<session, synced, mode, pending, drag, net, misplaced>>

IncreaseQubits ==
    /\ CanIncrease(present, MaxQubits)
    /\ Push([present EXCEPT !.numQubits = @ + 1], timer)
    /\ FromToolbar("qubits") /\ UNCHANGED warned

DecreaseQubits ==
    /\ CanDecrease(present, MinQubits)
    /\ Push([present EXCEPT !.numQubits = @ - 1], timer)
    /\ FromToolbar("qubits") /\ UNCHANGED warned

ClearCircuit ==
    Push(CreateCircuit(present.numQubits), timer) /\ FromToolbar("clear") /\ ClearFeedback

LoadTemplate(name) ==
    Push(Template(name), timer) /\ FromToolbar("templates") /\ ClearFeedback

Undo ==
    /\ history.past # <<>>
    /\ LET h == Undone(history)
       IN  Turn(h, StepAfter(step, Total(present), Total(h.present)), timer)
    /\ FromToolbar("undo") /\ ClearFeedback

Redo ==
    /\ history.future # <<>>
    /\ LET h == Redone(history)
       IN  Turn(h, StepAfter(step, Total(present), Total(h.present)), timer)
    /\ FromToolbar("undo") /\ ClearFeedback

\* The draft goes with a reset; the save that the new circuit would cause is
\* the one that is skipped.
Reset ==
    /\ Uses("reset") /\ Spend
    /\ history' = Created(DefaultTemplate)
    /\ text' = ToQasm3(DefaultTemplate) /\ timer' = (timer \/ text' # text)
    /\ parseError' = FALSE
    /\ step' = Total(DefaultTemplate) /\ mode' = "FILTERED"
    /\ draft' = Nothing
    /\ Select(selected) /\ warned' = {}
    /\ overtyped' = FALSE
    /\ UNCHANGED <<session, synced, pending, drag, net, misplaced>>

SetStep(s) ==
    /\ Uses("step") /\ s # step /\ Spend
    /\ step' = s
    /\ UNCHANGED <<history, text, mode>> /\ Saved
    /\ UNCHANGED <<session, timer, parseError, synced, hand, net, overtyped, misplaced>>

SetMode(m) ==
    /\ Uses("step") /\ m # mode /\ Spend
    /\ mode' = m
    /\ UNCHANGED <<history, text, step>> /\ Saved
    /\ UNCHANGED <<session, timer, parseError, synced, hand, net, overtyped, misplaced>>

-----------------------------------------------------------------------------
\* The QASM pane
TypeText(t) ==
    /\ Uses("text") /\ t # text /\ Spend
    /\ text' = t /\ timer' = TRUE
    /\ UNCHANGED <<history, step, mode>> /\ Saved
    /\ overtyped' = (overtyped \/ synced \notin {<<>>, ToQasm3(present)})
    /\ UNCHANGED <<session, parseError, synced, hand, net, misplaced>>

Redeclares(t) ==
    LET declared == {i \in DOMAIN t : t[i].word = "qubit"}
    IN  \E i, j \in declared : i # j \/ t[i].params[1] = 0

\* 200 ms after the last change of the text.  The pane hands a circuit over
\* unless it handed over one of the same text last time.
ReadText ==
    /\ timer
    /\ LET parsed == FromQasm3(text)
           signature == ToQasm3(parsed.model)
       IN  IF ~parsed.ok
           THEN /\ parseError' = TRUE /\ timer' = FALSE
                /\ UNCHANGED <<history, text, step, draft, synced, overtyped, misplaced>>
           ELSE IF signature = synced \/ SameText(parsed.model, present)
           THEN /\ parseError' = FALSE /\ timer' = FALSE
                /\ synced' = signature
                /\ UNCHANGED <<history, text, step, draft, overtyped, misplaced>>
           ELSE /\ synced' = signature
                /\ Push(parsed.model, FALSE)
                /\ misplaced' = (misplaced \/ Redeclares(text))
    /\ Select(selected) /\ ClearFeedback
    /\ UNCHANGED <<session, mode, pending, drag, net, edits>>

-----------------------------------------------------------------------------
\* Projects
SaveProject ==
    /\ Uses("projects") /\ Spend
    /\ saving = {}
    /\ saving' = {DraftOf(present, text, 0, mode)}
    /\ UNCHANGED <<session, doc, synced, mode, hand, project, loading, misplaced>>

SaveServed ==
    /\ \E payload \in saving : project' = payload
    /\ saving' = {}
    /\ UNCHANGED <<session, doc, synced, mode, hand, loading, edits, misplaced>>

LoadProject ==
    /\ Uses("projects") /\ Spend
    /\ ~loading.asked /\ project # Nothing
    /\ loading' = [NotLoading EXCEPT !.asked = TRUE]
    /\ UNCHANGED <<session, doc, synced, mode, hand, project, saving, misplaced>>

LoadServed ==
    /\ loading.asked /\ ~loading.served
    /\ loading' = [asked |-> TRUE, served |-> TRUE, payload |-> project]
    /\ UNCHANGED <<session, doc, synced, mode, hand, project, saving, edits, misplaced>>

\* Whatever was edited since the load was asked for is replaced.
LoadAnswered ==
    /\ loading.served
    /\ LET payload == loading.payload IN
         /\ history' = Created(payload.circuit)
         /\ text' = ToQasm3(payload.circuit) /\ timer' = (timer \/ text' # text)
         /\ parseError' = FALSE
         /\ step' = StepAfter(step, Total(present), Total(payload.circuit))
         /\ mode' = payload.mode
    /\ Saved
    /\ loading' = NotLoading
    /\ Select(selected) /\ warned' = {}
    /\ overtyped' = FALSE
    /\ UNCHANGED <<session, synced, pending, drag, project, saving, edits, misplaced>>

CallFails ==
    /\ \/ saving # {} /\ saving' = {} /\ UNCHANGED loading
       \/ loading.asked /\ loading' = NotLoading /\ UNCHANGED saving
    /\ UNCHANGED <<session, doc, synced, mode, hand, project, edits, misplaced>>

-----------------------------------------------------------------------------
Next ==
    \/ \E cell \in Cells :
         \/ \E g \in session.palette : DropGate(g, cell[1], cell[2])
         \/ ClickOperation(cell[1], cell[2])
         \/ ClickPending(cell[1], cell[2])
         \/ DropMovedOperation(cell[1], cell[2])
    \/ CancelPlacement
    \/ \E op \in Ops(present) : DeleteOperation(op) \/ \E q \in Occupied(op) : DragStart(op, q)
    \/ DragEnd
    \/ \E op \in Selected : \E i \in DOMAIN op.params : ChangeParam(op, i) \/ NormalizeParam(op, i)
    \/ \E b, n \in 0..3 : InsertColumns(b, n) \/ DeleteEmptyColumns(b, n)
    \/ IncreaseQubits \/ DecreaseQubits \/ ClearCircuit \/ Undo \/ Redo \/ Reset
    \/ \E name \in session.templates : LoadTemplate(name)
    \/ \E s \in 0..Total(present) : SetStep(s)
    \/ \E m \in Modes : SetMode(m)
    \/ \E t \in session.texts : TypeText(t)
    \/ ReadText
    \/ SaveProject \/ SaveServed \/ LoadProject \/ LoadServed \/ LoadAnswered \/ CallFails
    \/ Reload

Spec == Init /\ [][Next]_vars

-----------------------------------------------------------------------------
\* The state is well formed, the time step within the circuit, and the
\* selection an operation that is there.
TypeOK ==
    /\ session \in Sessions
    /\ timer \in BOOLEAN /\ parseError \in BOOLEAN
    /\ step \in 0 .. Total(present)
    /\ mode \in Modes
    /\ selected = 0 \/ Selected # {}
    /\ drag.id \in Int /\ warned \subseteq 1..3
    /\ pending = NoPending \/ Len(pending.qubits) < Required(pending.gate)
    /\ Cardinality(saving) <= 1
    /\ edits \in 0 .. session.edits
    /\ overtyped \in BOOLEAN /\ misplaced \in BOOLEAN

Circuits(h) == ToSet(h.past) \cup {h.present} \cup ToSet(h.future)

\* Only commitCircuit and the parser validate; columns, qubits, templates,
\* undo, projects and drafts rely on what they start from.
HistoryWellFormed == \A c \in Circuits(history) : WellFormed(c)

\* With the pane at rest and no error shown, the text is the circuit's --
\* unless the user typed over the text of a circuit the pane had not read.
TextAgrees ==
    ~timer /\ ~parseError /\ ~overtyped =>
        \/ text = ToQasm3(present)
        \/ FromQasm3(text).ok /\ ToQasm3(FromQasm3(text).model) = ToQasm3(present)

\* The pane reads what the canvas prints, and reading it changes nothing:
\* it gives a circuit of the same text, and leaves no error (toQasm3,
\* fromQasm3) -- but for a placement that outlived the qubit it named, a text
\* that declared its register twice or empty, and an angle so small that it
\* is printed with an exponent.
OwnTextIsRead ==
    text = ToQasm3(present) /\ ~misplaced /\ (\A op \in Ops(present) : Printable(op)) =>
        /\ FromQasm3(text).ok /\ SameText(FromQasm3(text).model, present)
        /\ timer \/ ~parseError

\* Whenever the page is reloaded, the user finds the circuit, the time step
\* and the mode as they were (loadWorkbenchDraft, buildInitialState).
ReloadRestores ==
    LET m == Mounted(draft) IN m.history.present = present /\ m.step = step /\ m.mode = mode

\* Whatever the workbench would submit now, the server accepts -- unless a
\* placement outlived the qubit it named or a text declared its register
\* twice or empty.
Submittable == ~parseError /\ Validates(present)
SubmittedAccepted ==
    Submittable /\ ~misplaced =>
        (\A op \in Ops(present) : Buildable(op)) /\ ServerAccepts(PayloadOf(present))

\* Undo and redo move along one line of circuits of bounded length, and only
\* an edit, a reset or a load changes it.
Timeline == INSTANCE EditTimeline WITH
    Limit <- HistoryLimit,
    line <- history.past \o <<present>> \o history.future,
    at <- Len(history.past) + 1
ImplementsTimeline == Timeline!Spec
==============================================================================
