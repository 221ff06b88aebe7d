------------------------------ MODULE TaskCenter ------------------------------
(***************************************************************************)
(* The task center: the server's polling loop that turns rows into events, *)
(* and the screen that joins the events with the answers of its list and   *)
(* detail calls.  Every callback of the browser is one action; calls are   *)
(* served and answered in any order.                                       *)
(***************************************************************************)
EXTENDS Integers, Sequences, SequencesExt, Subsequences

CONSTANTS
    Tasks,
    Finished,       \* those that had ended before
    Hybrid,         \* those that run through iterations
    Iterations,     \* how many
    StreamLimits,   \* MAX_STREAM_TASKS: the values explored
    MaxCalls,       \* bound: calls in flight, per kind
    MaxActions      \* bound: what the user does, streams that end, calls that fail

None == "none"

ASSUME TaskCenterAssumption ==
    /\ IsFiniteSet(Tasks) /\ None \notin Tasks
    /\ Finished \subseteq Tasks /\ Hybrid \subseteq Tasks /\ Iterations \in Nat /\ StreamLimits \subseteq Nat \ {0}
    /\ MaxCalls \in [{"list", "detail"} -> Nat \ {0}] /\ MaxActions \in Nat

VARIABLES
    limit,     \* the value of MAX_STREAM_TASKS
    rows,      \* the platform: status and iteration of every task
    recent,    \* the tasks, the last updated first
    conn,      \* the stream: open, the versions it sent, events under way, iterations it delivered
    list,      \* the screen: the status shown per task ("none": not listed)
    filter,    \*             statusFilter
    selected,  \*             selectedTaskId
    detail,    \*             the detail shown
    down,      \*             streamDisconnected
    flight,    \* list and detail calls in flight, per kind, the oldest first
    passed,    \* history: what is shown came late or not at all, per kind
    actions

tcVars == <<limit, rows, recent, conn, list, filter, selected, detail, down, flight, passed, actions>>
platformVars == <<limit, rows, recent>>
screenVars == <<list, filter, selected, detail>>

Statuses == {"RUNNING", "SUCCESS"}
Filters == {"ALL", "RUNNING"}
HasEnded(t) == rows[t].status # "RUNNING"
Version(t) == rows[t]
Unsent == [status |-> None, iteration |-> 0]
Subscribed == [open |-> TRUE, sent |-> [t \in Tasks |-> Unsent], events |-> <<>>,
               points |-> [t \in Tasks |-> <<>>]]
Kinds == {"list", "detail"}
NewCall(key) == [key |-> key, served |-> FALSE, answer |-> [t \in Tasks |-> None], late |-> FALSE]
Asking(kind, key) == [flight EXCEPT ![kind] = Append(@, NewCall(key))]

TcInit ==
    /\ limit \in StreamLimits
    /\ rows = [t \in Tasks |-> [status |-> IF t \in Finished THEN "SUCCESS" ELSE "RUNNING", iteration |-> 0]]
    /\ recent = SetToSeq(Tasks)
    /\ conn = Subscribed /\ down = FALSE
    /\ list = [t \in Tasks |-> None] /\ filter = "ALL" /\ selected = None
    /\ detail = [task |-> None, status |-> None]
    /\ flight = [kind \in Kinds |-> IF kind = "list" THEN <<NewCall("ALL")>> ELSE <<>>]
    /\ passed = [kind \in Kinds |-> FALSE]
    /\ actions = 0

(***************************************************************************)
(* The platform writes a row; updated_at puts the task first.              *)
(***************************************************************************)
Updates(t, row) ==
    /\ rows' = [rows EXCEPT ![t] = row]
    /\ recent' = <<t>> \o Among(recent, Tasks \ {t})
    /\ UNCHANGED <<limit, conn, screenVars, down, flight, passed, actions>>
Iterate(t) ==
    t \in Hybrid /\ ~HasEnded(t) /\ rows[t].iteration < Iterations /\ Updates(t, [rows[t] EXCEPT !.iteration = @ + 1])
End(t) == ~HasEnded(t) /\ Updates(t, [rows[t] EXCEPT !.status = "SUCCESS"])

(***************************************************************************)
(* TaskEventStreamService.list_changed_tasks: one poll sends what changed  *)
(* among the tasks updated last, and the iterations since the last version.*)
(***************************************************************************)
Window == {recent[i] : i \in {k \in DOMAIN recent : k <= limit}}
Changed == Among(recent, {t \in Window : conn.sent[t] # Version(t)})
\* Faulty variant: the last version sent is not looked at.
NewIterationsAgain(t) == [k \in 1 .. rows[t].iteration |-> k]

NewIterations(t) ==
    [k \in 1 .. rows[t].iteration - conn.sent[t].iteration |-> conn.sent[t].iteration + k]
Event(t) == [task |-> t, status |-> rows[t].status, iterations |-> NewIterations(t)]
StreamPoll ==
    /\ conn.open /\ Changed # <<>>
    /\ conn.events = <<>>  \* bound: the events of one poll under way
    /\ conn' = [conn EXCEPT
         !.sent = [t \in Tasks |-> IF t \in Window THEN Version(t) ELSE @[t]],
         !.events = [k \in DOMAIN Changed |-> Event(Changed[k])]]
    /\ UNCHANGED <<platformVars, screenVars, down, flight, passed, actions>>

(***************************************************************************)
(* The screen's calls.  A call is late when a younger one of its kind, or  *)
(* an event that knows more, was there first.                              *)
(***************************************************************************)
Room(kind) == Len(flight[kind]) < MaxCalls[kind]
Serve(kind, i) ==
    /\ ~flight[kind][i].served
    /\ LET key == flight[kind][i].key
           Listed(t) == IF kind = "detail" THEN t = key ELSE key \in {"ALL", rows[t].status} IN
       flight' = [flight EXCEPT ![kind][i].served = TRUE,
                    ![kind][i].answer = [t \in Tasks |-> IF Listed(t) THEN rows[t].status ELSE None]]
    /\ UNCHANGED <<platformVars, conn, screenVars, down, passed, actions>>
Overtaken(calls, i) == [j \in DOMAIN calls |-> [calls[j] EXCEPT !.late = @ \/ j < i]]
Taken(kind, i, late) ==
    /\ flight' = [flight EXCEPT ![kind] = RemoveAt(Overtaken(@, i), i)]
    /\ passed' = [passed EXCEPT ![kind] = late]
\* setTasks, setDetail: whichever answer comes is shown.
Arrive(kind, i) ==
    /\ flight[kind][i].served
    /\ LET call == flight[kind][i] IN
       /\ Taken(kind, i, call.late)
       /\ IF kind = "list"
          THEN list' = call.answer /\ UNCHANGED detail
          ELSE detail' = [task |-> call.key, status |-> call.answer[call.key]] /\ UNCHANGED list
    /\ UNCHANGED <<platformVars, conn, filter, selected, down, actions>>
CallFails(kind, i) ==
    /\ actions < MaxActions /\ actions' = actions + 1
    /\ Taken(kind, i, TRUE)
    /\ UNCHANGED <<platformVars, conn, screenVars, down>>

(***************************************************************************)
(* The screen's stream and its fallback (useTaskCenterRealtime).           *)
(***************************************************************************)
Marked(calls, event) == [j \in DOMAIN calls |->
    [calls[j] EXCEPT !.late = @ \/ (calls[j].served /\ calls[j].answer[event.task] \notin {None, event.status})]]
\* Faulty variant: the detail on show is not loaded again.
NotRefreshed(calls, t) == calls

Refreshed(calls, t) == IF selected = t THEN Append(calls, NewCall(t)) ELSE calls
Deliver ==
    /\ conn.events # <<>> /\ Room("detail")
    /\ LET event == Head(conn.events)
           t == event.task IN
       /\ conn' = [conn EXCEPT !.events = Tail(@), !.points[t] = @ \o event.iterations]
       /\ list' = [list EXCEPT ![t] = IF @ = None THEN None ELSE event.status]
       /\ flight' = [list |-> Marked(flight["list"], event), detail |-> Refreshed(flight["detail"], t)]
    /\ UNCHANGED <<platformVars, filter, selected, detail, down, passed, actions>>
StreamEnds ==
    /\ conn.open /\ actions < MaxActions /\ actions' = actions + 1
    /\ conn' = [Subscribed EXCEPT !.open = FALSE] /\ down' = TRUE
    /\ UNCHANGED <<platformVars, screenVars, flight, passed>>
\* The interval of 3 s.
PollTick ==
    /\ down /\ Room("list") /\ Room("detail")
    /\ flight' = [list |-> Append(flight["list"], NewCall(filter)),
                  detail |-> IF selected = None THEN flight["detail"] ELSE Append(flight["detail"], NewCall(selected))]
    /\ UNCHANGED <<platformVars, conn, screenVars, down, passed, actions>>

(***************************************************************************)
(* The user.  A new selection changes the callbacks that the stream's      *)
(* effect depends on: the stream is opened anew.                           *)
(***************************************************************************)
Acts == actions < MaxActions /\ actions' = actions + 1
        /\ UNCHANGED <<platformVars, list, detail, passed>>
Select(t) ==
    /\ Acts /\ selected # t /\ Room("detail")
    /\ selected' = t /\ flight' = Asking("detail", t)
    /\ conn' = Subscribed /\ down' = FALSE
    /\ UNCHANGED filter
SetFilter(f) ==
    /\ Acts /\ filter # f /\ Room("list")
    /\ filter' = f /\ flight' = Asking("list", f)
    /\ UNCHANGED <<conn, down, selected>>
Reconnect ==
    /\ Acts /\ down
    /\ conn' = Subscribed /\ down' = FALSE
    /\ UNCHANGED <<filter, selected, flight>>
Refresh ==
    /\ Acts /\ Room("list") /\ flight' = Asking("list", filter)
    /\ UNCHANGED <<conn, down, filter, selected>>

TcNext ==
    \/ \E t \in Tasks : Iterate(t) \/ End(t) \/ Select(t)
    \/ StreamPoll \/ Deliver \/ StreamEnds \/ PollTick
    \/ \E kind \in Kinds : \E i \in DOMAIN flight[kind] : Serve(kind, i) \/ Arrive(kind, i) \/ CallFails(kind, i)
    \/ (\E f \in Filters : SetFilter(f)) \/ Reconnect \/ Refresh

TcTypeOK ==
    /\ limit \in StreamLimits
    /\ rows \in [Tasks -> [status : Statuses, iteration : 0 .. Iterations]]
    /\ ToSet(recent) = Tasks
    /\ list \in [Tasks -> Statuses \cup {None}] /\ filter \in Filters
    /\ selected \in Tasks \cup {None}
    /\ detail \in [task : Tasks \cup {None}, status : Statuses \cup {None}]
    /\ conn.open \in BOOLEAN /\ down \in BOOLEAN
    /\ passed \in [Kinds -> BOOLEAN]
    /\ (\A kind \in Kinds : Len(flight[kind]) <= MaxCalls[kind]) /\ actions \in 0 .. MaxActions

Crowded(t) == t \notin Window

\* Over one connection every iteration of a task comes once and in order
\* (list_changed_tasks, _to_hybrid_iteration_payloads).
IterationsInOrder ==
    \A t \in Tasks : conn.points[t] = [k \in 1 .. Len(conn.points[t]) |-> k]

\* The list and the detail come to show the rows as they are, and the detail
\* that of the selected task, unless the last answer was overtaken or lost
\* or the task is not among those the stream follows.
CenterFollows ==
    <>[](/\ \A t \in Tasks : list[t] \in {None, rows[t].status} \/ passed["list"] \/ Crowded(t)
         /\ selected # None =>
              detail = [task |-> selected, status |-> rows[selected].status] \/ passed["detail"] \/ Crowded(selected))
===============================================================================
