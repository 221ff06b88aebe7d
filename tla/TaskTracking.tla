---------------------------- MODULE TaskTracking ----------------------------
(***************************************************************************)
(* How one view of the browser follows the task it submitted:              *)
(* useTaskRuntime with its two strategies, useTaskStatusTracking, the      *)
(* event stream it listens to, and the HTTP calls it has in flight. The    *)
(* workbench is "stream-first" (its hybrid mode can also cancel), the code *)
(* editor "polling-only" (it also loads the result of a finished task).    *)
(*                                                                         *)
(* JavaScript runs one callback at a time, so each callback is one action; *)
(* what interleaves is when calls are served and when their answers and    *)
(* the events of the stream arrive. The platform is abstract: a task moves *)
(* from PENDING to RUNNING to a verdict, and a cancel request served while *)
(* the task is active cancels it.                                          *)
(***************************************************************************)
EXTENDS Naturals, Sequences

CONSTANTS
    Tasks,        \* the tasks the view's submissions may create
    NoTask,
    Strategies,   \* the tracking strategies considered
    Calls,        \* bound: the calls that may be in flight at a time
    Outcomes,     \* the verdicts the platform may reach
    MaxSubmits,   \* bound: submissions
    MaxBuffer,    \* bound: events sent and not yet delivered
    Faults        \* "streamEnds", "callFails"

ASSUME TasksAssumption == NoTask \notin Tasks
ASSUME StrategiesAssumption == Strategies \subseteq {"stream-first", "polling-only"}
ASSUME OutcomesAssumption ==
    Outcomes \subseteq {"SUCCESS", "FAILURE", "TIMEOUT", "RETRY_EXHAUSTED"}
ASSUME BoundsAssumption == MaxSubmits \in Nat /\ MaxBuffer \in Nat \ {0}
ASSUME FaultsAssumption == Faults \subseteq {"streamEnds", "callFails"}

VARIABLES
    status,      \* platform: the status of each task, "none" before it exists
    strategy,    \* trackingStrategy of the view
    taskId,      \* React state: the task shown
    taskStatus,  \*              the status shown for it
    submitting,  \*              submittingTask
    tracked,     \* trackedTaskIdRef
    latest,      \* latestStatusRef
    mode,        \* trackingMode of useTaskStatusTracking
    timer,       \* the task the polling interval asks for
    stream,      \* streamRef: the task of the current connection
    open,        \* the tasks whose connections are not closed
    sent,        \* per task: the status last sent on its connection
    buffer,      \* per task: the events under way on its connection
    call,        \* the HTTP calls in flight
    loadedFor,   \* lastLoadedResultTaskIdRef
    submits,     \* submissions so far
    misled       \* history: see Misleading

trackVars == <<tracked, latest, mode>>
streamVars == <<stream, open, sent, buffer>>
vars == <<status, strategy, taskId, taskStatus, submitting, trackVars, timer,
          streamVars, call, loadedFor, submits, misled>>

Active == {"PENDING", "RUNNING"}
Terminal == {"CANCELLED", "SUCCESS", "FAILURE", "TIMEOUT", "RETRY_EXHAUSTED"}
Statuses == Active \cup Terminal

NoCall == [kind |-> "free", task |-> NoTask, answer |-> "none"]

StreamFirst == strategy = "stream-first"

TypeOK ==
    /\ status \in [Tasks -> Statuses \cup {"none"}]
    /\ strategy \in Strategies
    /\ taskId \in Tasks \cup {NoTask}
    /\ taskStatus \in Statuses \cup {"none"}
    /\ submitting \in BOOLEAN
    /\ tracked \in Tasks \cup {NoTask}
    /\ latest \in Statuses \cup {"none"}
    /\ mode \in {"idle", "sse", "polling"}
    /\ timer \in Tasks \cup {NoTask}
    /\ stream \in Tasks \cup {NoTask}
    /\ open \in SUBSET Tasks
    /\ sent \in [Tasks -> Statuses \cup {"none"}]
    /\ buffer \in [Tasks -> Seq(Statuses)]
    /\ call \in [Calls -> [kind : {"free", "status", "result", "cancel", "submit"},
                           task : Tasks \cup {NoTask},
                           answer : Statuses \cup {"none", "error"}]]
    /\ loadedFor \in Tasks \cup {NoTask}
    /\ submits \in 0 .. MaxSubmits
    /\ misled \in BOOLEAN

Init ==
    /\ status = [t \in Tasks |-> "none"]
    /\ strategy \in Strategies
    /\ taskId = NoTask /\ taskStatus = "none" /\ submitting = FALSE
    /\ tracked = NoTask /\ latest = "none" /\ mode = "idle"
    /\ timer = NoTask
    /\ stream = NoTask /\ open = {}
    /\ sent = [t \in Tasks |-> "none"]
    /\ buffer = [t \in Tasks |-> << >>]
    /\ call = [c \in Calls |-> NoCall]
    /\ loadedFor = NoTask
    /\ submits = 0
    /\ misled = FALSE

----------------------------------------------------------------------------
(* The platform. *)

Start(t) ==
    /\ status[t] = "PENDING"
    /\ status' = [status EXCEPT ![t] = "RUNNING"]
    /\ UNCHANGED <<strategy, taskId, taskStatus, submitting, trackVars, timer,
                   streamVars, call, loadedFor, submits, misled>>

End(t) ==
    /\ status[t] \in Active
    /\ \E verdict \in Outcomes : status' = [status EXCEPT ![t] = verdict]
    /\ UNCHANGED <<strategy, taskId, taskStatus, submitting, trackVars, timer,
                   streamVars, call, loadedFor, submits, misled>>

\* The polling loop of stream_task_events sends a task that changed since
\* the last poll of this connection.
StreamPoll(t) ==
    /\ t \in open
    /\ status[t] # sent[t]
    /\ Len(buffer[t]) < MaxBuffer
    /\ sent' = [sent EXCEPT ![t] = status[t]]
    /\ buffer' = [buffer EXCEPT ![t] = Append(@, status[t])]
    /\ UNCHANGED <<status, strategy, taskId, taskStatus, submitting, trackVars,
                   timer, stream, open, call, loadedFor, submits, misled>>

----------------------------------------------------------------------------
(* HTTP calls. *)

Free(c) == call[c].kind = "free"

Ask(c, kind, t) == call' = [call EXCEPT ![c] = [kind |-> kind, task |-> t, answer |-> "none"]]

\* What a call does on the server; t is the task a submission leads to, an
\* existing one when it is deduplicated.
Effect(c, t) ==
    \/ /\ call[c].kind \in {"status", "result"}
       /\ t = call[c].task
       /\ UNCHANGED status
    \/ /\ call[c].kind = "cancel"
       /\ t = call[c].task
       /\ status' = IF status[t] \in Active
                    THEN [status EXCEPT ![t] = "CANCELLED"] ELSE status
    \/ /\ call[c].kind = "submit"
       /\ \/ status[t] = "none" /\ status' = [status EXCEPT ![t] = "PENDING"]
          \/ StreamFirst /\ status[t] # "none" /\ UNCHANGED status

Serve(c) ==
    /\ call[c].answer = "none"
    /\ \E t \in Tasks :
          /\ Effect(c, t)
          /\ call' = [call EXCEPT ![c].task = t, ![c].answer = status'[t]]
    /\ UNCHANGED <<strategy, taskId, taskStatus, submitting, trackVars, timer,
                   streamVars, loadedFor, submits, misled>>

\* The call fails before it is served, or its answer is lost.
CallFails(c) ==
    /\ "callFails" \in Faults
    /\ ~Free(c)
    /\ call[c].answer = "none"
    /\ \/ UNCHANGED status
       \/ \E t \in Tasks : Effect(c, t)
    /\ call' = [call EXCEPT ![c].answer = "error"]
    /\ UNCHANGED <<strategy, taskId, taskStatus, submitting, trackVars, timer,
                   streamVars, loadedFor, submits, misled>>

----------------------------------------------------------------------------
(* useTaskStatusTracking *)

\* A connection ends; what was under way on it is lost.
Drop(t) ==
    /\ open' = open \ {t}
    /\ sent' = [u \in Tasks |-> IF u = t THEN "none" ELSE sent[u]]
    /\ buffer' = [u \in Tasks |-> IF u = t THEN << >> ELSE buffer[u]]

\* stopStream
StopStream == Drop(stream) /\ stream' = NoTask

\* stopTracking
StopTracking ==
    /\ StopStream
    /\ timer' = NoTask
    /\ tracked' = NoTask
    /\ mode' = "idle"

\* Faulty variant: a terminal status leaves the tracking running.
ApplyTaskStatusGoesOn(st) ==
    /\ latest' = st
    /\ taskStatus' = st
    /\ UNCHANGED <<streamVars, timer, tracked, mode>>

\* applyTaskStatus
ApplyTaskStatus(st) ==
    /\ latest' = st
    /\ taskStatus' = st
    /\ IF st \in Terminal THEN StopTracking
       ELSE UNCHANGED <<streamVars, timer, tracked, mode>>

\* startTracking and startStreamTracking: a new connection, which the server
\* begins with the current status.
StartTracking(t, st) ==
    /\ latest' = st
    /\ \/ st \in Terminal /\ StopTracking
       \/ /\ st \in Active
          /\ tracked' = t
          /\ timer' = NoTask
          /\ stream' = t
          /\ open' = open \cup {t}
          /\ mode' = "sse"
          /\ UNCHANGED <<sent, buffer>>

----------------------------------------------------------------------------
(* useTaskRuntime and its users *)

\* The effect of the polling-only strategy, run when taskId or taskStatus
\* changed.
PollingEffect ==
    IF <<taskId, taskStatus>>' = <<taskId, taskStatus>> THEN UNCHANGED timer
    ELSE timer' = IF taskId' # NoTask /\ taskStatus' \in Active THEN taskId' ELSE NoTask

\* The effect of useCodeTaskRun: the result of a task newly seen to succeed
\* is loaded, by the call slot that becomes free.
ResultEffect(c) ==
    IF /\ <<taskId, taskStatus>>' # <<taskId, taskStatus>>
       /\ taskStatus' = "SUCCESS"
       /\ loadedFor # taskId'
    THEN loadedFor' = taskId' /\ Ask(c, "result", taskId')
    ELSE UNCHANGED loadedFor /\ call' = [call EXCEPT ![c] = NoCall]

\* What the view shows becomes t and st, in the polling-only strategy.
ShowPolled(c, t, st) ==
    /\ taskId' = t
    /\ taskStatus' = st
    /\ PollingEffect
    /\ ResultEffect(c)
    /\ UNCHANGED <<trackVars, streamVars>>

\* Faulty variant: the tracking of the previous task goes on.
SubmitKeepsTracking(c) ==
    /\ ~submitting
    /\ Free(c)
    /\ submits < MaxSubmits
    /\ submits' = submits + 1
    /\ submitting' = TRUE
    /\ Ask(c, "submit", NoTask)
    /\ loadedFor' = NoTask
    /\ UNCHANGED <<status, strategy, taskId, taskStatus, trackVars, streamVars,
                   timer, misled>>

\* submitTaskRequest up to its await; the button is disabled meanwhile.
Submit(c) ==
    /\ ~submitting
    /\ Free(c)
    /\ submits < MaxSubmits
    /\ submits' = submits + 1
    /\ submitting' = TRUE
    /\ Ask(c, "submit", NoTask)
    /\ \/ StreamFirst /\ StopTracking /\ UNCHANGED latest
       \/ ~StreamFirst /\ timer' = NoTask /\ UNCHANGED <<trackVars, streamVars>>
    /\ loadedFor' = NoTask
    /\ UNCHANGED <<status, strategy, taskId, taskStatus, misled>>

\* submitTaskRequest after its await. A new task starts with a clean slate.
SubmitAnswered(c) ==
    /\ call[c].kind = "submit"
    /\ call[c].answer \in Statuses
    /\ submitting' = FALSE
    /\ misled' = FALSE
    /\ \/ /\ StreamFirst
          /\ taskId' = call[c].task
          /\ taskStatus' = call[c].answer
          /\ StartTracking(call[c].task, call[c].answer)
          /\ call' = [call EXCEPT ![c] = NoCall]
          /\ UNCHANGED loadedFor
       \/ ~StreamFirst /\ ShowPolled(c, call[c].task, call[c].answer)
    /\ UNCHANGED <<status, strategy, submits>>

\* The catch branch. The task shown before stays, and nobody follows it.
SubmitRejected(c) ==
    /\ call[c].kind = "submit"
    /\ call[c].answer = "error"
    /\ submitting' = FALSE
    /\ call' = [call EXCEPT ![c] = NoCall]
    /\ \/ StreamFirst /\ StopTracking
       \/ ~StreamFirst /\ UNCHANGED <<timer, tracked, mode, streamVars>>
    /\ misled' = (misled \/ taskStatus \in Active)
    /\ UNCHANGED <<status, strategy, taskId, taskStatus, latest, loadedFor, submits>>

\* The polling interval.
PollTick(c) ==
    /\ timer # NoTask
    /\ Free(c)
    /\ Ask(c, "status", timer)
    /\ UNCHANGED <<status, strategy, taskId, taskStatus, submitting, trackVars,
                   timer, streamVars, loadedFor, submits, misled>>

\* The code editor's buttons refresh the status and load the result.
Refresh(c) ==
    /\ ~StreamFirst
    /\ taskId # NoTask
    /\ Free(c)
    /\ \E kind \in {"status", "result"} : Ask(c, kind, taskId)
    /\ UNCHANGED <<status, strategy, taskId, taskStatus, submitting, trackVars,
                   timer, streamVars, loadedFor, submits, misled>>

(***************************************************************************)
(* An answer misleads the view if it is about another task than the one    *)
(* shown, or older than an end already shown.                              *)
(***************************************************************************)
Misleading(t, st) == t # taskId \/ (taskStatus \in Terminal /\ st \in Active)

\* Faulty variant: an error is taken for a status.
StatusAnsweredUnchecked(c) ==
    /\ call[c].kind \in {"status", "result"}
    /\ call[c].answer # "none"
    /\ taskStatus' = call[c].answer
    /\ call' = [call EXCEPT ![c] = NoCall]
    /\ UNCHANGED <<status, strategy, taskId, submitting, trackVars, timer,
                   streamVars, loadedFor, submits, misled>>

\* pollTaskStatus, refreshTaskStatus and loadResult after their await.
StatusAnswered(c) ==
    /\ call[c].kind \in {"status", "result"}
    /\ call[c].answer \in Statuses
    /\ misled' = (misled \/ Misleading(call[c].task, call[c].answer))
    /\ \/ /\ StreamFirst
          /\ ApplyTaskStatus(call[c].answer)
          /\ call' = [call EXCEPT ![c] = NoCall]
          /\ UNCHANGED <<taskId, loadedFor>>
       \/ ~StreamFirst /\ ShowPolled(c, taskId, call[c].answer)
    /\ UNCHANGED <<status, strategy, submitting, submits>>

\* The error is shown; polling goes on.
StatusRejected(c) ==
    /\ call[c].kind \in {"status", "result", "cancel"}
    /\ call[c].answer = "error"
    /\ call' = [call EXCEPT ![c] = NoCall]
    /\ UNCHANGED <<status, strategy, taskId, taskStatus, submitting, trackVars,
                   timer, streamVars, loadedFor, submits, misled>>

\* onCancelHybrid; canCancel enables its button.
Cancel(c) ==
    /\ StreamFirst
    /\ taskId # NoTask /\ mode # "idle" /\ taskStatus # "CANCELLED"
    /\ Free(c)
    /\ Ask(c, "cancel", taskId)
    /\ UNCHANGED <<status, strategy, taskId, taskStatus, submitting, trackVars,
                   timer, streamVars, loadedFor, submits, misled>>

\* CANCELLED is shown whatever the answer says and whatever is shown by now;
\* applyTaskStatus of useTaskRuntime is the setter and leaves the tracking.
CancelAnswered(c) ==
    /\ call[c].kind = "cancel"
    /\ call[c].answer \in Statuses
    /\ taskStatus' = "CANCELLED"
    /\ call' = [call EXCEPT ![c] = NoCall]
    /\ misled' = (misled \/ call[c].task # taskId \/ call[c].answer # "CANCELLED")
    /\ UNCHANGED <<status, strategy, taskId, submitting, trackVars, timer,
                   streamVars, loadedFor, submits>>

\* onStatus: an event of another task than the tracked one is dropped.
StreamEvent(t) ==
    /\ t \in open
    /\ buffer[t] # << >>
    /\ IF tracked = t /\ Head(buffer[t]) \in Terminal
       THEN ApplyTaskStatus(Head(buffer[t]))
       ELSE /\ buffer' = [buffer EXCEPT ![t] = Tail(@)]
            /\ UNCHANGED <<stream, open, sent, timer, tracked, mode>>
            /\ IF tracked = t
               THEN latest' = Head(buffer[t]) /\ taskStatus' = Head(buffer[t])
               ELSE UNCHANGED <<latest, taskStatus>>
    /\ UNCHANGED <<status, strategy, taskId, submitting, call, loadedFor, submits, misled>>

\* Faulty variant: a connection that ends is forgotten.
StreamEndsUnpolled(t) ==
    /\ "streamEnds" \in Faults
    /\ t \in open
    /\ Drop(t)
    /\ stream' = NoTask
    /\ UNCHANGED <<status, strategy, taskId, taskStatus, submitting, trackVars,
                   timer, call, loadedFor, submits, misled>>

\* onError or onDisconnect of a connection nobody closed: startPolling, whose
\* first call goes out at once. Closing the connection in it keeps the
\* second of the two callbacks from being called.
StreamEnds(t) ==
    /\ "streamEnds" \in Faults
    /\ t \in open
    /\ Drop(t)
    /\ \/ /\ tracked = t /\ latest \in Active
          /\ stream' = NoTask
          /\ timer' = t
          /\ mode' = "polling"
          /\ \E c \in Calls : Free(c) /\ Ask(c, "status", t)
       \/ /\ ~(tracked = t /\ latest \in Active)
          /\ UNCHANGED <<stream, timer, mode, call>>
    /\ UNCHANGED <<status, strategy, taskId, taskStatus, submitting, tracked,
                   latest, loadedFor, submits, misled>>
----------------------------------------------------------------------------
Next ==
    \/ \E t \in Tasks :
          \/ Start(t) \/ End(t) \/ StreamPoll(t)
          \/ StreamEvent(t) \/ StreamEnds(t)
    \/ \E c \in Calls :
          \/ Serve(c) \/ CallFails(c)
          \/ Submit(c) \/ SubmitAnswered(c) \/ SubmitRejected(c)
          \/ PollTick(c) \/ Refresh(c) \/ StatusAnswered(c) \/ StatusRejected(c)
          \/ Cancel(c) \/ CancelAnswered(c)

Spec == Init /\ [][Next]_vars

\* An answer that has arrived is handled.
Answered(c) ==
    SubmitAnswered(c) \/ SubmitRejected(c) \/ StatusAnswered(c) \/ StatusRejected(c)
        \/ CancelAnswered(c)

\* Timers fire, the event loop handles what arrives, the server's loop polls
\* the table, and not every status call fails.
Fairness ==
    /\ \A t \in Tasks : WF_vars(StreamPoll(t)) /\ WF_vars(StreamEvent(t))
    /\ \A c \in Calls :
          /\ WF_vars(Answered(c))
          /\ WF_vars(Serve(c))
          /\ SF_vars(call[c].kind = "status" /\ Serve(c))
    /\ SF_vars(\E c \in Calls : PollTick(c))

FairSpec == Spec /\ Fairness

----------------------------------------------------------------------------
(* Properties. *)

(***************************************************************************)
(* The refs and the timer of the two hooks, which several callbacks write, *)
(* agree: a stream-first view listens to one connection or polls or does   *)
(* neither, as trackingMode says, for the task it tracks, which is the one *)
(* shown (use-task-status-tracking.ts); a polling-only view polls only the *)
(* active task it shows (use-task-runtime.ts).                             *)
(***************************************************************************)
SourcesAgree ==
    IF StreamFirst
    THEN /\ open = (IF mode = "sse" THEN {tracked} ELSE {})
         /\ timer = (IF mode = "polling" THEN tracked ELSE NoTask)
         /\ mode = "idle" <=> tracked = NoTask
         /\ tracked # NoTask => tracked = taskId /\ latest \in Active
    ELSE /\ open = {}
         /\ timer # NoTask => timer = taskId /\ taskStatus \in Active

Over == taskId # NoTask /\ status[taskId] \in Terminal

\* The view of a task that is over comes to rest, on whatever path its last
\* status arrived: nothing polls or listens for ever.
TrackingEnds == <>[](Over => timer = NoTask /\ open = {})

\* The end of the task shown is shown in the end, through failing calls and
\* ending streams, unless an answer misled the view.
EndShownUnlessMisled == <>[](Over => taskStatus = status[taskId] \/ misled)

\* Requirement 2.2 of the task center: an end is reflected in the browser.
\* An answer for the task submitted before, or one older than the end already
\* shown, is applied all the same.
EndIsShown == <>[](Over => taskStatus = status[taskId])
=============================================================================
