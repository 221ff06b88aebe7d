--------------------------- MODULE TaskExecution ---------------------------
(***************************************************************************)
(* The life of task rows from their creation to their last write: the      *)
(* dispatcher that publishes a task, the broker's queues, the code,        *)
(* circuit and hybrid workers with their retries, the cancel endpoint,     *)
(* worker loss and message redelivery. Every actor works on its own copy   *)
(* of the row (TaskRow); the properties are about what happens to a task   *)
(* when those copies are stale.                                            *)
(***************************************************************************)
EXTENDS TaskRow, Sequences, FiniteSets

CONSTANTS
    Tasks,            \* the tasks submitted
    Kind,             \* Tasks -> Kinds: the task_type of each task
    Workers,          \* worker processes
    Role,             \* Workers -> Kinds: the queue each one consumes
    Cancellers,       \* concurrent requests to the cancel endpoint
    MaxRetries,       \* TASK_MAX_RETRIES
    Faults,           \* the faults that may happen: "kill", "redeliver"
    MaxExtra,         \* bound: excess messages of one task
    NoTask            \* the task of an idle worker or canceller

Kinds == {"code", "circuit", "hybrid"}

ASSUME TasksAssumption == NoTask \notin Tasks
ASSUME KindAssumption == Kind \in [Tasks -> Kinds]
ASSUME RoleAssumption == Role \in [Workers -> Kinds]
ASSUME RetriesAssumption == MaxRetries \in Nat
ASSUME FaultsAssumption == Faults \subseteq {"kill", "redeliver"}
ASSUME ExtraAssumption == MaxExtra \in Nat

VARIABLES
    row,          \* the task table
    queue,        \* Kinds -> sequence of the tasks waiting in that queue
    dispatcher,   \* per task, where the submit request that created it stands
    extra,        \* per task, messages in excess of the one its submit counts on
    renewed,      \* tasks whose idempotency record had its TTL restarted
    lost,         \* tasks whose worker was killed while it held them
    wpc,          \* per worker: the step it is at
    wtask,        \*             the task it holds
    wrow,         \*             its session's copy of the row
    witer,        \*             hybrid iterations of this attempt
    cpc, ctask, crow  \* per cancel request: step, task, copy of the row

brokerVars == <<queue, extra>>
workerVars == <<wpc, wtask, wrow, witer>>
cancelVars == <<cpc, ctask, crow>>
vars == <<row, brokerVars, dispatcher, renewed, lost, workerVars, cancelVars>>

WorkerSteps == {"idle", "load", "start", "started", "run", "evaluate",
                "progressed", "final", "finish", "renew"}

TypeOK ==
    /\ row \in [Tasks -> Row]
    /\ queue \in [Kinds -> Seq(Tasks)]
    /\ dispatcher \in [Tasks -> {"created", "queued", "failing", "failed"}]
    /\ extra \in [Tasks -> 0 .. MaxExtra]
    /\ renewed \in SUBSET Tasks
    /\ lost \in SUBSET Tasks
    /\ wpc \in [Workers -> WorkerSteps]
    /\ wtask \in [Workers -> Tasks \cup {NoTask}]
    /\ wrow \in [Workers -> Row]
    /\ witer \in [Workers -> 0 .. MaxIterations]
    /\ cpc \in [Cancellers -> {"idle", "commit"}]
    /\ ctask \in [Cancellers -> Tasks \cup {NoTask}]
    /\ crow \in [Cancellers -> Row]
    /\ \A w \in Workers : wpc[w] # "idle" => wtask[w] \in Tasks
    /\ \A c \in Cancellers : cpc[c] # "idle" => ctask[c] \in Tasks

Init ==
    /\ row = [t \in Tasks |-> NewRow]
    /\ queue = [k \in Kinds |-> << >>]
    /\ dispatcher = [t \in Tasks |-> "created"]
    /\ extra = [t \in Tasks |-> 0]
    /\ renewed = {}
    /\ lost = {}
    /\ wpc = [w \in Workers |-> "idle"]
    /\ wtask = [w \in Workers |-> NoTask]
    /\ wrow = [w \in Workers |-> NewRow]
    /\ witer = [w \in Workers |-> 0]
    /\ cpc = [c \in Cancellers |-> "idle"]
    /\ ctask = [c \in Cancellers |-> NoTask]
    /\ crow = [c \in Cancellers |-> NewRow]

----------------------------------------------------------------------------
(* TaskDispatchService: the last steps of a submit request. *)

Enqueue(t) == queue' = [queue EXCEPT ![Kind[t]] = Append(@, t)]

\* The broker holds one message more than the submit request knows of.
Excess(t) ==
    /\ "redeliver" \in Faults
    /\ extra[t] < MaxExtra
    /\ Enqueue(t)
    /\ extra' = [extra EXCEPT ![t] = @ + 1]

\* Faulty variant: the message is never sent.
PublishDropped(t) ==
    /\ dispatcher[t] = "created"
    /\ dispatcher' = [dispatcher EXCEPT ![t] = "queued"]
    /\ UNCHANGED <<row, brokerVars, renewed, lost, workerVars, cancelVars>>

Publish(t) ==
    /\ dispatcher[t] = "created"
    /\ Enqueue(t)
    /\ dispatcher' = [dispatcher EXCEPT ![t] = "queued"]
    /\ UNCHANGED <<row, extra, renewed, lost, workerVars, cancelVars>>

\* Faulty variants: the failure of a later statement is taken for a failed
\* publication; the failure is not written to the row.
PublishFailsLate(t) ==
    /\ dispatcher[t] = "queued"
    /\ row' = [row EXCEPT ![t] = Flush(Failed(NewRow, "FAILURE"), NewRow, @)]
    /\ dispatcher' = [dispatcher EXCEPT ![t] = "failing"]
    /\ UNCHANGED <<brokerVars, renewed, lost, workerVars, cancelVars>>

PublishFailsUnmarked(t) ==
    /\ dispatcher[t] = "created"
    /\ dispatcher' = [dispatcher EXCEPT ![t] = "failing"]
    /\ UNCHANGED <<row, brokerVars, renewed, lost, workerVars, cancelVars>>

\* The broker refused the message. Without an idempotency key the request
\* still holds the copy it created; with one, binding the key expired the
\* copy and mark_failure reads the row again. mark_failure raises on a
\* terminal copy, and the request ends there. The broker may have stored a
\* message whose publication it then failed to confirm.
PublishFails(t) ==
    /\ dispatcher[t] = "created"
    /\ \/ UNCHANGED brokerVars
       \/ Excess(t)
    /\ \E copy \in {NewRow, row[t]} :
          \/ /\ IsTerminal(copy)
             /\ dispatcher' = [dispatcher EXCEPT ![t] = "failed"]
             /\ UNCHANGED row
          \/ /\ ~IsTerminal(copy)
             /\ row' = [row EXCEPT ![t] = Flush(Failed(copy, "FAILURE"), copy, @)]
             /\ dispatcher' = [dispatcher EXCEPT ![t] = "failing"]
    /\ UNCHANGED <<renewed, lost, workerVars, cancelVars>>

RenewAfterFailure(t) ==
    /\ dispatcher[t] = "failing"
    /\ dispatcher' = [dispatcher EXCEPT ![t] = "failed"]
    /\ renewed' = renewed \cup {t}
    /\ UNCHANGED <<row, brokerVars, lost, workerVars, cancelVars>>

\* The broker delivers at least once: a message may come back.
Redeliver(t) ==
    /\ dispatcher[t] = "queued"
    /\ Excess(t)
    /\ UNCHANGED <<row, dispatcher, renewed, lost, workerVars, cancelVars>>

----------------------------------------------------------------------------
(* The workers: run_quantum_task, run_circuit_task and run_hybrid_task. *)

Goto(w, step) ==
    /\ wpc' = [wpc EXCEPT ![w] = step]
    /\ UNCHANGED wtask

\* The job function returns or raises; the message was acknowledged early,
\* so the worker is done with the task either way.
Leave(w) ==
    /\ wpc' = [wpc EXCEPT ![w] = "idle"]
    /\ wtask' = [wtask EXCEPT ![w] = NoTask]
    /\ wrow' = [wrow EXCEPT ![w] = NewRow]
    /\ witer' = [witer EXCEPT ![w] = 0]

\* TaskLifecycleService._persist up to the commit.
Persist(w, mem) ==
    /\ row' = [row EXCEPT ![wtask[w]] = Flush(mem, wrow[w], @)]
    /\ wrow' = [wrow EXCEPT ![w] = mem]

\* session.refresh(task)
Refresh(w) ==
    /\ wrow' = [wrow EXCEPT ![w] = row[wtask[w]]]
    /\ UNCHANGED row

\* The worker's session still believes the task may change (_assert_mutable).
Mutable(w) == ~IsTerminal(wrow[w])

Take(w) ==
    /\ wpc[w] = "idle"
    /\ queue[Role[w]] # << >>
    /\ wpc' = [wpc EXCEPT ![w] = "load"]
    /\ wtask' = [wtask EXCEPT ![w] = Head(queue[Role[w]])]
    /\ queue' = [queue EXCEPT ![Role[w]] = Tail(@)]
    /\ UNCHANGED <<row, extra, dispatcher, renewed, lost, wrow, witer, cancelVars>>

\* Only the hybrid worker looks at the status it loads.
Load(w) ==
    /\ wpc[w] = "load"
    /\ \/ /\ Role[w] = "hybrid" /\ row[wtask[w]].status = "CANCELLED"
          /\ Leave(w)
          /\ UNCHANGED row
       \/ /\ ~(Role[w] = "hybrid" /\ row[wtask[w]].status = "CANCELLED")
          /\ Refresh(w)
          /\ Goto(w, "start")
          /\ UNCHANGED witer
    /\ UNCHANGED <<brokerVars, dispatcher, renewed, lost, cancelVars>>

\* Faulty variant: start_attempt accepts a terminal copy.
StartAttemptUnchecked(w) ==
    /\ wpc[w] = "start"
    /\ Persist(w, Started(wrow[w]))
    /\ Goto(w, "started")
    /\ witer' = [witer EXCEPT ![w] = 0]
    /\ UNCHANGED <<brokerVars, dispatcher, renewed, lost, cancelVars>>

\* Faulty variant: start_attempt refuses every copy that is not PENDING.
StartAttemptOnlyPending(w) ==
    /\ wpc[w] = "start"
    /\ \/ wrow[w].status # "PENDING" /\ Leave(w) /\ UNCHANGED row
       \/ /\ wrow[w].status = "PENDING"
          /\ Persist(w, Started(wrow[w]))
          /\ Goto(w, "started")
          /\ witer' = [witer EXCEPT ![w] = 0]
    /\ UNCHANGED <<brokerVars, dispatcher, renewed, lost, cancelVars>>

\* start_attempt is outside the try block: its ValueError ends the job.
StartAttempt(w) ==
    /\ wpc[w] = "start"
    /\ \/ ~Mutable(w) /\ Leave(w) /\ UNCHANGED row
       \/ /\ Mutable(w)
          /\ Persist(w, Started(wrow[w]))
          /\ Goto(w, "started")
          /\ witer' = [witer EXCEPT ![w] = 0]
    /\ UNCHANGED <<brokerVars, dispatcher, renewed, lost, cancelVars>>

RefreshStarted(w) ==
    /\ wpc[w] = "started"
    /\ Refresh(w)
    /\ Goto(w, "run")
    /\ UNCHANGED <<brokerVars, dispatcher, renewed, lost, witer, cancelVars>>

Errors(kind) ==
    CASE kind = "code"    -> {"timeout", "transient", "fatal"}
      [] kind = "circuit" -> {"timeout", "transient"}
      [] kind = "hybrid"  -> {"transient"}

\* Faulty variant: one retry too many.
CanRetryOnceMore(attempt, err) == err = "transient" /\ attempt <= MaxRetries + 1

\* RetryPolicy.can_retry
CanRetry(attempt, err) == err = "transient" /\ attempt <= MaxRetries

\* The verdict of the except branch on an error that is not retried.
ErrorVerdict(err) ==
    CASE err = "timeout"   -> "TIMEOUT"
      [] err = "transient" -> "RETRY_EXHAUSTED"
      [] err = "fatal"     -> "FAILURE"

\* Faulty variant: the verdict is written and the TTL is not renewed.
FailWithoutRenewal(w, err) ==
    \/ /\ CanRetry(wrow[w].attempt, err)
       /\ Goto(w, "start")
       /\ UNCHANGED <<row, wrow, witer>>
    \/ /\ ~CanRetry(wrow[w].attempt, err)
       /\ Leave(w)
       /\ \/ ~Mutable(w) /\ UNCHANGED row
          \/ /\ Mutable(w)
             /\ row' = [row EXCEPT ![wtask[w]] =
                           Flush(Failed(wrow[w], ErrorVerdict(err)), wrow[w], @)]

\* The except branch: back off and try again, or write the verdict. On a
\* terminal copy the lifecycle raises and no TTL is renewed.
Fail(w, err) ==
    \/ /\ CanRetry(wrow[w].attempt, err)
       /\ Goto(w, "start")
       /\ UNCHANGED <<row, wrow, witer>>
    \/ /\ ~CanRetry(wrow[w].attempt, err)
       /\ ~Mutable(w)
       /\ Leave(w)
       /\ UNCHANGED row
    \/ /\ ~CanRetry(wrow[w].attempt, err)
       /\ Mutable(w)
       /\ Persist(w, Failed(wrow[w], ErrorVerdict(err)))
       /\ Goto(w, "renew")
       /\ UNCHANGED witer

\* Faulty variant: mark_success does not look at the status.
MarkSuccessUnchecked(w) ==
    /\ Persist(w, Succeeded(wrow[w]))
    /\ Goto(w, "renew")
    /\ UNCHANGED witer

\* mark_success inside the try block: on a terminal copy its ValueError is
\* caught by the except branch, which treats it as a retryable error.
MarkSuccess(w) ==
    \/ /\ Mutable(w)
       /\ Persist(w, Succeeded(wrow[w]))
       /\ Goto(w, "renew")
       /\ UNCHANGED witer
    \/ ~Mutable(w) /\ Fail(w, "transient")

\* A code or circuit attempt comes back from its execution backend.
Execute(w) ==
    /\ wpc[w] = "run"
    /\ Role[w] # "hybrid"
    /\ \/ MarkSuccess(w)
       \/ \E err \in Errors(Role[w]) : Fail(w, err)
    /\ UNCHANGED <<brokerVars, dispatcher, renewed, lost, cancelVars>>

\* should_stop() before an objective evaluation. A cancelled summary makes
\* mark_cancelled return at once, the copy being CANCELLED already.
CheckStop(w) ==
    /\ wpc[w] = "run"
    /\ Role[w] = "hybrid"
    /\ Refresh(w)
    /\ \/ row[wtask[w]].status = "CANCELLED" /\ Goto(w, "renew")
       \/ row[wtask[w]].status # "CANCELLED" /\ Goto(w, "evaluate")
    /\ UNCHANGED <<brokerVars, dispatcher, renewed, lost, witer, cancelVars>>

\* One objective evaluation and its on_iteration callback (mark_progress).
Evaluate(w) ==
    /\ wpc[w] = "evaluate"
    /\ \/ /\ Mutable(w)
          /\ Persist(w, Progressed(wrow[w], witer[w] + 1))
          /\ witer' = [witer EXCEPT ![w] = @ + 1]
          /\ Goto(w, "progressed")
       \/ \E err \in Errors("hybrid") : Fail(w, err)
    /\ UNCHANGED <<brokerVars, dispatcher, renewed, lost, cancelVars>>

\* Faulty variant: one iteration too many.
NextIterationOffByOne(w) ==
    /\ wpc[w] = "progressed"
    /\ Refresh(w)
    /\ \/ witer[w] <= MaxIterations /\ Goto(w, "run")
       \/ Goto(w, "final")
    /\ UNCHANGED <<brokerVars, dispatcher, renewed, lost, witer, cancelVars>>

\* _persist refreshes the copy; the optimiser then goes on, or stops by
\* convergence, by its own decision or at max_iterations.
NextIteration(w) ==
    /\ wpc[w] = "progressed"
    /\ Refresh(w)
    /\ \/ witer[w] < MaxIterations /\ Goto(w, "run")
       \/ Goto(w, "final")
    /\ UNCHANGED <<brokerVars, dispatcher, renewed, lost, witer, cancelVars>>

\* The last _should_stop() of run_vqe_experiment decides the summary's state.
FinalCheck(w) ==
    /\ wpc[w] = "final"
    /\ Refresh(w)
    /\ \/ row[wtask[w]].status = "CANCELLED" /\ Goto(w, "renew")
       \/ row[wtask[w]].status # "CANCELLED" /\ Goto(w, "finish")
    /\ UNCHANGED <<brokerVars, dispatcher, renewed, lost, witer, cancelVars>>

FinishHybrid(w) ==
    /\ wpc[w] = "finish"
    /\ MarkSuccess(w)
    /\ UNCHANGED <<brokerVars, dispatcher, renewed, lost, cancelVars>>

\* refresh_terminal_ttl, a commit of its own after the verdict's commit.
RenewTtl(w) ==
    /\ wpc[w] = "renew"
    /\ renewed' = renewed \cup {wtask[w]}
    /\ Leave(w)
    /\ UNCHANGED <<row, brokerVars, dispatcher, lost, cancelVars>>

\* The process dies, or Celery's hard time limit kills it. Its message was
\* acknowledged when it was taken: nobody continues the task.
Kill(w) ==
    /\ "kill" \in Faults
    /\ wpc[w] # "idle"
    /\ lost' = lost \cup {wtask[w]}
    /\ Leave(w)
    /\ UNCHANGED <<row, brokerVars, dispatcher, renewed, cancelVars>>

----------------------------------------------------------------------------
(* TaskQueryService.cancel_task: load, test, commit. *)

\* Faulty variant: a finished task can be cancelled.
CancelLoadUnchecked(c, t) ==
    /\ cpc[c] = "idle"
    /\ cpc' = [cpc EXCEPT ![c] = "commit"]
    /\ ctask' = [ctask EXCEPT ![c] = t]
    /\ crow' = [crow EXCEPT ![c] = row[t]]
    /\ UNCHANGED <<row, brokerVars, dispatcher, renewed, lost, workerVars>>

CancelLoad(c, t) ==
    /\ cpc[c] = "idle"
    /\ ~IsTerminal(row[t])
    /\ cpc' = [cpc EXCEPT ![c] = "commit"]
    /\ ctask' = [ctask EXCEPT ![c] = t]
    /\ crow' = [crow EXCEPT ![c] = row[t]]
    /\ UNCHANGED <<row, brokerVars, dispatcher, renewed, lost, workerVars>>

CancelCommit(c) ==
    /\ cpc[c] = "commit"
    /\ row' = [row EXCEPT ![ctask[c]] = Flush(Cancelled(crow[c]), crow[c], @)]
    /\ cpc' = [cpc EXCEPT ![c] = "idle"]
    /\ ctask' = [ctask EXCEPT ![c] = NoTask]
    /\ crow' = [crow EXCEPT ![c] = NewRow]
    /\ UNCHANGED <<brokerVars, dispatcher, renewed, lost, workerVars>>

----------------------------------------------------------------------------
DispatchStep(t) == Publish(t) \/ PublishFails(t) \/ RenewAfterFailure(t)

WorkerStep(w) ==
    \/ Take(w) \/ Load(w) \/ StartAttempt(w) \/ RefreshStarted(w) \/ Execute(w)
    \/ CheckStop(w) \/ Evaluate(w) \/ NextIteration(w) \/ FinalCheck(w)
    \/ FinishHybrid(w) \/ RenewTtl(w)

Next ==
    \/ \E t \in Tasks : DispatchStep(t) \/ Redeliver(t)
    \/ \E w \in Workers : WorkerStep(w) \/ Kill(w)
    \/ \E c \in Cancellers : CancelCommit(c) \/ \E t \in Tasks : CancelLoad(c, t)

Spec == Init /\ [][Next]_vars

(***************************************************************************)
(* A request handler runs to its end, a worker process keeps consuming and *)
(* every execution is bounded by a timeout. Nothing makes a fault, or the  *)
(* first step of a cancel request, happen.                                 *)
(***************************************************************************)
Fairness ==
    /\ \A t \in Tasks : WF_vars(DispatchStep(t))
    /\ \A w \in Workers : WF_vars(WorkerStep(w))
    /\ \A c \in Cancellers : WF_vars(CancelCommit(c))

FairSpec == Spec /\ Fairness

----------------------------------------------------------------------------
(* Properties. *)

\* Every session that could still write t holds a terminal copy of it.
Settled(t) ==
    /\ IsTerminal(row[t])
    /\ dispatcher[t] # "created"
    /\ \A w \in Workers :
          wtask[w] = t /\ wpc[w] # "load" => IsTerminal(wrow[w])
    /\ \A c \in Cancellers : ctask[c] # t

\* No message of t reached a worker beyond the one its submit published.
OneDelivery(t) == extra[t] = 0

(***************************************************************************)
(* The last writer of a verdict leaves the payload that goes with it: a    *)
(* SUCCESS row has its final result and no error, a failed row an error    *)
(* and no result, even when the writer's copy was stale and a cancel       *)
(* request or earlier progress snapshots touched the row in between        *)
(* (TaskLifecycleService.mark_success, _mark_error_terminal).              *)
(***************************************************************************)
VerdictMatchesPayload ==
    \A t \in Tasks : OneDelivery(t) =>
        /\ row[t].status = "SUCCESS" =>
              row[t].result = FullResult /\ ~row[t].error /\ row[t].finished
        /\ row[t].status \in Verdicts \ {"SUCCESS"} =>
              row[t].result = NoResult /\ row[t].error /\ row[t].finished

(***************************************************************************)
(* Nobody writes over a cancellation that the task's worker has seen: from *)
(* the refresh that shows CANCELLED on, through retries, errors and the    *)
(* final verdict, the row stays CANCELLED (_assert_mutable, should_stop).  *)
(***************************************************************************)
CancelObservedSticks ==
    [][\A w \in Workers :
          /\ wpc[w] \notin {"idle", "load"}
          /\ extra'[wtask[w]] = 0
          /\ wrow[w].status = "CANCELLED"
          => row'[wtask[w]].status = "CANCELLED"]_vars

(***************************************************************************)
(* No task is executed more often than the retry policy allows; every      *)
(* excess message may add one attempt, since start_attempt counts on from  *)
(* the row it loads (RetryPolicy.can_retry, start_attempt).                *)
(***************************************************************************)
AttemptsBounded ==
    \A t \in Tasks : row[t].attempt <= MaxRetries + 1 + extra[t]

(***************************************************************************)
(* The TTL of an idempotency record restarts only after a terminal status  *)
(* is in the table, whoever wrote it (the refresh_terminal_ttl calls).     *)
(***************************************************************************)
RenewedOnlyTerminal ==
    \A t \in renewed : OneDelivery(t) => IsTerminal(row[t])

(***************************************************************************)
(* Once every session that holds the task has seen it terminal, its row is *)
(* never written again, whatever messages are delivered later, and no      *)
(* session takes a live copy again. This is the immutability that the      *)
(* guards of TaskLifecycleService do give.                                 *)
(***************************************************************************)
SettledFrozen ==
    [][\A t \in Tasks : Settled(t) => row'[t] = row[t] /\ Settled(t)']_vars

(***************************************************************************)
(* No task is forgotten. As long as its row is not terminal, some actor is *)
(* still bound to move it: the request that will publish it, a message in  *)
(* its queue, or a worker that has not read the row yet or holds a live    *)
(* copy; or the worker that had it was killed. The workers acknowledge on  *)
(* delivery and give up on a terminal copy without looking at the row      *)
(* (start_attempt, _assert_mutable, the two commits of a verdict), so this *)
(* is what none of their early exits may break, however many messages the  *)
(* task has.                                                               *)
(***************************************************************************)
NoTaskForgotten ==
    \A t \in Tasks : ~IsTerminal(row[t]) =>
        \/ dispatcher[t] = "created"
        \/ \E i \in 1 .. Len(queue[Kind[t]]) : queue[Kind[t]][i] = t
        \/ \E w \in Workers : wtask[w] = t /\ (wpc[w] = "load" \/ Mutable(w))
        \/ t \in lost

(***************************************************************************)
(* With one delivery a verdict is final but for a cancel request that read *)
(* the row before it: no second verdict and no return to RUNNING.          *)
(***************************************************************************)
VerdictStands ==
    [][\A t \in Tasks :
          OneDelivery(t)' /\ row[t].status \in Verdicts
          => row'[t].status \in {row[t].status, "CANCELLED"}]_vars

(***************************************************************************)
(* The requirement as the specification documents state it, for a          *)
(* cancelled task that was queued: a terminal status is immutable. The     *)
(* code does not keep it: a worker that loaded the row before the cancel   *)
(* request committed writes RUNNING or its verdict over CANCELLED.         *)
(***************************************************************************)
CancelIsFinal ==
    [][\A t \in Tasks :
          dispatcher[t] = "queued" /\ row[t].status = "CANCELLED"
          => row'[t].status = "CANCELLED"]_vars

(***************************************************************************)
(* Every submitted task comes to rest, through retries, cancellations and  *)
(* stale verdicts; the only task that may stay RUNNING for ever is one     *)
(* whose worker was killed, for its message was acknowledged on delivery.  *)
(***************************************************************************)
EveryTaskSettlesOrIsLost ==
    \A t \in Tasks : <>[](Settled(t) \/ t \in lost)

(***************************************************************************)
(* A task that gets a verdict has the TTL of its idempotency record        *)
(* restarted, unless the worker is killed between the two commits.         *)
(***************************************************************************)
VerdictsRenewed ==
    \A t \in Tasks :
        row[t].status \in Verdicts ~> (t \in renewed \/ t \in lost)

\* The rows implement the abstract task statuses.
Outcome == INSTANCE TaskOutcome WITH
    status <- [t \in Tasks |-> row[t].status],
    settled <- [t \in Tasks |-> Settled(t)]

(***************************************************************************)
(* Every step of the platform is a step of TaskOutcome or leaves its       *)
(* status and settled flag alone.                                          *)
(***************************************************************************)
ImplementsOutcome == Outcome!Spec
============================================================================
