---------------------------- MODULE TaskSubmit ----------------------------
(***************************************************************************)
(* TaskSubmitService.submit run by concurrent request handlers: cleanup of *)
(* expired idempotency records, resolution of the key, admission by queue  *)
(* depth, creation of the row, binding of the key and dispatch, each a     *)
(* commit or a read of its own. The workers and the cancel endpoint appear *)
(* by what they do to a task's status and to its record; TaskExecution has *)
(* them in full.                                                           *)
(*                                                                         *)
(* A request creates at most one task, so a request also names its task.   *)
(***************************************************************************)
EXTENDS Naturals, Sequences, FiniteSets

CONSTANTS
    Requests,       \* submit requests
    Keys,           \* (tenant, user, Idempotency-Key) triples
    KeyOf,          \* Requests -> Keys \cup {NoKey}
    NoKey,
    NoTask,
    Never,          \* expires_at is NULL
    MaxInProgress,  \* threads that run request handlers
    MaxDepth,       \* QUEUE_MAX_DEPTH
    CleanupLimit,   \* IDEMPOTENCY_CLEANUP_BATCH_SIZE
    Ttl,            \* IDEMPOTENCY_TTL_HOURS
    MaxClock,       \* bound: the last instant of a run
    Faults          \* the faults that may happen: "crash", "lose"

ASSUME KeyOfAssumption == /\ NoKey \notin Keys
                          /\ KeyOf \in [Requests -> Keys \cup {NoKey}]
ASSUME NoTaskAssumption == NoTask \notin Requests
ASSUME NeverAssumption == Never \notin Nat
ASSUME LimitsAssumption == /\ MaxInProgress \in Nat \ {0}
                           /\ MaxDepth \in Nat \ {0}
                           /\ CleanupLimit \in Nat \ {0}
                           /\ Ttl \in Nat \ {0}
                           /\ MaxClock \in Nat

VARIABLES
    clock,
    status,    \* per task: "none" before its row exists, "live", "terminal"
    record,    \* Keys -> the idempotency record of the key
    queue,     \* the broker's queue
    stage,     \* per task: where it is on the worker side
    rpc,       \* per request: the step it is at
    now,       \*              the instant it read the clock
    seen,      \*              the record it found for its key
    victims,   \*              the records its cleanup selected
    answer     \*              what it was answered: an outcome and a task

requestVars == <<rpc, now, seen, victims, answer>>
vars == <<clock, status, record, queue, stage, requestVars>>

Times == 0 .. MaxClock + Ttl

Record == [task: Requests, expires: Times \cup {Never}]

NoRecord == [task |-> NoTask, expires |-> Never]

Outcomes == {"none", "created", "deduplicated", "overloaded", "conflict",
             "publish_failed", "aborted"}

Steps == {"idle", "cleanup", "delete", "find", "resolve", "unexpire", "forget",
          "admit", "create", "bind", "dispatch", "renew", "done"}

Keyed(r) == KeyOf[r] # NoKey

TypeOK ==
    /\ clock \in 0 .. MaxClock
    /\ status \in [Requests -> {"none", "live", "terminal"}]
    /\ record \in [Keys -> Record \cup {NoRecord}]
    /\ queue \in Seq(Requests)
    /\ stage \in [Requests -> {"none", "queued", "running", "finished", "gone"}]
    /\ rpc \in [Requests -> Steps]
    /\ now \in [Requests -> 0 .. MaxClock]
    /\ seen \in [Requests -> Record \cup {NoRecord}]
    /\ victims \in [Requests -> SUBSET (Keys \X Requests)]
    /\ answer \in [Requests -> [outcome: Outcomes, task: Requests \cup {NoTask}]]

Init ==
    /\ clock = 0
    /\ status = [r \in Requests |-> "none"]
    /\ record = [k \in Keys |-> NoRecord]
    /\ queue = << >>
    /\ stage = [r \in Requests |-> "none"]
    /\ rpc = [r \in Requests |-> "idle"]
    /\ now = [r \in Requests |-> 0]
    /\ seen = [r \in Requests |-> NoRecord]
    /\ victims = [r \in Requests |-> {}]
    /\ answer = [r \in Requests |-> [outcome |-> "none", task |-> NoTask]]

----------------------------------------------------------------------------
Goto(r, step) ==
    /\ rpc' = [rpc EXCEPT ![r] = step]
    /\ UNCHANGED answer

Proceed(r, step) == Goto(r, step) /\ UNCHANGED <<now, seen>>

\* The request ends; what it had read is forgotten.
Reply(r, outcome, task) ==
    /\ rpc' = [rpc EXCEPT ![r] = "done"]
    /\ answer' = [answer EXCEPT ![r] = [outcome |-> outcome, task |-> task]]
    /\ now' = [now EXCEPT ![r] = 0]
    /\ seen' = [seen EXCEPT ![r] = NoRecord]

InProgress == {r \in Requests : rpc[r] \notin {"idle", "done"}}

Expired(rec, instant) == rec.expires # Never /\ rec.expires <= instant

\* Faulty variant: the cleanup query does not look at the task.
RemovableAny(instant) ==
    {k \in Keys : record[k] # NoRecord /\ Expired(record[k], instant)}

\* Keys whose record the cleanup query selects.
Removable(instant) ==
    {k \in Keys : /\ record[k] # NoRecord
                  /\ Expired(record[k], instant)
                  /\ status[record[k].task] = "terminal"}

\* The step after the cleanup: the key is looked up if there is one.
AfterCleanup(r) == IF Keyed(r) THEN "find" ELSE "admit"

Begin(r) ==
    /\ rpc[r] = "idle"
    /\ Cardinality(InProgress) < MaxInProgress
    /\ now' = [now EXCEPT ![r] = clock]
    /\ Goto(r, "cleanup")
    /\ UNCHANGED <<clock, status, record, queue, stage, seen, victims>>

\* The cleanup selects at most CleanupLimit records, all of them if they fit.
CleanupSelect(r) ==
    /\ rpc[r] = "cleanup"
    /\ \E S \in SUBSET Removable(now[r]) :
          /\ \/ S = Removable(now[r]) /\ Cardinality(S) <= CleanupLimit
             \/ Cardinality(S) = CleanupLimit
          /\ victims' = [victims EXCEPT ![r] = {<<k, record[k].task>> : k \in S}]
          /\ Goto(r, IF S = {} THEN AfterCleanup(r) ELSE "delete")
    /\ UNCHANGED <<clock, status, record, queue, stage, now, seen>>

\* The commit deletes by identity: a record bound since to another task stays.
CleanupDelete(r) ==
    /\ rpc[r] = "delete"
    /\ record' = [k \in Keys |-> IF <<k, record[k].task>> \in victims[r]
                                 THEN NoRecord ELSE record[k]]
    /\ victims' = [victims EXCEPT ![r] = {}]
    /\ Goto(r, AfterCleanup(r))
    /\ UNCHANGED <<clock, status, queue, stage, now, seen>>

----------------------------------------------------------------------------
(* IdempotencyService.resolve_existing_task *)

FindRecord(r) ==
    /\ rpc[r] = "find"
    /\ seen' = [seen EXCEPT ![r] = record[KeyOf[r]]]
    /\ Goto(r, IF record[KeyOf[r]] = NoRecord THEN "admit" ELSE "resolve")
    /\ UNCHANGED <<clock, status, record, queue, stage, now, victims>>

\* Faulty variant: an expired record is forgotten whatever its task does.
ResolveTaskByExpiry(r) ==
    /\ rpc[r] = "resolve"
    /\ IF Expired(seen[r], now[r]) THEN Proceed(r, "forget")
       ELSE Reply(r, "deduplicated", seen[r].task)
    /\ UNCHANGED <<clock, status, record, queue, stage, victims>>

ResolveTask(r) ==
    /\ rpc[r] = "resolve"
    /\ LET live == status[seen[r].task] = "live"
           expired == Expired(seen[r], now[r])
       IN  \/ ~expired /\ Reply(r, "deduplicated", seen[r].task)
           \/ expired /\ live /\ Proceed(r, "unexpire")
           \/ expired /\ ~live /\ Proceed(r, "forget")
    /\ UNCHANGED <<clock, status, record, queue, stage, victims>>

\* The record of a live task loses its expiry. If the record is gone by
\* now, the UPDATE matches no row and the request fails.
Unexpire(r) ==
    /\ rpc[r] = "unexpire"
    /\ \/ /\ record[KeyOf[r]].task = seen[r].task
          /\ record' = [record EXCEPT ![KeyOf[r]].expires = Never]
          /\ Reply(r, "deduplicated", seen[r].task)
       \/ /\ record[KeyOf[r]].task # seen[r].task
          /\ Reply(r, "conflict", NoTask)
          /\ UNCHANGED record
    /\ UNCHANGED <<clock, status, queue, stage, victims>>

\* An expired record of a terminal task is deleted and the submission is new.
Forget(r) ==
    /\ rpc[r] = "forget"
    /\ record' = IF record[KeyOf[r]].task = seen[r].task
                 THEN [record EXCEPT ![KeyOf[r]] = NoRecord] ELSE record
    /\ Proceed(r, "admit")
    /\ UNCHANGED <<clock, status, queue, stage, victims>>

----------------------------------------------------------------------------
(* Admission, creation, binding, dispatch. *)

\* Faulty variant: off by one at the limit.
AdmitOneMore(r) ==
    /\ rpc[r] = "admit"
    /\ \/ Len(queue) > MaxDepth + 1 /\ Reply(r, "overloaded", NoTask)
       \/ Len(queue) <= MaxDepth + 1 /\ Proceed(r, "create")
    /\ UNCHANGED <<clock, status, record, queue, stage, victims>>

\* BackpressureService: only a depth above the limit is refused.
Admit(r) ==
    /\ rpc[r] = "admit"
    /\ \/ Len(queue) > MaxDepth /\ Reply(r, "overloaded", NoTask)
       \/ Len(queue) <= MaxDepth /\ Proceed(r, "create")
    /\ UNCHANGED <<clock, status, record, queue, stage, victims>>

Create(r) ==
    /\ rpc[r] = "create"
    /\ status' = [status EXCEPT ![r] = "live"]
    /\ Proceed(r, IF Keyed(r) THEN "bind" ELSE "dispatch")
    /\ UNCHANGED <<clock, record, queue, stage, victims>>

\* A key bound meanwhile makes the lookup raise or the unique constraint
\* refuse the insert; the row just created stays behind, never dispatched.
Bind(r) ==
    /\ rpc[r] = "bind"
    /\ \/ /\ record[KeyOf[r]] # NoRecord
          /\ Reply(r, "conflict", NoTask)
          /\ UNCHANGED record
       \/ /\ record[KeyOf[r]] = NoRecord
          /\ record' = [record EXCEPT ![KeyOf[r]] =
                          [task |-> r, expires |-> now[r] + Ttl]]
          /\ Proceed(r, "dispatch")
    /\ UNCHANGED <<clock, status, queue, stage, victims>>

\* Faulty variant: the request replies without publishing.
DispatchUnsent(r) ==
    /\ rpc[r] = "dispatch"
    /\ stage' = [stage EXCEPT ![r] = "queued"]
    /\ Reply(r, "created", r)
    /\ UNCHANGED <<clock, status, record, queue, victims>>

Dispatch(r) ==
    /\ rpc[r] = "dispatch"
    /\ queue' = Append(queue, r)
    /\ stage' = [stage EXCEPT ![r] = "queued"]
    /\ Reply(r, "created", r)
    /\ UNCHANGED <<clock, status, record, victims>>

\* The broker refuses the message: mark_failure, then the TTL restarts from
\* failed_at. A task cancelled meanwhile makes mark_failure raise.
DispatchFails(r) ==
    /\ rpc[r] = "dispatch"
    /\ status' = [status EXCEPT ![r] = "terminal"]
    /\ \/ /\ Keyed(r) /\ status[r] = "live"
          /\ now' = [now EXCEPT ![r] = clock]
          /\ Goto(r, "renew")
          /\ UNCHANGED seen
       \/ ~(Keyed(r) /\ status[r] = "live") /\ Reply(r, "publish_failed", r)
    /\ UNCHANGED <<clock, record, queue, stage, victims>>

\* Faulty variant: the TTL is added twice.
RenewedTwice(t, instant) ==
    IF Keyed(t) /\ record[KeyOf[t]].task = t
    THEN [record EXCEPT ![KeyOf[t]].expires = instant + Ttl + Ttl]
    ELSE record

\* refresh_terminal_ttl: the record bound to task t, if any, expires Ttl
\* after the instant of the verdict.
Renewed(t, instant) ==
    IF Keyed(t) /\ record[KeyOf[t]].task = t
    THEN [record EXCEPT ![KeyOf[t]].expires = instant + Ttl]
    ELSE record

RenewFailed(r) ==
    /\ rpc[r] = "renew"
    /\ record' = Renewed(r, now[r])
    /\ Reply(r, "publish_failed", r)
    /\ UNCHANGED <<clock, status, queue, stage, victims>>

\* The server process dies in the middle of a request.
Abort(r) ==
    /\ "crash" \in Faults
    /\ r \in InProgress
    /\ Reply(r, "aborted", NoTask)
    /\ victims' = [victims EXCEPT ![r] = {}]
    /\ UNCHANGED <<clock, status, record, queue, stage>>

----------------------------------------------------------------------------
(* The other actors, by their effect. *)

\* A worker starts the task; a task cancelled meanwhile is dropped.
Take ==
    /\ queue # << >>
    /\ queue' = Tail(queue)
    /\ stage' = [stage EXCEPT ![Head(queue)] =
                   IF status[Head(queue)] = "live" THEN "running" ELSE "gone"]
    /\ UNCHANGED <<clock, status, record, requestVars>>

\* The worker writes its verdict. If the task was cancelled under it, it
\* may instead end without touching the row or the record.
Finish(t) ==
    /\ stage[t] = "running"
    /\ status' = [status EXCEPT ![t] = "terminal"]
    /\ \E next \in {"finished", "gone"} :
          /\ next = "gone" => status[t] = "terminal"
          /\ stage' = [stage EXCEPT ![t] = next]
    /\ UNCHANGED <<clock, record, queue, requestVars>>

Renew(t) ==
    /\ stage[t] = "finished"
    /\ record' = Renewed(t, clock)
    /\ stage' = [stage EXCEPT ![t] = "gone"]
    /\ UNCHANGED <<clock, status, queue, requestVars>>

LoseWorker(t) ==
    /\ "lose" \in Faults
    /\ stage[t] \in {"running", "finished"}
    /\ stage' = [stage EXCEPT ![t] = "gone"]
    /\ UNCHANGED <<clock, status, record, queue, requestVars>>

\* The cancel endpoint marks the row and leaves the record alone.
Cancel(t) ==
    /\ status[t] = "live"
    /\ status' = [status EXCEPT ![t] = "terminal"]
    /\ UNCHANGED <<clock, record, queue, stage, requestVars>>

Tick ==
    /\ clock < MaxClock
    /\ clock' = clock + 1
    /\ UNCHANGED <<status, record, queue, stage, requestVars>>

----------------------------------------------------------------------------
Handle(r) ==
    \/ CleanupSelect(r) \/ CleanupDelete(r) \/ FindRecord(r) \/ ResolveTask(r)
    \/ Unexpire(r) \/ Forget(r) \/ Admit(r) \/ Create(r) \/ Bind(r)
    \/ Dispatch(r) \/ DispatchFails(r) \/ RenewFailed(r)

Work(t) == Finish(t) \/ Renew(t)

Next ==
    \/ \E r \in Requests : Begin(r) \/ Handle(r) \/ Abort(r)
    \/ Take
    \/ \E t \in Requests : Work(t) \/ LoseWorker(t) \/ Cancel(t)
    \/ Tick

Spec == Init /\ [][Next]_vars

\* A started request runs on, the workers keep consuming, every job ends.
Fairness ==
    /\ \A r \in Requests : WF_vars(Handle(r)) /\ WF_vars(Work(r))
    /\ WF_vars(Take)

FairSpec == Spec /\ Fairness

----------------------------------------------------------------------------
(* Properties. *)

\* The request has bound the task to its key.
Bound(r) == Keyed(r) /\ (stage[r] # "none" \/ rpc[r] \in {"dispatch", "renew"})

(***************************************************************************)
(* As long as a task that was bound to a key is not terminal, the key's    *)
(* record leads to it, whatever cleanups, resolutions and late deletions   *)
(* by other requests do and however long ago the record expired.           *)
(***************************************************************************)
LiveTaskKeepsKey ==
    \A r \in Requests :
        Bound(r) /\ status[r] = "live" => record[KeyOf[r]].task = r

(***************************************************************************)
(* Two tasks handed to the workers under one key are never both live: the  *)
(* same submission is not executed twice at a time.                        *)
(***************************************************************************)
OneLiveTaskPerKey ==
    \A r, s \in Requests :
        /\ r # s /\ KeyOf[r] = KeyOf[s]
        /\ Bound(r) /\ Bound(s)
        => ~(status[r] = "live" /\ status[s] = "live")

\* Requests that passed the depth check and have not published yet.
Admitted == {r \in Requests : rpc[r] \in {"create", "bind", "dispatch"}}

(***************************************************************************)
(* The depth check and the publication are separate steps, so concurrent   *)
(* requests overshoot the limit, but by no more than their number.         *)
(***************************************************************************)
DepthBounded == Len(queue) + Cardinality(Admitted) <= MaxDepth + MaxInProgress

(***************************************************************************)
(* A caller who was given a task, new or existing, sees it end, even if    *)
(* the task was created by a request that had not published it yet. Only a *)
(* fault (the creating process or the worker dies) breaks this.            *)
(***************************************************************************)
AnsweredTaskEnds ==
    \A t \in Requests :
        (\E r \in Requests : answer[r].task = t)
            ~> \/ status[t] = "terminal"
               \/ answer[t].outcome = "aborted"
               \/ stage[t] = "gone"

(***************************************************************************)
(* Idempotency storage has bounded growth: a record without an expiry      *)
(* belongs to a task that is live, or whose worker will still give it one. *)
(* The code breaks this in two ways. The cancel endpoint does not restart  *)
(* the TTL, so once a repeated submission has cleared the expiry of a      *)
(* waiting task, cancelling the task leaves a record that no cleanup       *)
(* removes; and a repeated submission that read the task live may write    *)
(* the cleared expiry after the terminal status restarted the TTL.         *)
(***************************************************************************)
NoImmortalRecord ==
    \A k \in Keys :
        record[k] # NoRecord /\ record[k].expires = Never =>
            \/ status[record[k].task] = "live"
            \/ stage[record[k].task] \in {"queued", "running", "finished"}
            \/ rpc[record[k].task] \in {"dispatch", "renew"}
============================================================================
