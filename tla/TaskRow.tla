------------------------------ MODULE TaskRow ------------------------------
(***************************************************************************)
(* A row of the task table and what a SQLAlchemy session does with it.     *)
(*                                                                         *)
(* A session works on a private copy of the row. A service mutates the     *)
(* copy; the commit writes only the columns whose value in the copy        *)
(* differs from the value the session last loaded, so a commit made from   *)
(* an old copy leaves alone the columns it did not touch and silently      *)
(* overwrites the ones it did. The table runs at READ COMMITTED and no     *)
(* service locks a row, so every load and every commit is a step of its    *)
(* own.                                                                    *)
(***************************************************************************)
EXTENDS Naturals

CONSTANTS
    MaxIterations   \* bound: optimiser iterations of one hybrid attempt

ASSUME MaxIterationsAssumption == MaxIterations \in Nat \ {0}

Verdicts == {"SUCCESS", "FAILURE", "TIMEOUT", "RETRY_EXHAUSTED"}

Terminal == Verdicts \cup {"CANCELLED"}

Statuses == {"PENDING", "RUNNING"} \cup Terminal

(***************************************************************************)
(* result_json: NoResult is NULL, i in 1..MaxIterations the progress       *)
(* snapshot of hybrid iteration i, FullResult a final result.              *)
(***************************************************************************)
NoResult == 0
FullResult == MaxIterations + 1
Results == NoResult .. FullResult

(***************************************************************************)
(* The columns that services write. error stands for error_message being   *)
(* set, finished for finished_at and duration_ms being set; updated_at is  *)
(* written by every commit and read by the event stream only.              *)
(***************************************************************************)
Row == [status: Statuses, attempt: Nat, result: Results,
        error: BOOLEAN, finished: BOOLEAN]

\* The row TaskSubmitService creates.
NewRow == [status |-> "PENDING", attempt |-> 0, result |-> NoResult,
           error |-> FALSE, finished |-> FALSE]

IsTerminal(r) == r.status \in Terminal

----------------------------------------------------------------------------
(* The unit of work of a session. *)

\* A column of the table after a commit: mem is the session's value,
\* loaded the value it had read, stored the value now in the table.
Written(mem, loaded, stored) == IF mem = loaded THEN stored ELSE mem

\* The table row after a session that loaded the row `loaded` and turned it
\* into `mem` commits.
Flush(mem, loaded, stored) ==
    [status   |-> Written(mem.status, loaded.status, stored.status),
     attempt  |-> Written(mem.attempt, loaded.attempt, stored.attempt),
     result   |-> Written(mem.result, loaded.result, stored.result),
     error    |-> Written(mem.error, loaded.error, stored.error),
     finished |-> Written(mem.finished, loaded.finished, stored.finished)]

----------------------------------------------------------------------------
(* What the methods of TaskLifecycleService do to the session's copy. Each *)
(* of them but mark_cancelled on a cancelled copy first refuses a copy     *)
(* that is terminal; that guard is the caller's enabling condition.        *)

Started(r) == [r EXCEPT !.status = "RUNNING", !.attempt = @ + 1, !.error = FALSE]

Succeeded(r) == [r EXCEPT !.status = "SUCCESS", !.result = FullResult,
                          !.error = FALSE, !.finished = TRUE]

Progressed(r, i) == [r EXCEPT !.result = i]

Cancelled(r) == [r EXCEPT !.status = "CANCELLED", !.finished = TRUE]

\* Faulty variant: a failed task keeps its last progress snapshot.
FailedKeepsResult(r, status) == [r EXCEPT !.status = status, !.error = TRUE,
                                          !.finished = TRUE]

\* mark_failure, mark_timeout and mark_retry_exhausted
Failed(r, status) == [r EXCEPT !.status = status, !.result = NoResult,
                               !.error = TRUE, !.finished = TRUE]
============================================================================
