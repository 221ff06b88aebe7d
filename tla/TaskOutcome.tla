---------------------------- MODULE TaskOutcome ----------------------------
(***************************************************************************)
(* What the platform promises about a task's status: it moves only while   *)
(* some session may still write it from a live copy; once the task is      *)
(* settled, that is terminal with no such session left, it never moves     *)
(* again. A task never returns to PENDING.                                 *)
(***************************************************************************)
CONSTANTS Tasks

VARIABLES status, settled

Terminal == {"CANCELLED", "SUCCESS", "FAILURE", "TIMEOUT", "RETRY_EXHAUSTED"}

Statuses == {"PENDING", "RUNNING"} \cup Terminal

Init ==
    /\ status = [t \in Tasks |-> "PENDING"]
    /\ settled = [t \in Tasks |-> FALSE]

\* A session writes the task; the write may be the last one.
Move(t) ==
    /\ ~settled[t]
    /\ \E s \in Statuses \ {"PENDING"} :
          /\ status' = [status EXCEPT ![t] = s]
          /\ \E last \in BOOLEAN :
                /\ last => s \in Terminal
                /\ settled' = [settled EXCEPT ![t] = last]

\* The last session that might still write the task lets go of it.
Settle(t) ==
    /\ ~settled[t]
    /\ status[t] \in Terminal
    /\ settled' = [settled EXCEPT ![t] = TRUE]
    /\ UNCHANGED status

Next == \E t \in Tasks : Move(t) \/ Settle(t)

Spec == Init /\ [][Next]_<<status, settled>>
============================================================================
