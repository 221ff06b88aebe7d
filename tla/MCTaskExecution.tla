-------------------------- MODULE MCTaskExecution --------------------------
(* Small instances of TaskExecution. *)
EXTENDS TaskExecution, TLC

CONSTANTS t1, t2, w1, w2

\* One code and one hybrid task, one worker for each queue.
MixedKind == (t1 :> "code") @@ (t2 :> "hybrid")
MixedRole == (w1 :> "code") @@ (w2 :> "hybrid")

\* One code task that two processes of the code worker may both be given.
CodeKind == t1 :> "code"
CodeRole == (w1 :> "code") @@ (w2 :> "code")

\* One circuit task and the single process of the circuit worker.
CircuitKind == t1 :> "circuit"
CircuitRole == w1 :> "circuit"

WorkerSymmetry == Permutations({w1, w2})
============================================================================
