---------------------------- MODULE CodeExecution ----------------------------
(***************************************************************************)
(* How a code task's program is executed: the sandbox that runs it in a    *)
(* child process, the docker executor that puts a sandbox in a container,  *)
(* the execution service that does so for the workers, and the attempts a  *)
(* worker makes.  An attempt that the worker gave up may still run.        *)
(* Programs: "good" and "bulky" (its result exceeds a pipe's buffer) give  *)
(* counts, "odd" counts that JSON cannot hold, "shapeless" something else; *)
(* "raises" and "silent" give none; "endless" never ends; "forbidden" is   *)
(* refused before it runs.                                                 *)
(***************************************************************************)
EXTENDS Integers

CONSTANTS
    Backends,    \* the deployments: [remote : BOOLEAN, inner : {"docker", "local"}]
    Programs,
    MaxRetries,  \* settings.task_max_retries
    MaxMishaps   \* bound: failures of docker, of the service, kills from outside

ASSUME CodeExecutionAssumption ==
    /\ Backends \subseteq [remote : BOOLEAN, inner : {"docker", "local"}]
    /\ Programs \subseteq {"good", "bulky", "odd", "shapeless", "raises", "silent", "endless", "forbidden"}
    /\ MaxRetries \in Nat /\ MaxMishaps \in Nat

VARIABLES
    backend,  \* settings.execution_backend of the worker and of the service
    program,  \* the code of the task
    attempt,  \* the attempt the worker makes; 0: none yet
    runs,     \* the executions, one per attempt
    seen,     \* the code that every attempt ended with, for the worker
    verdict,  \* what the task ends with
    mishaps

cxVars == <<backend, program, attempt, runs, seen, verdict, mishaps>>

Attempts == 1 .. MaxRetries + 1
Codes == {"RESULT", "SANDBOX_VALIDATION_ERROR", "SANDBOX_EXECUTION_ERROR", "RUNNER_ERROR",
          "EXEC_IMAGE_NOT_FOUND", "DOCKER_UNAVAILABLE", "EXECUTION_TIMEOUT", "CONTAINER_EXIT_ERROR",
          "REMOTE_EXECUTION_TIMEOUT", "REMOTE_EXECUTION_UNAVAILABLE", "INVALID_EXEC_RESULT"}
Stages == {"none", "create", "begin", "wait", "logs", "remove", "sandbox", "lost", "done"}

\* One execution: where its caller is, its container, the process that runs
\* the program, what the sandbox printed and what the caller is answered.
Ended(a) == runs[a].at \in {"none", "lost", "done"}
NotStarted == [at |-> "none", container |-> "none", child |-> "none", queue |-> "empty",
               printed |-> "", reply |-> "", refused |-> FALSE]

NonRetryable == {"SANDBOX_VALIDATION_ERROR", "INVALID_EXEC_OUTPUT", "INVALID_EXEC_RESULT", "EXECUTION_TIMEOUT"}

CxInit ==
    /\ backend \in Backends /\ program \in Programs
    /\ attempt = 0 /\ mishaps = 0 /\ verdict = "" /\ seen = [a \in Attempts |-> ""]
    /\ runs = [a \in Attempts |-> NotStarted]

Turns(a, stage, e) ==
    /\ runs[a].at = stage
    /\ runs' = [runs EXCEPT ![a] = e]
    /\ UNCHANGED <<backend, program, attempt, seen, verdict>>
Run(a, stage, e) == Turns(a, stage, e) /\ UNCHANGED mishaps
Mishap(a, stage, e) == Turns(a, stage, e) /\ mishaps < MaxMishaps /\ mishaps' = mishaps + 1

(***************************************************************************)
(* sandbox.run_with_limits, in the container's runner or, for a local      *)
(* backend, in the process of the caller.                                  *)
(***************************************************************************)
Sandboxed(a) == IF backend.inner = "docker" THEN runs[a].container = "running" ELSE runs[a].at = "sandbox"

\* What the sandbox ends with: the runner prints it and the container exits;
\* a local executor hands it to its caller.
Prints(e, code) ==
    IF e.container = "running"
    THEN [e EXCEPT !.container = "exited",
            !.printed = IF code = "RESULT" /\ program = "odd" THEN "RUNNER_ERROR" ELSE code]
    ELSE [e EXCEPT !.at = "done", !.reply = code]

Sandbox(a, e) == Sandboxed(a) /\ Run(a, runs[a].at, e)

Refuse(a) ==
    /\ program = "forbidden" /\ runs[a].child = "none"
    /\ Sandbox(a, Prints(runs[a], "SANDBOX_VALIDATION_ERROR"))
Fork(a) ==
    /\ program # "forbidden" /\ runs[a].child = "none"
    /\ Sandbox(a, [runs[a] EXCEPT !.child = "running"])
\* The child puts its answer; it cannot exit before the pipe took all of it.
Delivers(a) ==
    /\ runs[a].child = "running" /\ runs[a].queue = "empty"
    /\ program # "endless"
    /\ Sandbox(a, [runs[a] EXCEPT
         !.queue = IF program \in {"raises", "silent"} THEN "error" ELSE "result",
         !.child = IF program = "bulky" THEN "running" ELSE "exited"])
\* The child is killed from outside (memory).  Half an answer in the pipe
\* is not an empty queue, and the read of it waits for the rest for ever.
ChildKilled(a) ==
    /\ runs[a].child = "running"
    /\ Sandboxed(a)
    /\ Mishap(a, runs[a].at, [runs[a] EXCEPT !.child = "exited", !.queue = IF @ = "result" THEN "partial" ELSE @])
Outcome(queue) == IF queue = "result" THEN "RESULT" ELSE "SANDBOX_EXECUTION_ERROR"
Joined(a) ==
    /\ runs[a].child = "exited" /\ runs[a].queue # "partial"
    /\ Sandbox(a, Prints(runs[a], Outcome(runs[a].queue)))
\* Faulty variant: the child is not terminated.
TimedOutLeaving(e) == Prints(e, "SANDBOX_EXECUTION_ERROR")
TimedOut(e) == Prints([e EXCEPT !.child = "terminated"], "SANDBOX_EXECUTION_ERROR")
JoinTimesOut(a) == runs[a].child = "running" /\ Sandbox(a, TimedOut(runs[a]))

(***************************************************************************)
(* DockerExecutor.execute.  Any call of docker may fail; the container is  *)
(* removed whatever happened, unless docker refuses that too.              *)
(***************************************************************************)
Dead(e) == [e EXCEPT !.child = IF @ = "running" THEN "terminated" ELSE @]
Cleanup(e, code) == [e EXCEPT !.at = "remove", !.reply = code]

Create(a) ==
    \/ Run(a, "create", [runs[a] EXCEPT !.at = "begin", !.container = "created"])
    \/ \E code \in {"EXEC_IMAGE_NOT_FOUND", "DOCKER_UNAVAILABLE"} :
         Mishap(a, "create", [runs[a] EXCEPT !.at = "done", !.reply = code])
Begin(a) ==
    \/ Run(a, "begin", [runs[a] EXCEPT !.at = "wait", !.container = "running"])
    \/ Mishap(a, "begin", Cleanup(runs[a], "DOCKER_UNAVAILABLE"))
\* The container dies as a whole: it exits and has printed nothing.
ContainerKilled(a) ==
    /\ runs[a].container = "running"
    /\ Mishap(a, runs[a].at, [Dead(runs[a]) EXCEPT !.container = "exited"])
WaitReturns(a) ==
    /\ runs[a].container = "exited"
    /\ Run(a, "wait", [runs[a] EXCEPT !.at = "logs"])
\* container.wait gave up: the container is stopped, if docker does it.
WaitTimesOut(a) ==
    /\ runs[a].container = "running"
    /\ \/ Run(a, "wait", Cleanup([Dead(runs[a]) EXCEPT !.container = "exited"], "EXECUTION_TIMEOUT"))
       \/ Mishap(a, "wait", Cleanup(runs[a], "EXECUTION_TIMEOUT"))
WaitFails(a) == Mishap(a, "wait", Cleanup(runs[a], "DOCKER_UNAVAILABLE"))
ReadLogs(a) ==
    \/ Run(a, "logs", Cleanup(runs[a], IF runs[a].printed = "" THEN "CONTAINER_EXIT_ERROR" ELSE runs[a].printed))
    \/ Mishap(a, "logs", Cleanup(runs[a], "DOCKER_UNAVAILABLE"))
RemoveContainer(a) ==
    \/ Run(a, "remove", [Dead(runs[a]) EXCEPT !.at = "done", !.container = "removed"])
    \/ Mishap(a, "remove", [runs[a] EXCEPT !.at = "done", !.refused = TRUE])

(***************************************************************************)
(* The worker: execute_qibo_script and the attempts around it.             *)
(***************************************************************************)
\* What the execution service makes of its backend's errors: a local sandbox
\* raises no ExecutionBackendError, an odd result no response.
Served(code) ==
    IF backend.inner = "local" /\ (code # "RESULT" \/ program = "odd") THEN "RUNNER_ERROR" ELSE code
\* execute_qibo_script accepts counts only.
Normalized(code) == IF code = "RESULT" /\ program = "shapeless" THEN "INVALID_EXEC_RESULT" ELSE code
Answered(code) == Normalized(IF backend.remote THEN Served(code) ELSE code)

\* RetryPolicy: the codes count for ExecutionBackendErrors only.  What the
\* local sandbox and the normalisation raise is not one.
IsBackendError(code) == (backend.remote \/ backend.inner = "docker") /\ code # "INVALID_EXEC_RESULT"
CanRetry(code) == ~(IsBackendError(code) /\ code \in NonRetryable) /\ attempt <= MaxRetries

StartAttempt ==
    /\ verdict = "" /\ attempt < MaxRetries + 1
    /\ attempt > 0 => seen[attempt] \notin {"", "RESULT"} /\ CanRetry(seen[attempt])
    /\ attempt' = attempt + 1
    /\ runs' = [runs EXCEPT ![attempt + 1].at = IF backend.inner = "docker" THEN "create" ELSE "sandbox"]
    /\ UNCHANGED <<backend, program, seen, verdict, mishaps>>

Returns(code) ==
    /\ attempt > 0 /\ seen[attempt] = ""
    /\ seen' = [seen EXCEPT ![attempt] = code]
    /\ UNCHANGED <<backend, program, attempt, runs, verdict, mishaps>>
AnswerArrives == attempt > 0 /\ runs[attempt].at = "done" /\ Returns(Answered(runs[attempt].reply))
\* The worker's HTTP request ends without an answer; the service goes on.
RequestFails ==
    /\ backend.remote
    /\ \E code \in {"REMOTE_EXECUTION_TIMEOUT", "REMOTE_EXECUTION_UNAVAILABLE"} : Returns(code)

\* The service dies with its requests; the containers it started stay.
ServiceDies ==
    /\ backend.remote /\ mishaps < MaxMishaps /\ mishaps' = mishaps + 1
    /\ \E a \in Attempts : ~Ended(a)
    /\ runs' = [a \in Attempts |-> IF Ended(a) THEN runs[a]
                ELSE IF backend.inner = "local" THEN [Dead(runs[a]) EXCEPT !.at = "lost"]
                ELSE [runs[a] EXCEPT !.at = "lost"]]
    /\ UNCHANGED <<backend, program, attempt, seen, verdict>>

Conclude ==
    /\ verdict = "" /\ attempt > 0 /\ seen[attempt] # ""
    /\ seen[attempt] = "RESULT" \/ ~CanRetry(seen[attempt])
    /\ verdict' = seen[attempt]
    /\ UNCHANGED <<backend, program, attempt, runs, seen, mishaps>>

InSandbox(a) == Refuse(a) \/ Fork(a) \/ Joined(a) \/ JoinTimesOut(a)
InDocker(a) == Create(a) \/ Begin(a) \/ WaitReturns(a) \/ WaitTimesOut(a) \/ ReadLogs(a) \/ RemoveContainer(a)
CxWorker == StartAttempt \/ AnswerArrives \/ Conclude
CxNext ==
    \/ CxWorker \/ RequestFails \/ ServiceDies
    \/ \E a \in Attempts :
        InSandbox(a) \/ Delivers(a) \/ ChildKilled(a) \/ InDocker(a) \/ ContainerKilled(a) \/ WaitFails(a)

CxTypeOK ==
    /\ backend \in Backends /\ program \in Programs /\ mishaps \in 0 .. MaxMishaps /\ attempt \in 0 .. MaxRetries + 1
    /\ seen \in [Attempts -> Codes \cup {""}] /\ verdict \in Codes \cup {""}
    /\ runs \in [Attempts -> [at : Stages, container : {"none", "created", "running", "exited", "removed"},
                              child : {"none", "running", "exited", "terminated"},
                              queue : {"empty", "partial", "result", "error"},
                              printed : Codes \cup {""}, reply : Codes \cup {""}, refused : BOOLEAN]]

GivenUp(a) == seen[a] \in {"REMOTE_EXECUTION_TIMEOUT", "REMOTE_EXECUTION_UNAVAILABLE"}

\* Every task comes to a verdict, except that a local sandbox may wait for
\* the rest of an answer whose writer was killed.
TasksConclude ==
    attempt > 0 ~> verdict # "" \/ (~backend.remote /\ \E a \in Attempts : runs[a].queue = "partial")

\* A task succeeds only with the counts its program computed and delivered
\* whole in time; a refused program never runs, and is refused at once where
\* the sandbox's verdict has a code of its own (sandbox.run_with_limits,
\* docker_executor._parse_execution_result, retry_policy).
ResultIsComputed ==
    /\ verdict = "RESULT" =>
        /\ program \in {"good", "odd"} /\ (program = "odd" => backend.inner = "local" /\ ~backend.remote)
        /\ runs[attempt].queue = "result" /\ runs[attempt].child = "exited"
    /\ program = "forbidden" => \A a \in Attempts : runs[a].child = "none"
    /\ verdict = "SANDBOX_VALIDATION_ERROR" /\ backend.inner = "docker" =>
        \A a \in 1 .. attempt - 1 : seen[a] \in Codes \ {"SANDBOX_VALIDATION_ERROR"}

\* When an execution has ended nothing of it runs on or stays behind, unless
\* docker refused to remove the container; and two executions of a program
\* run at once only after the worker gave up a request it had sent
\* (sandbox.run_with_limits, docker_executor.execute).
NothingLeftBehind ==
    /\ \A a \in Attempts : runs[a].at = "done" /\ ~runs[a].refused =>
        runs[a].child # "running" /\ runs[a].container \in {"none", "removed"}
    /\ \A a, b \in Attempts : a < b /\ runs[a].child = "running" /\ runs[b].child = "running" =>
        GivenUp(a) \/ runs[a].refused

\* A code task succeeds only with what its program computed, and nothing of
\* an execution that has ended is left running.
ExecutionsAccounted == ResultIsComputed /\ NothingLeftBehind
===============================================================================
