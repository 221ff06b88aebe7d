----------------------------- MODULE MCServices -----------------------------
(***************************************************************************)
(* Four parts of the platform that share no state, each explored on its    *)
(* own: the initial state chooses the part that moves.                     *)
(***************************************************************************)
EXTENDS CircuitExecutor, CodeExecution, Accounts, TaskCenter

CONSTANT RemotePrograms   \* bound: the programs of the largest deployment

VARIABLE part

parts == <<part, ceVars, cxVars, acVars, tcVars>>

Init ==
    /\ part \in {"executor", "code", "accounts", "center"}
    /\ CeInit /\ CxInit /\ AcInit /\ TcInit
    /\ part # "code" =>
        backend = (CHOOSE b \in Backends : TRUE) /\ program = (CHOOSE p \in Programs : TRUE)
    /\ backend = [remote |-> TRUE, inner |-> "docker"] => program \in RemotePrograms
    /\ part # "center" => limit = CHOOSE n \in StreamLimits : TRUE

OnlyExecutor == UNCHANGED <<part, cxVars, acVars, tcVars>>
OnlyCode == UNCHANGED <<part, ceVars, acVars, tcVars>>
OnlyAccounts == UNCHANGED <<part, ceVars, cxVars, tcVars>>
OnlyCenter == UNCHANGED <<part, ceVars, cxVars, acVars>>

Next ==
    \/ part = "executor" /\ CeNext /\ OnlyExecutor
    \/ part = "code" /\ CxNext /\ OnlyCode
    \/ part = "accounts" /\ AcNext /\ OnlyAccounts
    \/ part = "center" /\ TcNext /\ OnlyCenter

\* Threads run on, time limits pass, periods pass; children, containers and
\* programs need not do anything.
Fairness ==
    /\ WF_parts(part = "executor" /\ CeThread /\ OnlyExecutor)
    /\ WF_parts(part = "executor" /\ Ages /\ OnlyExecutor)
    /\ WF_parts(part = "code" /\ CxWorker /\ OnlyCode)
    /\ WF_parts(part = "code" /\ RequestFails /\ OnlyCode)
    /\ \A a \in 1 .. MaxRetries + 1 :
        /\ WF_parts(part = "code" /\ InSandbox(a) /\ OnlyCode)
        /\ WF_parts(part = "code" /\ InDocker(a) /\ OnlyCode)
    /\ WF_parts(part = "center" /\ StreamPoll /\ OnlyCenter)
    /\ WF_parts(part = "center" /\ Deliver /\ OnlyCenter)
    /\ WF_parts(part = "center" /\ PollTick /\ OnlyCenter)
    /\ \A kind \in Kinds :
        /\ WF_parts(part = "center" /\ (\E i \in DOMAIN flight[kind] : Serve(kind, i)) /\ OnlyCenter)
        /\ WF_parts(part = "center" /\ (\E i \in DOMAIN flight[kind] : Arrive(kind, i)) /\ OnlyCenter)

Spec == Init /\ [][Next]_parts /\ Fairness

\* The instances.
Deployments == [remote : {TRUE}, inner : {"docker"}] \cup [remote : {FALSE}, inner : {"docker", "local"}]
                \cup [remote : {TRUE}, inner : {"local"}]
OneListTwoDetails == [list |-> 1, detail |-> 2]
SameSlug == [n \in Usernames |-> 1]
OldAccount == {[username |-> "ann", password |-> "old"]}

\* Every variable of every part has its type.
TypeOK == CeTypeOK /\ CxTypeOK /\ AcTypeOK /\ TcTypeOK

\* Calls end, code tasks come to a verdict, and the task center comes to show
\* the rows.
ServicesSettle ==
    /\ CallsEnd
    /\ part = "code" => TasksConclude
    /\ CenterFollows
===============================================================================
