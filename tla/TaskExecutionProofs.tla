------------------------ MODULE TaskExecutionProofs ------------------------
(***************************************************************************)
(* Proofs about TaskExecution, for every number of tasks, workers and      *)
(* cancel requests and every bound.  First, of any task however often it   *)
(* is delivered: types, settled tasks and the refinement.  Then, of tasks  *)
(* delivered once: who may write the row, and what follows for verdicts,   *)
(* cancellations and renewals.  Last, of any task again: the attempts, and *)
(* that no task and no verdict is left to nobody.                          *)
(***************************************************************************)
EXTENDS TaskExecution, FiniteSetTheorems, TLAPS

(***************************************************************************)
(* TypeOK is not inductive alone: that an iteration number stays in its    *)
(* range depends on the steps at which another iteration may begin. That   *)
(* idle actors hold no task makes "the task an actor touches" well defined *)
(* for the later proofs.                                                   *)
(***************************************************************************)

IterationsLeft ==
    \A w \in Workers :
        wpc[w] \in {"started", "run", "evaluate"} => witer[w] < MaxIterations

IdleHoldNothing ==
    /\ \A w \in Workers : wpc[w] = "idle" => wtask[w] = NoTask
    /\ \A c \in Cancellers : cpc[c] = "idle" => ctask[c] = NoTask

TypeInv == TypeOK /\ IterationsLeft /\ IdleHoldNothing

----------------------------------------------------------------------------
(* Rows. *)

(***************************************************************************)
(* A commit turns rows into a row, whatever the session had loaded.        *)
(***************************************************************************)
LEMMA FlushType ==
    ASSUME NEW mem \in Row, NEW loaded \in Row, NEW stored \in Row
    PROVE  Flush(mem, loaded, stored) \in Row
BY DEF Flush, Written, Row

(***************************************************************************)
(* The lifecycle methods turn rows into rows.                              *)
(***************************************************************************)
LEMMA LifecycleTypes ==
    /\ NewRow \in Row
    /\ \A r \in Row :
          /\ Started(r) \in Row
          /\ Succeeded(r) \in Row
          /\ Cancelled(r) \in Row
          /\ \A i \in 1 .. MaxIterations : Progressed(r, i) \in Row
          /\ \A s \in Verdicts : Failed(r, s) \in Row
<1>1. /\ NoResult \in Results /\ FullResult \in Results
      /\ \A i \in 1 .. MaxIterations : i \in Results
  BY MaxIterationsAssumption DEF Results, NoResult, FullResult
<1>2. /\ {"PENDING", "RUNNING", "SUCCESS", "CANCELLED"} \subseteq Statuses
      /\ Verdicts \subseteq Statuses
  BY DEF Statuses, Terminal, Verdicts
<1>3. NewRow \in Row
  BY <1>1, <1>2 DEF NewRow, Row
<1>4. ASSUME NEW r \in Row PROVE Started(r) \in Row
  <2>1. r.attempt + 1 \in Nat /\ "RUNNING" \in Statuses
    BY <1>2 DEF Row
  <2> QED BY <2>1 DEF Started, Row
<1>5. ASSUME NEW r \in Row PROVE Succeeded(r) \in Row /\ Cancelled(r) \in Row
  <2>1. Succeeded(r) \in Row
    BY <1>1, <1>2 DEF Succeeded, Row
  <2>2. Cancelled(r) \in Row
    BY <1>2 DEF Cancelled, Row
  <2> QED BY <2>1, <2>2
<1>6. ASSUME NEW r \in Row, NEW i \in 1 .. MaxIterations PROVE Progressed(r, i) \in Row
  BY <1>1 DEF Progressed, Row
<1>7. ASSUME NEW r \in Row, NEW s \in Verdicts PROVE Failed(r, s) \in Row
  BY <1>1, <1>2 DEF Failed, Row
<1> QED BY <1>3, <1>4, <1>5, <1>6, <1>7

----------------------------------------------------------------------------
(* Types. *)

\* The part of TypeInv that the workers touch.
WorkerTypes ==
    /\ row \in [Tasks -> Row]
    /\ wpc \in [Workers -> WorkerSteps]
    /\ wtask \in [Workers -> Tasks \cup {NoTask}]
    /\ wrow \in [Workers -> Row]
    /\ witer \in [Workers -> 0 .. MaxIterations]
    /\ \A w \in Workers : wpc[w] # "idle" => wtask[w] \in Tasks
    /\ \A w \in Workers : wpc[w] = "idle" => wtask[w] = NoTask
    /\ IterationsLeft

(***************************************************************************)
(* A worker that lets go of its task.                                      *)
(***************************************************************************)
LEMMA LeaveTypes ==
    ASSUME TypeInv, NEW w \in Workers, Leave(w), UNCHANGED row
    PROVE  WorkerTypes'
<1>1. wrow' \in [Workers -> Row]
  BY LifecycleTypes DEF Leave, TypeInv, TypeOK
<1> QED
  BY <1>1, MaxIterationsAssumption
  DEF Leave, TypeInv, TypeOK, WorkerSteps, IterationsLeft, IdleHoldNothing, WorkerTypes

(***************************************************************************)
(* A worker that goes on to another step with its task, leaving row, copy  *)
(* and iterations alone.                                                   *)
(***************************************************************************)
LEMMA GotoTypes ==
    ASSUME TypeInv, NEW w \in Workers, wpc[w] # "idle",
           NEW step \in WorkerSteps \ {"idle"}, Goto(w, step),
           row' \in [Tasks -> Row], wrow' \in [Workers -> Row],
           witer' \in [Workers -> 0 .. MaxIterations],
           \A v \in Workers \ {w} : witer'[v] = witer[v],
           step \in {"started", "run", "evaluate"} => witer'[w] < MaxIterations
    PROVE  WorkerTypes'
BY DEF Goto, TypeInv, TypeOK, WorkerSteps, IterationsLeft, IdleHoldNothing, WorkerTypes

(***************************************************************************)
(* Commits and refreshes of a worker's session.                            *)
(***************************************************************************)
LEMMA PersistTypes ==
    ASSUME TypeInv, NEW w \in Workers, wpc[w] # "idle", NEW mem \in Row, Persist(w, mem)
    PROVE  row' \in [Tasks -> Row] /\ wrow' \in [Workers -> Row]
<1>1. wtask[w] \in Tasks /\ wrow[w] \in Row /\ row[wtask[w]] \in Row
  BY DEF TypeInv, TypeOK
<1>2. Flush(mem, wrow[w], row[wtask[w]]) \in Row
  BY <1>1, FlushType
<1> QED BY <1>1, <1>2 DEF Persist, TypeInv, TypeOK

LEMMA RefreshTypes ==
    ASSUME TypeInv, NEW w \in Workers, wpc[w] # "idle", Refresh(w)
    PROVE  row' \in [Tasks -> Row] /\ wrow' \in [Workers -> Row]
BY DEF Refresh, TypeInv, TypeOK

(***************************************************************************)
(* The two ends of an attempt.                                             *)
(***************************************************************************)
LEMMA FailTypes ==
    ASSUME TypeInv, NEW w \in Workers, wpc[w] # "idle",
           NEW err \in {"timeout", "transient", "fatal"}, Fail(w, err)
    PROVE  WorkerTypes'
<1>1. wrow[w] \in Row /\ ErrorVerdict(err) \in Verdicts
  BY DEF ErrorVerdict, Verdicts, TypeInv, TypeOK
<1>2. CASE Goto(w, "start") /\ UNCHANGED <<row, wrow, witer>>
  BY <1>2, GotoTypes DEF WorkerSteps, TypeInv, TypeOK
<1>3. CASE Leave(w) /\ UNCHANGED row
  BY <1>3, LeaveTypes
<1>4. CASE /\ Persist(w, Failed(wrow[w], ErrorVerdict(err)))
           /\ Goto(w, "renew") /\ UNCHANGED witer
  <2>1. Failed(wrow[w], ErrorVerdict(err)) \in Row
    BY <1>1, LifecycleTypes
  <2> QED BY <1>4, <2>1, PersistTypes, GotoTypes DEF WorkerSteps, TypeInv, TypeOK
<1> QED BY <1>2, <1>3, <1>4 DEF Fail

LEMMA MarkSuccessTypes ==
    ASSUME TypeInv, NEW w \in Workers, wpc[w] # "idle", MarkSuccess(w)
    PROVE  WorkerTypes'
<1>1. CASE Persist(w, Succeeded(wrow[w])) /\ Goto(w, "renew") /\ UNCHANGED witer
  <2>1. Succeeded(wrow[w]) \in Row
    BY LifecycleTypes DEF TypeInv, TypeOK
  <2> QED BY <1>1, <2>1, PersistTypes, GotoTypes DEF WorkerSteps, TypeInv, TypeOK
<1>2. CASE Fail(w, "transient")
  BY <1>2, FailTypes
<1> QED BY <1>1, <1>2 DEF MarkSuccess

(***************************************************************************)
(* Every step keeps the types, the iterations in their range and idle      *)
(* actors without a task.                                                  *)
(***************************************************************************)
LEMMA TypeStep == TypeInv /\ [Next]_vars => TypeInv'
<1> SUFFICES ASSUME TypeInv, [Next]_vars
             PROVE  TypeInv'
  OBVIOUS
<1> USE TasksAssumption, KindAssumption, RoleAssumption, ExtraAssumption
<1>1. \A t \in Tasks : Enqueue(t) => queue' \in [Kinds -> Seq(Tasks)]
  BY DEF Enqueue, TypeInv, TypeOK
<1>2. \A t \in Tasks :
         Excess(t) => queue' \in [Kinds -> Seq(Tasks)] /\ extra' \in [Tasks -> 0 .. MaxExtra]
  BY <1>1 DEF Excess, TypeInv, TypeOK
<1>3. ASSUME WorkerTypes', UNCHANGED <<brokerVars, dispatcher, renewed, lost, cancelVars>>
      PROVE  TypeInv'
  BY <1>3 DEF brokerVars, cancelVars, TypeInv, TypeOK, WorkerTypes, IdleHoldNothing
<1>4. ASSUME NEW t \in Tasks, Publish(t) PROVE TypeInv'
  BY <1>1, <1>4
  DEF Publish, workerVars, cancelVars, TypeInv, TypeOK, IterationsLeft, IdleHoldNothing
<1>5. ASSUME NEW t \in Tasks, PublishFails(t) PROVE TypeInv'
  <2>1. queue' \in [Kinds -> Seq(Tasks)] /\ extra' \in [Tasks -> 0 .. MaxExtra]
    BY <1>2, <1>5 DEF PublishFails, brokerVars, TypeInv, TypeOK
  <2>2. PICK copy \in {NewRow, row[t]} :
           \/ /\ dispatcher' = [dispatcher EXCEPT ![t] = "failed"]
              /\ UNCHANGED row
           \/ /\ row' = [row EXCEPT ![t] = Flush(Failed(copy, "FAILURE"), copy, @)]
              /\ dispatcher' = [dispatcher EXCEPT ![t] = "failing"]
    BY <1>5 DEF PublishFails
  <2>3. copy \in Row /\ row[t] \in Row
    BY <2>2, LifecycleTypes DEF TypeInv, TypeOK
  <2>4. Flush(Failed(copy, "FAILURE"), copy, row[t]) \in Row
    <3>1. Failed(copy, "FAILURE") \in Row
      BY <2>3, LifecycleTypes DEF Verdicts
    <3> QED BY <2>3, <3>1, FlushType
  <2>5. row' \in [Tasks -> Row]
    <3>1. row \in [Tasks -> Row]
      BY DEF TypeInv, TypeOK
    <3> QED BY <2>2, <2>4, <3>1
  <2>6. dispatcher' \in [Tasks -> {"created", "queued", "failing", "failed"}]
    BY <2>2 DEF TypeInv, TypeOK
  <2> QED
    BY <1>5, <2>1, <2>5, <2>6
    DEF PublishFails, workerVars, cancelVars, TypeInv, TypeOK, IterationsLeft, IdleHoldNothing
<1>6. ASSUME NEW t \in Tasks, RenewAfterFailure(t) PROVE TypeInv'
  BY <1>6
  DEF RenewAfterFailure, brokerVars, workerVars, cancelVars, TypeInv, TypeOK,
      IterationsLeft, IdleHoldNothing
<1>7. ASSUME NEW t \in Tasks, Redeliver(t) PROVE TypeInv'
  BY <1>2, <1>7
  DEF Redeliver, workerVars, cancelVars, TypeInv, TypeOK, IterationsLeft, IdleHoldNothing
<1>8. ASSUME NEW w \in Workers, Take(w) PROVE TypeInv'
  <2>1. Role[w] \in Kinds /\ queue[Role[w]] \in Seq(Tasks) /\ queue[Role[w]] # << >>
    BY <1>8 DEF Take, TypeInv, TypeOK
  <2>2. Head(queue[Role[w]]) \in Tasks /\ Tail(queue[Role[w]]) \in Seq(Tasks)
    BY <2>1
  <2>3. queue' \in [Kinds -> Seq(Tasks)]
    BY <1>8, <2>2 DEF Take, TypeInv, TypeOK
  <2>4. WorkerTypes'
    BY <1>8, <2>2
    DEF Take, TypeInv, TypeOK, WorkerSteps, WorkerTypes, IterationsLeft, IdleHoldNothing
  <2> QED
    BY <1>8, <2>3, <2>4 DEF Take, cancelVars, TypeInv, TypeOK, WorkerTypes, IdleHoldNothing
<1>9. ASSUME NEW w \in Workers, Load(w) PROVE TypeInv'
  <2>1. WorkerTypes'
    <3>1. CASE Leave(w) /\ UNCHANGED row
      BY <3>1, LeaveTypes
    <3>2. CASE Refresh(w) /\ Goto(w, "start") /\ UNCHANGED witer
      BY <1>9, <3>2, RefreshTypes, GotoTypes DEF Load, WorkerSteps, TypeInv, TypeOK
    <3> QED BY <1>9, <3>1, <3>2 DEF Load
  <2> QED BY <1>3, <1>9, <2>1 DEF Load
<1>10. ASSUME NEW w \in Workers, StartAttempt(w) PROVE TypeInv'
  <2>1. WorkerTypes'
    <3>1. CASE Leave(w) /\ UNCHANGED row
      BY <3>1, LeaveTypes
    <3>2. CASE /\ Persist(w, Started(wrow[w])) /\ Goto(w, "started")
               /\ witer' = [witer EXCEPT ![w] = 0]
      <4>1. Started(wrow[w]) \in Row
        BY LifecycleTypes DEF TypeInv, TypeOK
      <4>2. witer' \in [Workers -> 0 .. MaxIterations] /\ witer'[w] < MaxIterations
        BY <3>2, MaxIterationsAssumption DEF TypeInv, TypeOK
      <4> QED
        BY <1>10, <3>2, <4>1, <4>2, PersistTypes, GotoTypes
        DEF StartAttempt, WorkerSteps, TypeInv, TypeOK
    <3> QED BY <1>10, <3>1, <3>2 DEF StartAttempt
  <2> QED BY <1>3, <1>10, <2>1 DEF StartAttempt
<1>11. ASSUME NEW w \in Workers, RefreshStarted(w) PROVE TypeInv'
  <2>1. WorkerTypes'
    BY <1>11, RefreshTypes, GotoTypes
    DEF RefreshStarted, WorkerSteps, TypeInv, TypeOK, IterationsLeft
  <2> QED BY <1>3, <1>11, <2>1 DEF RefreshStarted
<1>12. ASSUME NEW w \in Workers, Execute(w) PROVE TypeInv'
  <2>1. \A kind \in Kinds : Errors(kind) \subseteq {"timeout", "transient", "fatal"}
    BY DEF Errors, Kinds
  <2>2. WorkerTypes'
    BY <1>12, <2>1, MarkSuccessTypes, FailTypes DEF Execute
  <2> QED BY <1>3, <1>12, <2>2 DEF Execute
<1>13. ASSUME NEW w \in Workers, CheckStop(w) PROVE TypeInv'
  <2>1. WorkerTypes'
    BY <1>13, RefreshTypes, GotoTypes
    DEF CheckStop, WorkerSteps, TypeInv, TypeOK, IterationsLeft
  <2> QED BY <1>3, <1>13, <2>1 DEF CheckStop
<1>14. ASSUME NEW w \in Workers, Evaluate(w) PROVE TypeInv'
  <2>1. WorkerTypes'
    <3>1. CASE /\ Persist(w, Progressed(wrow[w], witer[w] + 1))
               /\ witer' = [witer EXCEPT ![w] = @ + 1]
               /\ Goto(w, "progressed")
      <4>1. witer[w] + 1 \in 1 .. MaxIterations
        BY <1>14, MaxIterationsAssumption DEF Evaluate, TypeInv, TypeOK, IterationsLeft
      <4>2. Progressed(wrow[w], witer[w] + 1) \in Row
        BY <4>1, LifecycleTypes DEF TypeInv, TypeOK
      <4>3. witer' \in [Workers -> 0 .. MaxIterations]
        BY <3>1, <4>1, MaxIterationsAssumption DEF TypeInv, TypeOK
      <4> QED
        BY <1>14, <3>1, <4>2, <4>3, PersistTypes, GotoTypes
        DEF Evaluate, WorkerSteps, TypeInv, TypeOK
    <3>2. CASE \E err \in Errors("hybrid") : Fail(w, err)
      BY <1>14, <3>2, FailTypes DEF Evaluate, Errors
    <3> QED BY <1>14, <3>1, <3>2 DEF Evaluate
  <2> QED BY <1>3, <1>14, <2>1 DEF Evaluate
<1>15. ASSUME NEW w \in Workers, NextIteration(w) PROVE TypeInv'
  <2>1. WorkerTypes'
    BY <1>15, RefreshTypes, GotoTypes DEF NextIteration, WorkerSteps, TypeInv, TypeOK
  <2> QED BY <1>3, <1>15, <2>1 DEF NextIteration
<1>16. ASSUME NEW w \in Workers, FinalCheck(w) PROVE TypeInv'
  <2>1. WorkerTypes'
    BY <1>16, RefreshTypes, GotoTypes DEF FinalCheck, WorkerSteps, TypeInv, TypeOK
  <2> QED BY <1>3, <1>16, <2>1 DEF FinalCheck
<1>17. ASSUME NEW w \in Workers, FinishHybrid(w) PROVE TypeInv'
  BY <1>3, <1>17, MarkSuccessTypes DEF FinishHybrid
<1>18. ASSUME NEW w \in Workers, RenewTtl(w) PROVE TypeInv'
  <2>1. WorkerTypes' /\ wtask[w] \in Tasks
    BY <1>18, LeaveTypes DEF RenewTtl, TypeInv, TypeOK
  <2> QED
    BY <1>18, <2>1
    DEF RenewTtl, brokerVars, cancelVars, TypeInv, TypeOK, WorkerTypes, IdleHoldNothing
<1>19. ASSUME NEW w \in Workers, Kill(w) PROVE TypeInv'
  <2>1. WorkerTypes' /\ wtask[w] \in Tasks
    BY <1>19, LeaveTypes DEF Kill, TypeInv, TypeOK
  <2> QED
    BY <1>19, <2>1
    DEF Kill, brokerVars, cancelVars, TypeInv, TypeOK, WorkerTypes, IdleHoldNothing
<1>20. ASSUME NEW c \in Cancellers, NEW t \in Tasks, CancelLoad(c, t) PROVE TypeInv'
  BY <1>20
  DEF CancelLoad, brokerVars, workerVars, TypeInv, TypeOK, IterationsLeft, IdleHoldNothing
<1>21. ASSUME NEW c \in Cancellers, CancelCommit(c) PROVE TypeInv'
  <2>1. ctask[c] \in Tasks /\ crow[c] \in Row /\ row[ctask[c]] \in Row
    BY <1>21 DEF CancelCommit, TypeInv, TypeOK
  <2>2. Flush(Cancelled(crow[c]), crow[c], row[ctask[c]]) \in Row
    BY <2>1, LifecycleTypes, FlushType
  <2>3. row' \in [Tasks -> Row] /\ crow' \in [Cancellers -> Row]
    BY <1>21, <2>2, LifecycleTypes DEF CancelCommit, TypeInv, TypeOK
  <2> QED
    BY <1>21, <2>3
    DEF CancelCommit, brokerVars, workerVars, TypeInv, TypeOK, IterationsLeft, IdleHoldNothing
<1>22. ASSUME UNCHANGED vars PROVE TypeInv'
  BY <1>22
  DEF vars, brokerVars, workerVars, cancelVars, TypeInv, TypeOK, IterationsLeft, IdleHoldNothing
<1> QED
  BY <1>4, <1>5, <1>6, <1>7, <1>8, <1>9, <1>10, <1>11, <1>12, <1>13, <1>14, <1>15,
     <1>16, <1>17, <1>18, <1>19, <1>20, <1>21, <1>22
  DEF Next, DispatchStep, WorkerStep

(***************************************************************************)
(* The types hold, an iteration number never passes max_iterations, and an *)
(* idle worker or cancel request holds no task.                            *)
(***************************************************************************)
THEOREM TypeInvariant == Spec => []TypeInv
<1>1. Init => TypeInv
  BY LifecycleTypes, MaxIterationsAssumption, ExtraAssumption
  DEF Init, TypeInv, TypeOK, WorkerSteps, IterationsLeft, IdleHoldNothing
<1> QED BY <1>1, TypeStep, PTL DEF Spec

(***************************************************************************)
(* Every variable keeps its type.                                          *)
(***************************************************************************)
THEOREM TypeCorrect == Spec => []TypeOK
<1>1. TypeInv => TypeOK
  BY DEF TypeInv
<1> QED BY <1>1, TypeInvariant, PTL

----------------------------------------------------------------------------
(* What one step may do to a task. *)

\* A status that a session may write over its copy's status.
MayWrite(status, copy) == status = copy.status \/ status # "PENDING"

\* What a worker that holds a task does to it in one step: it lets go of
\* it, reads it, keeps its copy, or writes it from a copy that is not
\* terminal.
WorkerMove(w) ==
    /\ wpc[w] # "idle"
    /\ UNCHANGED <<dispatcher, cancelVars>>
    /\ \/ Leave(w) /\ UNCHANGED row
       \/ /\ \E step \in WorkerSteps \ {"idle", "load"} : Goto(w, step)
          /\ \/ Refresh(w)
             \/ wpc[w] # "load" /\ UNCHANGED <<row, wrow>>
             \/ /\ wpc[w] # "load"
                /\ Mutable(w)
                /\ \E mem \in Row : MayWrite(mem.status, wrow[w]) /\ Persist(w, mem)

(***************************************************************************)
(* Both ends of an attempt are moves of the worker.                        *)
(***************************************************************************)
LEMMA AttemptEnds ==
    ASSUME TypeInv, NEW w \in Workers, wpc[w] \notin {"idle", "load"},
           UNCHANGED <<dispatcher, cancelVars>>
    PROVE  /\ \A err \in {"timeout", "transient", "fatal"} : Fail(w, err) => WorkerMove(w)
           /\ MarkSuccess(w) => WorkerMove(w)
<1> USE DEF WorkerMove, WorkerSteps
<1>1. wrow[w] \in Row
  BY DEF TypeInv, TypeOK
<1>2. ASSUME NEW err \in {"timeout", "transient", "fatal"}, Fail(w, err)
      PROVE  WorkerMove(w)
  <2>1. CASE Goto(w, "start") /\ UNCHANGED <<row, wrow, witer>>
    BY <2>1
  <2>2. CASE Leave(w) /\ UNCHANGED row
    BY <2>2
  <2>3. CASE /\ Mutable(w) /\ Goto(w, "renew")
             /\ Persist(w, Failed(wrow[w], ErrorVerdict(err)))
    <3>1. ErrorVerdict(err) \in Verdicts
      BY DEF ErrorVerdict, Verdicts
    <3>2. Failed(wrow[w], ErrorVerdict(err)) \in Row
      BY <1>1, <3>1, LifecycleTypes
    <3>3. Failed(wrow[w], ErrorVerdict(err)).status = ErrorVerdict(err)
      BY <1>1 DEF Failed, Row
    <3>4. MayWrite(Failed(wrow[w], ErrorVerdict(err)).status, wrow[w])
      BY <3>1, <3>3 DEF MayWrite, Verdicts
    <3> QED BY <2>3, <3>2, <3>4
  <2> QED BY <1>2, <2>1, <2>2, <2>3 DEF Fail
<1>3. ASSUME MarkSuccess(w) PROVE WorkerMove(w)
  <2>1. CASE Mutable(w) /\ Persist(w, Succeeded(wrow[w])) /\ Goto(w, "renew")
    <3>1. Succeeded(wrow[w]) \in Row
      BY <1>1, LifecycleTypes
    <3>2. MayWrite(Succeeded(wrow[w]).status, wrow[w])
      BY <1>1 DEF MayWrite, Succeeded, Row
    <3> QED BY <2>1, <3>1, <3>2
  <2> QED BY <1>2, <1>3, <2>1 DEF MarkSuccess
<1> QED BY <1>2, <1>3

(***************************************************************************)
(* So is every other step of a worker that holds a task.                   *)
(***************************************************************************)
LEMMA WorkerMoves ==
    ASSUME TypeInv, NEW w \in Workers, WorkerStep(w) \/ Kill(w), ~Take(w)
    PROVE  WorkerMove(w)
<1>1. wrow[w] \in Row /\ Role[w] \in Kinds
  BY RoleAssumption DEF TypeInv, TypeOK
<1>2. CASE Load(w)
  BY <1>2 DEF Load, WorkerMove, WorkerSteps
<1>3. CASE StartAttempt(w)
  <2>1. CASE Leave(w) /\ UNCHANGED row
    BY <1>3, <2>1 DEF StartAttempt, WorkerMove
  <2>2. CASE Mutable(w) /\ Persist(w, Started(wrow[w])) /\ Goto(w, "started")
    <3>1. Started(wrow[w]) \in Row
      BY <1>1, LifecycleTypes
    <3>2. MayWrite(Started(wrow[w]).status, wrow[w])
      BY <1>1 DEF MayWrite, Started, Row
    <3> QED BY <1>3, <2>2, <3>1, <3>2 DEF StartAttempt, WorkerMove, WorkerSteps
  <2> QED BY <1>3, <2>1, <2>2 DEF StartAttempt
<1>4. CASE RefreshStarted(w) \/ CheckStop(w) \/ NextIteration(w) \/ FinalCheck(w)
  BY <1>4 DEF RefreshStarted, CheckStop, NextIteration, FinalCheck, WorkerMove, WorkerSteps
<1>5. CASE Execute(w)
  <2>1. Errors(Role[w]) \subseteq {"timeout", "transient", "fatal"}
    BY <1>1 DEF Errors, Kinds
  <2> QED BY <1>5, <2>1, AttemptEnds DEF Execute
<1>6. CASE Evaluate(w)
  <2>1. CASE /\ Mutable(w) /\ Persist(w, Progressed(wrow[w], witer[w] + 1))
             /\ Goto(w, "progressed")
    <3>1. witer[w] + 1 \in 1 .. MaxIterations
      BY <1>6, MaxIterationsAssumption DEF Evaluate, TypeInv, TypeOK, IterationsLeft
    <3>2. Progressed(wrow[w], witer[w] + 1) \in Row
      BY <1>1, <3>1, LifecycleTypes
    <3>3. MayWrite(Progressed(wrow[w], witer[w] + 1).status, wrow[w])
      BY <1>1 DEF MayWrite, Progressed, Row
    <3> QED BY <1>6, <2>1, <3>2, <3>3 DEF Evaluate, WorkerMove, WorkerSteps
  <2>2. CASE \E err \in Errors("hybrid") : Fail(w, err)
    BY <1>6, <2>2, AttemptEnds DEF Evaluate, Errors
  <2> QED BY <1>6, <2>1, <2>2 DEF Evaluate
<1>7. CASE FinishHybrid(w)
  BY <1>7, AttemptEnds DEF FinishHybrid
<1>8. CASE RenewTtl(w) \/ Kill(w)
  BY <1>8 DEF RenewTtl, Kill, WorkerMove
<1> QED BY <1>2, <1>3, <1>4, <1>5, <1>6, <1>7, <1>8 DEF WorkerStep

----------------------------------------------------------------------------
(* A settled task. *)

(***************************************************************************)
(* No step writes the row of a settled task or gives a session a live copy *)
(* of it: every session that holds the task has seen it terminal, and the  *)
(* guards of the lifecycle stop such a session.                            *)
(***************************************************************************)
LEMMA SettledStep ==
    ASSUME TypeInv, [Next]_vars, NEW t \in Tasks, Settled(t)
    PROVE  row'[t] = row[t] /\ Settled(t)'
<1> USE DEF Settled, TypeInv, TypeOK
<1>1. ASSUME NEW u \in Tasks, DispatchStep(u) \/ Redeliver(u)
      PROVE  row'[t] = row[t] /\ Settled(t)'
  <2>1. UNCHANGED <<workerVars, cancelVars>>
    BY <1>1 DEF DispatchStep, Publish, PublishFails, RenewAfterFailure, Redeliver
  <2>2. row'[t] = row[t] /\ dispatcher'[t] # "created"
    BY <1>1 DEF DispatchStep, Publish, PublishFails, RenewAfterFailure, Redeliver
  <2> QED BY <2>1, <2>2 DEF workerVars, cancelVars
<1>2. ASSUME NEW w \in Workers, Take(w)
      PROVE  row'[t] = row[t] /\ Settled(t)'
  BY <1>2 DEF Take, cancelVars
<1>3. ASSUME NEW w \in Workers, WorkerMove(w)
      PROVE  row'[t] = row[t] /\ Settled(t)'
  <2>1. UNCHANGED <<dispatcher, ctask>> /\ wpc[w] # "idle" /\ wtask[w] \in Tasks
    BY <1>3 DEF WorkerMove, cancelVars
  <2>2. CASE Leave(w) /\ UNCHANGED row
    BY <2>1, <2>2, TasksAssumption DEF Leave
  <2>3. CASE /\ \E step \in WorkerSteps \ {"idle", "load"} : Goto(w, step)
             /\ Refresh(w)
    BY <2>1, <2>3 DEF Goto, Refresh
  <2>4. CASE /\ \E step \in WorkerSteps \ {"idle", "load"} : Goto(w, step)
             /\ wpc[w] # "load" /\ UNCHANGED <<row, wrow>>
    BY <2>1, <2>4 DEF Goto
  <2>5. CASE /\ \E step \in WorkerSteps \ {"idle", "load"} : Goto(w, step)
             /\ wpc[w] # "load" /\ Mutable(w)
             /\ \E mem \in Row : Persist(w, mem)
    <3>1. wtask[w] # t
      BY <2>5 DEF Mutable
    <3> QED BY <2>1, <2>5, <3>1 DEF Goto, Persist
  <2> QED BY <1>3, <2>2, <2>3, <2>4, <2>5 DEF WorkerMove
<1>4. ASSUME NEW c \in Cancellers, CancelCommit(c)
      PROVE  row'[t] = row[t] /\ Settled(t)'
  BY <1>4, TasksAssumption DEF CancelCommit, workerVars
<1>5. ASSUME NEW c \in Cancellers, NEW u \in Tasks, CancelLoad(c, u)
      PROVE  row'[t] = row[t] /\ Settled(t)'
  BY <1>5 DEF CancelLoad, workerVars
<1>6. CASE UNCHANGED vars
  BY <1>6 DEF vars, workerVars, cancelVars
<1> QED
  BY <1>1, <1>2, <1>3, <1>4, <1>5, <1>6, WorkerMoves DEF Next

(***************************************************************************)
(* Once every session that holds the task has seen it terminal, its row is *)
(* never written again and it stays settled.                               *)
(***************************************************************************)
THEOREM SettledTasksFrozen == Spec => SettledFrozen
<1>1. TypeInv /\ [Next]_vars =>
        [\A t \in Tasks : Settled(t) => row'[t] = row[t] /\ Settled(t)']_vars
  BY SettledStep
<1> QED BY <1>1, TypeInvariant, PTL DEF Spec, SettledFrozen

----------------------------------------------------------------------------
(* The rows implement TaskOutcome. *)

\* A step touches no task but u, and does not make u PENDING.
TouchesOnly(u) ==
    /\ \A t \in Tasks \ {u} : row'[t] = row[t] /\ (Settled(t)' <=> Settled(t))
    /\ row'[u].status = row[u].status \/ row'[u].status # "PENDING"

(***************************************************************************)
(* A commit leaves the status alone or makes it something else than        *)
(* PENDING, provided the session wrote no PENDING into its copy.           *)
(***************************************************************************)
LEMMA FlushStatus ==
    ASSUME NEW mem \in Row, NEW loaded \in Row, NEW stored \in Row,
           MayWrite(mem.status, loaded)
    PROVE  LET status == Flush(mem, loaded, stored).status
           IN  status = stored.status \/ status # "PENDING"
BY DEF Flush, Written, MayWrite

(***************************************************************************)
(* Whether a task is settled depends on its row, its dispatcher and the    *)
(* sessions that hold it, on nothing else.                                 *)
(***************************************************************************)
LEMMA SameHolders ==
    ASSUME NEW t \in Tasks, row'[t] = row[t], dispatcher'[t] = dispatcher[t],
           \A v \in Workers :
              /\ wtask'[v] = t <=> wtask[v] = t
              /\ wtask[v] = t => wpc'[v] = wpc[v] /\ wrow'[v] = wrow[v],
           \A c \in Cancellers : ctask'[c] = t <=> ctask[c] = t
    PROVE  Settled(t)' <=> Settled(t)
<1>1. \A v \in Workers :
         (wtask[v] = t /\ wpc[v] # "load" => IsTerminal(wrow[v]))'
            <=> (wtask[v] = t /\ wpc[v] # "load" => IsTerminal(wrow[v]))
  BY DEF IsTerminal
<1>2. \A c \in Cancellers : ctask'[c] # t <=> ctask[c] # t
  OBVIOUS
<1>3. IsTerminal(row[t])' <=> IsTerminal(row[t])
  BY DEF IsTerminal
<1> QED BY <1>1, <1>2, <1>3 DEF Settled

(***************************************************************************)
(* Every step touches at most one task.                                    *)
(***************************************************************************)
LEMMA OneTaskAtATime ==
    ASSUME TypeInv, [Next]_vars, Tasks # {}
    PROVE  \E u \in Tasks : TouchesOnly(u)
<1> USE DEF TypeInv, TypeOK
<1>1. ASSUME NEW u \in Tasks, DispatchStep(u) \/ Redeliver(u)
      PROVE  TouchesOnly(u)
  <2>1. UNCHANGED <<workerVars, cancelVars>>
    BY <1>1 DEF DispatchStep, Publish, PublishFails, RenewAfterFailure, Redeliver
  <2>2. \A t \in Tasks \ {u} : row'[t] = row[t] /\ dispatcher'[t] = dispatcher[t]
    BY <1>1 DEF DispatchStep, Publish, PublishFails, RenewAfterFailure, Redeliver
  <2>3. \A t \in Tasks \ {u} : Settled(t)' <=> Settled(t)
    BY <2>1, <2>2 DEF Settled, workerVars, cancelVars
  <2>4. row'[u].status = row[u].status \/ row'[u].status # "PENDING"
    <3>1. CASE UNCHANGED row
      BY <3>1
    <3>2. CASE \E copy \in {NewRow, row[u]} :
                  row' = [row EXCEPT ![u] = Flush(Failed(copy, "FAILURE"), copy, @)]
      <4>1. PICK copy \in {NewRow, row[u]} :
               row' = [row EXCEPT ![u] = Flush(Failed(copy, "FAILURE"), copy, @)]
        BY <3>2
      <4>2. copy \in Row /\ Failed(copy, "FAILURE") \in Row /\ row[u] \in Row
        BY <4>1, LifecycleTypes DEF Verdicts
      <4>3. MayWrite(Failed(copy, "FAILURE").status, copy)
        BY <4>2 DEF MayWrite, Failed, Row
      <4>4. row'[u] = Flush(Failed(copy, "FAILURE"), copy, row[u])
        BY <4>1
      <4> QED BY <4>2, <4>3, <4>4, FlushStatus
    <3> QED
      BY <1>1, <3>1, <3>2
      DEF DispatchStep, Publish, PublishFails, RenewAfterFailure, Redeliver
  <2> QED BY <2>2, <2>3, <2>4 DEF TouchesOnly
<1>2. ASSUME NEW w \in Workers, Take(w)
      PROVE  \E u \in Tasks : TouchesOnly(u)
  <2> DEFINE u == Head(queue[Role[w]])
  <2>1. u \in Tasks
    <3>1. Role[w] \in Kinds /\ queue[Role[w]] \in Seq(Tasks) /\ queue[Role[w]] # << >>
      BY <1>2, RoleAssumption DEF Take
    <3> QED BY <3>1
  <2>2. /\ wtask[w] = NoTask /\ wtask'[w] = u
        /\ \A v \in Workers \ {w} : wtask'[v] = wtask[v] /\ wpc'[v] = wpc[v]
        /\ UNCHANGED <<row, dispatcher, wrow, ctask>>
    BY <1>2 DEF Take, IdleHoldNothing, cancelVars
  <2>3. \A t \in Tasks \ {u} : Settled(t)' <=> Settled(t)
    <3> HIDE DEF u
    <3> QED BY <2>2, SameHolders, TasksAssumption
  <2> QED BY <2>1, <2>2, <2>3 DEF TouchesOnly
<1>3. ASSUME NEW w \in Workers, WorkerMove(w)
      PROVE  TouchesOnly(wtask[w]) /\ wtask[w] \in Tasks
  <2> DEFINE u == wtask[w]
  <2>1. u \in Tasks /\ wrow[w] \in Row /\ row[u] \in Row /\ UNCHANGED <<dispatcher, ctask>>
    BY <1>3 DEF WorkerMove, cancelVars
  <2>2. \A t \in Tasks \ {u} : row'[t] = row[t]
    BY <1>3 DEF WorkerMove, Refresh, Persist
  <2>3. /\ wtask'[w] \in {u, NoTask}
        /\ \A v \in Workers \ {w} :
              wtask'[v] = wtask[v] /\ wpc'[v] = wpc[v] /\ wrow'[v] = wrow[v]
    BY <1>3 DEF WorkerMove, Leave, Goto, Refresh, Persist
  <2>4. \A t \in Tasks \ {u} : Settled(t)' <=> Settled(t)
    BY <2>1, <2>2, <2>3, TasksAssumption, ZenonT(60) DEF Settled
  <2>5. row'[u].status = row[u].status \/ row'[u].status # "PENDING"
    <3>1. CASE UNCHANGED row
      BY <3>1
    <3>2. CASE \E mem \in Row : MayWrite(mem.status, wrow[w]) /\ Persist(w, mem)
      <4>1. PICK mem \in Row : MayWrite(mem.status, wrow[w]) /\ Persist(w, mem)
        BY <3>2
      <4>2. row'[u] = Flush(mem, wrow[w], row[u])
        BY <2>1, <4>1 DEF Persist
      <4> QED BY <2>1, <4>1, <4>2, FlushStatus
    <3> QED BY <1>3, <3>1, <3>2 DEF WorkerMove, Refresh
  <2> QED BY <2>1, <2>2, <2>4, <2>5 DEF TouchesOnly
<1>4. ASSUME NEW c \in Cancellers, CancelCommit(c)
      PROVE  TouchesOnly(ctask[c]) /\ ctask[c] \in Tasks
  <2> DEFINE u == ctask[c]
  <2>1. u \in Tasks /\ crow[c] \in Row /\ row[u] \in Row
    BY <1>4 DEF CancelCommit
  <2>2. /\ ctask[c] = u /\ ctask'[c] = NoTask
        /\ \A d \in Cancellers \ {c} : ctask'[d] = ctask[d]
        /\ UNCHANGED <<dispatcher, wtask, wpc, wrow>>
        /\ \A t \in Tasks \ {u} : row'[t] = row[t]
    BY <1>4 DEF CancelCommit, workerVars
  <2>3. \A t \in Tasks \ {u} : Settled(t)' <=> Settled(t)
    <3> HIDE DEF u
    <3> QED BY <2>1, <2>2, SameHolders, TasksAssumption
  <2>4. Cancelled(crow[c]) \in Row /\ MayWrite(Cancelled(crow[c]).status, crow[c])
    BY <2>1, LifecycleTypes DEF MayWrite, Cancelled, Row
  <2>5. row'[u] = Flush(Cancelled(crow[c]), crow[c], row[u])
    BY <1>4, <2>1 DEF CancelCommit
  <2>6. row'[u].status = row[u].status \/ row'[u].status # "PENDING"
    BY <2>1, <2>4, <2>5, FlushStatus
  <2> QED BY <2>1, <2>2, <2>3, <2>6 DEF TouchesOnly
<1>5. ASSUME NEW c \in Cancellers, NEW u \in Tasks, CancelLoad(c, u)
      PROVE  TouchesOnly(u)
  BY <1>5, TasksAssumption DEF CancelLoad, TouchesOnly, Settled, IdleHoldNothing, workerVars
<1>6. ASSUME UNCHANGED vars
      PROVE  \A u \in Tasks : TouchesOnly(u)
  BY <1>6 DEF vars, TouchesOnly, Settled, workerVars, cancelVars
<1> QED
  BY <1>1, <1>2, <1>3, <1>4, <1>5, <1>6, WorkerMoves DEF Next

(***************************************************************************)
(* Every step is a step of TaskOutcome, or leaves the status and the       *)
(* settled flag of every task alone.                                       *)
(***************************************************************************)
LEMMA OutcomeStep ==
    ASSUME TypeInv, TypeInv', [Next]_vars
    PROVE  \/ Outcome!Next
           \/ UNCHANGED <<[t \in Tasks |-> row[t].status], [t \in Tasks |-> Settled(t)]>>
<1> DEFINE status == [t \in Tasks |-> row[t].status]
           settled == [t \in Tasks |-> Settled(t)]
<1>1. CASE Tasks = {}
  BY <1>1
<1>2. CASE Tasks # {}
  <2>1. PICK u \in Tasks : TouchesOnly(u)
    BY <1>2, OneTaskAtATime
  <2>2. \A t \in Tasks \ {u} :
           row'[t].status = row[t].status /\ (Settled(t)' <=> Settled(t))
    BY <2>1 DEF TouchesOnly
  <2>3. /\ row[u].status \in Outcome!Statuses /\ row'[u].status \in Outcome!Statuses
        /\ Settled(u)' => row'[u].status \in Outcome!Terminal
    BY DEF TypeInv, TypeOK, Row, Statuses, Terminal, Verdicts, Outcome!Statuses,
           Outcome!Terminal, Settled, IsTerminal
  <2>4. status' = [status EXCEPT ![u] = row'[u].status]
    BY <2>2
  <2>5. settled' = [settled EXCEPT ![u] = Settled(u)']
    <3>1. \A t \in Tasks \ {u} : Settled(t)' = Settled(t)
      BY <2>2 DEF Settled
    <3> QED BY <3>1, Zenon
  <2>6. CASE Settled(u)
    <3>1. row'[u] = row[u] /\ Settled(u)'
      BY <2>6, SettledStep
    <3> QED BY <2>4, <2>5, <2>6, <3>1
  <2>7. CASE ~Settled(u) /\ row'[u].status = row[u].status /\ ~Settled(u)'
    <3>1. Settled(u)' = Settled(u)
      BY <2>7 DEF Settled
    <3>2. settled' = settled
      BY <2>5, <3>1, Zenon
    <3>3. status' = status
      BY <2>4, <2>7
    <3> QED BY <3>2, <3>3
  <2>8. CASE ~Settled(u) /\ row'[u].status = row[u].status /\ Settled(u)'
    BY <2>3, <2>4, <2>5, <2>8 DEF Outcome!Next, Outcome!Settle
  <2>9. CASE ~Settled(u) /\ row'[u].status # row[u].status
    <3>1. row'[u].status \in Outcome!Statuses \ {"PENDING"}
      BY <2>1, <2>3, <2>9 DEF TouchesOnly
    <3>2. Settled(u)' \in BOOLEAN
      BY DEF Settled
    <3>3. Outcome!Move(u)
      BY <2>3, <2>4, <2>5, <2>9, <3>1, <3>2 DEF Outcome!Move
    <3> QED BY <3>3 DEF Outcome!Next
  <2> QED BY <2>6, <2>7, <2>8, <2>9
<1> QED BY <1>1, <1>2

(***************************************************************************)
(* The platform implements TaskOutcome: whatever its sessions, retries,    *)
(* redeliveries and cancel requests do, a task's status moves as           *)
(* TaskOutcome allows and rests for ever once it is settled.               *)
(***************************************************************************)
THEOREM ExecutionImplementsOutcome == Spec => ImplementsOutcome
<1>1. Init => Outcome!Init
  <2> SUFFICES ASSUME Init PROVE Outcome!Init
    OBVIOUS
  <2>1. \A t \in Tasks : row[t].status = "PENDING"
    BY DEF Init, NewRow
  <2>2. \A t \in Tasks : Settled(t) = FALSE
    BY <2>1 DEF Settled, IsTerminal, Terminal, Verdicts
  <2> QED BY <2>1, <2>2 DEF Outcome!Init
<1>2. TypeInv /\ TypeInv' /\ [Next]_vars
        => [Outcome!Next]_<<[t \in Tasks |-> row[t].status], [t \in Tasks |-> Settled(t)]>>
  BY OutcomeStep
<1> QED BY <1>1, <1>2, TypeInvariant, PTL DEF Spec, ImplementsOutcome, Outcome!Spec

-----------------------------------------------------------------------------
(***************************************************************************)
(* Tasks whose message is delivered once.  Other tasks may be delivered    *)
(* many times meanwhile.                                                   *)
(***************************************************************************)
\* t is in the sequence q, and not twice.
Occurs(q, t) == \E i \in 1 .. Len(q) : q[i] = t
Once(q, t) == \A i, j \in 1 .. Len(q) : q[i] = t /\ q[j] = t => i = j

Waiting(t) == Occurs(queue[Kind[t]], t)

\* A queue holds the tasks of its kind.
QueuesSorted == \A k \in Kinds : \A i \in 1 .. Len(queue[k]) : Kind[queue[k][i]] = k

\* One message or one worker has the task, and none before it is published.
Alone(t) ==
    /\ Once(queue[Kind[t]], t)
    /\ \A v, w \in Workers : wtask[v] = t /\ wtask[w] = t => v = w
    /\ \A w \in Workers : wtask[w] = t => ~Waiting(t)
    /\ dispatcher[t] # "queued" => ~Waiting(t) /\ \A w \in Workers : wtask[w] # t

\* What the worker's copy and the row agree on: cancel requests write no
\* other columns than status and finished.
Agrees(w, t) ==
    /\ wrow[w].status \notin Verdicts
    /\ wrow[w].attempt = row[t].attempt
    /\ wrow[w].result = row[t].result
    /\ wrow[w].error = row[t].error
    /\ wrow[w].finished => row[t].finished

\* There is no verdict as long as somebody is to work on the task.
Undecided(t) ==
    /\ dispatcher[t] = "created" =>
          row[t].status \notin Verdicts /\ row[t].result = NoResult /\ ~row[t].error
    /\ Waiting(t) => row[t].status \notin Verdicts
    /\ \A w \in Workers :
          wtask[w] = t /\ wpc[w] # "renew" => row[t].status \notin Verdicts

CopyIsCurrent(t) ==
    \A w \in Workers :
        /\ wtask[w] = t /\ wpc[w] \notin {"load", "renew"} => Agrees(w, t)
        /\ wtask[w] = t /\ wpc[w] # "load" /\ wrow[w].status = "CANCELLED"
              => row[t].status = "CANCELLED"

PayloadMatches(t) ==
    /\ row[t].status = "SUCCESS" =>
          row[t].result = FullResult /\ ~row[t].error /\ row[t].finished
    /\ row[t].status \in Verdicts \ {"SUCCESS"} =>
          row[t].result = NoResult /\ row[t].error /\ row[t].finished

\* The TTL is renewed, or about to be, when the task is over for everyone.
RenewalIsLast(t) ==
    /\ dispatcher[t] = "failing" => IsTerminal(row[t])
    /\ \A w \in Workers : wtask[w] = t /\ wpc[w] = "renew" => IsTerminal(row[t])
    /\ t \in renewed =>
          /\ IsTerminal(row[t]) /\ dispatcher[t] # "created" /\ ~Waiting(t)
          /\ \A w \in Workers : wtask[w] # t

TaskInv(t) ==
    /\ Alone(t) /\ Undecided(t) /\ CopyIsCurrent(t)
    /\ PayloadMatches(t) /\ RenewalIsLast(t)

DeliveryInv ==
    QueuesSorted /\ \A t \in Tasks : OneDelivery(t) => TaskInv(t)

----------------------------------------------------------------------------
(* Sequences. *)

\* Taking the head of a queue removes one occurrence of it.
LEMMA TailOccurs ==
    ASSUME NEW S, NEW q \in Seq(S), q # << >>, NEW t
    PROVE  /\ Occurs(q, Head(q))
           /\ Occurs(Tail(q), t) => Occurs(q, t)
           /\ Once(q, t) => Once(Tail(q), t)
           /\ Once(q, t) /\ Head(q) = t => ~Occurs(Tail(q), t)
<1>1. /\ Len(q) \in Nat \ {0} /\ Head(q) = q[1] /\ Len(Tail(q)) = Len(q) - 1
      /\ \A i \in 1 .. Len(Tail(q)) : Tail(q)[i] = q[i + 1]
  OBVIOUS
<1> DEFINE n == Len(q)
           m == Len(Tail(q))
           p == Tail(q)
           h == Head(q)
<1>2. n \in Nat \ {0} /\ h = q[1] /\ m = n - 1 /\ \A i \in 1 .. m : p[i] = q[i + 1]
  BY <1>1
<1>3. (Occurs(q, h) <=> \E i \in 1 .. n : q[i] = h) /\ (Occurs(p, t) <=> \E i \in 1 .. m : p[i] = t)
  BY DEF Occurs
<1>4. /\ Occurs(q, t) <=> \E i \in 1 .. n : q[i] = t
      /\ Once(q, t) <=> \A i, j \in 1 .. n : q[i] = t /\ q[j] = t => i = j
      /\ Once(p, t) <=> \A i, j \in 1 .. m : p[i] = t /\ p[j] = t => i = j
  BY DEF Occurs, Once
<1> HIDE DEF n, m, p, h
<1>5. Occurs(q, h)
  BY <1>2, <1>3
<1>6. Occurs(p, t) => Occurs(q, t)
  <2> SUFFICES ASSUME NEW i \in 1 .. m, p[i] = t PROVE Occurs(q, t)
    BY <1>3
  <2>1. i + 1 \in 1 .. n /\ q[i + 1] = t
    BY <1>2
  <2> QED BY <2>1, <1>4
<1>7. Once(q, t) => Once(p, t)
  <2> SUFFICES ASSUME Once(q, t), NEW i \in 1 .. m, NEW j \in 1 .. m, p[i] = t, p[j] = t
               PROVE  i = j
    BY <1>4
  <2>1. /\ i + 1 \in 1 .. n /\ q[i + 1] = t
        /\ j + 1 \in 1 .. n /\ q[j + 1] = t
    BY <1>2
  <2>2. i + 1 = j + 1
    BY <2>1, <1>4
  <2> QED BY <2>2
<1>8. Once(q, t) /\ h = t => ~Occurs(p, t)
  <2> SUFFICES ASSUME Once(q, t), h = t, NEW i \in 1 .. m, p[i] = t PROVE FALSE
    BY <1>3
  <2>1. i + 1 \in 1 .. n /\ q[i + 1] = t /\ 1 \in 1 .. n /\ q[1] = t
    BY <1>2
  <2>2. i + 1 = 1
    BY <2>1, <1>4
  <2> QED BY <2>2
<1> QED BY <1>5, <1>6, <1>7, <1>8 DEF p, h

\* Taking the head of a queue removes nothing else.
LEMMA TailKeepsRest ==
    ASSUME NEW S, NEW q \in Seq(S), q # << >>, NEW t, Occurs(q, t)
    PROVE  Occurs(Tail(q), t) \/ t = Head(q)
<1>1. /\ Len(q) \in Nat \ {0} /\ Head(q) = q[1] /\ Len(Tail(q)) = Len(q) - 1
      /\ \A i \in 1 .. Len(Tail(q)) : Tail(q)[i] = q[i + 1]
  OBVIOUS
<1>2. PICK i \in 1 .. Len(q) : q[i] = t
  BY DEF Occurs
<1>3. CASE i = 1
  BY <1>1, <1>2, <1>3
<1>4. CASE i # 1
  <2>1. i - 1 \in 1 .. Len(Tail(q)) /\ (i - 1) + 1 = i
    BY <1>1, <1>4
  <2>2. Tail(q)[i - 1] = t
    BY <1>1, <1>2, <2>1
  <2> QED BY <2>1, <2>2 DEF Occurs
<1> QED BY <1>3, <1>4

\* A message at the end of a queue is the only one more.
LEMMA AppendOccurs ==
    ASSUME NEW S, NEW q \in Seq(S), NEW u \in S, NEW t
    PROVE  /\ Occurs(Append(q, u), t) => Occurs(q, t) \/ u = t
           /\ Once(q, t) /\ (u # t \/ ~Occurs(q, t)) => Once(Append(q, u), t)
<1> DEFINE n == Len(q)
           p == Append(q, u)
<1>1. /\ n \in Nat /\ Len(p) = n + 1 /\ p[n + 1] = u
      /\ \A i \in 1 .. n : p[i] = q[i]
  OBVIOUS
<1>2. /\ Occurs(q, t) <=> \E i \in 1 .. n : q[i] = t
      /\ Once(q, t) <=> \A i, j \in 1 .. n : q[i] = t /\ q[j] = t => i = j
  BY DEF Occurs, Once
<1>3. /\ Occurs(p, t) <=> \E i \in 1 .. (n + 1) : p[i] = t
      /\ Once(p, t) <=> \A i, j \in 1 .. (n + 1) : p[i] = t /\ p[j] = t => i = j
  BY <1>1 DEF Occurs, Once
<1> HIDE DEF n, p
<1>4. \A i \in 1 .. (n + 1) : i \in 1 .. n \/ i = n + 1
  BY <1>1
<1>5. Occurs(p, t) => Occurs(q, t) \/ u = t
  BY <1>1, <1>2, <1>3, <1>4
<1>6. Once(q, t) /\ (u # t \/ ~Occurs(q, t)) => Once(p, t)
  BY <1>1, <1>2, <1>3, <1>4
<1> QED BY <1>5, <1>6 DEF p

----------------------------------------------------------------------------
(* Steps. *)

\* Nothing about t changes but that a worker may let go of it.
Elsewhere(t) ==
    /\ row'[t] = row[t] /\ dispatcher'[t] = dispatcher[t]
    /\ t \in renewed' => t \in renewed
    /\ Once(queue[Kind[t]], t)'
    /\ Waiting(t)' => Waiting(t)
    /\ \A w \in Workers : wtask'[w] = t =>
          wtask[w] = t /\ wpc'[w] = wpc[w] /\ wrow'[w] = wrow[w]

\* What is known of t stays known.
LEMMA KeptElsewhere ==
    ASSUME NEW t \in Tasks, TaskInv(t), Elsewhere(t)
    PROVE  TaskInv(t)'
<1> USE DEF TaskInv, Elsewhere
<1>1. Alone(t)'
  BY DEF Alone
<1>2. Undecided(t)'
  BY DEF Undecided
<1>3. CopyIsCurrent(t)'
  BY DEF CopyIsCurrent, Agrees
<1>4. PayloadMatches(t)'
  BY DEF PayloadMatches
<1>5. RenewalIsLast(t)'
  BY DEF RenewalIsLast
<1> QED BY <1>1, <1>2, <1>3, <1>4, <1>5

\* Worker w goes on to another step with its task t, the queues as they are.
Continues(w, t, step) ==
    /\ wtask[w] = t /\ Goto(w, step)
    /\ UNCHANGED <<brokerVars, dispatcher, renewed>>
    /\ \A v \in Workers \ {w} : wrow'[v] = wrow[v]
    /\ \A u \in Tasks \ {t} : row'[u] = row[u]

(***************************************************************************)
(* A worker's step leaves the other tasks alone.                           *)
(***************************************************************************)
LEMMA OthersUnmoved ==
    ASSUME TypeInv, NEW w \in Workers, NEW t \in Tasks, NEW step \in WorkerSteps,
           Continues(w, t, step), NEW u \in Tasks \ {t}, TaskInv(u)
    PROVE  TaskInv(u)'
<1>1. \A v \in Workers : wtask'[v] = u =>
          wtask[v] = u /\ wpc'[v] = wpc[v] /\ wrow'[v] = wrow[v]
  BY DEF Continues, Goto, TypeInv, TypeOK
<1>2. Once(queue[Kind[u]], u)' /\ (Waiting(u)' => Waiting(u))
  BY DEF Continues, brokerVars, TaskInv, Alone, Waiting
<1>3. row'[u] = row[u] /\ dispatcher' = dispatcher /\ renewed' = renewed
  BY DEF Continues
<1> QED BY <1>1, <1>2, <1>3, KeptElsewhere DEF Elsewhere

(***************************************************************************)
(* What a worker's step must keep about the task it holds: as the only one *)
(* that works on the task, it decides about its row but for cancellations. *)
(***************************************************************************)
LEMMA HolderMoves ==
    ASSUME TypeInv, NEW w \in Workers, NEW t \in Tasks, TaskInv(t),
           NEW step \in WorkerSteps \ {"idle", "load"}, Continues(w, t, step),
           row'[t].status \in Verdicts => step = "renew",
           step = "renew" => IsTerminal(row'[t]),
           step # "renew" => Agrees(w, t)',
           wrow'[w].status = "CANCELLED" => row'[t].status = "CANCELLED",
           PayloadMatches(t)'
    PROVE  TaskInv(t)'
<1>1. /\ wtask' = wtask /\ wpc'[w] = step /\ wtask[w] = t
      /\ \A v \in Workers : wtask[v] = t => v = w
      /\ ~Waiting(t) /\ dispatcher[t] = "queued" /\ t \notin renewed
  BY DEF Continues, Goto, TypeInv, TypeOK, TaskInv, Alone, RenewalIsLast
<1>2. dispatcher' = dispatcher /\ renewed' = renewed /\ Waiting(t)' = Waiting(t)
  BY DEF Continues, brokerVars, Waiting
<1>3. Alone(t)'
  BY <1>1, <1>2 DEF Alone, TaskInv, Continues, brokerVars
<1>4. Undecided(t)'
  BY <1>1, <1>2 DEF Undecided
<1>5. CopyIsCurrent(t)'
  BY <1>1 DEF CopyIsCurrent
<1>6. RenewalIsLast(t)'
  BY <1>1, <1>2 DEF RenewalIsLast
<1> QED BY <1>3, <1>4, <1>5, <1>6 DEF TaskInv

(***************************************************************************)
(* A worker that lets go of its task without a write.                      *)
(***************************************************************************)
LEMMA LeaveKeeps ==
    ASSUME TypeInv, NEW w \in Workers, Leave(w),
           UNCHANGED <<row, brokerVars, dispatcher, renewed>>,
           NEW t \in Tasks, TaskInv(t)
    PROVE  TaskInv(t)'
<1>1. \A v \in Workers : wtask'[v] = t =>
          wtask[v] = t /\ wpc'[v] = wpc[v] /\ wrow'[v] = wrow[v]
  BY TasksAssumption DEF Leave, TypeInv, TypeOK
<1>2. Once(queue[Kind[t]], t)' /\ (Waiting(t)' => Waiting(t))
  BY DEF brokerVars, TaskInv, Alone, Waiting
<1> QED BY <1>1, <1>2, KeptElsewhere DEF Elsewhere

\* What the steps between "start" and the verdict rest on.
LEMMA HeldFacts ==
    ASSUME TypeInv, NEW w \in Workers, wpc[w] \notin {"idle", "load", "renew"},
           NEW t \in Tasks, wtask[w] = t, TaskInv(t)
    PROVE  /\ row[t] \in Row /\ wrow[w] \in Row
           /\ Agrees(w, t) /\ row[t].status \notin Verdicts
           /\ wrow[w].status = "CANCELLED" => row[t].status = "CANCELLED"
           /\ ~Mutable(w) => wrow[w].status = "CANCELLED"
<1>1. row[t] \in Row /\ wrow[w] \in Row
  BY DEF TypeInv, TypeOK
<1>2. Agrees(w, t) /\ row[t].status \notin Verdicts
  BY DEF TaskInv, CopyIsCurrent, Undecided
<1>3. ~Mutable(w) => wrow[w].status = "CANCELLED"
  BY <1>2 DEF Mutable, IsTerminal, Terminal, Agrees
<1> QED BY <1>1, <1>2, <1>3 DEF TaskInv, CopyIsCurrent

\* A refreshed copy is the row.
LEMMA RefreshKeeps ==
    ASSUME TypeInv, NEW w \in Workers, wpc[w] \notin {"idle", "load", "renew"},
           NEW t \in Tasks, TaskInv(t),
           NEW step \in WorkerSteps \ {"idle", "load", "start"}, Continues(w, t, step),
           Refresh(w), step = "renew" => row[t].status = "CANCELLED"
    PROVE  TaskInv(t)'
<1>1. wtask[w] = t
  BY DEF Continues
<1>2. row' = row /\ wrow'[w] = row[t]
  BY <1>1 DEF Refresh, TypeInv, TypeOK
<1>3. Agrees(w, t)'
  BY <1>1, <1>2, HeldFacts DEF Agrees
<1>4. PayloadMatches(t)'
  BY <1>2 DEF TaskInv, PayloadMatches
<1>5. step = "renew" => IsTerminal(row'[t])
  BY <1>2 DEF IsTerminal, Terminal
<1>6. row'[t].status \notin Verdicts
  BY <1>1, <1>2, HeldFacts
<1> QED BY <1>2, <1>3, <1>4, <1>5, <1>6, HolderMoves

(***************************************************************************)
(* The columns of the copies the lifecycle methods leave.                  *)
(***************************************************************************)
LEMMA LifecycleColumns ==
    ASSUME NEW r \in Row
    PROVE  /\ /\ Succeeded(r).status = "SUCCESS" /\ Succeeded(r).attempt = r.attempt
              /\ Succeeded(r).result = FullResult /\ Succeeded(r).error = FALSE
              /\ Succeeded(r).finished = TRUE
           /\ /\ Started(r).status = "RUNNING" /\ Started(r).attempt = r.attempt + 1
              /\ Started(r).result = r.result /\ Started(r).error = FALSE
              /\ Started(r).finished = r.finished
           /\ /\ Cancelled(r).status = "CANCELLED" /\ Cancelled(r).attempt = r.attempt
              /\ Cancelled(r).result = r.result /\ Cancelled(r).error = r.error
              /\ Cancelled(r).finished = TRUE
BY DEF Succeeded, Started, Cancelled, Row

\* mark_failure, mark_timeout and mark_retry_exhausted.
LEMMA FailedColumns ==
    ASSUME NEW r \in Row, NEW v \in Verdicts
    PROVE  /\ Failed(r, v).status = v /\ Failed(r, v).attempt = r.attempt
           /\ Failed(r, v).result = NoResult /\ Failed(r, v).error = TRUE
           /\ Failed(r, v).finished = TRUE
BY DEF Failed, Row

\* mark_progress.
LEMMA ProgressedColumns ==
    ASSUME NEW r \in Row, NEW i \in Nat
    PROVE  /\ Progressed(r, i).status = r.status /\ Progressed(r, i).attempt = r.attempt
           /\ Progressed(r, i).finished = r.finished
BY DEF Progressed, Row

\* The only session at work on a task commits: but for status and finished,
\* the row becomes the session's copy.
LEMMA CommitColumns ==
    ASSUME TypeInv, NEW w \in Workers, wpc[w] \notin {"idle", "load", "renew"},
           NEW t \in Tasks, wtask[w] = t, TaskInv(t), NEW mem \in Row, Persist(w, mem)
    PROVE  /\ wrow'[w] = mem
           /\ row'[t].attempt = mem.attempt /\ row'[t].result = mem.result
           /\ row'[t].error = mem.error
           /\ row'[t].status = IF mem.status = wrow[w].status THEN row[t].status ELSE mem.status
           /\ row'[t].finished = IF mem.finished = wrow[w].finished THEN row[t].finished
                                 ELSE mem.finished
           /\ \A u \in Tasks \ {t} : row'[u] = row[u]
           /\ \A v \in Workers \ {w} : wrow'[v] = wrow[v]
<1>1. /\ wrow'[w] = mem /\ row'[t] = Flush(mem, wrow[w], row[t])
      /\ \A u \in Tasks \ {t} : row'[u] = row[u]
      /\ \A v \in Workers \ {w} : wrow'[v] = wrow[v]
  BY DEF Persist, TypeInv, TypeOK
<1>2. Agrees(w, t)
  BY HeldFacts
<1> QED BY <1>1, <1>2 DEF Flush, Written, Agrees

\* A verdict of the session that holds the task.
LEMMA VerdictKeeps ==
    ASSUME TypeInv, NEW w \in Workers, wpc[w] \notin {"idle", "load", "renew"},
           NEW t \in Tasks, TaskInv(t), Mutable(w), Continues(w, t, "renew"),
           NEW mem \in {Succeeded(wrow[w])} \cup {Failed(wrow[w], v) : v \in Verdicts \ {"SUCCESS"}},
           Persist(w, mem)
    PROVE  TaskInv(t)'
<1>1. wtask[w] = t
  BY DEF Continues
<1>2. wrow[w] \in Row /\ wrow[w].status \notin Terminal /\ Agrees(w, t)
  BY <1>1, HeldFacts DEF Mutable, IsTerminal
<1>3. /\ mem \in Row /\ mem.attempt = wrow[w].attempt /\ mem.finished = TRUE
      /\ mem.status \in Verdicts
      /\ mem.status = "SUCCESS" => mem.result = FullResult /\ mem.error = FALSE
      /\ mem.status # "SUCCESS" => mem.result = NoResult /\ mem.error = TRUE
  <2>1. CASE mem = Succeeded(wrow[w])
    <3>1. /\ Succeeded(wrow[w]) \in Row /\ Succeeded(wrow[w]).status = "SUCCESS"
          /\ Succeeded(wrow[w]).attempt = wrow[w].attempt /\ Succeeded(wrow[w]).result = FullResult
          /\ Succeeded(wrow[w]).error = FALSE /\ Succeeded(wrow[w]).finished = TRUE
      BY <1>2, LifecycleColumns, LifecycleTypes, Zenon
    <3>2. "SUCCESS" \in Verdicts
      BY DEF Verdicts
    <3> QED BY <2>1, <3>1, <3>2, Zenon
  <2>2. CASE mem \in {Failed(wrow[w], v) : v \in Verdicts \ {"SUCCESS"}}
    <3>1. PICK v \in Verdicts \ {"SUCCESS"} : mem = Failed(wrow[w], v)
      BY <2>2
    <3>2. /\ Failed(wrow[w], v) \in Row /\ Failed(wrow[w], v).status = v
          /\ Failed(wrow[w], v).attempt = wrow[w].attempt /\ Failed(wrow[w], v).result = NoResult
          /\ Failed(wrow[w], v).error = TRUE /\ Failed(wrow[w], v).finished = TRUE
      <4>1. wrow[w] \in Row /\ v \in Verdicts
        BY <1>2
      <4>2. Failed(wrow[w], v) \in Row
        BY <4>1, LifecycleTypes
      <4> QED BY <4>1, <4>2, FailedColumns
    <3>3. v \in Verdicts /\ v # "SUCCESS"
      OBVIOUS
    <3> QED BY <3>1, <3>2, <3>3, Zenon
  <2> QED BY <2>1, <2>2
<1>4. mem.status # wrow[w].status
  BY <1>2, <1>3 DEF Terminal
<1>5. /\ wrow'[w] = mem /\ row'[t].status = mem.status /\ row'[t].attempt = mem.attempt
      /\ row'[t].result = mem.result /\ row'[t].error = mem.error
  BY <1>1, <1>3, <1>4, CommitColumns
<1>6. row'[t].finished = TRUE
  <2>1. wrow[w].finished \in BOOLEAN /\ row[t].finished \in BOOLEAN
    BY <1>2 DEF Row, TypeInv, TypeOK
  <2>2. wrow[w].finished => row[t].finished
    BY <1>2 DEF Agrees
  <2>3. row'[t].finished = IF mem.finished = wrow[w].finished THEN row[t].finished ELSE mem.finished
    BY <1>1, <1>3, CommitColumns
  <2> QED BY <1>3, <2>1, <2>2, <2>3
<1>7. PayloadMatches(t)'
  BY <1>3, <1>5, <1>6 DEF PayloadMatches
<1>8. IsTerminal(row'[t]) /\ row'[t].status # "CANCELLED"
  BY <1>3, <1>5 DEF IsTerminal, Terminal, Verdicts
<1>9. wrow'[w].status # "CANCELLED" /\ "renew" \in WorkerSteps \ {"idle", "load"}
  BY <1>5, <1>8 DEF WorkerSteps
<1> QED BY <1>7, <1>8, <1>9, HolderMoves

\* A new attempt or a progress snapshot.
LEMMA WorkKeeps ==
    ASSUME TypeInv, NEW w \in Workers, wpc[w] \notin {"idle", "load", "renew"},
           NEW t \in Tasks, TaskInv(t), Mutable(w),
           NEW step \in {"started", "progressed"}, Continues(w, t, step),
           NEW mem \in {Started(wrow[w])} \cup {Progressed(wrow[w], i) : i \in 1 .. MaxIterations},
           mem = Started(wrow[w]) => wpc[w] = "start",
           Persist(w, mem)
    PROVE  TaskInv(t)'
<1>1. wtask[w] = t
  BY DEF Continues
<1>2. /\ wrow[w] \in Row /\ wrow[w].status \notin Terminal /\ Agrees(w, t)
      /\ row[t].status \notin Verdicts
  BY <1>1, HeldFacts DEF Mutable, IsTerminal
<1>3. /\ mem \in Row /\ mem.finished = wrow[w].finished
      /\ mem.status \in {"RUNNING", wrow[w].status}
  <2>1. CASE mem = Started(wrow[w])
    BY <1>2, <2>1, LifecycleColumns, LifecycleTypes
  <2>2. CASE mem \in {Progressed(wrow[w], i) : i \in 1 .. MaxIterations}
    <3>1. PICK i \in 1 .. MaxIterations : mem = Progressed(wrow[w], i)
      BY <2>2
    <3>2. i \in Nat
      BY MaxIterationsAssumption
    <3>3. /\ Progressed(wrow[w], i) \in Row /\ Progressed(wrow[w], i).status = wrow[w].status
          /\ Progressed(wrow[w], i).attempt = wrow[w].attempt
          /\ Progressed(wrow[w], i).finished = wrow[w].finished
      <4>1. wrow[w] \in Row /\ i \in 1 .. MaxIterations
        BY <1>2
      <4>2. Progressed(wrow[w], i) \in Row
        BY <4>1, LifecycleTypes
      <4> QED BY <3>2, <4>1, <4>2, ProgressedColumns
    <3> QED BY <3>1, <3>3, Zenon
  <2> QED BY <2>1, <2>2
<1>4. mem.status \notin Terminal
  BY <1>2, <1>3 DEF Terminal, Verdicts
<1>5. /\ wrow'[w] = mem /\ row'[t].attempt = mem.attempt
      /\ row'[t].result = mem.result /\ row'[t].error = mem.error
      /\ row'[t].status \in {mem.status, row[t].status}
      /\ row'[t].finished = row[t].finished
  BY <1>1, <1>3, CommitColumns
<1>6. row'[t].status \notin Verdicts
  BY <1>2, <1>4, <1>5 DEF Terminal
<1>7. Agrees(w, t)'
  BY <1>2, <1>3, <1>4, <1>5 DEF Agrees, Terminal
<1>8. PayloadMatches(t)'
  BY <1>6 DEF PayloadMatches, Verdicts
<1>9. wrow'[w].status # "CANCELLED" /\ step \in WorkerSteps \ {"idle", "load"}
  BY <1>4, <1>5 DEF Terminal, WorkerSteps
<1> QED BY <1>6, <1>7, <1>8, <1>9, HolderMoves

\* Backing off for another attempt.
LEMMA RetryKeeps ==
    ASSUME TypeInv, NEW w \in Workers, wpc[w] \notin {"idle", "load", "renew"},
           NEW t \in Tasks, TaskInv(t), Continues(w, t, "start"),
           UNCHANGED <<row, wrow>>
    PROVE  TaskInv(t)'
<1>1. wtask[w] = t
  BY DEF Continues
<1>2. Agrees(w, t)'
  BY <1>1, HeldFacts DEF Agrees
<1>3. PayloadMatches(t)'
  BY DEF TaskInv, PayloadMatches
<1>4. row'[t].status \notin Verdicts /\ (wrow'[w].status = "CANCELLED" => row'[t].status = "CANCELLED")
  BY <1>1, HeldFacts
<1>5. "start" \in WorkerSteps \ {"idle", "load"}
  BY DEF WorkerSteps
<1> QED BY <1>2, <1>3, <1>4, <1>5, HolderMoves

(***************************************************************************)
(* The ends of an attempt, for every task.                                 *)
(***************************************************************************)
LEMMA PersistContinues ==
    ASSUME TypeInv, NEW w \in Workers, NEW mem, Persist(w, mem), NEW step, Goto(w, step),
           UNCHANGED <<brokerVars, dispatcher, renewed>>
    PROVE  Continues(w, wtask[w], step)
BY DEF Persist, Continues, TypeInv, TypeOK

\* The except branch of the workers.
LEMMA FailKeeps ==
    ASSUME TypeInv, NEW w \in Workers, wpc[w] \notin {"idle", "load", "renew"},
           NEW err \in {"timeout", "transient", "fatal"}, Fail(w, err),
           UNCHANGED <<brokerVars, dispatcher, renewed>>,
           NEW u \in Tasks, TaskInv(u)
    PROVE  TaskInv(u)'
<1> DEFINE t == wtask[w]
<1>1. t \in Tasks
  BY DEF TypeInv, TypeOK
<1>2. CASE CanRetry(wrow[w].attempt, err) /\ Goto(w, "start") /\ UNCHANGED <<row, wrow, witer>>
  <2>1. Continues(w, t, "start") /\ "start" \in WorkerSteps
    BY <1>2 DEF Continues, WorkerSteps
  <2>2. CASE u = t
    BY <1>1, <1>2, <2>1, <2>2, RetryKeeps
  <2>3. CASE u # t
    BY <1>1, <2>1, <2>3, OthersUnmoved
  <2> QED BY <2>2, <2>3
<1>3. CASE Leave(w) /\ UNCHANGED row
  BY <1>3, LeaveKeeps
<1>4. CASE /\ Mutable(w) /\ Persist(w, Failed(wrow[w], ErrorVerdict(err)))
           /\ Goto(w, "renew")
  <2>1. Continues(w, t, "renew") /\ "renew" \in WorkerSteps
    BY <1>4, PersistContinues DEF WorkerSteps
  <2>2. ErrorVerdict(err) \in Verdicts \ {"SUCCESS"}
    BY DEF ErrorVerdict, Verdicts
  <2>3. CASE u = t
    BY <1>1, <1>4, <2>1, <2>2, <2>3, VerdictKeeps
  <2>4. CASE u # t
    BY <1>1, <2>1, <2>4, OthersUnmoved
  <2> QED BY <2>3, <2>4
<1> QED BY <1>2, <1>3, <1>4 DEF Fail

\* mark_success, and the except branch when it raises.
LEMMA SuccessKeeps ==
    ASSUME TypeInv, NEW w \in Workers, wpc[w] \notin {"idle", "load", "renew"},
           MarkSuccess(w), UNCHANGED <<brokerVars, dispatcher, renewed>>,
           NEW u \in Tasks, TaskInv(u)
    PROVE  TaskInv(u)'
<1> DEFINE t == wtask[w]
<1>1. t \in Tasks
  BY DEF TypeInv, TypeOK
<1>2. CASE Mutable(w) /\ Persist(w, Succeeded(wrow[w])) /\ Goto(w, "renew")
  <2>1. Continues(w, t, "renew") /\ "renew" \in WorkerSteps
    BY <1>2, PersistContinues DEF WorkerSteps
  <2>2. CASE u = t
    BY <1>1, <1>2, <2>1, <2>2, VerdictKeeps
  <2>3. CASE u # t
    BY <1>1, <2>1, <2>3, OthersUnmoved
  <2> QED BY <2>2, <2>3
<1>3. CASE Fail(w, "transient")
  BY <1>3, FailKeeps
<1> QED BY <1>2, <1>3 DEF MarkSuccess

\* A step whose session refreshes its copy.
LEMMA RefreshStepKeeps ==
    ASSUME TypeInv, NEW w \in Workers, wpc[w] \notin {"idle", "load", "renew"},
           NEW step \in {"run", "evaluate", "final", "finish", "renew"},
           Refresh(w), Goto(w, step),
           step = "renew" => row[wtask[w]].status = "CANCELLED",
           UNCHANGED <<brokerVars, dispatcher, renewed>>,
           NEW u \in Tasks, TaskInv(u)
    PROVE  TaskInv(u)'
<1> DEFINE t == wtask[w]
<1>1. t \in Tasks
  BY DEF TypeInv, TypeOK
<1>2. Continues(w, t, step) /\ step \in WorkerSteps \ {"idle", "load", "start"}
  BY DEF Refresh, Continues, WorkerSteps, TypeInv, TypeOK
<1>3. CASE u = t
  BY <1>1, <1>2, <1>3, RefreshKeeps
<1>4. CASE u # t
  BY <1>1, <1>2, <1>4, OthersUnmoved
<1> QED BY <1>3, <1>4

\* A step that starts an attempt or writes a progress snapshot.
LEMMA WorkStepKeeps ==
    ASSUME TypeInv, NEW w \in Workers, wpc[w] \notin {"idle", "load", "renew"}, Mutable(w),
           NEW mem \in {Started(wrow[w])} \cup {Progressed(wrow[w], i) : i \in 1 .. MaxIterations},
           mem = Started(wrow[w]) => wpc[w] = "start",
           NEW step \in {"started", "progressed"}, Persist(w, mem), Goto(w, step),
           UNCHANGED <<brokerVars, dispatcher, renewed>>,
           NEW u \in Tasks, TaskInv(u)
    PROVE  TaskInv(u)'
<1> DEFINE t == wtask[w]
<1>1. t \in Tasks
  BY DEF TypeInv, TypeOK
<1>2. Continues(w, t, step) /\ step \in WorkerSteps
  BY PersistContinues DEF WorkerSteps
<1>3. CASE u = t
  BY <1>1, <1>2, <1>3, WorkKeeps
<1>4. CASE u # t
  BY <1>1, <1>2, <1>4, OthersUnmoved
<1> QED BY <1>3, <1>4

----------------------------------------------------------------------------
(* The workers' steps. *)

\* The first load finds a row nobody has worked on.
LEMMA LoadKeeps ==
    ASSUME TypeInv, NEW w \in Workers, Load(w), NEW u \in Tasks, TaskInv(u)
    PROVE  TaskInv(u)'
<1> DEFINE t == wtask[w]
<1>1. t \in Tasks /\ wpc[w] = "load" /\ UNCHANGED <<brokerVars, dispatcher, renewed>>
  BY DEF Load, TypeInv, TypeOK
<1>2. CASE Leave(w) /\ UNCHANGED row
  BY <1>1, <1>2, LeaveKeeps
<1>3. CASE Refresh(w) /\ Goto(w, "start")
  <2>1. Continues(w, t, "start") /\ "start" \in WorkerSteps \ {"idle", "load"}
    BY <1>1, <1>3 DEF Refresh, Continues, WorkerSteps, TypeInv, TypeOK
  <2>2. CASE u = t
    <3>1. row' = row /\ wrow'[w] = row[u]
      BY <1>3, <2>2 DEF Refresh, TypeInv, TypeOK
    <3>2. row[u].status \notin Verdicts /\ PayloadMatches(u)
      BY <1>1, <2>2 DEF TaskInv, Undecided
    <3>3. Agrees(w, u)' /\ PayloadMatches(u)'
      BY <3>1, <3>2 DEF Agrees, PayloadMatches
    <3>4. Continues(w, u, "start")
      BY <2>1, <2>2
    <3> QED BY <2>1, <3>1, <3>2, <3>3, <3>4, HolderMoves
  <2>3. CASE u # t
    BY <1>1, <2>1, <2>3, OthersUnmoved
  <2> QED BY <2>2, <2>3
<1> QED BY <1>2, <1>3 DEF Load

\* The worker renews the TTL and is done with the task.
LEMMA RenewKeeps ==
    ASSUME TypeInv, NEW w \in Workers, RenewTtl(w), NEW u \in Tasks, TaskInv(u)
    PROVE  TaskInv(u)'
<1> DEFINE t == wtask[w]
<1>1. /\ t \in Tasks /\ wpc[w] = "renew" /\ renewed' = renewed \cup {t}
      /\ UNCHANGED <<row, brokerVars, dispatcher>>
  BY DEF RenewTtl, TypeInv, TypeOK
<1>2. \A v \in Workers : wtask'[v] = u =>
          wtask[v] = u /\ wpc'[v] = wpc[v] /\ wrow'[v] = wrow[v]
  BY TasksAssumption DEF RenewTtl, Leave, TypeInv, TypeOK
<1>3. Once(queue[Kind[u]], u)' /\ (Waiting(u)' <=> Waiting(u))
  BY <1>1 DEF brokerVars, TaskInv, Alone, Waiting
<1>4. CASE u # t
  BY <1>1, <1>2, <1>3, <1>4, KeptElsewhere DEF Elsewhere
<1>5. CASE u = t
  <2>1. \A v \in Workers : wtask'[v] # u
    BY <1>5, TasksAssumption DEF RenewTtl, Leave, TypeInv, TypeOK, TaskInv, Alone
  <2>2. /\ IsTerminal(row[u]) /\ ~Waiting(u) /\ dispatcher[u] = "queued"
    BY <1>1, <1>5 DEF TaskInv, Alone, RenewalIsLast
  <2>3. Alone(u)' /\ Undecided(u)' /\ CopyIsCurrent(u)'
    BY <1>1, <1>3, <2>1, <2>2 DEF Alone, Undecided, CopyIsCurrent
  <2>4. PayloadMatches(u)'
    BY <1>1 DEF TaskInv, PayloadMatches
  <2>5. RenewalIsLast(u)'
    BY <1>1, <1>3, <2>1, <2>2 DEF RenewalIsLast, TaskInv
  <2> QED BY <2>3, <2>4, <2>5 DEF TaskInv
<1> QED BY <1>4, <1>5

\* The message leaves the queue for the worker that takes it.
LEMMA TakeKeeps ==
    ASSUME TypeInv, QueuesSorted, NEW w \in Workers, Take(w), NEW u \in Tasks, TaskInv(u)
    PROVE  TaskInv(u)'
<1> USE KindAssumption, RoleAssumption
<1> DEFINE k == Role[w]
           q == queue[k]
           t == Head(q)
<1>1. /\ k \in Kinds /\ q \in Seq(Tasks) /\ q # << >> /\ wpc[w] = "idle"
      /\ UNCHANGED <<row, extra, dispatcher, renewed, wrow>>
  BY DEF Take, TypeInv, TypeOK
<1>2. /\ queue'[k] = Tail(q) /\ \A j \in Kinds \ {k} : queue'[j] = queue[j]
      /\ wtask'[w] = t /\ wpc'[w] = "load"
      /\ \A v \in Workers \ {w} : wtask'[v] = wtask[v] /\ wpc'[v] = wpc[v]
  BY <1>1 DEF Take, TypeInv, TypeOK
<1> HIDE DEF k, q, t
<1>3. Kind[t] = k /\ t \in Tasks
  <2>1. 1 \in 1 .. Len(q) /\ q[1] = t /\ t \in Tasks
    BY <1>1 DEF t
  <2> QED BY <1>1, <2>1 DEF QueuesSorted, q, k
<1>4. Kind[u] \in Kinds /\ Once(queue[Kind[u]], u)
  BY DEF TaskInv, Alone
<1>5. /\ Once(queue[Kind[u]], u)' /\ (Waiting(u)' => Waiting(u))
      /\ u = t => Waiting(u) /\ ~Waiting(u)'
  <2>1. CASE Kind[u] = k
    <3>1. /\ Occurs(q, t) /\ (Occurs(Tail(q), u) => Occurs(q, u))
          /\ Once(q, u) => Once(Tail(q), u)
          /\ Once(q, u) /\ t = u => ~Occurs(Tail(q), u)
      BY <1>1, TailOccurs DEF t
    <3>2. queue'[Kind[u]] = Tail(q) /\ queue[Kind[u]] = q
      BY <1>2, <2>1 DEF q
    <3> QED BY <1>4, <3>1, <3>2, Zenon DEF Waiting
  <2>2. CASE Kind[u] # k
    <3>1. queue'[Kind[u]] = queue[Kind[u]] /\ u # t
      BY <1>2, <1>3, <1>4, <2>2
    <3> QED BY <1>4, <3>1 DEF Waiting
  <2> QED BY <2>1, <2>2
<1>6. CASE u # t
  BY <1>1, <1>2, <1>5, <1>6, KeptElsewhere DEF Elsewhere
<1>7. CASE u = t
  <2>1. /\ Waiting(u) /\ \A v \in Workers : wtask[v] # u
        /\ dispatcher[u] = "queued" /\ u \notin renewed
    BY <1>5, <1>7 DEF TaskInv, Alone, RenewalIsLast
  <2>2. Alone(u)'
    BY <1>1, <1>2, <1>5, <1>7, <2>1 DEF Alone
  <2>3. Undecided(u)' /\ PayloadMatches(u)'
    BY <1>1, <1>5, <1>7, <2>1 DEF TaskInv, Undecided, PayloadMatches
  <2>4. CopyIsCurrent(u)' /\ RenewalIsLast(u)'
    BY <1>1, <1>2, <2>1 DEF CopyIsCurrent, RenewalIsLast
  <2> QED BY <2>2, <2>3, <2>4 DEF TaskInv
<1> QED BY <1>6, <1>7

\* Every step of a worker, its death included.
LEMMA WorkerStepKeeps ==
    ASSUME TypeInv, QueuesSorted, NEW w \in Workers, WorkerStep(w) \/ Kill(w),
           NEW u \in Tasks, TaskInv(u)
    PROVE  TaskInv(u)'
<1>1. CASE Take(w)
  BY <1>1, TakeKeeps
<1>2. CASE Load(w)
  BY <1>2, LoadKeeps
<1>3. CASE StartAttempt(w)
  <2>1. CASE Leave(w) /\ UNCHANGED row
    BY <1>3, <2>1, LeaveKeeps DEF StartAttempt
  <2>2. CASE Mutable(w) /\ Persist(w, Started(wrow[w])) /\ Goto(w, "started")
    BY <1>3, <2>2, WorkStepKeeps DEF StartAttempt
  <2> QED BY <1>3, <2>1, <2>2 DEF StartAttempt
<1>4. CASE RefreshStarted(w)
  BY <1>4, RefreshStepKeeps DEF RefreshStarted
<1>5. CASE Execute(w)
  <2>1. Errors(Role[w]) \subseteq {"timeout", "transient", "fatal"}
    BY RoleAssumption DEF Errors, Kinds
  <2> QED BY <1>5, <2>1, SuccessKeeps, FailKeeps DEF Execute
<1>6. CASE CheckStop(w)
  BY <1>6, RefreshStepKeeps DEF CheckStop
<1>7. CASE Evaluate(w)
  <2>1. CASE /\ Mutable(w) /\ Persist(w, Progressed(wrow[w], witer[w] + 1))
             /\ Goto(w, "progressed")
    <3>1. witer[w] + 1 \in 1 .. MaxIterations
      BY <1>7, MaxIterationsAssumption DEF Evaluate, TypeInv, TypeOK, IterationsLeft
    <3>2. wpc[w] \notin {"idle", "load", "renew"} /\ UNCHANGED <<brokerVars, dispatcher, renewed>>
      BY <1>7 DEF Evaluate
    <3> DEFINE mem == Progressed(wrow[w], witer[w] + 1)
    <3>3. mem \in {Progressed(wrow[w], i) : i \in 1 .. MaxIterations}
      BY <3>1
    <3>4. mem # Started(wrow[w])
      <4>1. wrow[w] \in Row /\ witer[w] + 1 \in Nat
        BY <3>1 DEF TypeInv, TypeOK
      <4>2. mem.attempt = wrow[w].attempt
        BY <4>1, ProgressedColumns
      <4>3. Started(wrow[w]).attempt = wrow[w].attempt + 1 /\ wrow[w].attempt \in Nat
        BY <4>1, LifecycleColumns DEF Row
      <4> HIDE DEF mem
      <4> QED BY <4>2, <4>3
    <3> HIDE DEF mem
    <3>5. Persist(w, mem)
      BY <2>1 DEF mem
    <3> QED BY <2>1, <3>2, <3>3, <3>4, <3>5, WorkStepKeeps
  <2>2. CASE \E err \in Errors("hybrid") : Fail(w, err)
    BY <1>7, <2>2, FailKeeps DEF Evaluate, Errors
  <2> QED BY <1>7, <2>1, <2>2 DEF Evaluate
<1>8. CASE NextIteration(w)
  BY <1>8, RefreshStepKeeps DEF NextIteration
<1>9. CASE FinalCheck(w)
  BY <1>9, RefreshStepKeeps DEF FinalCheck
<1>10. CASE FinishHybrid(w)
  BY <1>10, SuccessKeeps DEF FinishHybrid
<1>11. CASE RenewTtl(w)
  BY <1>11, RenewKeeps
<1>12. CASE Kill(w)
  BY <1>12, LeaveKeeps DEF Kill
<1> QED BY <1>1, <1>2, <1>3, <1>4, <1>5, <1>6, <1>7, <1>8, <1>9, <1>10, <1>11, <1>12 DEF WorkerStep

----------------------------------------------------------------------------
(* The other actors' steps. *)

\* A message is sent: the other tasks' messages are where they were.
LEMMA EnqueueKeeps ==
    ASSUME TypeInv, NEW t \in Tasks, Enqueue(t), NEW u \in Tasks, Once(queue[Kind[u]], u)
    PROVE  /\ Waiting(u)' => Waiting(u) \/ u = t
           /\ u # t \/ ~Waiting(u) => Once(queue[Kind[u]], u)'
<1>1. Kind[u] \in Kinds /\ Kind[t] \in Kinds /\ queue[Kind[t]] \in Seq(Tasks)
  BY KindAssumption DEF TypeInv, TypeOK
<1>2. /\ queue'[Kind[t]] = Append(queue[Kind[t]], t)
      /\ Kind[u] # Kind[t] => queue'[Kind[u]] = queue[Kind[u]]
  BY <1>1 DEF Enqueue, TypeInv, TypeOK
<1> DEFINE q == queue[Kind[t]]
           p == Append(q, t)
<1>3. /\ Occurs(p, u) => Occurs(q, u) \/ t = u
      /\ Once(q, u) /\ (t # u \/ ~Occurs(q, u)) => Once(p, u)
  BY <1>1, AppendOccurs
<1>4. CASE Kind[u] = Kind[t]
  <2>1. queue'[Kind[u]] = p /\ queue[Kind[u]] = q
    BY <1>2, <1>4
  <2> HIDE DEF p, q
  <2> QED BY <1>3, <2>1, Zenon DEF Waiting
<1>5. CASE Kind[u] # Kind[t]
  BY <1>2, <1>5 DEF Waiting
<1> QED BY <1>4, <1>5

\* Where the dispatcher of t has done its step, u is as it was.
LEMMA DispatchElsewhere ==
    ASSUME TypeInv, NEW t \in Tasks, DispatchStep(t) \/ Redeliver(t),
           NEW u \in Tasks \ {t}, TaskInv(u)
    PROVE  TaskInv(u)'
<1>1. row'[u] = row[u] /\ dispatcher'[u] = dispatcher[u] /\ (u \in renewed' => u \in renewed)
  BY DEF DispatchStep, Publish, PublishFails, RenewAfterFailure, Redeliver, TypeInv, TypeOK
<1>2. UNCHANGED <<wtask, wpc, wrow>>
  BY DEF DispatchStep, Publish, PublishFails, RenewAfterFailure, Redeliver, workerVars
<1>3. Enqueue(t) \/ UNCHANGED queue
  BY DEF DispatchStep, Publish, PublishFails, RenewAfterFailure, Redeliver, Excess, brokerVars
<1>4. Once(queue[Kind[u]], u)
  BY DEF TaskInv, Alone
<1>5. Once(queue[Kind[u]], u)' /\ (Waiting(u)' => Waiting(u))
  <2>1. CASE Enqueue(t)
    BY <1>4, <2>1, EnqueueKeeps
  <2>2. CASE UNCHANGED queue
    BY <1>4, <2>2 DEF Waiting
  <2> QED BY <1>3, <2>1, <2>2
<1> QED BY <1>1, <1>2, <1>5, KeptElsewhere DEF Elsewhere

\* The message goes to a queue that held none of the task.
LEMMA PublishKeeps ==
    ASSUME TypeInv, NEW t \in Tasks, Publish(t), TaskInv(t)
    PROVE  TaskInv(t)'
<1>1. /\ dispatcher[t] = "created" /\ dispatcher'[t] = "queued" /\ Enqueue(t)
      /\ UNCHANGED <<row, renewed, wpc, wtask, wrow>>
  BY DEF Publish, workerVars, TypeInv, TypeOK
<1>2. ~Waiting(t) /\ Once(queue[Kind[t]], t) /\ (\A w \in Workers : wtask[w] # t) /\ t \notin renewed
  BY <1>1 DEF TaskInv, Alone, RenewalIsLast
<1>3. Alone(t)'
  BY <1>1, <1>2, EnqueueKeeps DEF Alone
<1>4. Undecided(t)' /\ CopyIsCurrent(t)' /\ PayloadMatches(t)'
  BY <1>1, <1>2 DEF TaskInv, Undecided, CopyIsCurrent, PayloadMatches
<1>5. RenewalIsLast(t)'
  BY <1>1, <1>2 DEF TaskInv, RenewalIsLast
<1> QED BY <1>3, <1>4, <1>5 DEF TaskInv

\* The failure of a publication is a verdict nobody disputes.
LEMMA PublishFailsKeeps ==
    ASSUME TypeInv, NEW t \in Tasks, PublishFails(t), extra'[t] = 0, TaskInv(t)
    PROVE  TaskInv(t)'
<1>1. /\ dispatcher[t] = "created" /\ UNCHANGED <<renewed, wpc, wtask, wrow>>
  BY DEF PublishFails, workerVars
<1>2. UNCHANGED queue
  <2>1. ~Excess(t)
    BY DEF Excess, TypeInv, TypeOK
  <2> QED BY <2>1 DEF PublishFails, brokerVars
<1>3. PICK copy \in {NewRow, row[t]} :
         \/ /\ IsTerminal(copy)
            /\ dispatcher' = [dispatcher EXCEPT ![t] = "failed"]
            /\ UNCHANGED row
         \/ /\ ~IsTerminal(copy)
            /\ row' = [row EXCEPT ![t] = Flush(Failed(copy, "FAILURE"), copy, @)]
            /\ dispatcher' = [dispatcher EXCEPT ![t] = "failing"]
  BY DEF PublishFails
<1>4. /\ ~Waiting(t) /\ ~Waiting(t)' /\ Once(queue[Kind[t]], t)'
      /\ \A w \in Workers : wtask[w] # t /\ wtask'[w] # t
      /\ t \notin renewed /\ t \notin renewed'
  BY <1>1, <1>2 DEF TaskInv, Alone, RenewalIsLast, Waiting
<1>5. row[t].result = NoResult /\ ~row[t].error /\ row[t] \in Row
  BY <1>1 DEF TaskInv, Undecided, TypeInv, TypeOK
<1>6. dispatcher'[t] \in {"failed", "failing"}
  BY <1>3 DEF TypeInv, TypeOK
<1>7. /\ PayloadMatches(t)'
      /\ dispatcher'[t] = "failing" => IsTerminal(row'[t])
  <2>1. CASE UNCHANGED row /\ dispatcher' = [dispatcher EXCEPT ![t] = "failed"]
    BY <1>5, <2>1 DEF TaskInv, PayloadMatches, TypeInv, TypeOK
  <2>2. CASE ~IsTerminal(copy) /\ row' = [row EXCEPT ![t] = Flush(Failed(copy, "FAILURE"), copy, @)]
    <3>1. /\ copy \in Row /\ copy.result = NoResult /\ copy.error = FALSE
          /\ copy.finished => row[t].finished
      <4>1. CASE copy = NewRow
        BY <4>1, LifecycleTypes DEF NewRow
      <4>2. CASE copy = row[t]
        BY <1>5, <4>2 DEF Row
      <4> QED BY <1>3, <4>1, <4>2
    <3> DEFINE mem == Failed(copy, "FAILURE")
    <3>2. /\ mem.status = "FAILURE" /\ mem.result = NoResult
          /\ mem.error = TRUE /\ mem.finished = TRUE
      BY <3>1, FailedColumns DEF Verdicts
    <3>3. copy.status # "FAILURE"
      BY <2>2 DEF IsTerminal, Terminal, Verdicts
    <3> HIDE DEF mem
    <3>4. row'[t] = Flush(mem, copy, row[t])
      BY <2>2 DEF mem, TypeInv, TypeOK
    <3>5. /\ row'[t].status = "FAILURE" /\ row'[t].result = NoResult
          /\ row'[t].error = TRUE
      BY <1>5, <3>1, <3>2, <3>3, <3>4 DEF Flush, Written
    <3>6. row'[t].finished = TRUE
      <4>1. row'[t].finished = IF mem.finished = copy.finished THEN row[t].finished ELSE mem.finished
        BY <3>4 DEF Flush, Written
      <4>2. copy.finished \in BOOLEAN /\ row[t].finished \in BOOLEAN
        BY <1>5, <3>1 DEF Row
      <4> QED BY <3>1, <3>2, <4>1, <4>2
    <3> QED BY <3>5, <3>6 DEF PayloadMatches, IsTerminal, Terminal, Verdicts
  <2> QED BY <1>3, <2>1, <2>2
<1>8. Alone(t)' /\ Undecided(t)' /\ CopyIsCurrent(t)'
  BY <1>4, <1>6 DEF Alone, Undecided, CopyIsCurrent
<1>9. RenewalIsLast(t)'
  BY <1>4, <1>7 DEF RenewalIsLast
<1> QED BY <1>7, <1>8, <1>9 DEF TaskInv

\* The TTL restarts after a failed publication.
LEMMA RenewAfterFailureKeeps ==
    ASSUME TypeInv, NEW t \in Tasks, RenewAfterFailure(t), TaskInv(t)
    PROVE  TaskInv(t)'
<1>1. /\ dispatcher[t] = "failing" /\ dispatcher'[t] = "failed"
      /\ UNCHANGED <<row, queue, wpc, wtask, wrow>>
  BY DEF RenewAfterFailure, brokerVars, workerVars, TypeInv, TypeOK
<1>2. ~Waiting(t) /\ (\A w \in Workers : wtask[w] # t) /\ IsTerminal(row[t])
  BY <1>1 DEF TaskInv, Alone, RenewalIsLast
<1>3. Waiting(t)' = Waiting(t)
  BY <1>1 DEF Waiting
<1>4. Alone(t)' /\ Undecided(t)' /\ CopyIsCurrent(t)' /\ PayloadMatches(t)'
  BY <1>1, <1>2, <1>3 DEF TaskInv, Alone, Undecided, CopyIsCurrent, PayloadMatches
<1>5. RenewalIsLast(t)'
  BY <1>1, <1>2, <1>3 DEF TaskInv, RenewalIsLast
<1> QED BY <1>4, <1>5 DEF TaskInv

\* A cancel request writes status and finished, and nothing else.
LEMMA CancelColumns ==
    ASSUME TypeInv, NEW c \in Cancellers, CancelCommit(c), NEW t \in Tasks
    PROVE  /\ row'[t].status \in {row[t].status, "CANCELLED"}
           /\ row'[t].attempt = row[t].attempt /\ row'[t].result = row[t].result
           /\ row'[t].error = row[t].error
           /\ row[t].finished => row'[t].finished
<1>1. CASE t = ctask[c]
  <2> DEFINE mem == Cancelled(crow[c])
  <2>1. /\ crow[c] \in Row /\ row'[t] = Flush(mem, crow[c], row[t])
    BY <1>1 DEF CancelCommit, TypeInv, TypeOK
  <2>2. /\ mem.status = "CANCELLED" /\ mem.attempt = crow[c].attempt
        /\ mem.result = crow[c].result /\ mem.error = crow[c].error /\ mem.finished = TRUE
    BY <2>1, LifecycleColumns
  <2> HIDE DEF mem
  <2>3. /\ row'[t].status = IF mem.status = crow[c].status THEN row[t].status ELSE mem.status
        /\ row'[t].attempt = row[t].attempt /\ row'[t].result = row[t].result
    BY <2>1, <2>2 DEF Flush, Written
  <2>4. row'[t].error = IF mem.error = crow[c].error THEN row[t].error ELSE mem.error
    BY <2>1 DEF Flush, Written
  <2>5. row'[t].finished = IF mem.finished = crow[c].finished THEN row[t].finished
                           ELSE mem.finished
    BY <2>1 DEF Flush, Written
  <2>6. row'[t].error = row[t].error
    BY <2>2, <2>4
  <2>7. row[t].finished => row'[t].finished
    BY <2>2, <2>5
  <2> QED BY <2>2, <2>3, <2>6, <2>7
<1>2. CASE t # ctask[c]
  BY <1>2 DEF CancelCommit, TypeInv, TypeOK
<1> QED BY <1>1, <1>2

\* A cancel request, however old its copy of the row.
LEMMA CancelKeeps ==
    ASSUME TypeInv, NEW c \in Cancellers, CancelCommit(c), NEW t \in Tasks, TaskInv(t)
    PROVE  TaskInv(t)'
<1>1. UNCHANGED <<queue, dispatcher, renewed, wpc, wtask, wrow>>
  BY DEF CancelCommit, brokerVars, workerVars
<1>2. /\ row'[t].status \in {row[t].status, "CANCELLED"}
      /\ row'[t].attempt = row[t].attempt /\ row'[t].result = row[t].result
      /\ row'[t].error = row[t].error
      /\ row[t].finished => row'[t].finished
  BY CancelColumns
<1>3. "CANCELLED" \notin Verdicts /\ (IsTerminal(row[t]) => IsTerminal(row'[t]))
  BY <1>2 DEF Verdicts, Terminal, IsTerminal
<1>4. Waiting(t)' = Waiting(t)
  BY <1>1 DEF Waiting
<1>5. Alone(t)'
  BY <1>1, <1>4 DEF TaskInv, Alone
<1>6. Undecided(t)'
  BY <1>1, <1>2, <1>3, <1>4 DEF TaskInv, Undecided
<1>7. CopyIsCurrent(t)'
  BY <1>1, <1>2 DEF TaskInv, CopyIsCurrent, Agrees
<1>8. PayloadMatches(t)'
  BY <1>2, <1>3 DEF TaskInv, PayloadMatches, Verdicts
<1>9. RenewalIsLast(t)'
  BY <1>1, <1>2, <1>3, <1>4 DEF TaskInv, RenewalIsLast
<1> QED BY <1>5, <1>6, <1>7, <1>8, <1>9 DEF TaskInv

\* A queue that gets a message gets one of its kind.
LEMMA SortedStep ==
    ASSUME TypeInv, QueuesSorted, [Next]_vars
    PROVE  QueuesSorted'
<1> USE KindAssumption, RoleAssumption
<1>1. CASE UNCHANGED queue
  BY <1>1 DEF QueuesSorted
<1>2. ASSUME NEW t \in Tasks, Enqueue(t) PROVE QueuesSorted'
  <2> SUFFICES ASSUME NEW k \in Kinds, NEW i \in 1 .. Len(queue'[k])
               PROVE  Kind[queue'[k][i]] = k
    BY DEF QueuesSorted
  <2>1. CASE k = Kind[t]
    <3> DEFINE q == queue[k]
    <3>1. q \in Seq(Tasks) /\ queue'[k] = Append(q, t)
      BY <1>2, <2>1 DEF Enqueue, TypeInv, TypeOK
    <3>2. (i \in 1 .. Len(q) /\ queue'[k][i] = q[i]) \/ queue'[k][i] = t
      BY <3>1
    <3> QED BY <2>1, <3>2 DEF QueuesSorted
  <2>2. CASE k # Kind[t]
    BY <1>2, <2>2 DEF Enqueue, QueuesSorted, TypeInv, TypeOK
  <2> QED BY <2>1, <2>2
<1>3. ASSUME NEW w \in Workers, Take(w) PROVE QueuesSorted'
  <2> SUFFICES ASSUME NEW k \in Kinds, NEW i \in 1 .. Len(queue'[k])
               PROVE  Kind[queue'[k][i]] = k
    BY DEF QueuesSorted
  <2>1. CASE k = Role[w]
    <3> DEFINE q == queue[k]
    <3>1. q \in Seq(Tasks) /\ q # << >> /\ queue'[k] = Tail(q)
      BY <1>3, <2>1 DEF Take, TypeInv, TypeOK
    <3>2. i + 1 \in 1 .. Len(q) /\ queue'[k][i] = q[i + 1]
      BY <3>1
    <3> QED BY <3>2 DEF QueuesSorted
  <2>2. CASE k # Role[w]
    BY <1>3, <2>2 DEF Take, QueuesSorted, TypeInv, TypeOK
  <2> QED BY <2>1, <2>2
<1>4. CASE \E t \in Tasks : DispatchStep(t) \/ Redeliver(t)
  BY <1>1, <1>2, <1>4
  DEF DispatchStep, Publish, PublishFails, RenewAfterFailure, Redeliver, Excess, brokerVars
<1>5. CASE \E w \in Workers : WorkerStep(w) \/ Kill(w)
  BY <1>1, <1>3, <1>5
  DEF WorkerStep, Load, StartAttempt, RefreshStarted, Execute, CheckStop, Evaluate,
      NextIteration, FinalCheck, FinishHybrid, RenewTtl, Kill, brokerVars
<1>6. CASE \E c \in Cancellers : CancelCommit(c) \/ \E t \in Tasks : CancelLoad(c, t)
  BY <1>1, <1>6 DEF CancelCommit, CancelLoad, brokerVars
<1>7. CASE UNCHANGED vars
  BY <1>1, <1>7 DEF vars, brokerVars
<1> QED BY <1>4, <1>5, <1>6, <1>7 DEF Next

----------------------------------------------------------------------------
(* The invariant and what follows from it. *)

\* A task delivered once was so before.
LEMMA ExtraGrows ==
    ASSUME TypeInv, [Next]_vars, NEW t \in Tasks, extra'[t] = 0
    PROVE  extra[t] = 0
<1>1. CASE UNCHANGED extra
  BY <1>1
<1>2. ASSUME NEW u \in Tasks, Excess(u) PROVE extra[t] = 0
  BY <1>2 DEF Excess, TypeInv, TypeOK
<1>3. CASE \E u \in Tasks : DispatchStep(u) \/ Redeliver(u)
  BY <1>1, <1>2, <1>3
  DEF DispatchStep, Publish, PublishFails, RenewAfterFailure, Redeliver, brokerVars
<1>4. CASE \E w \in Workers : WorkerStep(w) \/ Kill(w)
  BY <1>1, <1>4
  DEF WorkerStep, Take, Load, StartAttempt, RefreshStarted, Execute, CheckStop, Evaluate,
      NextIteration, FinalCheck, FinishHybrid, RenewTtl, Kill, brokerVars
<1>5. CASE \E c \in Cancellers : CancelCommit(c) \/ \E u \in Tasks : CancelLoad(c, u)
  BY <1>1, <1>5 DEF CancelCommit, CancelLoad, brokerVars
<1>6. CASE UNCHANGED vars
  BY <1>1, <1>6 DEF vars, brokerVars
<1> QED BY <1>3, <1>4, <1>5, <1>6 DEF Next

\* Every step keeps the invariant.
LEMMA DeliveryStep == TypeInv /\ DeliveryInv /\ [Next]_vars => DeliveryInv'
<1> SUFFICES ASSUME TypeInv, DeliveryInv, [Next]_vars PROVE DeliveryInv'
  OBVIOUS
<1>1. QueuesSorted'
  BY SortedStep DEF DeliveryInv
<1>2. ASSUME NEW u \in Tasks, extra'[u] = 0 PROVE TaskInv(u)'
  <2>1. TaskInv(u) /\ QueuesSorted
    BY <1>2, ExtraGrows DEF DeliveryInv, OneDelivery
  <2>2. ASSUME NEW t \in Tasks, DispatchStep(t) \/ Redeliver(t) PROVE TaskInv(u)'
    <3>1. CASE u # t
      BY <2>1, <2>2, <3>1, DispatchElsewhere
    <3>2. CASE u = t
      <4>1. ~Redeliver(t)
        BY <1>2, <3>2 DEF Redeliver, Excess, TypeInv, TypeOK
      <4> QED
        BY <1>2, <2>1, <2>2, <3>2, <4>1, PublishKeeps, PublishFailsKeeps, RenewAfterFailureKeeps
        DEF DispatchStep
    <3> QED BY <3>1, <3>2
  <2>3. ASSUME NEW w \in Workers, WorkerStep(w) \/ Kill(w) PROVE TaskInv(u)'
    BY <2>1, <2>3, WorkerStepKeeps
  <2>4. ASSUME NEW c \in Cancellers, CancelCommit(c) PROVE TaskInv(u)'
    BY <2>1, <2>4, CancelKeeps
  <2>5. CASE UNCHANGED <<row, queue, dispatcher, renewed, wtask, wpc, wrow>>
    <3>1. Elsewhere(u)
      BY <2>1, <2>5 DEF Elsewhere, TaskInv, Alone, Waiting
    <3> QED BY <2>1, <3>1, KeptElsewhere
  <2>6. ASSUME NEW c \in Cancellers, NEW t \in Tasks, CancelLoad(c, t) PROVE TaskInv(u)'
    BY <2>5, <2>6 DEF CancelLoad, brokerVars, workerVars
  <2>7. CASE UNCHANGED vars
    BY <2>5, <2>7 DEF vars, brokerVars, workerVars
  <2> QED BY <2>2, <2>3, <2>4, <2>6, <2>7 DEF Next
<1> QED BY <1>1, <1>2 DEF DeliveryInv, OneDelivery

\* The invariant holds when every task is created.
LEMMA DeliveryInit == Init => DeliveryInv
<1> SUFFICES ASSUME Init PROVE DeliveryInv
  OBVIOUS
<1>1. \A k \in Kinds : Len(queue[k]) = 0
  BY DEF Init
<1>2. QueuesSorted
  BY <1>1 DEF QueuesSorted
<1>3. ASSUME NEW t \in Tasks PROVE TaskInv(t)
  <2>1. Kind[t] \in Kinds /\ Len(queue[Kind[t]]) = 0
    BY <1>1, KindAssumption
  <2>2. ~Waiting(t) /\ Once(queue[Kind[t]], t)
    BY <2>1 DEF Waiting, Occurs, Once
  <2>3. \A w \in Workers : wtask[w] # t
    BY <1>3, TasksAssumption DEF Init
  <2>4. row[t] = NewRow /\ dispatcher[t] = "created" /\ renewed = {}
    BY DEF Init
  <2>5. /\ row[t].status = "PENDING" /\ row[t].result = NoResult /\ row[t].error = FALSE
    BY <2>4 DEF NewRow
  <2>6. "PENDING" \notin Verdicts /\ "PENDING" # "SUCCESS"
    BY DEF Verdicts
  <2>7. Alone(t) /\ Undecided(t) /\ CopyIsCurrent(t) /\ PayloadMatches(t)
    BY <2>2, <2>3, <2>5, <2>6 DEF Alone, Undecided, CopyIsCurrent, PayloadMatches
  <2>8. RenewalIsLast(t)
    BY <2>3, <2>4 DEF RenewalIsLast
  <2> QED BY <2>7, <2>8 DEF TaskInv
<1> QED BY <1>2, <1>3 DEF DeliveryInv

(***************************************************************************)
(* The inductive invariant: a task delivered once is the concern of one    *)
(* dispatcher, message or worker at a time.                                *)
(***************************************************************************)
THEOREM DeliveryInvariant == Spec => []DeliveryInv
<1>1. Init /\ TypeInv => DeliveryInv
  BY DeliveryInit
<1> QED BY <1>1, TypeInvariant, DeliveryStep, PTL DEF Spec

(***************************************************************************)
(* A verdict comes with its payload: SUCCESS with the final result and no  *)
(* error, a failure with an error and no result, whatever stale copies and *)
(* cancel requests were about (TaskLifecycleService).                      *)
(***************************************************************************)
THEOREM VerdictsMatchPayloads == Spec => []VerdictMatchesPayload
<1>1. DeliveryInv => VerdictMatchesPayload
  BY DEF DeliveryInv, TaskInv, PayloadMatches, VerdictMatchesPayload
<1> QED BY <1>1, DeliveryInvariant, PTL

(***************************************************************************)
(* The TTL of an idempotency record restarts only once its task is over    *)
(* (refresh_terminal_ttl).                                                 *)
(***************************************************************************)
THEOREM RenewalsAreTerminal == Spec => []RenewedOnlyTerminal
<1>1. TypeOK /\ DeliveryInv => RenewedOnlyTerminal
  BY DEF TypeOK, DeliveryInv, TaskInv, RenewalIsLast, RenewedOnlyTerminal
<1> QED BY <1>1, TypeCorrect, DeliveryInvariant, PTL

----------------------------------------------------------------------------
(* Who writes a row. *)

\* The session of w is the one that may write the row of t.
Writes(w, t) == wtask[w] = t /\ wpc[w] \notin {"idle", "load", "renew"} /\ Mutable(w)

\* The end of an attempt writes the row of the task held, if any.
LEMMA AttemptWrites ==
    ASSUME TypeInv, NEW w \in Workers, wpc[w] \notin {"idle", "load", "renew"}, NEW t \in Tasks,
           (\E err \in {"timeout", "transient", "fatal"} : Fail(w, err)) \/ MarkSuccess(w)
    PROVE  row'[t] = row[t] \/ Writes(w, t)
BY DEF Fail, MarkSuccess, Persist, Writes, TypeInv, TypeOK

\* A worker writes the row of its task, from a copy that is not terminal.
LEMMA WorkerWrites ==
    ASSUME TypeInv, NEW w \in Workers, WorkerStep(w) \/ Kill(w), NEW t \in Tasks
    PROVE  row'[t] = row[t] \/ Writes(w, t)
<1>1. CASE Take(w) \/ Load(w) \/ RefreshStarted(w) \/ CheckStop(w) \/ NextIteration(w)
           \/ FinalCheck(w) \/ RenewTtl(w) \/ Kill(w)
  BY <1>1 DEF Take, Load, RefreshStarted, CheckStop, NextIteration, FinalCheck, RenewTtl, Kill,
              Refresh
<1>2. CASE StartAttempt(w)
  BY <1>2 DEF StartAttempt, Persist, Writes, TypeInv, TypeOK
<1>3. CASE Execute(w)
  <2>1. Errors(Role[w]) \subseteq {"timeout", "transient", "fatal"}
    BY RoleAssumption DEF Errors, Kinds
  <2> QED BY <1>3, <2>1, AttemptWrites DEF Execute
<1>4. CASE Evaluate(w)
  <2>1. CASE Mutable(w) /\ Persist(w, Progressed(wrow[w], witer[w] + 1))
    BY <1>4, <2>1 DEF Evaluate, Persist, Writes, TypeInv, TypeOK
  <2>2. CASE \E err \in Errors("hybrid") : Fail(w, err)
    BY <1>4, <2>2, AttemptWrites DEF Evaluate, Errors
  <2> QED BY <1>4, <2>1, <2>2 DEF Evaluate
<1>5. CASE FinishHybrid(w)
  BY <1>5, AttemptWrites DEF FinishHybrid
<1> QED BY <1>1, <1>2, <1>3, <1>4, <1>5 DEF WorkerStep

\* A status changes by a cancel request, before publication, or by the
\* session that may write the row.
LEMMA RowWriters ==
    ASSUME TypeInv, [Next]_vars, NEW t \in Tasks
    PROVE  \/ row'[t].status \in {row[t].status, "CANCELLED"}
           \/ dispatcher[t] = "created"
           \/ \E w \in Workers : Writes(w, t)
<1>1. CASE \E u \in Tasks : DispatchStep(u) \/ Redeliver(u)
  BY <1>1
  DEF DispatchStep, Publish, PublishFails, RenewAfterFailure, Redeliver, TypeInv, TypeOK
<1>2. CASE \E w \in Workers : WorkerStep(w) \/ Kill(w)
  BY <1>2, WorkerWrites
<1>3. CASE \E c \in Cancellers : CancelCommit(c)
  BY <1>3, CancelColumns
<1>4. CASE \E c \in Cancellers, u \in Tasks : CancelLoad(c, u)
  BY <1>4 DEF CancelLoad
<1>5. CASE UNCHANGED vars
  BY <1>5 DEF vars
<1> QED BY <1>1, <1>2, <1>3, <1>4, <1>5 DEF Next

(***************************************************************************)
(* A verdict of a task delivered once is final but for a cancel request    *)
(* that read the row before it.                                            *)
(***************************************************************************)
THEOREM VerdictsStand == Spec => VerdictStands
<1>1. TypeInv /\ DeliveryInv /\ [Next]_vars =>
         [\A t \in Tasks :
             OneDelivery(t)' /\ row[t].status \in Verdicts
             => row'[t].status \in {row[t].status, "CANCELLED"}]_vars
  <2> SUFFICES ASSUME TypeInv, DeliveryInv, [Next]_vars,
                      NEW t \in Tasks, extra'[t] = 0, row[t].status \in Verdicts
               PROVE  row'[t].status \in {row[t].status, "CANCELLED"}
    BY DEF OneDelivery
  <2>1. TaskInv(t)
    BY ExtraGrows DEF DeliveryInv, OneDelivery
  <2>2. dispatcher[t] # "created" /\ \A w \in Workers : ~Writes(w, t)
    BY <2>1 DEF TaskInv, Undecided, Writes
  <2> QED BY <2>2, RowWriters
<1> QED BY <1>1, TypeInvariant, DeliveryInvariant, PTL DEF Spec, VerdictStands

(***************************************************************************)
(* Nobody writes over a cancellation that the worker of a task delivered   *)
(* once has seen (_assert_mutable, should_stop).                           *)
(***************************************************************************)
THEOREM SeenCancellationsStick == Spec => CancelObservedSticks
<1>1. TypeInv /\ DeliveryInv /\ [Next]_vars =>
         [\A w \in Workers :
             /\ wpc[w] \notin {"idle", "load"}
             /\ extra'[wtask[w]] = 0
             /\ wrow[w].status = "CANCELLED"
             => row'[wtask[w]].status = "CANCELLED"]_vars
  <2> SUFFICES ASSUME TypeInv, DeliveryInv, [Next]_vars, NEW w \in Workers,
                      wpc[w] \notin {"idle", "load"}, extra'[wtask[w]] = 0,
                      wrow[w].status = "CANCELLED"
               PROVE  row'[wtask[w]].status = "CANCELLED"
    OBVIOUS
  <2>1. PICK t \in Tasks : wtask[w] = t
    BY DEF TypeInv, TypeOK
  <2>2. TaskInv(t)
    BY <2>1, ExtraGrows DEF DeliveryInv, OneDelivery
  <2>3. row[t].status = "CANCELLED" /\ dispatcher[t] # "created"
    BY <2>1, <2>2 DEF TaskInv, CopyIsCurrent, Alone
  <2>4. \A v \in Workers : ~Writes(v, t)
    <3> SUFFICES ASSUME NEW v \in Workers, Writes(v, t) PROVE FALSE
      OBVIOUS
    <3>1. v = w
      BY <2>1, <2>2 DEF TaskInv, Alone, Writes
    <3> QED BY <3>1 DEF Writes, Mutable, IsTerminal, Terminal
  <2> QED BY <2>1, <2>3, <2>4, RowWriters
<1> QED BY <1>1, TypeInvariant, DeliveryInvariant, PTL DEF Spec, CancelObservedSticks

(***************************************************************************)
(* Proof that every excess message adds at most one attempt to a task, for *)
(* any number of tasks, workers, retries and excess messages: several      *)
(* workers may then execute the task at once, and commit from stale copies.*)
(***************************************************************************)

\* Where t stands in a sequence.
Places(q, t) == {i \in 1 .. Len(q) : q[i] = t}

Messages(t) == Cardinality(Places(queue[Kind[t]], t))

\* A message that the submit request will send.
Unpublished(t) == IF dispatcher[t] = "created" THEN 1 ELSE 0

Holders(t) == {w \in Workers : wtask[w] = t}

\* Workers whose next start of t is not bound by the retry policy.
Fresh(t) ==
    {w \in Holders(t) :
        wpc[w] = "load" \/ (wpc[w] = "start" /\ wrow[w].attempt > MaxRetries)}

\* The attempts that the row and the sessions know of.
Counted(t) ==
    {row[t].attempt} \cup {wrow[w].attempt : w \in {v \in Holders(t) : wpc[v] # "load"}}

\* Every message was sent by the submit request or is in excess.
MessagesBounded(t) ==
    /\ IsFiniteSet(Holders(t))
    /\ Unpublished(t) + Messages(t) + Cardinality(Holders(t)) <= extra[t] + 1

\* Past the retry policy, an attempt costs a message.
AttemptsPaid(t) ==
    \A a \in Counted(t) :
        a > MaxRetries =>
            a + Unpublished(t) + Messages(t) + Cardinality(Fresh(t)) <= MaxRetries + 1 + extra[t]

AttemptsInv == \A t \in Tasks : MessagesBounded(t) /\ AttemptsPaid(t)

----------------------------------------------------------------------------
(* Messages in a queue. *)

LEMMA PlacesFinite ==
    ASSUME NEW S, NEW q \in Seq(S), NEW t
    PROVE  IsFiniteSet(Places(q, t)) /\ Cardinality(Places(q, t)) \in Nat
<1>1. IsFiniteSet(1 .. Len(q))
  BY FS_Interval
<1>2. Places(q, t) \subseteq 1 .. Len(q)
  BY DEF Places
<1> QED BY <1>1, <1>2, FS_Subset, FS_CardinalityType

\* A message more at the end of the queue.
LEMMA AppendPlaces ==
    ASSUME NEW S, NEW q \in Seq(S), NEW u \in S, NEW t
    PROVE  Cardinality(Places(Append(q, u), t))
              <= Cardinality(Places(q, t)) + (IF u = t THEN 1 ELSE 0)
<1> DEFINE n == Len(q)
           p == Append(q, u)
           P == Places(q, t)
           P1 == Places(p, t)
<1>1. /\ n \in Nat /\ Len(p) = n + 1 /\ p[n + 1] = u
      /\ \A i \in 1 .. n : p[i] = q[i]
  OBVIOUS
<1>2. IsFiniteSet(P) /\ Cardinality(P) \in Nat /\ Cardinality(P1) \in Nat
  <2>1. p \in Seq(S)
    OBVIOUS
  <2> QED BY <2>1, PlacesFinite
<1>3. P = {i \in 1 .. n : q[i] = t} /\ P1 = {i \in 1 .. (n + 1) : p[i] = t}
  BY <1>1 DEF Places
<1> HIDE DEF P, P1, n, p
<1>4. CASE u = t
  <2>1. P1 \subseteq P \cup {n + 1}
    BY <1>1, <1>3
  <2>2. /\ IsFiniteSet(P \cup {n + 1})
        /\ Cardinality(P \cup {n + 1}) = IF n + 1 \in P THEN Cardinality(P) ELSE Cardinality(P) + 1
    BY <1>2, FS_AddElement
  <2>3. Cardinality(P1) <= Cardinality(P \cup {n + 1})
    BY <2>1, <2>2, FS_Subset
  <2> QED BY <1>2, <1>4, <2>2, <2>3 DEF P, P1, p
<1>5. CASE u # t
  <2>1. P1 \subseteq P
    BY <1>1, <1>3, <1>5
  <2>2. Cardinality(P1) <= Cardinality(P)
    BY <1>2, <2>1, FS_Subset
  <2> QED BY <1>2, <1>5, <2>2 DEF P, P1, p
<1> QED BY <1>4, <1>5

\* A message less at its head.
LEMMA TailPlaces ==
    ASSUME NEW S, NEW q \in Seq(S), q # << >>, NEW t
    PROVE  Cardinality(Places(Tail(q), t)) + (IF Head(q) = t THEN 1 ELSE 0)
              <= Cardinality(Places(q, t))
<1> DEFINE P == Places(q, t)
           P1 == Places(Tail(q), t)
           R == P \ {1}
           f == [i \in P1 |-> i + 1]
<1>1. Tail(q) \in Seq(S) /\ Len(q) \in Nat \ {0} /\ Len(Tail(q)) = Len(q) - 1
  OBVIOUS
<1>2. \A i \in 1 .. Len(Tail(q)) : Tail(q)[i] = q[i + 1]
  OBVIOUS
<1>3. IsFiniteSet(P) /\ Cardinality(P) \in Nat /\ Cardinality(P1) \in Nat
  BY <1>1, PlacesFinite
<1>4. /\ IsFiniteSet(R)
      /\ Cardinality(R) = IF 1 \in P THEN Cardinality(P) - 1 ELSE Cardinality(P)
  BY <1>3, FS_RemoveElement
<1>5. f \in Injection(P1, R)
  <2>1. \A i \in P1 : i \in Nat /\ i + 1 \in R
    BY <1>1, <1>2 DEF Places
  <2>2. f \in [P1 -> R]
    BY <2>1
  <2>3. \A i, j \in P1 : f[i] = f[j] => i = j
    BY <2>1
  <2> QED BY <2>2, <2>3 DEF Injection, IsInjective
<1>6. Cardinality(P1) <= Cardinality(R)
  BY <1>4, <1>5, FS_Injection
<1>7. Head(q) = t => 1 \in P
  BY <1>1 DEF Places
<1> HIDE DEF P, P1, R
<1>8. Cardinality(P1) + (IF Head(q) = t THEN 1 ELSE 0) <= Cardinality(P)
  BY <1>3, <1>4, <1>6, <1>7
<1> QED BY <1>8 DEF P, P1

----------------------------------------------------------------------------
(* Steps. *)

\* What is counted are numbers.
LEMMA CountsAreNumbers ==
    ASSUME TypeInv, NEW t \in Tasks, IsFiniteSet(Holders(t))
    PROVE  /\ Unpublished(t) \in 0 .. 1 /\ Messages(t) \in Nat /\ extra[t] \in Nat
           /\ IsFiniteSet(Fresh(t))
           /\ Cardinality(Holders(t)) \in Nat /\ Cardinality(Fresh(t)) \in Nat
           /\ Counted(t) \subseteq Nat
<1>1. Unpublished(t) \in 0 .. 1 /\ extra[t] \in Nat
  BY ExtraAssumption DEF Unpublished, TypeInv, TypeOK
<1>2. Messages(t) \in Nat
  BY KindAssumption, PlacesFinite DEF Messages, TypeInv, TypeOK
<1>3. Fresh(t) \subseteq Holders(t)
  BY DEF Fresh
<1>4. Counted(t) \subseteq Nat
  BY DEF Counted, Holders, Row, TypeInv, TypeOK
<1> QED BY <1>1, <1>2, <1>3, <1>4, FS_Subset, FS_CardinalityType

LEMMA NextCountsAreNumbers ==
    ASSUME TypeInv', NEW t \in Tasks, IsFiniteSet(Holders(t)')
    PROVE  /\ Unpublished(t)' \in 0 .. 1 /\ Messages(t)' \in Nat /\ extra'[t] \in Nat
           /\ IsFiniteSet(Fresh(t)')
           /\ Cardinality(Holders(t)') \in Nat /\ Cardinality(Fresh(t)') \in Nat
           /\ Counted(t)' \subseteq Nat
<1>1. Unpublished(t)' \in 0 .. 1 /\ extra'[t] \in Nat
  BY ExtraAssumption DEF Unpublished, TypeInv, TypeOK
<1>2. Messages(t)' \in Nat
  BY KindAssumption, PlacesFinite DEF Messages, TypeInv, TypeOK
<1>3. Fresh(t)' \subseteq Holders(t)'
  BY DEF Fresh
<1>4. Counted(t)' \subseteq Nat
  BY DEF Counted, Holders, Row, TypeInv, TypeOK
<1> QED BY <1>1, <1>2, <1>3, <1>4, FS_Subset, FS_CardinalityType

\* Nobody takes a message of t, no attempt is counted that was not.
Quiet(t) ==
    /\ Unpublished(t)' + Messages(t)' + extra[t] <= Unpublished(t) + Messages(t) + extra'[t]
    /\ extra[t] <= extra'[t]
    /\ Holders(t)' \subseteq Holders(t)
    /\ Fresh(t)' \subseteq Fresh(t)
    /\ Counted(t)' \subseteq Counted(t)

\* A message of t becomes a worker of t.
Takes(t, w) ==
    /\ Unpublished(t)' = Unpublished(t) /\ extra'[t] = extra[t]
    /\ Messages(t)' + 1 <= Messages(t)
    /\ Holders(t)' \subseteq Holders(t) \cup {w}
    /\ Fresh(t)' \subseteq Fresh(t) \cup {w}
    /\ Counted(t)' \subseteq Counted(t)

\* A worker of t starts an attempt.
Starts(t, w) ==
    /\ Unpublished(t)' = Unpublished(t) /\ extra'[t] = extra[t] /\ Messages(t)' = Messages(t)
    /\ w \in Holders(t) /\ wrow[w].attempt \in Counted(t)
    /\ wrow[w].attempt > MaxRetries => w \in Fresh(t)
    /\ Holders(t)' \subseteq Holders(t)
    /\ Fresh(t)' \subseteq Fresh(t) \ {w}
    /\ Counted(t)' \subseteq Counted(t) \cup {wrow[w].attempt + 1}

LEMMA QuietKeeps ==
    ASSUME TypeInv, TypeInv', NEW t \in Tasks, MessagesBounded(t), AttemptsPaid(t), Quiet(t)
    PROVE  MessagesBounded(t)' /\ AttemptsPaid(t)'
<1> DEFINE u == Unpublished(t)  m == Messages(t)  e == extra[t]
           h == Cardinality(Holders(t))  f == Cardinality(Fresh(t))
           u1 == Unpublished(t)'  m1 == Messages(t)'  e1 == extra'[t]
           h1 == Cardinality(Holders(t)')  f1 == Cardinality(Fresh(t)')
<1>1. IsFiniteSet(Holders(t)) /\ u + m + h <= e + 1
  BY DEF MessagesBounded
<1>2. IsFiniteSet(Holders(t)') /\ h1 <= h
  BY <1>1, FS_Subset DEF Quiet
<1>3. /\ u \in 0 .. 1 /\ m \in Nat /\ e \in Nat /\ h \in Nat /\ f \in Nat
      /\ IsFiniteSet(Fresh(t)) /\ Counted(t) \subseteq Nat
  BY <1>1, CountsAreNumbers
<1>4. u1 \in 0 .. 1 /\ m1 \in Nat /\ e1 \in Nat /\ h1 \in Nat /\ f1 \in Nat
  BY <1>2, NextCountsAreNumbers
<1>5. f1 <= f
  BY <1>3, FS_Subset DEF Quiet
<1>6. u1 + m1 + e <= u + m + e1
  BY DEF Quiet
<1>7. MessagesBounded(t)'
  <2>1. u1 + m1 + h1 <= e1 + 1
    <3> HIDE DEF u, m, h, f, e, u1, m1, h1, f1, e1
    <3> QED BY <1>1, <1>2, <1>3, <1>4, <1>6
  <2> QED BY <1>2, <2>1 DEF MessagesBounded
<1>8. ASSUME NEW a \in Counted(t)', a > MaxRetries
      PROVE  a + u1 + m1 + f1 <= MaxRetries + 1 + e1
  <2>1. a \in Nat /\ a + u + m + f <= MaxRetries + 1 + e
    BY <1>3, <1>8 DEF Quiet, AttemptsPaid
  <2> HIDE DEF u, m, h, f, e, u1, m1, h1, f1, e1
  <2> QED BY <1>3, <1>4, <1>5, <1>6, <2>1, RetriesAssumption
<1> QED BY <1>7, <1>8 DEF AttemptsPaid

LEMMA TakesKeeps ==
    ASSUME TypeInv, TypeInv', NEW t \in Tasks, MessagesBounded(t), AttemptsPaid(t),
           NEW w, Takes(t, w)
    PROVE  MessagesBounded(t)' /\ AttemptsPaid(t)'
<1> DEFINE u == Unpublished(t)  m == Messages(t)  e == extra[t]
           H == Holders(t) \cup {w}  F == Fresh(t) \cup {w}
           h == Cardinality(Holders(t))  f == Cardinality(Fresh(t))
           m1 == Messages(t)'
           h1 == Cardinality(Holders(t)')  f1 == Cardinality(Fresh(t)')
<1>1. IsFiniteSet(Holders(t)) /\ u + m + h <= e + 1
  BY DEF MessagesBounded
<1>2. /\ u \in 0 .. 1 /\ m \in Nat /\ e \in Nat /\ h \in Nat /\ f \in Nat
      /\ IsFiniteSet(Fresh(t)) /\ Counted(t) \subseteq Nat
  BY <1>1, CountsAreNumbers
<1>3. /\ IsFiniteSet(H) /\ Cardinality(H) = (IF w \in Holders(t) THEN h ELSE h + 1)
      /\ IsFiniteSet(F) /\ Cardinality(F) = (IF w \in Fresh(t) THEN f ELSE f + 1)
  BY <1>1, <1>2, FS_AddElement
<1>4. /\ IsFiniteSet(Holders(t)') /\ h1 <= Cardinality(H)
      /\ f1 <= Cardinality(F)
  <2>1. Holders(t)' \subseteq H /\ Fresh(t)' \subseteq F
    BY DEF Takes
  <2> HIDE DEF H, F
  <2> QED BY <1>3, <2>1, FS_Subset
<1>5. m1 \in Nat /\ h1 \in Nat /\ f1 \in Nat
  BY <1>4, NextCountsAreNumbers
<1>6. m1 + 1 <= m /\ Unpublished(t)' = u /\ extra'[t] = e
  BY DEF Takes
<1>7. MessagesBounded(t)'
  <2>1. u + m1 + h1 <= e + 1
    <3> HIDE DEF u, m, h, f, e, m1, h1, f1, H, F
    <3> QED BY <1>1, <1>2, <1>3, <1>4, <1>5, <1>6
  <2> QED BY <1>4, <1>6, <2>1 DEF MessagesBounded
<1>8. ASSUME NEW a \in Counted(t)', a > MaxRetries
      PROVE  a + u + m1 + f1 <= MaxRetries + 1 + e
  <2>1. a \in Nat /\ a + u + m + f <= MaxRetries + 1 + e
    BY <1>2, <1>8 DEF Takes, AttemptsPaid
  <2> HIDE DEF u, m, h, f, e, m1, h1, f1, H, F
  <2> QED BY <1>2, <1>3, <1>4, <1>5, <1>6, <2>1, RetriesAssumption
<1> QED BY <1>6, <1>7, <1>8 DEF AttemptsPaid

LEMMA StartsKeeps ==
    ASSUME TypeInv, TypeInv', NEW t \in Tasks, MessagesBounded(t), AttemptsPaid(t),
           NEW w, Starts(t, w)
    PROVE  MessagesBounded(t)' /\ AttemptsPaid(t)'
<1> DEFINE u == Unpublished(t)  m == Messages(t)  e == extra[t]  n == wrow[w].attempt
           H == Holders(t) \ {w}  F == Fresh(t) \ {w}
           h == Cardinality(Holders(t))  f == Cardinality(Fresh(t))
           h1 == Cardinality(Holders(t)')  f1 == Cardinality(Fresh(t)')
<1>1. IsFiniteSet(Holders(t)) /\ u + m + h <= e + 1
  BY DEF MessagesBounded
<1>2. /\ u \in 0 .. 1 /\ m \in Nat /\ e \in Nat /\ h \in Nat /\ f \in Nat
      /\ IsFiniteSet(Fresh(t)) /\ Counted(t) \subseteq Nat
  BY <1>1, CountsAreNumbers
<1>3. /\ IsFiniteSet(H) /\ Cardinality(H) = h - 1
      /\ IsFiniteSet(F) /\ Cardinality(F) = (IF w \in Fresh(t) THEN f - 1 ELSE f)
  <2>1. w \in Holders(t)
    BY DEF Starts
  <2> QED BY <1>1, <1>2, <2>1, FS_RemoveElement
<1>4. F \subseteq H /\ Fresh(t)' \subseteq F /\ Holders(t)' \subseteq Holders(t)
  BY DEF Starts, Fresh
<1>5. IsFiniteSet(Holders(t)') /\ h1 <= h
  BY <1>1, <1>4, FS_Subset
<1>6. f1 <= Cardinality(F) /\ Cardinality(F) <= Cardinality(H)
  <2> HIDE DEF H, F
  <2> QED BY <1>3, <1>4, FS_Subset
<1>7. h1 \in Nat /\ f1 \in Nat
  BY <1>5, NextCountsAreNumbers
<1>8. /\ Messages(t)' = m /\ Unpublished(t)' = u /\ extra'[t] = e
      /\ n \in Nat /\ (n > MaxRetries => w \in Fresh(t))
  BY <1>2 DEF Starts
<1>9. MessagesBounded(t)'
  <2>1. u + m + h1 <= e + 1
    <3> HIDE DEF u, m, h, e, h1
    <3> QED BY <1>1, <1>2, <1>5, <1>7
  <2> QED BY <1>5, <1>8, <2>1 DEF MessagesBounded
<1>10. ASSUME NEW a \in Counted(t)', a > MaxRetries
       PROVE  a + u + m + f1 <= MaxRetries + 1 + e
  <2>1. CASE a \in Counted(t)
    <3>1. a \in Nat /\ a + u + m + f <= MaxRetries + 1 + e
      BY <1>2, <1>10, <2>1 DEF AttemptsPaid
    <3> HIDE DEF u, m, f, e, f1, F, H
    <3> QED BY <1>2, <1>3, <1>6, <1>7, <3>1, RetriesAssumption
  <2>2. CASE a = n + 1 /\ n > MaxRetries
    <3>1. n + u + m + f <= MaxRetries + 1 + e
      BY <2>2 DEF Starts, AttemptsPaid
    <3>2. f1 <= f - 1
      BY <1>3, <1>6, <1>8, <2>2
    <3> HIDE DEF u, m, f, e, f1, n
    <3> QED BY <1>2, <1>7, <1>8, <2>2, <3>1, <3>2, RetriesAssumption
  <2>3. CASE a = n + 1 /\ ~(n > MaxRetries)
    <3> HIDE DEF u, m, h, f, e, f1, n, F, H
    <3> QED BY <1>1, <1>2, <1>3, <1>6, <1>7, <1>8, <2>3, RetriesAssumption
  <2> QED BY <1>10, <2>1, <2>2, <2>3 DEF Starts
<1> QED BY <1>8, <1>9, <1>10 DEF AttemptsPaid

----------------------------------------------------------------------------
(* The actions. *)

\* What a worker of t does but for starts: it leaves, or goes on with an
\* attempt that the row or its copy has counted.
WorksOn(w, t) ==
    /\ wtask[w] = t /\ wpc[w] # "idle"
    /\ UNCHANGED <<brokerVars, dispatcher>>
    /\ \A v \in Workers \ {w} :
          wtask'[v] = wtask[v] /\ wpc'[v] = wpc[v] /\ wrow'[v] = wrow[v]
    /\ \A s \in Tasks \ {t} : row'[s] = row[s]
    /\ \/ row'[t].attempt = row[t].attempt
       \/ wpc[w] # "load" /\ row'[t].attempt = wrow[w].attempt
    /\ \/ wtask'[w] = NoTask
       \/ /\ wtask'[w] = t /\ wpc'[w] # "load"
          /\ wpc'[w] = "start" => wpc[w] = "load" \/ wrow'[w].attempt <= MaxRetries
          /\ \/ wrow'[w].attempt = row[t].attempt
             \/ wpc[w] # "load" /\ wrow'[w].attempt = wrow[w].attempt

StartsOn(w, t) ==
    /\ wtask[w] = t /\ wpc[w] = "start" /\ wpc'[w] = "started"
    /\ UNCHANGED <<brokerVars, dispatcher, wtask>>
    /\ \A v \in Workers \ {w} : wpc'[v] = wpc[v] /\ wrow'[v] = wrow[v]
    /\ \A s \in Tasks \ {t} : row'[s] = row[s]
    /\ row'[t].attempt \in {row[t].attempt, wrow[w].attempt + 1}
    /\ wrow'[w].attempt = wrow[w].attempt + 1

\* Only start_attempt changes the attempt.
LEMMA LifecycleAttempts ==
    ASSUME NEW r \in Row
    PROVE  /\ Started(r).attempt = r.attempt + 1
           /\ Succeeded(r).attempt = r.attempt
           /\ Cancelled(r).attempt = r.attempt
           /\ \A i : Progressed(r, i).attempt = r.attempt
           /\ \A s : Failed(r, s).attempt = r.attempt
BY DEF Started, Succeeded, Cancelled, Progressed, Failed, Row

LEMMA LeavesWorkOn ==
    ASSUME TypeInv, NEW w \in Workers, NEW t \in Tasks, wtask[w] = t, wpc[w] # "idle",
           UNCHANGED <<brokerVars, dispatcher>>, Leave(w), UNCHANGED row
    PROVE  WorksOn(w, t)
BY DEF WorksOn, Leave, TypeInv, TypeOK

LEMMA RefreshesWorkOn ==
    ASSUME TypeInv, NEW w \in Workers, NEW t \in Tasks, wtask[w] = t, wpc[w] # "idle",
           UNCHANGED <<brokerVars, dispatcher>>, Refresh(w),
           NEW step \in WorkerSteps \ {"load"}, Goto(w, step),
           step = "start" => wpc[w] = "load"
    PROVE  WorksOn(w, t)
BY DEF WorksOn, Goto, Refresh, TypeInv, TypeOK

LEMMA CommitsWorkOn ==
    ASSUME TypeInv, NEW w \in Workers, NEW t \in Tasks, wtask[w] = t,
           wpc[w] \notin {"idle", "load"},
           UNCHANGED <<brokerVars, dispatcher>>,
           NEW mem, mem.attempt = wrow[w].attempt, Persist(w, mem),
           NEW step \in WorkerSteps \ {"load", "start"}, Goto(w, step)
    PROVE  WorksOn(w, t)
<1>1. row'[t] = Flush(mem, wrow[w], row[t]) /\ \A s \in Tasks \ {t} : row'[s] = row[s]
  BY DEF Persist, TypeInv, TypeOK
<1>2. row'[t].attempt = row[t].attempt
  BY <1>1 DEF Flush, Written
<1>3. /\ wrow'[w] = mem /\ wtask' = wtask /\ wpc'[w] = step
      /\ \A v \in Workers \ {w} : wpc'[v] = wpc[v] /\ wrow'[v] = wrow[v]
  BY DEF Persist, Goto, TypeInv, TypeOK
<1> QED BY <1>1, <1>2, <1>3 DEF WorksOn

LEMMA EndsWorkOn ==
    ASSUME TypeInv, NEW w \in Workers, NEW t \in Tasks, wtask[w] = t,
           wpc[w] \notin {"idle", "load"}, UNCHANGED <<brokerVars, dispatcher>>
    PROVE  /\ \A err : Fail(w, err) => WorksOn(w, t)
           /\ MarkSuccess(w) => WorksOn(w, t)
<1>1. wrow[w] \in Row
  BY DEF TypeInv, TypeOK
<1>2. ASSUME NEW err, Fail(w, err) PROVE WorksOn(w, t)
  <2>1. CASE CanRetry(wrow[w].attempt, err) /\ Goto(w, "start") /\ UNCHANGED <<row, wrow>>
    BY <2>1 DEF CanRetry, Goto, WorksOn, TypeInv, TypeOK
  <2>2. CASE Leave(w) /\ UNCHANGED row
    BY <2>2, LeavesWorkOn
  <2>3. CASE Persist(w, Failed(wrow[w], ErrorVerdict(err))) /\ Goto(w, "renew")
    <3>1. Failed(wrow[w], ErrorVerdict(err)).attempt = wrow[w].attempt
      BY <1>1, LifecycleAttempts
    <3> QED BY <2>3, <3>1, CommitsWorkOn DEF WorkerSteps
  <2> QED BY <1>2, <2>1, <2>2, <2>3 DEF Fail
<1>3. ASSUME MarkSuccess(w) PROVE WorksOn(w, t)
  <2>1. CASE Persist(w, Succeeded(wrow[w])) /\ Goto(w, "renew")
    <3>1. Succeeded(wrow[w]).attempt = wrow[w].attempt
      BY <1>1, LifecycleAttempts
    <3> QED BY <2>1, <3>1, CommitsWorkOn DEF WorkerSteps
  <2> QED BY <1>2, <1>3, <2>1 DEF MarkSuccess
<1> QED BY <1>2, <1>3

LEMMA WorkerActions ==
    ASSUME TypeInv, NEW w \in Workers, WorkerStep(w) \/ Kill(w), ~Take(w)
    PROVE  /\ wtask[w] \in Tasks
           /\ WorksOn(w, wtask[w]) \/ StartsOn(w, wtask[w])
<1> DEFINE t == wtask[w]
<1>1. wpc[w] # "idle" /\ UNCHANGED <<brokerVars, dispatcher>>
  BY DEF WorkerStep, Load, StartAttempt, RefreshStarted, Execute, CheckStop, Evaluate,
         NextIteration, FinalCheck, FinishHybrid, RenewTtl, Kill
<1>2. t \in Tasks /\ wrow[w] \in Row
  BY <1>1 DEF TypeInv, TypeOK
<1>3. CASE Load(w)
  <2>1. CASE Leave(w) /\ UNCHANGED row
    BY <1>1, <1>2, <2>1, LeavesWorkOn
  <2>2. CASE Refresh(w) /\ Goto(w, "start")
    BY <1>1, <1>2, <1>3, <2>2, RefreshesWorkOn DEF Load, WorkerSteps
  <2> QED BY <1>3, <2>1, <2>2 DEF Load
<1>4. CASE StartAttempt(w)
  <2>1. CASE Leave(w) /\ UNCHANGED row
    BY <1>1, <1>2, <2>1, LeavesWorkOn
  <2>2. CASE Persist(w, Started(wrow[w])) /\ Goto(w, "started")
    <3>1. row' = [row EXCEPT ![t] = Flush(Started(wrow[w]), wrow[w], row[t])]
      BY <2>2 DEF Persist
    <3>2. row'[t].attempt \in {row[t].attempt, wrow[w].attempt + 1}
      <4>1. Started(wrow[w]).attempt = wrow[w].attempt + 1
        BY <1>2, LifecycleAttempts
      <4> QED BY <1>2, <3>1, <4>1 DEF Flush, Written, TypeInv, TypeOK
    <3>3. /\ wrow'[w].attempt = wrow[w].attempt + 1
          /\ wtask' = wtask /\ wpc'[w] = "started"
          /\ \A v \in Workers \ {w} : wpc'[v] = wpc[v] /\ wrow'[v] = wrow[v]
      BY <1>2, <2>2, LifecycleAttempts DEF Persist, Goto, TypeInv, TypeOK
    <3>4. wpc[w] = "start" /\ \A s \in Tasks \ {t} : row'[s] = row[s]
      BY <1>4, <3>1 DEF StartAttempt, TypeInv, TypeOK
    <3> QED BY <1>1, <1>2, <3>2, <3>3, <3>4 DEF StartsOn
  <2> QED BY <1>4, <2>1, <2>2 DEF StartAttempt
<1>5. CASE RefreshStarted(w)
  BY <1>1, <1>2, <1>5, RefreshesWorkOn DEF RefreshStarted, WorkerSteps
<1>6. CASE CheckStop(w) \/ NextIteration(w) \/ FinalCheck(w)
  BY <1>1, <1>2, <1>6, RefreshesWorkOn DEF CheckStop, NextIteration, FinalCheck, WorkerSteps
<1>7. CASE Execute(w)
  BY <1>1, <1>2, <1>7, EndsWorkOn DEF Execute
<1>8. CASE Evaluate(w)
  <2>1. CASE Persist(w, Progressed(wrow[w], witer[w] + 1)) /\ Goto(w, "progressed")
    <3>1. Progressed(wrow[w], witer[w] + 1).attempt = wrow[w].attempt
      BY <1>2, LifecycleAttempts
    <3> QED BY <1>1, <1>2, <1>8, <2>1, <3>1, CommitsWorkOn DEF Evaluate, WorkerSteps
  <2>2. CASE \E err \in Errors("hybrid") : Fail(w, err)
    BY <1>1, <1>2, <1>8, <2>2, EndsWorkOn DEF Evaluate
  <2> QED BY <1>8, <2>1, <2>2 DEF Evaluate
<1>9. CASE FinishHybrid(w)
  BY <1>1, <1>2, <1>9, EndsWorkOn DEF FinishHybrid
<1>10. CASE RenewTtl(w) \/ Kill(w)
  BY <1>1, <1>2, <1>10, LeavesWorkOn DEF RenewTtl, Kill
<1> QED
  BY <1>2, <1>3, <1>4, <1>5, <1>6, <1>7, <1>8, <1>9, <1>10 DEF WorkerStep

\* The workers of t stay or leave, and keep to what has been counted.
LEMMA WorkersKeep ==
    ASSUME NEW t \in Tasks,
           row'[t].attempt \in Counted(t),
           \A v \in Workers : wtask'[v] = t =>
              /\ wtask[v] = t
              /\ wpc'[v] = "load" => wpc[v] = "load"
              /\ wpc'[v] = "start" /\ wrow'[v].attempt > MaxRetries => v \in Fresh(t)
              /\ wpc'[v] # "load" => wrow'[v].attempt \in Counted(t)
    PROVE  /\ Holders(t)' \subseteq Holders(t)
           /\ Fresh(t)' \subseteq Fresh(t)
           /\ Counted(t)' \subseteq Counted(t)
BY DEF Holders, Fresh, Counted

LEMMA SameWorkersKeep ==
    ASSUME NEW t \in Tasks, row'[t].attempt = row[t].attempt,
           \A v \in Workers : wtask'[v] = t =>
              wtask[v] = t /\ wpc'[v] = wpc[v] /\ wrow'[v] = wrow[v]
    PROVE  /\ Holders(t)' \subseteq Holders(t)
           /\ Fresh(t)' \subseteq Fresh(t)
           /\ Counted(t)' \subseteq Counted(t)
BY DEF Holders, Fresh, Counted

\* No message, no dispatcher: only workers, or cancel requests, move.
LEMMA SameMessages ==
    ASSUME TypeInv, NEW t \in Tasks, UNCHANGED <<brokerVars, dispatcher>>,
           IsFiniteSet(Holders(t))
    PROVE  /\ Unpublished(t)' = Unpublished(t) /\ Messages(t)' = Messages(t)
           /\ extra'[t] = extra[t]
           /\ Unpublished(t)' + Messages(t)' + extra[t] <= Unpublished(t) + Messages(t) + extra'[t]
           /\ extra[t] <= extra'[t]
<1>1. /\ Unpublished(t)' = Unpublished(t) /\ Messages(t)' = Messages(t)
      /\ extra'[t] = extra[t]
  BY DEF Unpublished, Messages, brokerVars
<1>2. Unpublished(t) \in 0 .. 1 /\ Messages(t) \in Nat /\ extra[t] \in Nat
  BY CountsAreNumbers
<1> QED BY <1>1, <1>2

\* The submit request and the broker: a message more has been paid for.
LEMMA DispatchIsQuiet ==
    ASSUME TypeInv, TypeInv', NEW t \in Tasks, IsFiniteSet(Holders(t)),
           NEW u \in Tasks, DispatchStep(u) \/ Redeliver(u)
    PROVE  Quiet(t)
<1> DEFINE q == queue[Kind[t]]
           one == IF u = t THEN 1 ELSE 0
<1>1. UNCHANGED workerVars
  BY DEF DispatchStep, Publish, PublishFails, RenewAfterFailure, Redeliver
<1>2. row'[t].attempt = row[t].attempt
  <2>1. \A copy \in {NewRow, row[u]} :
           Flush(Failed(copy, "FAILURE"), copy, row[u]).attempt = row[u].attempt
    <3>1. \A copy \in {NewRow, row[u]} : copy \in Row
      BY LifecycleTypes DEF TypeInv, TypeOK
    <3>2. \A copy \in {NewRow, row[u]} : Failed(copy, "FAILURE").attempt = copy.attempt
      BY <3>1, LifecycleAttempts
    <3> QED BY <3>2 DEF Flush, Written
  <2>2. \/ UNCHANGED row
        \/ \E copy \in {NewRow, row[u]} :
              row' = [row EXCEPT ![u] = Flush(Failed(copy, "FAILURE"), copy, @)]
    BY DEF DispatchStep, Publish, PublishFails, RenewAfterFailure, Redeliver
  <2>3. ASSUME NEW copy \in {NewRow, row[u]},
               row' = [row EXCEPT ![u] = Flush(Failed(copy, "FAILURE"), copy, @)]
        PROVE  row'[t].attempt = row[t].attempt
    <3> DEFINE new == Flush(Failed(copy, "FAILURE"), copy, row[u])
    <3>1. row' = [row EXCEPT ![u] = new] /\ row \in [Tasks -> Row]
      BY <2>3 DEF TypeInv, TypeOK
    <3>2. new.attempt = row[u].attempt
      BY <2>1
    <3> HIDE DEF new
    <3> QED BY <3>1, <3>2
  <2> QED BY <2>2, <2>3
<1>3. /\ Holders(t)' \subseteq Holders(t)
      /\ Fresh(t)' \subseteq Fresh(t)
      /\ Counted(t)' \subseteq Counted(t)
  BY <1>1, <1>2, SameWorkersKeep DEF workerVars
<1>4. q \in Seq(Tasks) /\ Kind[u] \in Kinds /\ Kind[t] \in Kinds
  BY KindAssumption DEF TypeInv, TypeOK
<1>5. /\ Unpublished(t) \in 0 .. 1 /\ Unpublished(t)' \in 0 .. 1
      /\ Messages(t) \in Nat /\ Messages(t)' \in Nat /\ extra[t] \in Nat /\ one \in 0 .. 1
  <2>1. IsFiniteSet(Holders(t)')
    BY <1>3, FS_Subset
  <2> QED BY <2>1, CountsAreNumbers, NextCountsAreNumbers
<1>6. ASSUME Enqueue(u) PROVE Messages(t)' <= Messages(t) + one
  <2>1. CASE Kind[u] = Kind[t]
    <3>1. queue'[Kind[t]] = Append(q, u)
      BY <1>4, <1>6, <2>1 DEF Enqueue, TypeInv, TypeOK
    <3> QED BY <1>4, <3>1, AppendPlaces DEF Messages
  <2>2. CASE Kind[u] # Kind[t]
    <3>1. queue'[Kind[t]] = q
      BY <1>4, <1>6, <2>2 DEF Enqueue, TypeInv, TypeOK
    <3>2. Messages(t)' = Messages(t)
      BY <3>1 DEF Messages
    <3> QED BY <1>5, <3>2
  <2> QED BY <2>1, <2>2
<1>7. ASSUME Excess(u) PROVE Messages(t)' <= Messages(t) + one /\ extra'[t] = extra[t] + one
  <2>1. extra'[t] = extra[t] + one
    BY <1>5, <1>7 DEF Excess, TypeInv, TypeOK
  <2> QED BY <1>6, <1>7, <2>1 DEF Excess
<1>8. UNCHANGED queue => Messages(t)' = Messages(t)
  BY DEF Messages
<1> HIDE DEF one
<1>9. CASE Publish(u)
  <2>1. Messages(t)' <= Messages(t) + one /\ extra'[t] = extra[t]
    BY <1>6, <1>9 DEF Publish
  <2>2. Unpublished(t)' + one = Unpublished(t)
    BY <1>9 DEF Publish, Unpublished, one, TypeInv, TypeOK
  <2> QED BY <1>3, <1>5, <2>1, <2>2 DEF Quiet
<1>10. CASE PublishFails(u)
  <2>1. Unpublished(t)' <= Unpublished(t)
    BY <1>10 DEF PublishFails, Unpublished, TypeInv, TypeOK
  <2>2. \/ Messages(t)' = Messages(t) /\ extra'[t] = extra[t]
        \/ Messages(t)' <= Messages(t) + one /\ extra'[t] = extra[t] + one
    BY <1>7, <1>8, <1>10 DEF PublishFails, brokerVars
  <2> QED BY <1>3, <1>5, <2>1, <2>2 DEF Quiet
<1>11. CASE RenewAfterFailure(u)
  <2>1. Messages(t)' = Messages(t) /\ extra'[t] = extra[t]
    BY <1>8, <1>11 DEF RenewAfterFailure, brokerVars
  <2>2. Unpublished(t)' <= Unpublished(t)
    BY <1>11 DEF RenewAfterFailure, Unpublished, TypeInv, TypeOK
  <2> QED BY <1>3, <1>5, <2>1, <2>2 DEF Quiet
<1>12. CASE Redeliver(u)
  <2>1. Messages(t)' <= Messages(t) + one /\ extra'[t] = extra[t] + one
    BY <1>7, <1>12 DEF Redeliver
  <2>2. Unpublished(t)' = Unpublished(t)
    BY <1>12 DEF Redeliver, Unpublished
  <2> QED BY <1>3, <1>5, <2>1, <2>2 DEF Quiet
<1> QED BY <1>9, <1>10, <1>11, <1>12 DEF DispatchStep

\* Cancel requests change no attempt.
LEMMA CancelIsQuiet ==
    ASSUME TypeInv, NEW t \in Tasks, IsFiniteSet(Holders(t)), NEW c \in Cancellers,
           CancelCommit(c) \/ \E s \in Tasks : CancelLoad(c, s)
    PROVE  Quiet(t)
<1>1. UNCHANGED <<brokerVars, dispatcher, workerVars>>
  BY DEF CancelCommit, CancelLoad
<1>2. row'[t].attempt = row[t].attempt
  <2>1. crow[c] \in Row
    BY DEF TypeInv, TypeOK
  <2>2. Cancelled(crow[c]).attempt = crow[c].attempt
    BY <2>1, LifecycleAttempts
  <2>3. Flush(Cancelled(crow[c]), crow[c], row[t]).attempt = row[t].attempt
    BY <2>2 DEF Flush, Written
  <2> QED BY <2>3 DEF CancelCommit, CancelLoad, TypeInv, TypeOK
<1> QED BY <1>1, <1>2, SameMessages, SameWorkersKeep DEF Quiet, workerVars

LEMMA TakeCounts ==
    ASSUME TypeInv, TypeInv', QueuesSorted, NEW t \in Tasks, IsFiniteSet(Holders(t)),
           NEW w \in Workers, Take(w)
    PROVE  Quiet(t) \/ Takes(t, w)
<1> DEFINE k == Role[w]
           s == Head(queue[k])
           one == IF s = t THEN 1 ELSE 0
<1>1. k \in Kinds /\ queue[k] \in Seq(Tasks) /\ queue[k] # << >>
  BY RoleAssumption DEF Take, TypeInv, TypeOK
<1>2. s \in Tasks /\ Kind[s] = k
  <2>1. 1 \in 1 .. Len(queue[k]) /\ s = queue[k][1] /\ s \in Tasks
    BY <1>1
  <2> QED BY <1>1, <2>1 DEF QueuesSorted
<1>3. /\ UNCHANGED <<row, extra, dispatcher, wrow>>
      /\ wtask' = [wtask EXCEPT ![w] = s] /\ wpc' = [wpc EXCEPT ![w] = "load"]
      /\ queue' = [queue EXCEPT ![k] = Tail(@)]
  BY DEF Take
<1>4. Messages(t) \in Nat /\ extra[t] \in Nat /\ Unpublished(t) \in 0 .. 1 /\ Messages(t)' \in Nat
  <2>1. Messages(t)' \in Nat
    BY KindAssumption, PlacesFinite DEF Messages, TypeInv, TypeOK
  <2> QED BY <2>1, CountsAreNumbers
<1>5. Messages(t)' + one <= Messages(t)
  <2>1. CASE Kind[t] = k
    <3>1. queue'[Kind[t]] = Tail(queue[k])
      BY <1>1, <1>3, <2>1 DEF TypeInv, TypeOK
    <3>2. Messages(t)' = Cardinality(Places(Tail(queue[k]), t))
      BY <3>1 DEF Messages
    <3>3. Messages(t) = Cardinality(Places(queue[k], t))
      BY <2>1 DEF Messages
    <3>4. Cardinality(Places(Tail(queue[k]), t)) + one <= Cardinality(Places(queue[k], t))
      BY <1>1, TailPlaces
    <3> HIDE DEF k, one
    <3> QED BY <3>2, <3>3, <3>4
  <2>2. CASE Kind[t] # k
    <3>1. queue'[Kind[t]] = queue[Kind[t]] /\ s # t
      BY <1>2, <1>3, <2>2, KindAssumption DEF TypeInv, TypeOK
    <3>2. Messages(t)' = Messages(t)
      BY <3>1 DEF Messages
    <3> QED BY <1>4, <3>1, <3>2
  <2> QED BY <2>1, <2>2
<1>6. Unpublished(t)' = Unpublished(t) /\ extra'[t] = extra[t]
  BY <1>3 DEF Unpublished
<1>7. \A v \in Workers \ {w} : wtask'[v] = wtask[v] /\ wpc'[v] = wpc[v] /\ wrow'[v] = wrow[v]
  BY <1>3 DEF TypeInv, TypeOK
<1>8. wtask'[w] = s /\ wpc'[w] = "load"
  BY <1>3 DEF TypeInv, TypeOK
<1>9. CASE s = t
  <2>1. /\ Holders(t)' \subseteq Holders(t) \cup {w}
        /\ Fresh(t)' \subseteq Fresh(t) \cup {w}
        /\ Counted(t)' \subseteq Counted(t)
    BY <1>3, <1>7, <1>8, <1>9 DEF Holders, Fresh, Counted
  <2> QED BY <1>5, <1>6, <1>9, <2>1 DEF Takes
<1>10. CASE s # t
  <2>1. /\ Holders(t)' \subseteq Holders(t)
        /\ Fresh(t)' \subseteq Fresh(t)
        /\ Counted(t)' \subseteq Counted(t)
    BY <1>3, <1>7, <1>8, <1>10, SameWorkersKeep
  <2> HIDE DEF s
  <2> QED BY <1>4, <1>5, <1>6, <1>10, <2>1 DEF Quiet
<1> QED BY <1>9, <1>10

LEMMA WorkCounts ==
    ASSUME TypeInv, NEW t \in Tasks, IsFiniteSet(Holders(t)), NEW w \in Workers,
           WorkerStep(w) \/ Kill(w), ~Take(w)
    PROVE  Quiet(t) \/ Starts(t, w)
<1>1. wtask[w] \in Tasks /\ (WorksOn(w, wtask[w]) \/ StartsOn(w, wtask[w]))
  BY WorkerActions
<1>2. UNCHANGED <<brokerVars, dispatcher>>
  BY <1>1 DEF WorksOn, StartsOn
<1>3. CASE wtask[w] # t
  <2>1. row'[t].attempt = row[t].attempt
    BY <1>1, <1>3 DEF WorksOn, StartsOn
  <2>2. \A v \in Workers : wtask'[v] = t =>
           wtask[v] = t /\ wpc'[v] = wpc[v] /\ wrow'[v] = wrow[v]
    BY <1>1, <1>3, TasksAssumption DEF WorksOn, StartsOn
  <2> QED BY <1>2, <2>1, <2>2, SameMessages, SameWorkersKeep DEF Quiet
<1>4. CASE wtask[w] = t /\ WorksOn(w, t)
  <2>1. /\ row[t].attempt \in Counted(t)
        /\ \A v \in Workers :
              /\ wtask[v] = t /\ wpc[v] # "load" => wrow[v].attempt \in Counted(t)
              /\ wtask[v] = t /\ wpc[v] = "load" => v \in Fresh(t)
              /\ wtask[v] = t /\ wpc[v] = "start" /\ wrow[v].attempt > MaxRetries
                    => v \in Fresh(t)
    BY DEF Counted, Holders, Fresh
  <2>2. row'[t].attempt \in Counted(t)
    BY <1>4, <2>1 DEF WorksOn
  <2>3. ASSUME NEW v \in Workers, wtask'[v] = t
        PROVE  /\ wtask[v] = t
               /\ wpc'[v] = "load" => wpc[v] = "load"
               /\ wpc'[v] = "start" /\ wrow'[v].attempt > MaxRetries => v \in Fresh(t)
               /\ wpc'[v] # "load" => wrow'[v].attempt \in Counted(t)
    <3>1. CASE v # w
      BY <1>4, <2>1, <2>3, <3>1 DEF WorksOn
    <3>2. CASE v = w
      <4>1. wrow'[w].attempt \in Counted(t) /\ Counted(t) \subseteq Nat
        BY <1>4, <2>1, <2>3, <3>2, TasksAssumption, CountsAreNumbers DEF WorksOn
      <4>2. wrow'[w].attempt \in Nat
        BY <4>1
      <4> QED BY <1>4, <2>1, <2>3, <3>2, <4>1, <4>2, TasksAssumption, RetriesAssumption DEF WorksOn
    <3> QED BY <3>1, <3>2
  <2>4. /\ Holders(t)' \subseteq Holders(t)
        /\ Fresh(t)' \subseteq Fresh(t)
        /\ Counted(t)' \subseteq Counted(t)
    BY <2>2, <2>3, WorkersKeep
  <2> QED BY <1>2, <2>4, SameMessages DEF Quiet
<1>5. CASE wtask[w] = t /\ StartsOn(w, t)
  <2>1. w \in Holders(t) /\ wrow[w].attempt \in Counted(t)
    BY <1>5 DEF StartsOn, Holders, Counted
  <2>2. wrow[w].attempt > MaxRetries => w \in Fresh(t)
    BY <1>5 DEF StartsOn, Holders, Fresh
  <2>3. Holders(t)' \subseteq Holders(t)
    BY <1>5 DEF StartsOn, Holders
  <2>4. Fresh(t)' \subseteq Fresh(t) \ {w}
    BY <1>5 DEF StartsOn, Holders, Fresh
  <2>5. Counted(t)' \subseteq Counted(t) \cup {wrow[w].attempt + 1}
    BY <1>5 DEF StartsOn, Holders, Counted
  <2> QED BY <1>2, <2>1, <2>2, <2>3, <2>4, <2>5, SameMessages DEF Starts
<1> QED BY <1>1, <1>3, <1>4, <1>5

----------------------------------------------------------------------------
LEMMA AttemptsStep ==
    TypeInv /\ TypeInv' /\ QueuesSorted /\ AttemptsInv /\ [Next]_vars => AttemptsInv'
<1> SUFFICES ASSUME TypeInv, TypeInv', QueuesSorted, AttemptsInv, [Next]_vars, NEW t \in Tasks
             PROVE  MessagesBounded(t)' /\ AttemptsPaid(t)'
  BY DEF AttemptsInv
<1>1. MessagesBounded(t) /\ AttemptsPaid(t) /\ IsFiniteSet(Holders(t))
  BY DEF AttemptsInv, MessagesBounded
<1>2. CASE \E u \in Tasks : DispatchStep(u) \/ Redeliver(u)
  BY <1>1, <1>2, DispatchIsQuiet, QuietKeeps
<1>3. ASSUME NEW w \in Workers, WorkerStep(w) \/ Kill(w)
      PROVE  MessagesBounded(t)' /\ AttemptsPaid(t)'
  <2>1. CASE Take(w)
    BY <1>1, <2>1, TakeCounts, QuietKeeps, TakesKeeps
  <2>2. CASE ~Take(w)
    BY <1>1, <1>3, <2>2, WorkCounts, QuietKeeps, StartsKeeps
  <2> QED BY <2>1, <2>2
<1>4. CASE \E c \in Cancellers : CancelCommit(c) \/ \E s \in Tasks : CancelLoad(c, s)
  BY <1>1, <1>4, CancelIsQuiet, QuietKeeps
<1>5. CASE UNCHANGED vars
  <2>1. UNCHANGED <<row, brokerVars, dispatcher, workerVars>>
    BY <1>5 DEF vars
  <2>2. Quiet(t)
    BY <1>1, <2>1, SameMessages, SameWorkersKeep DEF Quiet, workerVars
  <2> QED BY <1>1, <2>2, QuietKeeps
<1> QED BY <1>2, <1>3, <1>4, <1>5 DEF Next

LEMMA AttemptsInit == Init => AttemptsInv
<1> SUFFICES ASSUME Init, NEW t \in Tasks PROVE MessagesBounded(t) /\ AttemptsPaid(t)
  BY DEF AttemptsInv
<1>1. Kind[t] \in Kinds
  BY KindAssumption
<1>2. Holders(t) = {} /\ Places(queue[Kind[t]], t) = {}
  BY <1>1, TasksAssumption DEF Init, Holders, Places
<1>3. Cardinality(Holders(t)) = 0 /\ Messages(t) = 0 /\ IsFiniteSet(Holders(t))
  BY <1>2, FS_EmptySet DEF Messages
<1>4. Unpublished(t) = 1 /\ extra[t] = 0 /\ row[t].attempt = 0
  BY DEF Init, Unpublished, NewRow
<1>5. Counted(t) = {0}
  BY <1>2, <1>4 DEF Counted
<1> QED BY <1>3, <1>4, <1>5, RetriesAssumption DEF MessagesBounded, AttemptsPaid

(***************************************************************************)
(* No task is executed more often than the retry policy allows, but for    *)
(* one attempt per excess message (RetryPolicy.can_retry, start_attempt).  *)
(***************************************************************************)
THEOREM AttemptsStayBounded == Spec => []AttemptsBounded
<1>1. DeliveryInv => QueuesSorted
  BY DEF DeliveryInv
<1>2. TypeInv /\ AttemptsInv => AttemptsBounded
  <2> SUFFICES ASSUME TypeInv, AttemptsInv, NEW t \in Tasks
               PROVE  row[t].attempt <= MaxRetries + 1 + extra[t]
    BY DEF AttemptsBounded
  <2>1. MessagesBounded(t) /\ AttemptsPaid(t) /\ row[t].attempt \in Counted(t)
    BY DEF AttemptsInv, Counted
  <2>2. /\ Unpublished(t) \in 0 .. 1 /\ Messages(t) \in Nat /\ extra[t] \in Nat
        /\ Cardinality(Fresh(t)) \in Nat /\ row[t].attempt \in Nat
    BY <2>1, CountsAreNumbers DEF MessagesBounded
  <2> QED BY <2>1, <2>2, RetriesAssumption DEF AttemptsPaid
<1> QED BY <1>1, <1>2, TypeInvariant, DeliveryInvariant, AttemptsInit, AttemptsStep, PTL DEF Spec

----------------------------------------------------------------------------
(***************************************************************************)
(* No task is forgotten.  A worker lets go of a task only from a terminal  *)
(* copy, after reading a terminal row, or by being killed; so, where the   *)
(* row is live, another actor than the one that leaves is the witness.     *)
(***************************************************************************)
\* Worker w is bound to read the row of t or to write it.
BoundTo(w, t) == wtask[w] = t /\ (wpc[w] = "load" \/ Mutable(w))

Tended(t) ==
    \/ IsTerminal(row[t])
    \/ dispatcher[t] = "created"
    \/ Waiting(t)
    \/ \E w \in Workers : BoundTo(w, t)
    \/ t \in lost

TendInv ==
    /\ \A t \in Tasks : Tended(t)
    /\ \A w \in Workers : wpc[w] = "renew" => IsTerminal(wrow[w])
    /\ \A c \in Cancellers : cpc[c] = "commit" => ~IsTerminal(crow[c])

\* How a worker leaves its task, and what it has written before it renews.
Parts(w) ==
    /\ wtask'[w] = NoTask =>
          \/ wpc[w] # "load" /\ ~Mutable(w)
          \/ IsTerminal(row[wtask[w]])
          \/ wtask[w] \in lost'
    /\ wpc'[w] = "renew" => IsTerminal(wrow'[w])

\* The lifecycle methods that give a verdict leave a terminal copy.
LEMMA VerdictsAreTerminal ==
    ASSUME NEW r \in Row
    PROVE  /\ IsTerminal(Succeeded(r)) /\ IsTerminal(Cancelled(r))
           /\ \A s \in Verdicts : IsTerminal(Failed(r, s))
BY DEF IsTerminal, Terminal, Verdicts, Succeeded, Cancelled, Failed, Row

\* A worker that goes on keeps its task.
LEMMA GoingOnStays ==
    ASSUME TypeInv, NEW w \in Workers, wpc[w] # "idle", NEW step \in WorkerSteps,
           Goto(w, step), step = "renew" => IsTerminal(wrow'[w])
    PROVE  Parts(w)
<1>1. wtask'[w] = wtask[w] /\ wtask[w] \in Tasks /\ wpc'[w] = step
  BY DEF Goto, TypeInv, TypeOK
<1> QED BY <1>1, TasksAssumption DEF Parts

\* A worker whose copy is terminal may go.
LEMMA LeavingParts ==
    ASSUME TypeInv, NEW w \in Workers, wpc[w] # "idle", Leave(w),
           \/ wpc[w] # "load" /\ ~Mutable(w)
           \/ IsTerminal(row[wtask[w]])
           \/ wtask[w] \in lost'
    PROVE  Parts(w)
<1>1. wpc'[w] = "idle"
  BY DEF Leave, TypeInv, TypeOK
<1> QED BY <1>1 DEF Parts

LEMMA AttemptParts ==
    ASSUME TypeInv, NEW w \in Workers, wpc[w] \notin {"idle", "load"}
    PROVE  /\ \A err \in {"timeout", "transient", "fatal"} : Fail(w, err) => Parts(w)
           /\ MarkSuccess(w) => Parts(w)
<1>1. wrow[w] \in Row
  BY DEF TypeInv, TypeOK
<1>2. ASSUME NEW err \in {"timeout", "transient", "fatal"}, Fail(w, err) PROVE Parts(w)
  <2>1. CASE Goto(w, "start")
    BY <2>1, GoingOnStays DEF WorkerSteps
  <2>2. CASE ~Mutable(w) /\ Leave(w)
    BY <2>2, LeavingParts
  <2>3. CASE Persist(w, Failed(wrow[w], ErrorVerdict(err))) /\ Goto(w, "renew")
    <3>1. ErrorVerdict(err) \in Verdicts
      BY DEF ErrorVerdict, Verdicts
    <3>2. wrow'[w] = Failed(wrow[w], ErrorVerdict(err))
      BY <2>3 DEF Persist, TypeInv, TypeOK
    <3>3. IsTerminal(wrow'[w])
      BY <1>1, <3>1, <3>2, VerdictsAreTerminal
    <3> QED BY <2>3, <3>3, GoingOnStays DEF WorkerSteps
  <2> QED BY <1>2, <2>1, <2>2, <2>3 DEF Fail
<1>3. ASSUME MarkSuccess(w) PROVE Parts(w)
  <2>1. CASE Persist(w, Succeeded(wrow[w])) /\ Goto(w, "renew")
    <3>1. wrow'[w] = Succeeded(wrow[w])
      BY <2>1 DEF Persist, TypeInv, TypeOK
    <3>2. IsTerminal(wrow'[w])
      BY <1>1, <3>1, VerdictsAreTerminal
    <3> QED BY <2>1, <3>2, GoingOnStays DEF WorkerSteps
  <2> QED BY <1>2, <1>3, <2>1 DEF MarkSuccess
<1> QED BY <1>2, <1>3

(***************************************************************************)
(* Every step of a worker that holds a task parts in that way.             *)
(***************************************************************************)
LEMMA WorkersPart ==
    ASSUME TypeInv, TendInv, NEW w \in Workers, WorkerStep(w) \/ Kill(w), ~Take(w)
    PROVE  Parts(w)
<1>1. Role[w] \in Kinds
  BY RoleAssumption
<1>2. wpc[w] # "idle" /\ wtask[w] \in Tasks
  BY WorkerMoves DEF WorkerMove, TypeInv, TypeOK
<1>3. CASE Load(w)
  <2>1. CASE row[wtask[w]].status = "CANCELLED" /\ Leave(w)
    BY <1>2, <2>1, LeavingParts DEF IsTerminal, Terminal
  <2>2. CASE Goto(w, "start")
    BY <1>2, <2>2, GoingOnStays DEF WorkerSteps
  <2> QED BY <1>3, <2>1, <2>2 DEF Load
<1>4. CASE StartAttempt(w)
  <2>1. CASE ~Mutable(w) /\ Leave(w)
    BY <1>2, <1>4, <2>1, LeavingParts DEF StartAttempt
  <2>2. CASE Goto(w, "started")
    BY <1>2, <2>2, GoingOnStays DEF WorkerSteps
  <2> QED BY <1>4, <2>1, <2>2 DEF StartAttempt
<1>5. CASE RefreshStarted(w) \/ NextIteration(w)
  BY <1>2, <1>5, GoingOnStays DEF RefreshStarted, NextIteration, WorkerSteps
<1>6. CASE CheckStop(w) \/ FinalCheck(w)
  <2>1. CASE row[wtask[w]].status = "CANCELLED" /\ Goto(w, "renew")
    <3>1. wrow'[w] = row[wtask[w]]
      BY <1>6 DEF CheckStop, FinalCheck, Refresh, TypeInv, TypeOK
    <3>2. IsTerminal(wrow'[w])
      BY <2>1, <3>1 DEF IsTerminal, Terminal
    <3> QED BY <1>2, <2>1, <3>2, GoingOnStays DEF WorkerSteps
  <2>2. CASE Goto(w, "evaluate") \/ Goto(w, "finish")
    BY <1>2, <2>2, GoingOnStays DEF WorkerSteps
  <2> QED BY <1>6, <2>1, <2>2 DEF CheckStop, FinalCheck
<1>7. CASE Execute(w)
  <2>1. Errors(Role[w]) \subseteq {"timeout", "transient", "fatal"}
    BY <1>1 DEF Errors, Kinds
  <2> QED BY <1>7, <2>1, AttemptParts DEF Execute
<1>8. CASE Evaluate(w)
  <2>1. CASE Goto(w, "progressed")
    BY <1>2, <2>1, GoingOnStays DEF WorkerSteps
  <2>2. CASE \E err \in Errors("hybrid") : Fail(w, err)
    BY <1>8, <2>2, AttemptParts DEF Evaluate, Errors
  <2> QED BY <1>8, <2>1, <2>2 DEF Evaluate
<1>9. CASE FinishHybrid(w)
  BY <1>9, AttemptParts DEF FinishHybrid
<1>10. CASE RenewTtl(w)
  <2>1. wpc[w] = "renew" /\ ~Mutable(w) /\ Leave(w)
    BY <1>10 DEF RenewTtl, TendInv, Mutable
  <2> QED BY <1>2, <2>1, LeavingParts
<1>11. CASE Kill(w)
  <2>1. wtask[w] \in lost' /\ Leave(w)
    BY <1>11 DEF Kill
  <2> QED BY <1>2, <2>1, LeavingParts
<1> QED
  BY <1>3, <1>4, <1>5, <1>6, <1>7, <1>8, <1>9, <1>10, <1>11 DEF WorkerStep

(***************************************************************************)
(* The task that a worker works on is tended after its step: where the     *)
(* worker leaves and the row is live, the witness was another worker; a    *)
(* commit leaves the row terminal or the copy live.                        *)
(***************************************************************************)
LEMMA HeldIsTended ==
    ASSUME TypeInv, TendInv, NEW w \in Workers, WorkerStep(w) \/ Kill(w), ~Take(w),
           NEW t \in Tasks, wtask[w] = t
    PROVE  Tended(t)'
<1>1. WorkerMove(w) /\ Parts(w) /\ UNCHANGED queue /\ lost \subseteq lost'
  <2>1. UNCHANGED queue /\ lost \subseteq lost'
    BY DEF WorkerStep, Load, StartAttempt, RefreshStarted, Execute, CheckStop, Evaluate,
           NextIteration, FinalCheck, FinishHybrid, RenewTtl, Kill, brokerVars
  <2> QED BY <2>1, WorkerMoves, WorkersPart
<1>2. wpc[w] # "idle" /\ t \in Tasks /\ wrow[w] \in Row /\ row[t] \in Row
  BY <1>1 DEF WorkerMove, TypeInv, TypeOK
<1>3. /\ dispatcher' = dispatcher
      /\ \A v \in Workers \ {w} :
            wtask'[v] = wtask[v] /\ wpc'[v] = wpc[v] /\ wrow'[v] = wrow[v]
  BY <1>1 DEF WorkerMove, Leave, Goto, Refresh, Persist, TypeInv, TypeOK
<1>4. ASSUME row'[t] = row[t], Tended(t), ~BoundTo(w, t) PROVE Tended(t)'
  <2>1. \A v \in Workers : BoundTo(v, t) => BoundTo(v, t)'
    BY <1>3, <1>4 DEF BoundTo, Mutable, IsTerminal
  <2>2. Waiting(t)' <=> Waiting(t)
    BY <1>1 DEF Waiting, Occurs
  <2> QED BY <1>1, <1>3, <1>4, <2>1, <2>2 DEF Tended, IsTerminal
<1>5. CASE Leave(w) /\ UNCHANGED row
  <2>1. wtask'[w] = NoTask
    BY <1>5 DEF Leave, TypeInv, TypeOK
  <2>2. CASE wpc[w] # "load" /\ ~Mutable(w)
    BY <1>4, <1>5, <2>2 DEF BoundTo, TendInv
  <2>3. CASE IsTerminal(row[t]) \/ t \in lost'
    BY <1>5, <2>3 DEF Tended, IsTerminal
  <2> QED BY <1>1, <2>1, <2>2, <2>3 DEF Parts
<1>6. ASSUME NEW step \in WorkerSteps \ {"idle", "load"}, Goto(w, step)
      PROVE  wtask'[w] = t /\ wpc'[w] = step
  BY <1>6 DEF Goto, TypeInv, TypeOK
<1>7. CASE /\ \E step \in WorkerSteps \ {"idle", "load"} : Goto(w, step)
           /\ Refresh(w)
  <2>1. wtask'[w] = t /\ wrow'[w] = row[t] /\ row'[t] = row[t]
    BY <1>6, <1>7 DEF Refresh, TypeInv, TypeOK
  <2> QED BY <2>1 DEF Tended, BoundTo, Mutable, IsTerminal
<1>8. CASE /\ \E step \in WorkerSteps \ {"idle", "load"} : Goto(w, step)
           /\ wpc[w] # "load" /\ UNCHANGED <<row, wrow>>
  <2>1. wtask'[w] = t /\ wrow'[w] = wrow[w] /\ row'[t] = row[t]
    BY <1>6, <1>8
  <2>2. CASE Mutable(w)
    BY <2>1, <2>2 DEF Tended, BoundTo, Mutable, IsTerminal
  <2>3. CASE ~Mutable(w)
    BY <1>2, <1>4, <1>8, <2>1, <2>3 DEF BoundTo, TendInv
  <2> QED BY <2>2, <2>3
<1>9. ASSUME NEW mem \in Row, MayWrite(mem.status, wrow[w]), Persist(w, mem), Mutable(w),
             NEW step \in WorkerSteps \ {"idle", "load"}, Goto(w, step)
      PROVE  Tended(t)'
  <2>1. wtask'[w] = t /\ wrow'[w] = mem /\ row'[t] = Flush(mem, wrow[w], row[t])
    BY <1>2, <1>6, <1>9 DEF Persist, TypeInv, TypeOK
  <2>2. CASE ~IsTerminal(mem)
    BY <2>1, <2>2 DEF Tended, BoundTo, Mutable, IsTerminal
  <2>3. CASE IsTerminal(mem)
    <3>1. mem.status # wrow[w].status
      BY <1>9, <2>3 DEF Mutable, IsTerminal
    <3>2. row'[t].status = mem.status
      BY <2>1, <3>1 DEF Flush, Written
    <3> QED BY <2>3, <3>2 DEF Tended, IsTerminal
  <2> QED BY <2>2, <2>3
<1> QED BY <1>1, <1>5, <1>7, <1>8, <1>9 DEF WorkerMove

(***************************************************************************)
(* A step that leaves the row of a task alone and takes none of its        *)
(* witnesses away leaves it tended.                                        *)
(***************************************************************************)
LEMMA StaysTended ==
    ASSUME NEW t \in Tasks, Tended(t), row'[t] = row[t],
           dispatcher[t] = "created" => dispatcher'[t] = "created" \/ Waiting(t)',
           Waiting(t) => Waiting(t)' \/ \E w \in Workers : BoundTo(w, t)',
           \A w \in Workers : BoundTo(w, t) => BoundTo(w, t)',
           lost \subseteq lost'
    PROVE  Tended(t)'
BY DEF Tended, IsTerminal

\* The two other parts of the invariant, where they are not disturbed.
LEMMA SameSessions ==
    ASSUME TendInv, UNCHANGED <<wpc, wrow, cpc, crow>>, \A t \in Tasks : Tended(t)'
    PROVE  TendInv'
BY DEF TendInv, IsTerminal

(***************************************************************************)
(* A step of a worker on its task tends every task.                        *)
(***************************************************************************)
LEMMA WorkerTends ==
    ASSUME TypeInv, TendInv, NEW w \in Workers, WorkerStep(w) \/ Kill(w), ~Take(w)
    PROVE  TendInv'
<1>1. WorkerMove(w) /\ Parts(w) /\ UNCHANGED queue /\ lost \subseteq lost'
  <2>1. UNCHANGED queue /\ lost \subseteq lost'
    BY DEF WorkerStep, Load, StartAttempt, RefreshStarted, Execute, CheckStop, Evaluate,
           NextIteration, FinalCheck, FinishHybrid, RenewTtl, Kill, brokerVars
  <2> QED BY <2>1, WorkerMoves, WorkersPart
<1>2. /\ wpc[w] # "idle" /\ wtask[w] \in Tasks /\ UNCHANGED <<dispatcher, cpc, crow>>
      /\ \A v \in Workers \ {w} :
            wtask'[v] = wtask[v] /\ wpc'[v] = wpc[v] /\ wrow'[v] = wrow[v]
      /\ \A u \in Tasks \ {wtask[w]} : row'[u] = row[u]
  BY <1>1 DEF WorkerMove, Leave, Goto, Refresh, Persist, cancelVars, TypeInv, TypeOK
<1>3. ASSUME NEW u \in Tasks, u # wtask[w] PROVE Tended(u)'
  <2>1. \A v \in Workers : BoundTo(v, u) => BoundTo(v, u)'
    BY <1>2, <1>3 DEF BoundTo, Mutable, IsTerminal
  <2>2. Waiting(u)' <=> Waiting(u)
    BY <1>1 DEF Waiting, Occurs
  <2> QED BY <1>1, <1>2, <1>3, <2>1, <2>2, StaysTended DEF TendInv
<1>4. \A u \in Tasks : Tended(u)'
  BY <1>3, HeldIsTended
<1>5. \A v \in Workers : wpc'[v] = "renew" => IsTerminal(wrow'[v])
  BY <1>1, <1>2 DEF Parts, TendInv
<1> QED BY <1>2, <1>4, <1>5 DEF TendInv, IsTerminal

(***************************************************************************)
(* A message that is taken from its queue is in the hands of a worker that *)
(* has yet to read the row.                                                *)
(***************************************************************************)
LEMMA TakeTends ==
    ASSUME TypeInv, TendInv, NEW w \in Workers, Take(w)
    PROVE  TendInv'
<1>1. /\ Role[w] \in Kinds /\ queue[Role[w]] \in Seq(Tasks) /\ queue[Role[w]] # << >>
      /\ wtask[w] = NoTask /\ wpc[w] = "idle"
  BY RoleAssumption DEF Take, TypeInv, TypeOK, IdleHoldNothing
<1> DEFINE q == queue[Role[w]]
           h == Head(q)
<1>2. /\ queue' = [queue EXCEPT ![Role[w]] = Tail(q)]
      /\ wtask'[w] = h /\ wpc'[w] = "load"
      /\ \A v \in Workers \ {w} : wtask'[v] = wtask[v] /\ wpc'[v] = wpc[v]
      /\ UNCHANGED <<row, dispatcher, lost, wrow, cpc, crow>>
  BY DEF Take, cancelVars, TypeInv, TypeOK
<1>3. ASSUME NEW u \in Tasks PROVE Tended(u)'
  <2>1. \A v \in Workers : BoundTo(v, u) => BoundTo(v, u)'
    BY <1>1, <1>2, TasksAssumption DEF BoundTo, Mutable, IsTerminal
  <2>2. Waiting(u) => Waiting(u)' \/ u = h
    <3>1. CASE Kind[u] = Role[w]
      <4>1. queue'[Kind[u]] = Tail(q)
        BY <1>1, <1>2, <3>1 DEF TypeInv, TypeOK
      <4>2. Occurs(q, u) => Occurs(Tail(q), u) \/ u = Head(q)
        BY <1>1, TailKeepsRest
      <4> QED BY <3>1, <4>1, <4>2 DEF Waiting
    <3>2. CASE Kind[u] # Role[w]
      BY <1>1, <1>2, <3>2, KindAssumption DEF Waiting, Occurs, TypeInv, TypeOK
    <3> QED BY <3>1, <3>2
  <2>3. u = h => BoundTo(w, u)'
    BY <1>2 DEF BoundTo
  <2> QED BY <1>2, <2>1, <2>2, <2>3, StaysTended DEF TendInv
<1>4. \A v \in Workers : wpc'[v] = "renew" => IsTerminal(wrow'[v])
  BY <1>2 DEF TendInv
<1> QED BY <1>2, <1>3, <1>4 DEF TendInv, IsTerminal

(***************************************************************************)
(* A submit request publishes the message, or writes a verdict; a message  *)
(* more does no harm.                                                      *)
(***************************************************************************)
LEMMA EnqueueTends ==
    ASSUME TypeInv, NEW t \in Tasks, Enqueue(t)
    PROVE  /\ Waiting(t)'
           /\ \A u \in Tasks : Waiting(u) => Waiting(u)'
<1>1. /\ Kind[t] \in Kinds /\ queue[Kind[t]] \in Seq(Tasks)
      /\ queue' = [queue EXCEPT ![Kind[t]] = Append(queue[Kind[t]], t)]
  BY KindAssumption DEF Enqueue, TypeInv, TypeOK
<1> DEFINE q == queue[Kind[t]]
           n == Len(q)
<1>2. /\ n \in Nat /\ Len(Append(q, t)) = n + 1 /\ Append(q, t)[n + 1] = t
      /\ \A i \in 1 .. n : Append(q, t)[i] = q[i]
  BY <1>1
<1>3. Occurs(Append(q, t), t)
  <2>1. n + 1 \in 1 .. (n + 1)
    BY <1>2
  <2> HIDE DEF q, n
  <2> QED BY <1>2, <2>1 DEF Occurs
<1>4. \A u : Occurs(q, u) => Occurs(Append(q, t), u)
  <2>1. \A i \in 1 .. n : i \in 1 .. (n + 1)
    BY <1>2
  <2>2. \A u : Occurs(q, u) <=> \E i \in 1 .. n : q[i] = u
    BY DEF Occurs
  <2> HIDE DEF q, n
  <2> QED BY <1>2, <2>1, <2>2 DEF Occurs
<1>5. queue'[Kind[t]] = Append(q, t) /\ \A k \in Kinds : k # Kind[t] => queue'[k] = queue[k]
  BY <1>1 DEF TypeInv, TypeOK
<1>6. \A u \in Tasks : Kind[u] \in Kinds
  BY KindAssumption
<1> HIDE DEF q
<1>7. q = queue[Kind[t]]
  BY DEF q
<1>8. ASSUME NEW u \in Tasks, Waiting(u) PROVE Waiting(u)'
  <2>1. CASE Kind[u] = Kind[t]
    BY <1>4, <1>5, <1>7, <1>8, <2>1 DEF Waiting
  <2>2. CASE Kind[u] # Kind[t]
    <3>1. queue'[Kind[u]] = queue[Kind[u]]
      BY <1>5, <1>6, <2>2
    <3> QED BY <1>8, <3>1 DEF Waiting
  <2> QED BY <2>1, <2>2
<1> QED BY <1>3, <1>5, <1>8 DEF Waiting

LEMMA DispatchTends ==
    ASSUME TypeInv, TendInv, NEW t \in Tasks, DispatchStep(t) \/ Redeliver(t)
    PROVE  TendInv'
<1>1. UNCHANGED <<wpc, wtask, wrow, cpc, crow, lost>>
  BY DEF DispatchStep, Publish, PublishFails, RenewAfterFailure, Redeliver, workerVars, cancelVars
<1>2. \A u \in Tasks, w \in Workers : BoundTo(w, u) => BoundTo(w, u)'
  BY <1>1 DEF BoundTo, Mutable, IsTerminal
<1>3. \A u \in Tasks \ {t} : row'[u] = row[u] /\ dispatcher'[u] = dispatcher[u]
  BY DEF DispatchStep, Publish, PublishFails, RenewAfterFailure, Redeliver, TypeInv, TypeOK
<1>4. UNCHANGED queue \/ Enqueue(t)
  BY DEF DispatchStep, Publish, PublishFails, RenewAfterFailure, Redeliver, Excess, brokerVars
<1>5. \A u \in Tasks : Waiting(u) => Waiting(u)'
  BY <1>4, EnqueueTends DEF Waiting, Occurs
<1>6. \A u \in Tasks \ {t} : Tended(u)'
  BY <1>1, <1>2, <1>3, <1>5, StaysTended DEF TendInv
<1>7. CASE Publish(t)
  <2>1. row'[t] = row[t] /\ Waiting(t)'
    BY <1>7, EnqueueTends DEF Publish
  <2>2. Tended(t)'
    BY <2>1 DEF Tended
  <2> QED BY <1>1, <1>6, <2>2, SameSessions
<1>8. CASE PublishFails(t)
  <2>1. PICK copy \in {NewRow, row[t]} :
           \/ /\ IsTerminal(copy)
              /\ UNCHANGED row
           \/ /\ ~IsTerminal(copy)
              /\ row' = [row EXCEPT ![t] = Flush(Failed(copy, "FAILURE"), copy, @)]
    BY <1>8 DEF PublishFails
  <2>2. copy \in Row
    BY <2>1, LifecycleTypes DEF TypeInv, TypeOK
  <2>3. IsTerminal(row'[t])
    <3>1. CASE IsTerminal(copy) /\ UNCHANGED row
      <4>1. ~IsTerminal(NewRow)
        BY DEF IsTerminal, Terminal, Verdicts, NewRow
      <4> QED BY <2>1, <3>1, <4>1
    <3>2. CASE /\ ~IsTerminal(copy)
               /\ row' = [row EXCEPT ![t] = Flush(Failed(copy, "FAILURE"), copy, @)]
      <4>1. row'[t] = Flush(Failed(copy, "FAILURE"), copy, row[t])
        BY <3>2 DEF TypeInv, TypeOK
      <4>2. IsTerminal(Failed(copy, "FAILURE"))
        BY <2>2, VerdictsAreTerminal DEF Verdicts
      <4>3. row'[t].status = Failed(copy, "FAILURE").status
        BY <3>2, <4>1, <4>2 DEF Flush, Written, IsTerminal
      <4> QED BY <4>2, <4>3 DEF IsTerminal
    <3> QED BY <2>1, <3>1, <3>2
  <2>4. Tended(t)'
    BY <2>3 DEF Tended, IsTerminal
  <2> QED BY <1>1, <1>6, <2>4, SameSessions
<1>9. CASE RenewAfterFailure(t) \/ Redeliver(t)
  <2>1. row'[t] = row[t] /\ dispatcher[t] # "created"
    BY <1>9 DEF RenewAfterFailure, Redeliver
  <2>2. Tended(t)'
    BY <1>1, <1>2, <1>5, <2>1, StaysTended DEF TendInv
  <2> QED BY <1>1, <1>6, <2>2, SameSessions
<1> QED BY <1>7, <1>8, <1>9 DEF DispatchStep

(***************************************************************************)
(* A cancel request that found a live row leaves it CANCELLED.             *)
(***************************************************************************)
LEMMA CancelTends ==
    ASSUME TypeInv, TendInv, NEW c \in Cancellers,
           CancelCommit(c) \/ \E t \in Tasks : CancelLoad(c, t)
    PROVE  TendInv'
<1>1. UNCHANGED <<queue, dispatcher, lost, wpc, wtask, wrow>>
  BY DEF CancelCommit, CancelLoad, brokerVars, workerVars
<1>2. /\ \A u \in Tasks, w \in Workers : BoundTo(w, u) => BoundTo(w, u)'
      /\ \A u \in Tasks : Waiting(u) => Waiting(u)'
  BY <1>1 DEF BoundTo, Mutable, IsTerminal, Waiting, Occurs
<1>3. \A d \in Cancellers : cpc'[d] = "commit" => ~IsTerminal(crow'[d])
  BY DEF CancelCommit, CancelLoad, TendInv, TypeInv, TypeOK
<1>4. CASE CancelCommit(c)
  <2>1. PICK t \in Tasks : t = ctask[c] /\ crow[c] \in Row /\ ~IsTerminal(crow[c])
    BY <1>4 DEF CancelCommit, TendInv, TypeInv, TypeOK
  <2>2. /\ row'[t] = Flush(Cancelled(crow[c]), crow[c], row[t])
        /\ \A u \in Tasks \ {t} : row'[u] = row[u]
    BY <1>4, <2>1 DEF CancelCommit, TypeInv, TypeOK
  <2>3. IsTerminal(Cancelled(crow[c]))
    BY <2>1, VerdictsAreTerminal
  <2>4. row'[t].status = Cancelled(crow[c]).status
    BY <2>1, <2>2, <2>3 DEF Flush, Written, IsTerminal
  <2>5. Tended(t)'
    BY <2>3, <2>4 DEF Tended, IsTerminal
  <2>6. \A u \in Tasks \ {t} : Tended(u)'
    BY <1>1, <1>2, <2>2, StaysTended DEF TendInv
  <2> QED BY <1>1, <1>3, <2>5, <2>6 DEF TendInv, IsTerminal
<1>5. CASE \E t \in Tasks : CancelLoad(c, t)
  <2>1. UNCHANGED row
    BY <1>5 DEF CancelLoad
  <2>2. \A u \in Tasks : Tended(u)'
    BY <1>1, <1>2, <2>1, StaysTended DEF TendInv
  <2> QED BY <1>1, <1>3, <2>2 DEF TendInv, IsTerminal
<1> QED BY <1>4, <1>5

LEMMA TendStep == TypeInv /\ TendInv /\ [Next]_vars => TendInv'
<1> SUFFICES ASSUME TypeInv, TendInv, [Next]_vars
             PROVE  TendInv'
  OBVIOUS
<1>1. CASE UNCHANGED vars
  <2>1. \A u \in Tasks : Tended(u)'
    BY <1>1, StaysTended
    DEF TendInv, vars, brokerVars, workerVars, BoundTo, Mutable, Waiting, Occurs, IsTerminal
  <2> QED BY <1>1, <2>1, SameSessions DEF vars, workerVars, cancelVars
<1>2. CASE Next
  BY <1>2, DispatchTends, WorkerTends, TakeTends, CancelTends DEF Next
<1> QED BY <1>1, <1>2

(***************************************************************************)
(* A task whose row is live is with the request that will publish it, in   *)
(* its queue, with a worker that must still read or write it, or lost with *)
(* a killed worker.                                                        *)
(***************************************************************************)
THEOREM NoTaskIsForgotten == Spec => []NoTaskForgotten
<1>1. Init => TendInv
  BY DEF Init, TendInv, Tended
<1>2. TendInv => NoTaskForgotten
  BY DEF TendInv, Tended, NoTaskForgotten, Waiting, Occurs, BoundTo
<1> QED BY <1>1, <1>2, TypeInvariant, TendStep, PTL DEF Spec

----------------------------------------------------------------------------
(* The verdicts and their renewals. *)

(***************************************************************************)
(* A task with a verdict has had the TTL of its record restarted, or the   *)
(* worker or the request that wrote the verdict is about to do so, or a    *)
(* kill came between the two commits (the safety of VerdictsRenewed; the   *)
(* tasks' except and success branches, mark_failure of the dispatcher).    *)
(***************************************************************************)
VerdictAttended ==
    \A t \in Tasks : row[t].status \in Verdicts =>
        \/ t \in renewed \/ t \in lost \/ dispatcher[t] = "failing"
        \/ \E w \in Workers : wtask[w] = t /\ wpc[w] = "renew"

\* A worker's commit puts a verdict into the row only on the way to its renewal.
Announces(w) ==
    row'[wtask[w]].status \in Verdicts =>
        \/ row[wtask[w]].status \in Verdicts
        \/ wpc'[w] = "renew" /\ wtask'[w] = wtask[w]

\* A commit of a copy whose status is no verdict, or no news, brings none.
LEMMA NoVerdictWritten ==
    ASSUME TypeInv, NEW w \in Workers, wpc[w] # "idle", NEW mem \in Row, Persist(w, mem),
           mem.status \notin Verdicts \/ mem.status = wrow[w].status
    PROVE  Announces(w)
<1>1. row'[wtask[w]] = Flush(mem, wrow[w], row[wtask[w]])
  BY DEF Persist, TypeInv, TypeOK
<1>2. row'[wtask[w]].status \in {mem.status, row[wtask[w]].status}
  BY <1>1 DEF Flush, Written
<1>3. mem.status = wrow[w].status => row'[wtask[w]].status = row[wtask[w]].status
  BY <1>1 DEF Flush, Written
<1> QED BY <1>2, <1>3 DEF Announces

LEMMA OnToRenewal ==
    ASSUME TypeInv, NEW w \in Workers, Goto(w, "renew")
    PROVE  wpc'[w] = "renew" /\ wtask'[w] = wtask[w]
BY DEF Goto, TypeInv, TypeOK

LEMMA AttemptAnnounces ==
    ASSUME TypeInv, NEW w \in Workers, wpc[w] # "idle",
           (\E err \in {"timeout", "transient", "fatal"} : Fail(w, err)) \/ MarkSuccess(w)
    PROVE  Announces(w)
BY OnToRenewal DEF Fail, MarkSuccess, Announces

LEMMA WorkerAnnounces ==
    ASSUME TypeInv, NEW w \in Workers, WorkerStep(w) \/ Kill(w), ~Take(w)
    PROVE  Announces(w)
<1>1. wrow[w] \in Row /\ Role[w] \in Kinds /\ wpc[w] # "idle"
  BY RoleAssumption, WorkerMoves DEF WorkerMove, TypeInv, TypeOK
<1>2. CASE UNCHANGED row
  BY <1>2 DEF Announces
<1>3. CASE Load(w) \/ RefreshStarted(w) \/ CheckStop(w) \/ NextIteration(w) \/ FinalCheck(w)
           \/ RenewTtl(w) \/ Kill(w)
  BY <1>2, <1>3
     DEF Load, RefreshStarted, CheckStop, NextIteration, FinalCheck, RenewTtl, Kill, Refresh
<1>4. CASE StartAttempt(w)
  <2>1. CASE Persist(w, Started(wrow[w]))
    <3>1. Started(wrow[w]) \in Row /\ Started(wrow[w]).status \notin Verdicts
      BY <1>1, LifecycleTypes, LifecycleColumns DEF Verdicts
    <3> QED BY <1>1, <2>1, <3>1, NoVerdictWritten
  <2> QED BY <1>2, <1>4, <2>1 DEF StartAttempt
<1>5. CASE Execute(w)
  <2>1. Errors(Role[w]) \subseteq {"timeout", "transient", "fatal"}
    BY <1>1 DEF Errors, Kinds
  <2> QED BY <1>1, <1>5, <2>1, AttemptAnnounces DEF Execute
<1>6. CASE Evaluate(w)
  <2>1. CASE Persist(w, Progressed(wrow[w], witer[w] + 1))
    <3>1. witer[w] + 1 \in 1 .. MaxIterations
      BY <1>6, MaxIterationsAssumption DEF Evaluate, TypeInv, TypeOK, IterationsLeft
    <3>2. /\ Progressed(wrow[w], witer[w] + 1) \in Row
          /\ Progressed(wrow[w], witer[w] + 1).status = wrow[w].status
      BY <1>1, <3>1, LifecycleTypes DEF Progressed, Row
    <3> QED BY <1>1, <2>1, <3>2, NoVerdictWritten
  <2>2. CASE \E err \in Errors("hybrid") : Fail(w, err)
    BY <1>1, <2>2, AttemptAnnounces DEF Errors
  <2> QED BY <1>6, <2>1, <2>2 DEF Evaluate
<1>7. CASE FinishHybrid(w)
  BY <1>1, <1>7, AttemptAnnounces DEF FinishHybrid
<1> QED BY <1>3, <1>4, <1>5, <1>6, <1>7 DEF WorkerStep

\* A renewal that is due is made, or its worker is killed.
LEMMA RenewalMade ==
    ASSUME TypeInv, NEW w \in Workers, WorkerStep(w) \/ Kill(w), wpc[w] = "renew"
    PROVE  wtask[w] \in renewed' \/ wtask[w] \in lost'
BY DEF WorkerStep, Take, Load, StartAttempt, RefreshStarted, Execute, CheckStop, Evaluate,
       NextIteration, FinalCheck, FinishHybrid, RenewTtl, Kill

LEMMA WorkerAttends ==
    ASSUME TypeInv, VerdictAttended, NEW w \in Workers, WorkerStep(w) \/ Kill(w)
    PROVE  VerdictAttended'
<1>1. renewed \subseteq renewed' /\ lost \subseteq lost' /\ UNCHANGED dispatcher
  BY DEF WorkerStep, Take, Load, StartAttempt, RefreshStarted, Execute, CheckStop, Evaluate,
         NextIteration, FinalCheck, FinishHybrid, RenewTtl, Kill
<1>2. \A v \in Workers \ {w} : wtask'[v] = wtask[v] /\ wpc'[v] = wpc[v]
  <2>1. CASE Take(w)
    BY <2>1 DEF Take, TypeInv, TypeOK
  <2>2. CASE ~Take(w)
    BY <2>2, WorkerMoves DEF WorkerMove, Leave, Goto, TypeInv, TypeOK
  <2> QED BY <2>1, <2>2
<1>3. ASSUME NEW t \in Tasks, row'[t].status \in Verdicts, row[t].status \in Verdicts
      PROVE  \/ t \in renewed' \/ t \in lost' \/ dispatcher'[t] = "failing"
             \/ \E v \in Workers : wtask'[v] = t /\ wpc'[v] = "renew"
  BY <1>1, <1>2, <1>3, RenewalMade DEF VerdictAttended
<1>4. ASSUME NEW t \in Tasks, row'[t].status \in Verdicts, row[t].status \notin Verdicts
      PROVE  wtask'[w] = t /\ wpc'[w] = "renew"
  <2>1. ~Take(w)
    BY <1>4 DEF Take
  <2>2. t = wtask[w]
    BY <1>4, WorkerWrites DEF Writes
  <2> QED BY <1>4, <2>1, <2>2, WorkerAnnounces DEF Announces
<1> QED BY <1>3, <1>4 DEF VerdictAttended

LEMMA AttendStep == TypeInv /\ VerdictAttended /\ [Next]_vars => VerdictAttended'
<1> SUFFICES ASSUME TypeInv, VerdictAttended, [Next]_vars PROVE VerdictAttended'
  OBVIOUS
<1>1. CASE \E w \in Workers : WorkerStep(w) \/ Kill(w)
  BY <1>1, WorkerAttends
<1>2. CASE \E u \in Tasks : DispatchStep(u) \/ Redeliver(u)
  <2>1. PICK u \in Tasks : DispatchStep(u) \/ Redeliver(u)
    BY <1>2
  <2>2. /\ UNCHANGED <<lost, wpc, wtask>> /\ renewed \subseteq renewed'
        /\ \A t \in Tasks \ {u} : row'[t] = row[t] /\ dispatcher'[t] = dispatcher[t]
    BY <2>1 DEF DispatchStep, Publish, PublishFails, RenewAfterFailure, Redeliver, workerVars,
                TypeInv, TypeOK
  <2>3. \/ u \in renewed' \/ dispatcher'[u] = "failing"
        \/ row'[u] = row[u] /\ dispatcher[u] # "failing"
    BY <2>1 DEF DispatchStep, Publish, PublishFails, RenewAfterFailure, Redeliver, TypeInv, TypeOK
  <2> QED BY <2>2, <2>3 DEF VerdictAttended
<1>3. CASE \E c \in Cancellers : CancelCommit(c)
  <2>1. PICK c \in Cancellers : CancelCommit(c)
    BY <1>3
  <2>2. UNCHANGED <<dispatcher, renewed, lost, wpc, wtask>>
    BY <2>1 DEF CancelCommit, workerVars
  <2>3. \A t \in Tasks : row'[t].status \in {row[t].status, "CANCELLED"}
    BY <2>1, CancelColumns
  <2> QED BY <2>2, <2>3 DEF VerdictAttended, Verdicts
<1>4. CASE \/ \E c \in Cancellers, u \in Tasks : CancelLoad(c, u)
           \/ UNCHANGED vars
  BY <1>4 DEF CancelLoad, workerVars, vars, VerdictAttended
<1> QED BY <1>1, <1>2, <1>3, <1>4 DEF Next

(***************************************************************************)
(* No verdict waits for a renewal that nobody will make: however often its *)
(* message is delivered and whatever cancel requests write, who wrote the  *)
(* verdict renews the record or is killed.                                 *)
(***************************************************************************)
THEOREM VerdictsAreAttended == Spec => []VerdictAttended
<1>1. Init => VerdictAttended
  BY DEF Init, VerdictAttended, NewRow, Verdicts
<1> QED BY <1>1, TypeInvariant, AttendStep, PTL DEF Spec

==============================================================================
