-------------------------- MODULE TaskSubmitProofs --------------------------
(***************************************************************************)
(* Proofs about TaskSubmit: type correctness, the two invariants that make *)
(* an idempotency key trustworthy, the bound on the queue, and that a task *)
(* somebody was answered with is in hand, for every number of requests and *)
(* keys, every limit and every TTL.                                        *)
(***************************************************************************)
EXTENDS TaskSubmit, TLAPS, FiniteSetTheorems

\* Only requests with a key get to the steps that use it.
KeyedSteps ==
    \A r \in Requests :
        rpc[r] \in {"find", "resolve", "unexpire", "forget", "bind"} => Keyed(r)

TypeInv == TypeOK /\ KeyedSteps

\* The part of TypeInv that the request handlers' bookkeeping touches.
RequestTypes ==
    /\ rpc \in [Requests -> Steps]
    /\ now \in [Requests -> 0 .. MaxClock]
    /\ seen \in [Requests -> Record \cup {NoRecord}]
    /\ answer \in [Requests -> [outcome: Outcomes, task: Requests \cup {NoTask}]]
    /\ KeyedSteps

(***************************************************************************)
(* Ending a request, and taking it one step further, keep the types of its *)
(* bookkeeping.                                                            *)
(***************************************************************************)
LEMMA ReplyTypes ==
    ASSUME TypeInv, NEW r \in Requests, NEW outcome \in Outcomes,
           NEW task \in Requests \cup {NoTask}, Reply(r, outcome, task)
    PROVE  RequestTypes'
<1>1. rpc' \in [Requests -> Steps] /\ KeyedSteps'
  BY DEF Reply, TypeInv, TypeOK, KeyedSteps, Keyed, Steps
<1>2. now' \in [Requests -> 0 .. MaxClock]
  BY LimitsAssumption DEF Reply, TypeInv, TypeOK
<1>3. seen' \in [Requests -> Record \cup {NoRecord}]
  BY DEF Reply, TypeInv, TypeOK
<1>4. answer' \in [Requests -> [outcome: Outcomes, task: Requests \cup {NoTask}]]
  BY DEF Reply, TypeInv, TypeOK
<1> QED BY <1>1, <1>2, <1>3, <1>4 DEF RequestTypes

LEMMA ProceedTypes ==
    ASSUME TypeInv, NEW r \in Requests, NEW step \in Steps, Proceed(r, step),
           step \in {"find", "resolve", "unexpire", "forget", "bind"} => Keyed(r)
    PROVE  RequestTypes'
BY DEF Proceed, Goto, TypeInv, TypeOK, KeyedSteps, Keyed, RequestTypes

(***************************************************************************)
(* Restarting a TTL keeps the type of the records: the expiry it writes    *)
(* lies one TTL after an instant of the clock.                             *)
(***************************************************************************)
LEMMA RenewedType ==
    ASSUME TypeOK, NEW t \in Requests, NEW instant \in 0 .. MaxClock
    PROVE  Renewed(t, instant) \in [Keys -> Record \cup {NoRecord}]
<1>1. instant + Ttl \in Times
  BY LimitsAssumption DEF Times
<1>2. CASE Keyed(t) /\ record[KeyOf[t]].task = t
  <2>1. KeyOf[t] \in Keys
    BY <1>2, KeyOfAssumption DEF Keyed
  <2>2. record[KeyOf[t]] \in Record
    BY <1>2, <2>1, NoTaskAssumption DEF TypeOK, NoRecord
  <2>3. [record[KeyOf[t]] EXCEPT !.expires = instant + Ttl] \in Record
    BY <1>1, <2>2 DEF Record
  <2> QED BY <1>2, <2>1, <2>3 DEF Renewed, TypeOK
<1>3. CASE ~(Keyed(t) /\ record[KeyOf[t]].task = t)
  BY <1>3 DEF Renewed, TypeOK
<1> QED BY <1>2, <1>3

(***************************************************************************)
(* Every step keeps the types, and keeps requests without a key away from  *)
(* the steps that use one.                                                 *)
(***************************************************************************)
LEMMA TypeStep == TypeInv /\ [Next]_vars => TypeInv'
<1> SUFFICES ASSUME TypeInv, [Next]_vars
             PROVE  TypeInv'
  OBVIOUS
<1> USE KeyOfAssumption, NoTaskAssumption, NeverAssumption, LimitsAssumption
<1> USE DEF TypeInv, TypeOK, KeyedSteps, Keyed, Steps, Outcomes, Goto
<1>1. ASSUME NEW r \in Requests, Begin(r) PROVE TypeInv'
  BY <1>1 DEF Begin
<1>2. ASSUME NEW r \in Requests, CleanupSelect(r) PROVE TypeInv'
  <2>1. PICK S \in SUBSET Removable(now[r]) :
           /\ victims' = [victims EXCEPT ![r] = {<<k, record[k].task>> : k \in S}]
           /\ Goto(r, IF S = {} THEN AfterCleanup(r) ELSE "delete")
    BY <1>2 DEF CleanupSelect
  <2>2. \A k \in S : k \in Keys /\ record[k].task \in Requests
    BY DEF Removable, Record
  <2>3. victims' \in [Requests -> SUBSET (Keys \X Requests)]
    BY <2>1, <2>2
  <2> QED BY <1>2, <2>1, <2>3 DEF CleanupSelect, AfterCleanup
<1>3. ASSUME NEW r \in Requests, CleanupDelete(r) PROVE TypeInv'
  BY <1>3 DEF CleanupDelete, AfterCleanup
<1>4. ASSUME NEW r \in Requests, FindRecord(r) PROVE TypeInv'
  BY <1>4 DEF FindRecord
<1>5. ASSUME NEW r \in Requests, ResolveTask(r) PROVE TypeInv'
  <2>1. Keyed(r) /\ seen[r].task \in Requests \cup {NoTask}
    BY <1>5 DEF ResolveTask, Record, NoRecord
  <2>2. CASE Reply(r, "deduplicated", seen[r].task)
    BY <1>5, <2>1, <2>2, ReplyTypes DEF ResolveTask, RequestTypes
  <2>3. CASE Proceed(r, "unexpire")
    BY <1>5, <2>1, <2>3, ProceedTypes DEF ResolveTask, RequestTypes
  <2>4. CASE Proceed(r, "forget")
    BY <1>5, <2>1, <2>4, ProceedTypes DEF ResolveTask, RequestTypes
  <2> QED BY <1>5, <2>2, <2>3, <2>4 DEF ResolveTask
<1>6. ASSUME NEW r \in Requests, Unexpire(r) PROVE TypeInv'
  <2>1. KeyOf[r] \in Keys /\ seen[r].task \in Requests \cup {NoTask}
    BY <1>6 DEF Unexpire, Record, NoRecord
  <2>2. CASE Reply(r, "deduplicated", seen[r].task)
             /\ record' = [record EXCEPT ![KeyOf[r]].expires = Never]
    <3>1. [record[KeyOf[r]] EXCEPT !.expires = Never] \in Record \cup {NoRecord}
      <4>1. record[KeyOf[r]] \in Record \cup {NoRecord}
        BY <2>1
      <4>2. \A rec \in Record : [rec EXCEPT !.expires = Never] \in Record
        BY DEF Record
      <4>3. [NoRecord EXCEPT !.expires = Never] = NoRecord
        BY DEF NoRecord
      <4> QED BY <4>1, <4>2, <4>3, Zenon
    <3>2. record' \in [Keys -> Record \cup {NoRecord}]
      BY <2>1, <2>2, <3>1
    <3> QED BY <1>6, <2>1, <2>2, <3>2, ReplyTypes DEF Unexpire, RequestTypes
  <2>3. CASE Reply(r, "conflict", NoTask) /\ UNCHANGED record
    BY <1>6, <2>3, ReplyTypes DEF Unexpire, RequestTypes
  <2> QED BY <1>6, <2>2, <2>3 DEF Unexpire
<1>7. ASSUME NEW r \in Requests, Forget(r) PROVE TypeInv'
  BY <1>7 DEF Forget, Proceed
<1>8. ASSUME NEW r \in Requests, Admit(r) PROVE TypeInv'
  <2>1. CASE Reply(r, "overloaded", NoTask)
    BY <1>8, <2>1, ReplyTypes DEF Admit, RequestTypes
  <2>2. CASE Proceed(r, "create")
    BY <1>8, <2>2, ProceedTypes DEF Admit, RequestTypes
  <2> QED BY <1>8, <2>1, <2>2 DEF Admit
<1>9. ASSUME NEW r \in Requests, Create(r) PROVE TypeInv'
  BY <1>9 DEF Create, Proceed
<1>10. ASSUME NEW r \in Requests, Bind(r) PROVE TypeInv'
  <2>1. now[r] + Ttl \in Times
    BY DEF Times
  <2>2. [task |-> r, expires |-> now[r] + Ttl] \in Record
    BY <2>1 DEF Record
  <2>3. CASE Reply(r, "conflict", NoTask) /\ UNCHANGED record
    BY <1>10, <2>3, ReplyTypes DEF Bind, RequestTypes
  <2>4. CASE /\ record' = [record EXCEPT ![KeyOf[r]] =
                             [task |-> r, expires |-> now[r] + Ttl]]
             /\ Proceed(r, "dispatch")
    BY <1>10, <2>2, <2>4, ProceedTypes DEF Bind, RequestTypes
  <2> QED BY <1>10, <2>3, <2>4 DEF Bind
<1>11. ASSUME NEW r \in Requests, Dispatch(r) PROVE TypeInv'
  BY <1>11 DEF Dispatch, Reply
<1>12. ASSUME NEW r \in Requests, DispatchFails(r) PROVE TypeInv'
  <2>1. status' \in [Requests -> {"none", "live", "terminal"}]
    BY <1>12 DEF DispatchFails
  <2>2. CASE Reply(r, "publish_failed", r)
    BY <1>12, <2>1, <2>2, ReplyTypes DEF DispatchFails, RequestTypes
  <2>3. CASE now' = [now EXCEPT ![r] = clock] /\ Goto(r, "renew") /\ UNCHANGED seen
    BY <1>12, <2>1, <2>3 DEF DispatchFails
  <2> QED BY <1>12, <2>2, <2>3 DEF DispatchFails
<1>13. ASSUME NEW r \in Requests, RenewFailed(r) PROVE TypeInv'
  BY <1>13, RenewedType DEF RenewFailed, Reply
<1>14. ASSUME NEW r \in Requests, Abort(r) PROVE TypeInv'
  BY <1>14 DEF Abort, Reply
<1>15. ASSUME Take PROVE TypeInv'
  <2>1. Head(queue) \in Requests /\ Tail(queue) \in Seq(Requests)
    BY <1>15 DEF Take
  <2>2. stage' \in [Requests -> {"none", "queued", "running", "finished", "gone"}]
    BY <1>15, <2>1 DEF Take
  <2> QED BY <1>15, <2>1, <2>2 DEF Take, requestVars
<1>16. ASSUME NEW t \in Requests, Finish(t) PROVE TypeInv'
  BY <1>16 DEF Finish, requestVars
<1>17. ASSUME NEW t \in Requests, Renew(t) PROVE TypeInv'
  BY <1>17, RenewedType DEF Renew, requestVars
<1>18. ASSUME NEW t \in Requests, LoseWorker(t) PROVE TypeInv'
  BY <1>18 DEF LoseWorker, requestVars
<1>19. ASSUME NEW t \in Requests, Cancel(t) PROVE TypeInv'
  BY <1>19 DEF Cancel, requestVars
<1>20. ASSUME Tick PROVE TypeInv'
  BY <1>20 DEF Tick, requestVars
<1>21. ASSUME UNCHANGED vars PROVE TypeInv'
  BY <1>21 DEF vars, requestVars
<1> QED
  BY <1>1, <1>2, <1>3, <1>4, <1>5, <1>6, <1>7, <1>8, <1>9, <1>10, <1>11, <1>12,
     <1>13, <1>14, <1>15, <1>16, <1>17, <1>18, <1>19, <1>20, <1>21
  DEF Next, Handle, Work

(***************************************************************************)
(* The types hold and no request without a key reaches the steps that use  *)
(* one.                                                                    *)
(***************************************************************************)
THEOREM TypeInvariant == Spec => []TypeInv
<1>1. Init => TypeInv
  BY KeyOfAssumption, LimitsAssumption
  DEF Init, TypeInv, TypeOK, KeyedSteps, NoRecord, Outcomes, Steps
<1> QED BY <1>1, TypeStep, PTL DEF Spec

(***************************************************************************)
(* Every variable keeps its type; in particular no expiry ever lies        *)
(* further than one TTL beyond the clock's last instant.                   *)
(***************************************************************************)
THEOREM TypeCorrect == Spec => []TypeOK
<1>1. TypeInv => TypeOK
  BY DEF TypeInv
<1> QED BY <1>1, TypeInvariant, PTL

----------------------------------------------------------------------------
(***************************************************************************)
(* The invariant behind LiveTaskKeepsKey. LiveTaskKeepsKey alone is not    *)
(* inductive: it says nothing of what the other requests have read and     *)
(* will act upon. The parts below do: a record never leads to a task of    *)
(* another key or to no task; what a request is about to delete belonged   *)
(* to a terminal task when it read it, and terminal is for ever here; and  *)
(* a request reaches the workers only through Create and Bind.             *)
(***************************************************************************)

RecordsLead ==
    \A k \in Keys : record[k] # NoRecord =>
        KeyOf[record[k].task] = k /\ status[record[k].task] # "none"

SeenExists ==
    \A r \in Requests : seen[r] # NoRecord => status[seen[r].task] # "none"

ResolvesFound ==
    \A r \in Requests : rpc[r] = "resolve" => seen[r] # NoRecord

ForgetsTerminal ==
    \A r \in Requests : rpc[r] = "forget" =>
        seen[r].task \in Requests /\ status[seen[r].task] = "terminal"

VictimsTerminal ==
    \A r \in Requests : \A k \in Keys, t \in Requests :
        <<k, t>> \in victims[r] => status[t] = "terminal"

QueueStaged ==
    \A i \in 1 .. Len(queue) : stage[queue[i]] # "none"

\* The steps of a request before it creates its row.
BeforeCreate == {"idle", "cleanup", "delete", "find", "resolve", "unexpire",
                 "forget", "admit", "create"}

InOrder ==
    \A r \in Requests :
        /\ rpc[r] \in BeforeCreate => status[r] = "none"
        /\ rpc[r] = "bind" => status[r] # "none"
        /\ rpc[r] \in BeforeCreate \cup {"bind"} => stage[r] = "none"

KeyInv ==
    /\ LiveTaskKeepsKey
    /\ RecordsLead
    /\ SeenExists
    /\ ResolvesFound
    /\ ForgetsTerminal
    /\ VictimsTerminal
    /\ QueueStaged
    /\ InOrder

(***************************************************************************)
(* No step takes a terminal task back, and only Create leaves "none".      *)
(***************************************************************************)
LEMMA StatusMovesOn ==
    ASSUME TypeInv, KeyInv, [Next]_vars, NEW t \in Requests
    PROVE  /\ status[t] = "terminal" => status'[t] = "terminal"
           /\ status[t] # "none" => status'[t] # "none"
           /\ status'[t] = "live" => \/ status[t] = "live"
                                     \/ rpc[t] = "create"
<1> USE DEF TypeInv, TypeOK
<1>1. ASSUME NEW r \in Requests, Begin(r) \/ Handle(r) \/ Abort(r)
      PROVE  \/ UNCHANGED status
             \/ rpc[r] = "create" /\ status' = [status EXCEPT ![r] = "live"]
             \/ status' = [status EXCEPT ![r] = "terminal"] /\ rpc[r] = "dispatch"
  BY <1>1 DEF Begin, Handle, Abort, CleanupSelect, CleanupDelete, FindRecord,
     ResolveTask, Unexpire, Forget, Admit, Create, Bind, Dispatch, DispatchFails,
     RenewFailed
<1>2. ASSUME NEW u \in Requests, Work(u) \/ LoseWorker(u) \/ Cancel(u)
      PROVE  \/ UNCHANGED status
             \/ status' = [status EXCEPT ![u] = "terminal"]
  BY <1>2 DEF Work, Finish, Renew, LoseWorker, Cancel
<1>3. CASE Take \/ Tick \/ UNCHANGED vars
  BY <1>3 DEF Take, Tick, vars
<1> QED BY <1>1, <1>2, <1>3 DEF Next, KeyInv, InOrder, BeforeCreate

\* The parts of KeyInv that do not speak of the records.
KeyInvElsewhere ==
    /\ SeenExists
    /\ ResolvesFound
    /\ ForgetsTerminal
    /\ VictimsTerminal
    /\ QueueStaged
    /\ InOrder

(***************************************************************************)
(* A request that ends without touching any task binds no key anew and     *)
(* keeps everything but, perhaps, what the invariant says of the records.  *)
(***************************************************************************)
LEMMA ReplyKeeps ==
    ASSUME TypeInv, KeyInv, NEW r \in Requests, NEW outcome, NEW task,
           rpc[r] # "dispatch",
           Reply(r, outcome, task), UNCHANGED <<status, queue, stage, victims>>
    PROVE  /\ KeyInvElsewhere'
           /\ \A q \in Requests : Bound(q)' => Bound(q)
<1>1. /\ rpc' = [rpc EXCEPT ![r] = "done"]
      /\ seen' = [seen EXCEPT ![r] = NoRecord]
  BY DEF Reply
<1>2. SeenExists' /\ ResolvesFound' /\ ForgetsTerminal'
  BY <1>1 DEF TypeInv, TypeOK, KeyInv, SeenExists, ResolvesFound, ForgetsTerminal
<1>3. VictimsTerminal' /\ QueueStaged'
  BY DEF KeyInv, VictimsTerminal, QueueStaged
<1>4. InOrder' /\ \A q \in Requests : Bound(q)' => Bound(q)
  BY <1>1 DEF TypeInv, TypeOK, KeyInv, InOrder, BeforeCreate, Bound, Keyed
<1> QED BY <1>2, <1>3, <1>4 DEF KeyInvElsewhere

(***************************************************************************)
(* Every step keeps KeyInv.                                                *)
(***************************************************************************)
LEMMA KeyStep == TypeInv /\ KeyInv /\ [Next]_vars /\ TypeInv' => KeyInv'
<1> SUFFICES ASSUME TypeInv, KeyInv, [Next]_vars, TypeInv'
             PROVE  KeyInv'
  OBVIOUS
<1> USE KeyOfAssumption, NoTaskAssumption
<1> USE DEF TypeInv, TypeOK, KeyedSteps, Keyed, KeyInv, LiveTaskKeepsKey, Bound,
        RecordsLead, SeenExists, ResolvesFound, ForgetsTerminal, VictimsTerminal,
        QueueStaged, InOrder, BeforeCreate, Record, NoRecord, Goto
<1>1. ASSUME NEW r \in Requests, Begin(r) PROVE KeyInv'
  BY <1>1 DEF Begin
<1>2. ASSUME NEW r \in Requests, CleanupSelect(r) PROVE KeyInv'
  <2>1. PICK S \in SUBSET Removable(now[r]) :
           victims' = [victims EXCEPT ![r] = {<<k, record[k].task>> : k \in S}]
    BY <1>2 DEF CleanupSelect
  <2>2. \A k \in S : status[record[k].task] = "terminal"
    BY DEF Removable
  <2>3. VictimsTerminal'
    <3>1. ASSUME NEW q \in Requests, NEW k \in Keys, NEW t \in Requests,
                 <<k, t>> \in victims'[q]
          PROVE  status[t] = "terminal"
      <4>1. CASE q = r
        <5>1. PICK j \in S : <<k, t>> = <<j, record[j].task>>
          BY <2>1, <3>1, <4>1
        <5> QED BY <2>2, <5>1
      <4>2. CASE q # r
        BY <2>1, <3>1, <4>2
      <4> QED BY <4>1, <4>2
    <3> QED BY <1>2, <3>1 DEF CleanupSelect
  <2>4. /\ RecordsLead' /\ SeenExists' /\ QueueStaged'
    BY <1>2 DEF CleanupSelect
  <2>5. rpc'[r] \in {"find", "admit", "delete"} /\ \A q \in Requests \ {r} : rpc'[q] = rpc[q]
    BY <1>2 DEF CleanupSelect, AfterCleanup
  <2>6. LiveTaskKeepsKey' /\ ResolvesFound' /\ ForgetsTerminal' /\ InOrder'
    BY <1>2, <2>5 DEF CleanupSelect
  <2> QED BY <2>3, <2>4, <2>6
<1>3. ASSUME NEW r \in Requests, CleanupDelete(r) PROVE KeyInv'
  BY <1>3 DEF CleanupDelete, AfterCleanup
<1>4. ASSUME NEW r \in Requests, FindRecord(r) PROVE KeyInv'
  BY <1>4 DEF FindRecord
<1>5. ASSUME NEW r \in Requests, ResolveTask(r) PROVE KeyInv'
  <2>1. seen[r] \in Record /\ status[seen[r].task] \in {"live", "terminal"}
    BY <1>5 DEF ResolveTask
  <2>2. CASE Reply(r, "deduplicated", seen[r].task)
    BY <1>5, <2>2 DEF ResolveTask, Reply
  <2>3. CASE Proceed(r, "unexpire")
    BY <1>5, <2>3 DEF ResolveTask, Proceed
  <2>4. CASE status[seen[r].task] # "live" /\ Proceed(r, "forget")
    BY <1>5, <2>1, <2>4 DEF ResolveTask, Proceed
  <2> QED BY <1>5, <2>2, <2>3, <2>4 DEF ResolveTask
<1>6. ASSUME NEW r \in Requests, Unexpire(r) PROVE KeyInv'
  <2>1. UNCHANGED <<status, queue, stage, victims>> /\ rpc[r] = "unexpire"
    BY <1>6 DEF Unexpire
  <2>2. \A k \in Keys : /\ record'[k].task = record[k].task
                        /\ record'[k] # NoRecord => record[k] # NoRecord
    <3>1. CASE UNCHANGED record
      BY <3>1
    <3>2. CASE /\ record[KeyOf[r]].task = seen[r].task
               /\ record' = [record EXCEPT ![KeyOf[r]].expires = Never]
      <4>1. [NoRecord EXCEPT !.expires = Never] = NoRecord
        BY DEF NoRecord
      <4>2. /\ record'[KeyOf[r]] = [record[KeyOf[r]] EXCEPT !.expires = Never]
            /\ \A k \in Keys \ {KeyOf[r]} : record'[k] = record[k]
        BY <3>2
      <4>3. \A rec \in Record \cup {NoRecord} :
               [rec EXCEPT !.expires = Never].task = rec.task
        OBVIOUS
      <4>4. KeyOf[r] \in Keys /\ record[KeyOf[r]] \in Record \cup {NoRecord}
        BY <1>6 DEF Unexpire
      <4>5. ASSUME NEW k \in Keys, k # KeyOf[r]
            PROVE  record'[k] = record[k]
        BY <4>2, <4>5
      <4>6. /\ record'[KeyOf[r]].task = record[KeyOf[r]].task
            /\ record'[KeyOf[r]] # NoRecord => record[KeyOf[r]] # NoRecord
        BY <4>1, <4>2, <4>3, <4>4, Zenon
      <4> QED BY <4>5, <4>6, Zenon
    <3> QED BY <1>6, <3>1, <3>2 DEF Unexpire
  <2>3. KeyInvElsewhere' /\ \A q \in Requests : Bound(q)' => Bound(q)
    BY <1>6, <2>1, ReplyKeeps DEF Unexpire
  <2>4. \A q \in Requests : Bound(q) => KeyOf[q] \in Keys
    OBVIOUS
  <2>5. LiveTaskKeepsKey'
    <3> HIDE DEF Bound
    <3> SUFFICES ASSUME NEW q \in Requests, Bound(q)', status'[q] = "live"
                 PROVE  record'[KeyOf[q]].task = q
      BY Zenon DEF LiveTaskKeepsKey
    <3>1. Bound(q) /\ KeyOf[q] \in Keys /\ status[q] = "live"
      BY <2>1, <2>3, <2>4
    <3>2. record[KeyOf[q]].task = q
      BY <3>1 DEF LiveTaskKeepsKey
    <3> QED BY <2>2, <3>1, <3>2, Zenon
  <2>6. RecordsLead'
    <3>1. ASSUME NEW k \in Keys, record'[k] # NoRecord
          PROVE  KeyOf[record'[k].task] = k /\ status'[record'[k].task] # "none"
      <4> HIDE DEF NoRecord, Record, TypeOK
      <4>1. KeyOf[record[k].task] = k /\ status[record[k].task] # "none"
        BY <2>2, <3>1
      <4> QED BY <2>1, <2>2, <4>1
    <3> QED BY <3>1
  <2> QED BY <2>3, <2>5, <2>6 DEF KeyInvElsewhere
<1>7. ASSUME NEW r \in Requests, Forget(r) PROVE KeyInv'
  <2>1. seen[r].task \in Requests /\ status[seen[r].task] = "terminal"
    BY <1>7 DEF Forget
  <2>2. \A k \in Keys : \/ record'[k] = record[k]
                        \/ record'[k] = NoRecord /\ status[record[k].task] = "terminal"
    BY <1>7, <2>1 DEF Forget
  <2>3. LiveTaskKeepsKey' /\ RecordsLead'
    BY <1>7, <2>2 DEF Forget, Proceed
  <2> QED BY <1>7, <2>3 DEF Forget, Proceed
<1>8. ASSUME NEW r \in Requests, Admit(r) PROVE KeyInv'
  <2>1. CASE Reply(r, "overloaded", NoTask)
    <3>1. UNCHANGED <<status, record, queue, stage, victims>> /\ rpc[r] # "dispatch"
      BY <1>8 DEF Admit
    <3>2. KeyInvElsewhere' /\ \A q \in Requests : Bound(q)' => Bound(q)
      BY <2>1, <3>1, ReplyKeeps
    <3> QED BY <3>1, <3>2 DEF KeyInvElsewhere
  <2>2. CASE Proceed(r, "create")
    BY <1>8, <2>2 DEF Admit, Proceed
  <2> QED BY <1>8, <2>1, <2>2 DEF Admit
<1>9. ASSUME NEW r \in Requests, Create(r) PROVE KeyInv'
  BY <1>9 DEF Create, Proceed
<1>10. ASSUME NEW r \in Requests, Bind(r) PROVE KeyInv'
  <2>1. CASE Reply(r, "conflict", NoTask) /\ UNCHANGED record
    <3>1. UNCHANGED <<status, record, queue, stage, victims>> /\ rpc[r] # "dispatch"
      BY <1>10, <2>1 DEF Bind
    <3>2. KeyInvElsewhere' /\ \A q \in Requests : Bound(q)' => Bound(q)
      BY <2>1, <3>1, ReplyKeeps
    <3> QED BY <3>1, <3>2 DEF KeyInvElsewhere
  <2>2. CASE /\ record[KeyOf[r]] = NoRecord
             /\ record' = [record EXCEPT ![KeyOf[r]] =
                             [task |-> r, expires |-> now[r] + Ttl]]
             /\ Proceed(r, "dispatch")
    <3>1. LiveTaskKeepsKey'
      BY <1>10, <2>2 DEF Bind, Proceed
    <3>2. status[r] # "none"
      BY <1>10 DEF Bind
    <3> QED BY <1>10, <2>2, <3>1, <3>2 DEF Bind, Proceed
  <2> QED BY <1>10, <2>1, <2>2 DEF Bind
<1>11. ASSUME NEW r \in Requests, Dispatch(r) PROVE KeyInv'
  BY <1>11 DEF Dispatch, Reply
<1>12. ASSUME NEW r \in Requests, DispatchFails(r) PROVE KeyInv'
  <2>1. status' = [status EXCEPT ![r] = "terminal"] /\ UNCHANGED <<record, queue, stage, victims>>
    BY <1>12 DEF DispatchFails
  <2>2. CASE Goto(r, "renew") /\ UNCHANGED seen
    BY <1>12, <2>1, <2>2 DEF DispatchFails
  <2>3. CASE Reply(r, "publish_failed", r)
    BY <1>12, <2>1, <2>3 DEF DispatchFails, Reply
  <2> QED BY <1>12, <2>2, <2>3 DEF DispatchFails
<1>13. ASSUME NEW r \in Requests, RenewFailed(r) PROVE KeyInv'
  BY <1>13 DEF RenewFailed, Reply, Renewed
<1>14. ASSUME NEW r \in Requests, Abort(r) PROVE KeyInv'
  BY <1>14 DEF Abort, Reply
<1>15. ASSUME Take PROVE KeyInv'
  <2>1. Head(queue) = queue[1] /\ 1 \in 1 .. Len(queue) /\ queue[1] \in Requests
    BY <1>15 DEF Take
  <2>2. /\ stage'[queue[1]] # "none" /\ stage[queue[1]] # "none"
        /\ \A q \in Requests \ {queue[1]} : stage'[q] = stage[q]
    BY <1>15, <2>1 DEF Take
  <2>3. QueueStaged'
    <3>1. queue' = Tail(queue) /\ queue # << >> /\ queue \in Seq(Requests)
      BY <1>15 DEF Take
    <3>2. Len(Tail(queue)) = Len(queue) - 1
      BY <3>1
    <3>3. \A i \in 1 .. Len(Tail(queue)) :
             i + 1 \in 1 .. Len(queue) /\ Tail(queue)[i] = queue[i + 1]
      BY <3>1, <3>2
    <3>4. \A i \in 1 .. Len(queue) : queue[i] \in Requests /\ stage[queue[i]] # "none"
      OBVIOUS
    <3>5. \A q \in Requests : stage[q] # "none" => stage'[q] # "none"
      BY <2>2
    <3> QED BY <3>1, <3>3, <3>4, <3>5
  <2>4. UNCHANGED <<status, record, seen, rpc, victims>>
    BY <1>15 DEF Take, requestVars
  <2>5. LiveTaskKeepsKey' /\ InOrder'
    BY <2>1, <2>2, <2>4
  <2> QED BY <2>3, <2>4, <2>5
<1>16. ASSUME NEW t \in Requests, Finish(t) PROVE KeyInv'
  BY <1>16 DEF Finish, requestVars
<1>17. ASSUME NEW t \in Requests, Renew(t) PROVE KeyInv'
  BY <1>17 DEF Renew, Renewed, requestVars
<1>18. ASSUME NEW t \in Requests, LoseWorker(t) PROVE KeyInv'
  BY <1>18 DEF LoseWorker, requestVars
<1>19. ASSUME NEW t \in Requests, Cancel(t) PROVE KeyInv'
  BY <1>19 DEF Cancel, requestVars
<1>20. ASSUME Tick PROVE KeyInv'
  BY <1>20 DEF Tick, requestVars
<1>21. ASSUME UNCHANGED vars PROVE KeyInv'
  BY <1>21 DEF vars, requestVars
<1> QED
  BY <1>1, <1>2, <1>3, <1>4, <1>5, <1>6, <1>7, <1>8, <1>9, <1>10, <1>11, <1>12,
     <1>13, <1>14, <1>15, <1>16, <1>17, <1>18, <1>19, <1>20, <1>21
  DEF Next, Handle, Work

(***************************************************************************)
(* KeyInv holds in every reachable state: the inductive part of the        *)
(* argument about idempotency keys.                                        *)
(***************************************************************************)
THEOREM KeyInvariant == Spec => []KeyInv
<1>1. Init => KeyInv
  <2> SUFFICES ASSUME Init PROVE KeyInv
    OBVIOUS
  <2>1. Len(queue) = 0
    BY DEF Init
  <2> QED
    BY <2>1, NoTaskAssumption
    DEF Init, KeyInv, LiveTaskKeepsKey, Bound, RecordsLead, SeenExists,
        ResolvesFound, ForgetsTerminal, VictimsTerminal, QueueStaged, InOrder,
        BeforeCreate, NoRecord
<1>2. Spec => []TypeInv
  BY TypeInvariant
<1> QED BY <1>1, <1>2, KeyStep, PTL DEF Spec

(***************************************************************************)
(* As long as a task bound to a key is live, the record of the key leads   *)
(* to it: no cleanup, resolution or late deletion takes the key away.      *)
(***************************************************************************)
THEOREM LiveTasksKeepTheirKeys == Spec => []LiveTaskKeepsKey
<1>1. KeyInv => LiveTaskKeepsKey
  BY DEF KeyInv
<1> QED BY <1>1, KeyInvariant, PTL

(***************************************************************************)
(* Two tasks bound to one key are never both live: the key's record would  *)
(* have to lead to both.                                                   *)
(***************************************************************************)
THEOREM OneLiveTask == Spec => []OneLiveTaskPerKey
<1>1. LiveTaskKeepsKey => OneLiveTaskPerKey
  BY DEF LiveTaskKeepsKey, OneLiveTaskPerKey
<1> QED BY <1>1, LiveTasksKeepTheirKeys, PTL
----------------------------------------------------------------------------
(***************************************************************************)
(* The depth of the queue: concurrent submissions overshoot its limit by   *)
(* no more than the number of request threads.                             *)
(***************************************************************************)

\* The server runs no more requests than it has threads.
ThreadsBounded == IsFiniteSet(InProgress) /\ Cardinality(InProgress) <= MaxInProgress

DepthInv == ThreadsBounded /\ DepthBounded

----------------------------------------------------------------------------
(* What a step may do to the queue and to the requests that are admitted.  *)

Calm ==
    InProgress' \subseteq InProgress /\ Admitted' \subseteq Admitted /\ Len(queue') <= Len(queue)

Starts(r) ==
    /\ Cardinality(InProgress) < MaxInProgress
    /\ InProgress' \subseteq InProgress \cup {r}
    /\ Admitted' \subseteq Admitted /\ UNCHANGED queue

Admits == InProgress' \subseteq InProgress /\ Len(queue) <= MaxDepth /\ UNCHANGED queue

Publishes(r) ==
    /\ r \in Admitted /\ InProgress' \subseteq InProgress
    /\ Admitted' \subseteq Admitted \ {r} /\ Len(queue') = Len(queue) + 1

\* A request that goes from one step to another, past the depth check only
\* if it has passed it before.
LEMMA MovesOn ==
    ASSUME TypeInv, NEW r \in Requests, NEW step, rpc' = [rpc EXCEPT ![r] = step],
           rpc[r] \notin {"idle", "done"},
           step \in {"create", "bind", "dispatch"} => rpc[r] \in {"create", "bind"}
    PROVE  InProgress' \subseteq InProgress /\ Admitted' \subseteq Admitted
BY DEF InProgress, Admitted, TypeInv, TypeOK

LEMMA HandlerSteps ==
    ASSUME TypeInv, NEW r \in Requests, Handle(r) \/ Abort(r)
    PROVE  Calm \/ Admits \/ Publishes(r)
<1>1. Len(queue) \in Nat
  BY DEF TypeInv, TypeOK
<1>2. ASSUME NEW step, rpc' = [rpc EXCEPT ![r] = step], rpc[r] \notin {"idle", "done"},
             step \in {"create", "bind", "dispatch"} => rpc[r] \in {"create", "bind"},
             UNCHANGED queue
      PROVE  Calm
  <2>1. InProgress' \subseteq InProgress /\ Admitted' \subseteq Admitted
    BY <1>2, MovesOn
  <2>2. Len(queue') <= Len(queue)
    BY <1>1, <1>2
  <2> QED BY <2>1, <2>2 DEF Calm
<1>3. CASE CleanupSelect(r)
  <2>1. PICK S \in SUBSET Removable(now[r]) :
           Goto(r, IF S = {} THEN AfterCleanup(r) ELSE "delete")
    BY <1>3 DEF CleanupSelect
  <2> DEFINE step == IF S = {} THEN AfterCleanup(r) ELSE "delete"
  <2>2. step \in {"find", "admit", "delete"}
    BY DEF AfterCleanup
  <2>3. rpc' = [rpc EXCEPT ![r] = step] /\ rpc[r] = "cleanup" /\ UNCHANGED queue
    BY <1>3, <2>1 DEF Goto, CleanupSelect
  <2> HIDE DEF step
  <2> QED BY <1>2, <2>2, <2>3
<1>4. CASE CleanupDelete(r)
  BY <1>2, <1>4 DEF CleanupDelete, Goto, AfterCleanup
<1>5. CASE FindRecord(r)
  BY <1>2, <1>5 DEF FindRecord, Goto
<1>6. CASE ResolveTask(r)
  BY <1>2, <1>6 DEF ResolveTask, Reply, Proceed, Goto
<1>7. CASE Unexpire(r)
  BY <1>2, <1>7 DEF Unexpire, Reply
<1>8. CASE Forget(r)
  BY <1>2, <1>8 DEF Forget, Proceed, Goto
<1>9. CASE Admit(r)
  <2>1. CASE Reply(r, "overloaded", NoTask)
    BY <1>2, <1>9, <2>1 DEF Admit, Reply
  <2>2. CASE Len(queue) <= MaxDepth /\ Proceed(r, "create")
    BY <1>9, <2>2 DEF Admit, Admits, Proceed, Goto, InProgress, TypeInv, TypeOK
  <2> QED BY <1>9, <2>1, <2>2 DEF Admit
<1>10. CASE Create(r)
  BY <1>2, <1>10 DEF Create, Proceed, Goto
<1>11. CASE Bind(r)
  BY <1>2, <1>11 DEF Bind, Reply, Proceed, Goto
<1>12. CASE Dispatch(r)
  <2>1. Len(queue') = Len(queue) + 1
    BY <1>12 DEF Dispatch, TypeInv, TypeOK
  <2>2. rpc[r] = "dispatch" /\ rpc' = [rpc EXCEPT ![r] = "done"]
    BY <1>12 DEF Dispatch, Reply
  <2> QED BY <2>1, <2>2 DEF Publishes, Admitted, InProgress, TypeInv, TypeOK
<1>13. CASE DispatchFails(r)
  BY <1>2, <1>13 DEF DispatchFails, Reply, Goto
<1>14. CASE RenewFailed(r)
  BY <1>2, <1>14 DEF RenewFailed, Reply
<1>15. CASE Abort(r)
  BY <1>2, <1>15 DEF Abort, Reply, InProgress
<1> QED
  BY <1>3, <1>4, <1>5, <1>6, <1>7, <1>8, <1>9, <1>10, <1>11, <1>12, <1>13, <1>14, <1>15
  DEF Handle

LEMMA StepKinds ==
    ASSUME TypeInv, [Next]_vars
    PROVE  Calm \/ Admits \/ \E r \in Requests : Starts(r) \/ Publishes(r)
<1>1. queue \in Seq(Requests)
  BY DEF TypeInv, TypeOK
<1>2. CASE UNCHANGED rpc /\ Len(queue') <= Len(queue)
  BY <1>2 DEF Calm, InProgress, Admitted
<1>3. CASE \E r \in Requests : Begin(r)
  <2>1. PICK r \in Requests : Begin(r)
    BY <1>3
  <2>2. Starts(r)
    BY <2>1 DEF Begin, Goto, Starts, InProgress, Admitted, TypeInv, TypeOK
  <2> QED BY <2>2
<1>4. CASE \E r \in Requests : Handle(r) \/ Abort(r)
  BY <1>4, HandlerSteps
<1>5. CASE Take
  <2>1. Len(queue') <= Len(queue)
    BY <1>1, <1>5 DEF Take
  <2> QED BY <1>2, <1>5, <2>1 DEF Take, requestVars
<1>6. CASE \/ \E t \in Requests : Work(t) \/ LoseWorker(t) \/ Cancel(t)
           \/ Tick
           \/ UNCHANGED vars
  <2>1. UNCHANGED <<rpc, queue>>
    BY <1>6 DEF Work, Finish, Renew, LoseWorker, Cancel, Tick, requestVars, vars
  <2> QED BY <1>1, <1>2, <2>1
<1> QED BY <1>3, <1>4, <1>5, <1>6 DEF Next

----------------------------------------------------------------------------
(***************************************************************************)
(* A request that is admitted holds a thread.                              *)
(***************************************************************************)
LEMMA AdmittedInProgress == Admitted \subseteq InProgress
BY DEF Admitted, InProgress

LEMMA DepthStep == TypeInv /\ DepthInv /\ [Next]_vars => DepthInv'
<1> SUFFICES ASSUME TypeInv, DepthInv, [Next]_vars PROVE DepthInv'
  OBVIOUS
<1> DEFINE n == Cardinality(InProgress)
           n1 == Cardinality(InProgress')
           a == Cardinality(Admitted)
           a1 == Cardinality(Admitted')
           l == Len(queue)
           l1 == Len(queue')
<1>1. IsFiniteSet(InProgress) /\ n <= MaxInProgress /\ l + a <= MaxDepth + MaxInProgress
  BY DEF DepthInv, ThreadsBounded, DepthBounded
<1>2. IsFiniteSet(Admitted) /\ n \in Nat /\ a \in Nat /\ l \in Nat /\ l1 \in Nat
  <2>1. IsFiniteSet(Admitted)
    BY <1>1, AdmittedInProgress, FS_Subset
  <2>2. TypeOK'
    BY TypeStep DEF TypeInv
  <2> QED BY <1>1, <2>1, <2>2, FS_CardinalityType DEF TypeInv, TypeOK
<1>3. Admitted' \subseteq InProgress'
  BY DEF Admitted, InProgress
<1>4. SUFFICES IsFiniteSet(InProgress') /\ n1 <= MaxInProgress /\ l1 + a1 <= MaxDepth + MaxInProgress
  BY DEF DepthInv, ThreadsBounded, DepthBounded, InProgress, Admitted
<1>5. ASSUME InProgress' \subseteq InProgress
      PROVE  IsFiniteSet(InProgress') /\ n1 \in Nat /\ n1 <= n
  BY <1>1, <1>5, FS_Subset, FS_CardinalityType
<1>6. ASSUME Admitted' \subseteq Admitted
      PROVE  a1 \in Nat /\ a1 <= a
  BY <1>2, <1>6, FS_Subset, FS_CardinalityType
<1>7. CASE Calm
  <2>1. IsFiniteSet(InProgress') /\ n1 \in Nat /\ n1 <= n /\ a1 \in Nat /\ a1 <= a /\ l1 <= l
    BY <1>5, <1>6, <1>7 DEF Calm
  <2> HIDE DEF n, n1, a, a1, l, l1
  <2> QED BY <1>1, <1>2, <2>1, LimitsAssumption
<1>8. CASE Admits
  <2>1. IsFiniteSet(InProgress') /\ n1 \in Nat /\ n1 <= n /\ l1 = l /\ l <= MaxDepth
    BY <1>5, <1>8 DEF Admits
  <2>2. a1 \in Nat /\ a1 <= n1
    BY <1>3, <2>1, FS_Subset, FS_CardinalityType
  <2> HIDE DEF n, n1, a, a1, l, l1
  <2> QED BY <1>1, <1>2, <2>1, <2>2, LimitsAssumption
<1>9. ASSUME NEW r \in Requests, Starts(r)
      PROVE  IsFiniteSet(InProgress') /\ n1 <= MaxInProgress /\ l1 + a1 <= MaxDepth + MaxInProgress
  <2> DEFINE more == InProgress \cup {r}
  <2>1. IsFiniteSet(more) /\ Cardinality(more) <= n + 1 /\ Cardinality(more) \in Nat
    <3>1. IsFiniteSet(more) /\ Cardinality(more) = IF r \in InProgress THEN n ELSE n + 1
      BY <1>1, FS_AddElement
    <3> HIDE DEF n, more
    <3> QED BY <1>2, <3>1
  <2>2. InProgress' \subseteq more
    BY <1>9 DEF Starts
  <2> HIDE DEF more
  <2>3. IsFiniteSet(InProgress') /\ n1 \in Nat /\ n1 <= Cardinality(more)
    BY <2>1, <2>2, FS_Subset, FS_CardinalityType
  <2>4. n < MaxInProgress /\ l1 = l /\ a1 \in Nat /\ a1 <= a
    BY <1>6, <1>9 DEF Starts
  <2> HIDE DEF n, n1, a, a1, l, l1
  <2> QED BY <1>1, <1>2, <2>1, <2>3, <2>4, LimitsAssumption
<1>10. ASSUME NEW r \in Requests, Publishes(r)
       PROVE  IsFiniteSet(InProgress') /\ n1 <= MaxInProgress /\ l1 + a1 <= MaxDepth + MaxInProgress
  <2> DEFINE fewer == Admitted \ {r}
  <2>1. r \in Admitted /\ Admitted' \subseteq fewer /\ l1 = l + 1
    BY <1>10 DEF Publishes
  <2>2. IsFiniteSet(fewer) /\ Cardinality(fewer) = a - 1 /\ Cardinality(fewer) \in Nat
    BY <1>2, <2>1, FS_RemoveElement, FS_CardinalityType
  <2> HIDE DEF fewer
  <2>3. a1 \in Nat /\ a1 <= Cardinality(fewer)
    BY <2>1, <2>2, FS_Subset, FS_CardinalityType
  <2>4. IsFiniteSet(InProgress') /\ n1 \in Nat /\ n1 <= n
    BY <1>5, <1>10 DEF Publishes
  <2> HIDE DEF n, n1, a, a1, l, l1
  <2> QED BY <1>1, <1>2, <2>1, <2>2, <2>3, <2>4, LimitsAssumption
<1> QED BY <1>7, <1>8, <1>9, <1>10, StepKinds

(***************************************************************************)
(* The depth check and the publication are separate steps, so requests     *)
(* overshoot QUEUE_MAX_DEPTH, but by no more than the number of threads    *)
(* that run request handlers (BackpressureService, TaskSubmitService).     *)
(***************************************************************************)
THEOREM DepthStaysBounded == Spec => []DepthBounded
<1>1. Init => DepthInv
  <2> SUFFICES ASSUME Init PROVE DepthInv
    OBVIOUS
  <2>1. InProgress = {} /\ Admitted = {} /\ Len(queue) = 0
    BY DEF Init, InProgress, Admitted
  <2> QED
    BY <2>1, FS_EmptySet, LimitsAssumption DEF DepthInv, ThreadsBounded, DepthBounded
<1>2. DepthInv => DepthBounded
  BY DEF DepthInv
<1> QED BY <1>1, <1>2, TypeInvariant, DepthStep, PTL DEF Spec
----------------------------------------------------------------------------
(***************************************************************************)
(* What a caller is told of exists and will be worked on: the safety of    *)
(* AnsweredTaskEnds, which fairness turns into an end.                     *)
(***************************************************************************)

\* A task that its creator is about to publish, that waits in the queue or is
\* worked on; or it is over, or a fault took its creator or its worker.
InHand(t) ==
    \/ rpc[t] = "dispatch"
    \/ stage[t] = "queued" /\ \E i \in 1 .. Len(queue) : queue[i] = t
    \/ stage[t] = "running"
    \/ status[t] = "terminal" \/ answer[t].outcome = "aborted" \/ stage[t] = "gone"

(***************************************************************************)
(* A task a caller was answered with, new or of an earlier submission, is  *)
(* in somebody's hands or over, unless a fault took it (submit and         *)
(* resolve_existing_task, which answers with the task of another request   *)
(* that may still be running).                                             *)
(***************************************************************************)
AnsweredTaskInHand ==
    \A r \in Requests : answer[r].task # NoTask => InHand(answer[r].task)

\* So are the tasks records lead to and those requests have read there.
RecordedTasksInHand ==
    /\ \A k \in Keys : record[k].task # NoTask => InHand(record[k].task)
    /\ \A r \in Requests : seen[r].task # NoTask => InHand(seen[r].task)

\* A request that restarts the TTL has written its failure, and one that was
\* aborted is over.
Written ==
    \A r \in Requests :
        /\ rpc[r] = "renew" => status[r] = "terminal"
        /\ answer[r].outcome = "aborted" => rpc[r] = "done"

HandInv == AnsweredTaskInHand /\ RecordedTasksInHand /\ Written

\* A request moves one step on or ends, and others do not move.
LEMMA RequestMoves ==
    ASSUME TypeInv, [Next]_vars, NEW t \in Requests
    PROVE  /\ rpc[t] = "done" => rpc'[t] = "done" /\ answer'[t] = answer[t]
           /\ answer'[t] # answer[t] => rpc'[t] = "done"
           /\ rpc[t] = "dispatch" /\ rpc'[t] # "dispatch" =>
                Dispatch(t) \/ DispatchFails(t) \/ Abort(t)
           /\ rpc'[t] = "renew" => rpc[t] = "renew" \/ DispatchFails(t)
<1> USE DEF TypeInv, TypeOK, Reply, Proceed, Goto, InProgress
<1>1. CASE UNCHANGED <<rpc, answer>>
  BY <1>1
<1>2. ASSUME NEW r \in Requests, Begin(r) \/ Abort(r) PROVE rpc[r] # "done" /\ \A u \in Requests \ {r} :
                 rpc'[u] = rpc[u] /\ answer'[u] = answer[u]
  BY <1>2 DEF Begin, Abort
<1>3. ASSUME NEW r \in Requests, Handle(r) PROVE rpc[r] # "done" /\ \A u \in Requests \ {r} :
                 rpc'[u] = rpc[u] /\ answer'[u] = answer[u]
  BY <1>3 DEF Handle, CleanupSelect, CleanupDelete, FindRecord, ResolveTask, Unexpire, Forget,
              Admit, Create, Bind, Dispatch, DispatchFails, RenewFailed
<1>4. ASSUME Begin(t) \/ Abort(t)
      PROVE  /\ answer'[t] # answer[t] => rpc'[t] = "done"
             /\ rpc[t] = "dispatch" /\ rpc'[t] # "dispatch" => Abort(t)
             /\ rpc'[t] # "renew"
  BY <1>4 DEF Begin, Abort
<1>5. ASSUME Handle(t)
      PROVE  /\ answer'[t] # answer[t] => rpc'[t] = "done"
             /\ rpc[t] = "dispatch" => Dispatch(t) \/ DispatchFails(t)
             /\ rpc'[t] = "renew" => DispatchFails(t)
  <2>1. CASE CleanupSelect(t) \/ CleanupDelete(t) \/ FindRecord(t)
    BY <2>1 DEF CleanupSelect, CleanupDelete, FindRecord, AfterCleanup
  <2>2. CASE ResolveTask(t) \/ Unexpire(t) \/ Forget(t) \/ Admit(t)
    BY <2>2 DEF ResolveTask, Unexpire, Forget, Admit
  <2>3. CASE Create(t) \/ Bind(t) \/ RenewFailed(t)
    BY <2>3 DEF Create, Bind, RenewFailed
  <2>4. CASE Dispatch(t) \/ DispatchFails(t)
    BY <2>4 DEF Dispatch, DispatchFails
  <2> QED BY <1>5, <2>1, <2>2, <2>3, <2>4 DEF Handle
<1>6. CASE Take \/ Tick \/ UNCHANGED vars \/ \E u \in Requests : Work(u) \/ LoseWorker(u) \/ Cancel(u)
  BY <1>1, <1>6 DEF Take, Tick, vars, requestVars, Work, Finish, Renew, LoseWorker, Cancel
<1>7. ASSUME NEW r \in Requests, Begin(r) \/ Handle(r) \/ Abort(r)
      PROVE  /\ rpc[t] = "done" => rpc'[t] = "done" /\ answer'[t] = answer[t]
             /\ answer'[t] # answer[t] => rpc'[t] = "done"
             /\ rpc[t] = "dispatch" /\ rpc'[t] # "dispatch" =>
                  Dispatch(t) \/ DispatchFails(t) \/ Abort(t)
             /\ rpc'[t] = "renew" => rpc[t] = "renew" \/ DispatchFails(t)
  <2>1. CASE r = t
    BY <1>2, <1>3, <1>4, <1>5, <1>7, <2>1
  <2>2. CASE r # t
    BY <1>2, <1>3, <1>7, <2>2
  <2> QED BY <2>1, <2>2
<1> QED BY <1>6, <1>7 DEF Next

\* Who takes a task from the queue, and who lets go of it.
LEMMA StageMoves ==
    ASSUME TypeInv, [Next]_vars, NEW t \in Requests
    PROVE  /\ stage[t] = "queued" /\ (\E i \in 1 .. Len(queue) : queue[i] = t) =>
                 \/ stage'[t] \in {"running", "gone"}
                 \/ stage'[t] = "queued" /\ \E i \in 1 .. Len(queue') : queue'[i] = t
           /\ stage[t] \in {"running", "gone"} =>
                 \/ stage'[t] \in {"running", "gone"}
                 \/ status'[t] = "terminal"
                 \/ stage'[t] = "queued" /\ \E i \in 1 .. Len(queue') : queue'[i] = t
<1> USE DEF TypeInv, TypeOK
<1>1. CASE UNCHANGED <<stage, queue>>
  BY <1>1
<1>2. ASSUME NEW r \in Requests, Dispatch(r)
      PROVE  /\ \A i \in 1 .. Len(queue) : i \in 1 .. Len(queue') /\ queue'[i] = queue[i]
             /\ Len(queue') \in 1 .. Len(queue') /\ queue'[Len(queue')] = r
             /\ stage' = [stage EXCEPT ![r] = "queued"]
  BY <1>2 DEF Dispatch
<1>3. ASSUME NEW r \in Requests, Dispatch(r)
      PROVE  /\ stage'[t] = stage[t] \/ (stage'[t] = "queued" /\ t = r)
             /\ (\E i \in 1 .. Len(queue) : queue[i] = t) \/ t = r =>
                    \E i \in 1 .. Len(queue') : queue'[i] = t
  <2>1. stage'[t] = stage[t] \/ (stage'[t] = "queued" /\ t = r)
    BY <1>2, <1>3
  <2>2. ASSUME NEW i \in 1 .. Len(queue), queue[i] = t PROVE \E j \in 1 .. Len(queue') : queue'[j] = t
    BY <1>2, <1>3, <2>2
  <2>3. ASSUME t = r PROVE \E j \in 1 .. Len(queue') : queue'[j] = t
    BY <1>2, <1>3, <2>3
  <2> QED BY <2>1, <2>2, <2>3
<1>4. CASE Take
  <2>1. PICK h \in Requests :
           /\ stage' = [stage EXCEPT ![h] = IF status[h] = "live" THEN "running" ELSE "gone"]
           /\ queue[1] = h /\ Len(queue') = Len(queue) - 1
           /\ \A i \in 1 .. Len(queue') : queue'[i] = queue[i + 1]
    <3>1. ASSUME NEW q \in Seq(Requests), q # << >>
          PROVE  /\ Head(q) \in Requests /\ q[1] = Head(q) /\ Len(Tail(q)) = Len(q) - 1
                 /\ \A i \in 1 .. Len(Tail(q)) : Tail(q)[i] = q[i + 1]
      BY <3>1
    <3> QED BY <1>4, <3>1 DEF Take
  <2>2. Len(queue) \in Nat
    OBVIOUS
  <2>3. CASE t = h
    BY <2>1, <2>3
  <2>4. CASE t # h
    <3>1. stage'[t] = stage[t]
      BY <2>1, <2>4
    <3>2. ASSUME NEW i \in 1 .. Len(queue), queue[i] = t
          PROVE  i - 1 \in 1 .. Len(queue') /\ queue'[i - 1] = t
      <4>1. i # 1
        BY <2>1, <2>4, <3>2
      <4>2. i - 1 \in 1 .. Len(queue') /\ (i - 1) + 1 = i
        BY <2>1, <2>2, <4>1
      <4> QED BY <2>1, <3>2, <4>2
    <3> QED BY <3>1, <3>2
  <2> QED BY <2>3, <2>4
<1>5. ASSUME NEW u \in Requests, Finish(u)
      PROVE  /\ UNCHANGED queue
             /\ stage[t] = "queued" => stage'[t] = "queued"
             /\ stage'[t] = stage[t] \/ status'[t] = "terminal"
  BY <1>5 DEF Finish
<1>6. ASSUME NEW u \in Requests, Renew(u) \/ LoseWorker(u)
      PROVE  /\ UNCHANGED queue
             /\ stage[t] = "queued" => stage'[t] = "queued"
             /\ stage'[t] = stage[t] \/ stage'[t] = "gone"
  BY <1>6 DEF Renew, LoseWorker
<1>7. ASSUME NEW r \in Requests, Begin(r) \/ Abort(r) \/ (Handle(r) /\ ~Dispatch(r)) \/ Cancel(r)
      PROVE  UNCHANGED <<stage, queue>>
  BY <1>7 DEF Begin, Abort, Cancel, Handle, CleanupSelect, CleanupDelete, FindRecord, ResolveTask,
              Unexpire, Forget, Admit, Create, Bind, DispatchFails, RenewFailed
<1>8. CASE Tick \/ UNCHANGED vars
  BY <1>1, <1>8 DEF Tick, vars
<1>9. CASE \E r \in Requests : Dispatch(r)
  BY <1>3, <1>9
<1>10. CASE \E u \in Requests : Finish(u) \/ Renew(u) \/ LoseWorker(u)
  BY <1>5, <1>6, <1>10
<1> QED BY <1>1, <1>4, <1>7, <1>8, <1>9, <1>10 DEF Next, Work, Handle

\* The publication puts the task into the queue, or its failure on record.
LEMMA Published ==
    ASSUME TypeInv, NEW t \in Requests, Dispatch(t) \/ DispatchFails(t) \/ Abort(t)
    PROVE  InHand(t)'
<1> USE DEF TypeInv, TypeOK
<1>1. CASE Dispatch(t)
  <2>1. stage'[t] = "queued"
    BY <1>1 DEF Dispatch
  <2>2. Len(queue') \in 1 .. Len(queue') /\ queue'[Len(queue')] = t
    BY <1>1 DEF Dispatch
  <2> QED BY <2>1, <2>2 DEF InHand
<1>2. CASE DispatchFails(t)
  <2>1. status'[t] = "terminal"
    BY <1>2 DEF DispatchFails
  <2> QED BY <2>1 DEF InHand
<1>3. CASE Abort(t)
  <2>1. answer'[t].outcome = "aborted"
    BY <1>3 DEF Abort, Reply
  <2> QED BY <2>1 DEF InHand
<1> QED BY <1>1, <1>2, <1>3

(***************************************************************************)
(* Whoever has a task hands it on.                                         *)
(***************************************************************************)
LEMMA HandedOn ==
    ASSUME TypeInv, KeyInv, Written, [Next]_vars, NEW t \in Requests, InHand(t)
    PROVE  InHand(t)'
<1>1. CASE rpc[t] = "dispatch"
  BY <1>1, RequestMoves, Published DEF InHand
<1>2. CASE stage[t] = "queued" /\ \E i \in 1 .. Len(queue) : queue[i] = t
  BY <1>2, StageMoves DEF InHand
<1>3. CASE stage[t] \in {"running", "gone"}
  BY <1>3, StageMoves DEF InHand
<1>4. CASE status[t] = "terminal"
  BY <1>4, StatusMovesOn DEF InHand
<1>5. CASE answer[t].outcome = "aborted"
  BY <1>5, RequestMoves DEF Written, InHand
<1> QED BY <1>1, <1>2, <1>3, <1>4, <1>5 DEF InHand

LEMMA WrittenStep ==
    ASSUME TypeInv, KeyInv, Written, [Next]_vars
    PROVE  Written'
<1> SUFFICES ASSUME NEW r \in Requests
             PROVE  /\ rpc'[r] = "renew" => status'[r] = "terminal"
                    /\ answer'[r].outcome = "aborted" => rpc'[r] = "done"
  BY DEF Written
<1>1. ASSUME DispatchFails(r) PROVE status'[r] = "terminal"
  BY <1>1 DEF DispatchFails, TypeInv, TypeOK
<1>2. ASSUME rpc[r] = "renew" PROVE status'[r] = "terminal"
  BY <1>2, StatusMovesOn DEF Written
<1>3. ASSUME answer'[r] = answer[r], answer'[r].outcome = "aborted" PROVE rpc'[r] = "done"
  BY <1>3, RequestMoves DEF Written
<1> QED BY <1>1, <1>2, <1>3, RequestMoves

\* A record that leads somewhere after a step led there before, or the
\* request it leads to has just bound it.
LEMMA RecordSources ==
    ASSUME TypeInv, [Next]_vars, NEW k \in Keys, record'[k].task # NoTask
    PROVE  record'[k].task = record[k].task \/ \E r \in Requests : record'[k].task = r /\ rpc'[r] = "dispatch"
<1> USE DEF TypeInv, TypeOK
<1>1. CASE UNCHANGED record
  BY <1>1
<1>2. NoRecord.task = NoTask
  BY DEF NoRecord
<1>3. \A rec \in Record \cup {NoRecord} : \A e : [rec EXCEPT !.expires = e].task = rec.task
  BY DEF Record, NoRecord
<1>4. ASSUME NEW j \in Keys, NEW e, record' = [record EXCEPT ![j].expires = e]
      PROVE  record'[k].task = record[k].task
  BY <1>3, <1>4
<1>5. ASSUME NEW r \in Requests, CleanupDelete(r) \/ Forget(r) PROVE record'[k].task = record[k].task
  BY <1>2, <1>5 DEF CleanupDelete, Forget
<1>6. ASSUME NEW r \in Requests, Unexpire(r) PROVE record'[k].task = record[k].task
  <2>1. KeyOf[r] \in Keys
    BY <1>6, KeyOfAssumption DEF Unexpire, KeyedSteps, Keyed
  <2> QED BY <1>1, <1>4, <1>6, <2>1 DEF Unexpire
<1>7. ASSUME NEW t \in Requests, NEW i, record' = Renewed(t, i) PROVE record'[k].task = record[k].task
  <2>1. Keyed(t) => KeyOf[t] \in Keys
    BY KeyOfAssumption DEF Keyed
  <2> QED BY <1>1, <1>4, <1>7, <2>1 DEF Renewed
<1>8. ASSUME NEW r \in Requests, Bind(r), record' # record
      PROVE  record'[k].task = record[k].task \/ (record'[k].task = r /\ rpc'[r] = "dispatch")
  <2>1. record' = [record EXCEPT ![KeyOf[r]] = [task |-> r, expires |-> now[r] + Ttl]]
        /\ rpc'[r] = "dispatch"
    BY <1>8 DEF Bind, Proceed, Goto
  <2> QED BY <2>1
<1>9. ASSUME NEW r \in Requests,
             \/ Begin(r) \/ Abort(r) \/ CleanupSelect(r) \/ FindRecord(r) \/ ResolveTask(r) \/ Admit(r)
             \/ Create(r) \/ Dispatch(r) \/ DispatchFails(r) \/ Finish(r) \/ LoseWorker(r) \/ Cancel(r)
      PROVE  UNCHANGED record
  BY <1>9 DEF Begin, Abort, CleanupSelect, FindRecord, ResolveTask, Admit, Create, Dispatch,
              DispatchFails, Finish, LoseWorker, Cancel
<1>10. ASSUME NEW r \in Requests, RenewFailed(r) \/ Renew(r) PROVE record'[k].task = record[k].task
  BY <1>7, <1>10 DEF RenewFailed, Renew
<1>11. CASE Take \/ Tick \/ UNCHANGED vars
  BY <1>1, <1>11 DEF Take, Tick, vars
<1> QED BY <1>1, <1>5, <1>6, <1>8, <1>9, <1>10, <1>11 DEF Next, Handle, Work

\* A request has read its task in a record.
LEMMA SeenSources ==
    ASSUME TypeInv, [Next]_vars, NEW q \in Requests, seen'[q].task # NoTask
    PROVE  seen'[q].task = seen[q].task \/ \E k \in Keys : seen'[q].task = record[k].task
<1> USE DEF TypeInv, TypeOK
<1>1. CASE UNCHANGED seen
  BY <1>1
<1>2. NoRecord.task = NoTask
  BY DEF NoRecord
<1>3. ASSUME NEW r \in Requests, NEW outcome, NEW task, Reply(r, outcome, task)
      PROVE  seen'[q].task = seen[q].task
  BY <1>2, <1>3 DEF Reply
<1>4. ASSUME NEW r \in Requests, FindRecord(r)
      PROVE  seen'[q].task = seen[q].task \/ \E k \in Keys : seen'[q].task = record[k].task
  <2>1. KeyOf[r] \in Keys /\ seen' = [seen EXCEPT ![r] = record[KeyOf[r]]]
    BY <1>4, KeyOfAssumption DEF FindRecord, KeyedSteps, Keyed
  <2> QED BY <2>1
<1>5. ASSUME NEW r \in Requests,
             \/ Begin(r) \/ Abort(r) \/ CleanupSelect(r) \/ CleanupDelete(r) \/ ResolveTask(r)
             \/ Unexpire(r) \/ Forget(r) \/ Admit(r)
      PROVE  UNCHANGED seen \/ \E outcome, task : Reply(r, outcome, task)
  BY <1>5 DEF Begin, Abort, CleanupSelect, CleanupDelete, ResolveTask, Unexpire, Forget, Admit, Proceed
<1>6. ASSUME NEW r \in Requests,
             Create(r) \/ Bind(r) \/ Dispatch(r) \/ DispatchFails(r) \/ RenewFailed(r)
      PROVE  UNCHANGED seen \/ \E outcome, task : Reply(r, outcome, task)
  BY <1>6 DEF Create, Bind, Dispatch, DispatchFails, RenewFailed, Proceed
<1>7. CASE \/ Take \/ Tick \/ UNCHANGED vars
           \/ \E u \in Requests : Work(u) \/ LoseWorker(u) \/ Cancel(u)
  BY <1>1, <1>7 DEF Take, Tick, vars, requestVars, Work, Finish, Renew, LoseWorker, Cancel
<1> QED BY <1>1, <1>3, <1>4, <1>5, <1>6, <1>7 DEF Next, Handle

\* A request answers with the task it has read, or with its own when it has
\* published it or has written its failure.
LEMMA AnswerSources ==
    ASSUME TypeInv, [Next]_vars, NEW q \in Requests, answer'[q].task # NoTask
    PROVE  \/ answer'[q].task \in {answer[q].task, seen[q].task}
           \/ answer'[q].task = q /\ (Dispatch(q) \/ DispatchFails(q) \/ rpc[q] = "renew")
<1> USE DEF TypeInv, TypeOK
<1>1. CASE UNCHANGED answer
  BY <1>1
<1>2. ASSUME NEW r \in Requests, NEW outcome, NEW task, Reply(r, outcome, task)
      PROVE  answer'[q] = answer[q] \/ (r = q /\ answer'[q].task = task)
  BY <1>2 DEF Reply
<1>3. ASSUME NEW r \in Requests,
             Abort(r) \/ ResolveTask(r) \/ Unexpire(r) \/ Admit(r) \/ Bind(r)
      PROVE  \/ UNCHANGED answer
             \/ \E outcome : Reply(r, outcome, NoTask)
             \/ \E outcome : Reply(r, outcome, seen[r].task)
  BY <1>3 DEF Abort, ResolveTask, Unexpire, Admit, Bind, Proceed, Goto
<1>4. ASSUME NEW r \in Requests, Dispatch(r) \/ DispatchFails(r) \/ RenewFailed(r)
      PROVE  \/ UNCHANGED answer
             \/ /\ Dispatch(r) \/ DispatchFails(r) \/ rpc[r] = "renew"
                /\ \E outcome : Reply(r, outcome, r)
  BY <1>4 DEF Dispatch, DispatchFails, RenewFailed, Goto
<1>5. ASSUME NEW r \in Requests,
             Begin(r) \/ CleanupSelect(r) \/ CleanupDelete(r) \/ FindRecord(r) \/ Forget(r) \/ Create(r)
      PROVE  UNCHANGED answer
  BY <1>5 DEF Begin, CleanupSelect, CleanupDelete, FindRecord, Forget, Create, Proceed, Goto
<1>6. CASE \/ Take \/ Tick \/ UNCHANGED vars
           \/ \E u \in Requests : Work(u) \/ LoseWorker(u) \/ Cancel(u)
  BY <1>1, <1>6, SMTT(30) DEF Take, Tick, vars, requestVars, Work, Finish, Renew, LoseWorker, Cancel
<1>7. ASSUME NEW r \in Requests,
             Abort(r) \/ ResolveTask(r) \/ Unexpire(r) \/ Admit(r) \/ Bind(r)
      PROVE  answer'[q].task \in {answer[q].task, seen[q].task}
  <2>1. CASE UNCHANGED answer
    BY <2>1, Zenon
  <2>2. ASSUME NEW outcome, Reply(r, outcome, NoTask) PROVE answer'[q] = answer[q]
    BY <1>2, <2>2, Zenon
  <2>3. ASSUME NEW outcome, Reply(r, outcome, seen[r].task)
        PROVE  answer'[q] = answer[q] \/ answer'[q].task = seen[q].task
    BY <1>2, <2>3, Zenon
  <2> QED BY <1>3, <1>7, <2>1, <2>2, <2>3, ZenonT(30)
<1>8. ASSUME NEW r \in Requests, Dispatch(r) \/ DispatchFails(r) \/ RenewFailed(r)
      PROVE  \/ answer'[q].task = answer[q].task
             \/ answer'[q].task = q /\ (Dispatch(q) \/ DispatchFails(q) \/ rpc[q] = "renew")
  BY <1>1, <1>2, <1>4, <1>8
<1> QED BY <1>1, <1>5, <1>6, <1>7, <1>8 DEF Next, Handle

LEMMA HandStep == TypeInv /\ KeyInv /\ HandInv /\ [Next]_vars /\ TypeInv' => HandInv'
<1> SUFFICES ASSUME TypeInv, KeyInv, HandInv, [Next]_vars, TypeInv' PROVE HandInv'
  OBVIOUS
<1>1. Written'
  BY WrittenStep DEF HandInv
<1>2. ASSUME NEW t \in Requests, InHand(t) PROVE InHand(t)'
  BY <1>2, HandedOn DEF HandInv
<1>3. /\ \A k \in Keys : record[k].task \in Requests \cup {NoTask} /\ record'[k].task \in Requests \cup {NoTask}
      /\ \A r \in Requests : /\ seen[r].task \in Requests \cup {NoTask} /\ seen'[r].task \in Requests \cup {NoTask}
                             /\ answer[r].task \in Requests \cup {NoTask}
                             /\ answer'[r].task \in Requests \cup {NoTask}
  BY DEF TypeInv, TypeOK, Record, NoRecord
<1>4. ASSUME NEW k \in Keys, NEW t \in Requests, record'[k].task = t PROVE InHand(t)'
  <2>1. CASE record[k].task = t
    BY <1>2, <2>1, NoTaskAssumption DEF HandInv, RecordedTasksInHand
  <2>2. CASE rpc'[t] = "dispatch"
    BY <2>2 DEF InHand
  <2> QED BY <1>4, <2>1, <2>2, RecordSources, NoTaskAssumption
<1>5. ASSUME NEW q \in Requests, NEW t \in Requests, seen'[q].task = t PROVE InHand(t)'
  <2>1. seen[q].task = t \/ \E k \in Keys : record[k].task = t
    BY <1>5, SeenSources, NoTaskAssumption
  <2>2. InHand(t)
    BY <2>1, NoTaskAssumption DEF HandInv, RecordedTasksInHand
  <2> QED BY <1>2, <2>2
<1>6. ASSUME NEW q \in Requests, NEW t \in Requests, answer'[q].task = t PROVE InHand(t)'
  <2>1. CASE t = answer[q].task \/ t = seen[q].task
    <3>1. InHand(t)
      BY <2>1, NoTaskAssumption DEF HandInv, AnsweredTaskInHand, RecordedTasksInHand
    <3> QED BY <1>2, <3>1
  <2>2. CASE t = q /\ (Dispatch(q) \/ DispatchFails(q))
    BY <2>2, Published
  <2>3. CASE t = q /\ rpc[q] = "renew"
    <3>1. status'[t] = "terminal"
      BY <2>3, StatusMovesOn DEF HandInv, Written
    <3> QED BY <3>1 DEF InHand
  <2> QED BY <1>6, <2>1, <2>2, <2>3, AnswerSources, NoTaskAssumption
<1>7. AnsweredTaskInHand' /\ RecordedTasksInHand'
  BY <1>3, <1>4, <1>5, <1>6 DEF AnsweredTaskInHand, RecordedTasksInHand
<1> QED BY <1>1, <1>7 DEF HandInv

(***************************************************************************)
(* Whoever is answered with a task, his own or one submitted before under  *)
(* his key, is answered with one that somebody is about to publish, that   *)
(* is queued or worked on, or that is over, unless the server that created *)
(* it or its worker died (TaskSubmitService.submit, resolve_existing_task).*)
(***************************************************************************)
THEOREM AnsweredTasksAreInHand == Spec => []AnsweredTaskInHand
<1>1. Init => HandInv
  <2> SUFFICES ASSUME Init PROVE HandInv
    OBVIOUS
  <2>1. \A k \in Keys : record[k].task = NoTask
    BY DEF Init, NoRecord
  <2>2. \A r \in Requests : /\ seen[r].task = NoTask /\ answer[r].task = NoTask
                            /\ answer[r].outcome = "none" /\ rpc[r] = "idle"
    BY DEF Init, NoRecord
  <2> QED BY <2>1, <2>2 DEF HandInv, AnsweredTaskInHand, RecordedTasksInHand, Written
<1>2. HandInv => AnsweredTaskInHand
  BY DEF HandInv
<1> QED BY <1>1, <1>2, TypeInvariant, KeyInvariant, HandStep, PTL DEF Spec

============================================================================
