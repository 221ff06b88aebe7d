------------------------- MODULE TaskTrackingProofs -------------------------
(***************************************************************************)
(* Proofs about TaskTracking, for any tasks, calls and strategies: its     *)
(* types; that the refs, the timer and the connection of a view agree;     *)
(* that an end on show is the end of its task; and that a task shown as    *)
(* under way is followed.                                                  *)
(***************************************************************************)
EXTENDS TaskTracking, TLAPS

\* A call about a task names one, and a task has been shown by then; only
\* the workbench cancels; an answer that is a status is one of a task that
\* exists.
CallsKnown ==
    \A c \in Calls :
        /\ call[c].kind \in {"status", "result", "cancel"} =>
              call[c].task \in Tasks /\ taskId # NoTask
        /\ call[c].kind = "cancel" => StreamFirst
        /\ call[c].answer \in Statuses =>
              call[c].task \in Tasks /\ status[call[c].task] # "none"

\* One submission is under way at a time, and meanwhile the workbench tracks
\* nothing: the answer finds no connection to close.
SubmitsAlone ==
    /\ \A c, d \in Calls :
          call[c].kind = "submit" => submitting /\ (call[d].kind = "submit" => c = d)
    /\ StreamFirst /\ submitting => tracked = NoTask

\* streamRef holds the connection for as long as the mode says so, and a
\* connection is about a task that exists.
OneConnection ==
    /\ stream = (IF mode = "sse" THEN tracked ELSE NoTask)
    /\ ~StreamFirst => mode = "idle" /\ tracked = NoTask
    /\ \A t \in open : status[t] # "none"

TrackInv == TypeOK /\ SourcesAgree /\ OneConnection /\ CallsKnown /\ SubmitsAlone

CallType == [kind : {"free", "status", "result", "cancel", "submit"},
             task : Tasks \cup {NoTask},
             answer : Statuses \cup {"none", "error"}]

----------------------------------------------------------------------------
(* Lemmas about the parts the handlers are made of. *)

\* A view that has submitted nothing.
LEMMA InitiallyTrue == Init => TrackInv
<1> SUFFICES ASSUME Init PROVE TrackInv
  OBVIOUS
<1>1. NoCall \in CallType /\ NoCall.kind = "free" /\ NoCall.answer = "none"
  BY DEF NoCall, CallType
<1>2. TypeOK
  <2>1. call \in [Calls -> CallType]
    BY <1>1 DEF Init
  <2>2. submits \in 0 .. MaxSubmits
    BY BoundsAssumption DEF Init
  <2>3. buffer \in [Tasks -> Seq(Statuses)]
    BY DEF Init
  <2> QED BY <2>1, <2>2, <2>3, StrategiesAssumption DEF Init, TypeOK, CallType
<1>3. \A c \in Calls : call[c].kind = "free" /\ call[c].answer = "none"
  BY <1>1 DEF Init
<1>4. "none" \notin Statuses
  BY DEF Statuses, Active, Terminal
<1>5. CallsKnown /\ SubmitsAlone
  BY <1>3, <1>4 DEF CallsKnown, SubmitsAlone, Init
<1>6. SourcesAgree /\ OneConnection
  BY DEF Init, SourcesAgree, OneConnection, StreamFirst
<1> QED BY <1>2, <1>5, <1>6 DEF TrackInv

(***************************************************************************)
(* A call slot that is filled by Ask or emptied leaves the facts about the *)
(* others as they are.                                                     *)
(***************************************************************************)
LEMMA AskedCall ==
    ASSUME TypeOK, CallsKnown, NEW c \in Calls,
           NEW kind \in {"status", "result", "cancel"}, NEW t \in Tasks,
           Ask(c, kind, t), kind = "cancel" => StreamFirst,
           taskId' # NoTask, UNCHANGED <<status, strategy>>
    PROVE  /\ call' \in [Calls -> CallType] /\ CallsKnown'
           /\ \A d \in Calls : call'[d].kind = "submit" => call[d].kind = "submit" /\ d # c
<1> DEFINE asked == [kind |-> kind, task |-> t, answer |-> "none"]
<1>1. asked \in CallType /\ asked.kind = kind /\ asked.task = t /\ asked.answer = "none"
  BY DEF CallType
<1> HIDE DEF asked
<1>2. call \in [Calls -> CallType] /\ call' = [call EXCEPT ![c] = asked]
  BY DEF TypeOK, CallType, Ask, asked
<1>3. call' \in [Calls -> CallType]
  BY <1>1, <1>2
<1>4. \A d \in Calls : call'[d] = IF d = c THEN asked ELSE call[d]
  BY <1>2
<1>5. "none" \notin Statuses
  BY DEF Statuses, Active, Terminal
<1>6. CallsKnown'
  BY <1>1, <1>4, <1>5 DEF CallsKnown, StreamFirst
<1>7. \A d \in Calls : call'[d].kind = "submit" => call[d].kind = "submit" /\ d # c
  BY <1>1, <1>4
<1> QED BY <1>3, <1>6, <1>7

\* The slot of a call whose answer was handled.
LEMMA FreedCall ==
    ASSUME TypeOK, CallsKnown, NEW c \in Calls, call' = [call EXCEPT ![c] = NoCall],
           taskId # NoTask => taskId' # NoTask, UNCHANGED <<status, strategy>>
    PROVE  /\ call' \in [Calls -> CallType] /\ CallsKnown'
           /\ \A d \in Calls : call'[d].kind = "submit" => call[d].kind = "submit" /\ d # c
<1>1. NoCall \in CallType /\ NoCall.kind = "free" /\ NoCall.answer = "none"
  BY DEF NoCall, CallType
<1>2. call \in [Calls -> CallType]
  BY DEF TypeOK, CallType
<1>3. call' \in [Calls -> CallType]
  BY <1>1, <1>2
<1>4. \A d \in Calls : call'[d] = IF d = c THEN NoCall ELSE call[d]
  BY <1>2
<1>5. "none" \notin Statuses
  BY DEF Statuses, Active, Terminal
<1>6. CallsKnown'
  BY <1>1, <1>4, <1>5 DEF CallsKnown, StreamFirst
<1>7. \A d \in Calls : call'[d].kind = "submit" => call[d].kind = "submit" /\ d # c
  BY <1>1, <1>4
<1> QED BY <1>3, <1>6, <1>7

\* A change of two fields of one call leaves a function of the calls.
LEMMA TwoFields ==
    ASSUME NEW S, NEW f \in [Calls -> S], NEW c, NEW t, NEW answer, NEW g,
           g = [f EXCEPT ![c].task = t, ![c].answer = answer],
           \A d \in Calls : g[d] \in S
    PROVE  g \in [Calls -> S]
<1>1. g = [d \in Calls |-> g[d]]
  BY Zenon
<1> QED BY <1>1, Zenon

\* A call that is served or fails keeps its kind.
LEMMA ServedCall ==
    ASSUME TypeOK, CallsKnown, NEW c \in Calls, call[c].kind # "free",
           NEW t \in Tasks \cup {NoTask},
           call[c].kind = "submit" \/ t = call[c].task,
           NEW answer \in Statuses \cup {"none", "error"},
           answer \in Statuses => t \in Tasks /\ status'[t] # "none",
           call' = [call EXCEPT ![c].task = t, ![c].answer = answer],
           \A u \in Tasks : status[u] # "none" => status'[u] # "none",
           UNCHANGED <<strategy, taskId>>
    PROVE  /\ call' \in [Calls -> CallType] /\ CallsKnown'
           /\ \A d \in Calls : call'[d].kind = call[d].kind
<1>1. call \in [Calls -> CallType]
  BY DEF TypeOK, CallType
<1> DEFINE served == call'[c]
<1>2. /\ served \in CallType /\ served.kind = call[c].kind
      /\ served.task = t /\ served.answer = answer
      /\ \A d \in Calls \ {c} : call'[d] = call[d]
  BY <1>1, ZenonT(60) DEF CallType
<1> HIDE DEF served
<1>3. call' \in [Calls -> CallType]
  <2>1. \A d \in Calls : call'[d] \in CallType
    BY <1>1, <1>2 DEF served
  <2> QED BY <1>1, <2>1, TwoFields, Zenon
<1>4. \A d \in Calls : call'[d].kind = call[d].kind
  BY <1>2 DEF served
<1>5. CallsKnown'
  <2> SUFFICES ASSUME NEW d \in Calls
               PROVE  /\ call'[d].kind \in {"status", "result", "cancel"} =>
                            call'[d].task \in Tasks /\ taskId' # NoTask
                      /\ call'[d].kind = "cancel" => StreamFirst'
                      /\ call'[d].answer \in Statuses =>
                            call'[d].task \in Tasks /\ status'[call'[d].task] # "none"
    BY DEF CallsKnown
  <2>1. CASE d = c
    BY <2>1, <1>2 DEF CallsKnown, StreamFirst, served
  <2>2. CASE d # c
    BY <2>2, <1>2 DEF CallsKnown, StreamFirst
  <2> QED BY <2>1, <2>2
<1> QED BY <1>3, <1>4, <1>5

\* Facts about submissions survive a step that adds no submission.
LEMMA NoNewSubmit ==
    ASSUME SubmitsAlone, UNCHANGED <<strategy, submitting>>,
           \A d \in Calls : call'[d].kind = "submit" => call[d].kind = "submit",
           tracked' \in {tracked, NoTask}
    PROVE  SubmitsAlone'
BY DEF SubmitsAlone, StreamFirst

\* stopTracking leaves nothing that listens or polls.
LEMMA StopTrackingStops ==
    ASSUME TypeOK, SourcesAgree, OneConnection, StreamFirst, StopTracking
    PROVE  /\ open' = {} /\ stream' = NoTask /\ timer' = NoTask
           /\ tracked' = NoTask /\ mode' = "idle"
           /\ sent' \in [Tasks -> Statuses \cup {"none"}]
           /\ buffer' \in [Tasks -> Seq(Statuses)]
<1>1. open' = {}
  BY DEF SourcesAgree, OneConnection, StopTracking, StopStream, Drop
<1>2. /\ sent' = [u \in Tasks |-> IF u = stream THEN "none" ELSE sent[u]]
      /\ buffer' = [u \in Tasks |-> IF u = stream THEN << >> ELSE buffer[u]]
  BY DEF StopTracking, StopStream, Drop
<1>3. sent' \in [Tasks -> Statuses \cup {"none"}]
  BY <1>2 DEF TypeOK
<1>4. buffer' \in [Tasks -> Seq(Statuses)]
  <2>1. \A u \in Tasks : buffer[u] \in Seq(Statuses)
    BY DEF TypeOK
  <2>2. << >> \in Seq(Statuses)
    OBVIOUS
  <2> QED BY <1>2, <2>1, <2>2
<1> QED BY <1>1, <1>3, <1>4 DEF StopTracking, StopStream

(***************************************************************************)
(* What a polling-only view does when it shows a task and a status.        *)
(***************************************************************************)
LEMMA ShownPolled ==
    ASSUME TypeOK, SourcesAgree, CallsKnown, ~StreamFirst, NEW c \in Calls,
           NEW t \in Tasks, NEW st \in Statuses, ShowPolled(c, t, st),
           UNCHANGED <<status, strategy>>
    PROVE  /\ call' \in [Calls -> CallType] /\ CallsKnown'
           /\ \A d \in Calls : call'[d].kind = "submit" => call[d].kind = "submit" /\ d # c
           /\ loadedFor' \in Tasks \cup {NoTask} /\ timer' \in Tasks \cup {NoTask}
           /\ timer' # NoTask => timer' = t /\ st \in Active
           /\ taskId' = t /\ taskStatus' = st /\ UNCHANGED <<trackVars, streamVars>>
<1>1. /\ taskId' = t /\ taskStatus' = st /\ t # NoTask
      /\ UNCHANGED <<trackVars, streamVars>>
  BY TasksAssumption DEF ShowPolled
<1>2. /\ timer' \in Tasks \cup {NoTask}
      /\ timer' # NoTask => timer' = t /\ st \in Active
  BY <1>1 DEF ShowPolled, PollingEffect, TypeOK, SourcesAgree
<1>3. CASE call' = [call EXCEPT ![c] = NoCall] /\ loadedFor' = loadedFor
  BY <1>1, <1>2, <1>3, FreedCall DEF TypeOK
<1>4. CASE Ask(c, "result", t) /\ st = "SUCCESS" /\ loadedFor' = t
  BY <1>1, <1>2, <1>4, AskedCall
<1> QED BY <1>1, <1>3, <1>4 DEF ShowPolled, ResultEffect

----------------------------------------------------------------------------
(* One lemma per group of actions. *)

\* Tasks move on and events are sent.
LEMMA PlatformSteps ==
    ASSUME TrackInv, NEW t \in Tasks, Start(t) \/ End(t) \/ StreamPoll(t)
    PROVE  TrackInv'
<1> USE DEF TrackInv
<1>1. \A u \in Tasks : status[u] # "none" => status'[u] # "none"
  BY OutcomesAssumption DEF TypeOK, Start, End, StreamPoll, Statuses, Active, Terminal
<1>2. status' \in [Tasks -> Statuses \cup {"none"}]
  BY OutcomesAssumption, ZenonT(60) DEF TypeOK, Start, End, StreamPoll, Statuses, Active, Terminal
<1>3. sent' \in [Tasks -> Statuses \cup {"none"}] /\ buffer' \in [Tasks -> Seq(Statuses)]
  <2>1. CASE StreamPoll(t)
    <3>1. status[t] \in Statuses /\ buffer[t] \in Seq(Statuses)
      BY <2>1 DEF StreamPoll, TypeOK, OneConnection
    <3>2. Append(buffer[t], status[t]) \in Seq(Statuses)
      BY <3>1
    <3> QED BY <2>1, <3>1, <3>2 DEF StreamPoll, TypeOK
  <2>2. CASE Start(t) \/ End(t)
    BY <2>2 DEF Start, End, TypeOK, streamVars
  <2> QED BY <2>1, <2>2
<1>4. UNCHANGED <<strategy, taskId, taskStatus, submitting, trackVars, timer,
                  stream, open, call, loadedFor, submits, misled>>
  BY DEF Start, End, StreamPoll, streamVars
<1>5. TypeOK'
  BY <1>2, <1>3, <1>4, SMTT(30) DEF TypeOK, trackVars
<1>6. SourcesAgree' /\ OneConnection'
  BY <1>1, <1>4 DEF SourcesAgree, OneConnection, StreamFirst, trackVars, TypeOK
<1>7. CallsKnown' /\ SubmitsAlone'
  BY <1>1, <1>4 DEF CallsKnown, SubmitsAlone, StreamFirst, trackVars
<1> QED BY <1>5, <1>6, <1>7

\* What a call does on the server keeps tasks in existence.
LEMMA EffectKeepsTasks ==
    ASSUME TrackInv, NEW c \in Calls, NEW t \in Tasks, Effect(c, t)
    PROVE  /\ status' \in [Tasks -> Statuses \cup {"none"}]
           /\ \A u \in Tasks : status[u] # "none" => status'[u] # "none"
           /\ call[c].kind # "free"
           /\ call[c].kind = "submit" \/ t = call[c].task
BY DEF Effect, TrackInv, TypeOK, Statuses, Active, Terminal

\* Calls are served, fail or lose their answer.
LEMMA CallSteps ==
    ASSUME TrackInv, NEW c \in Calls, Serve(c) \/ CallFails(c)
    PROVE  TrackInv'
<1> USE DEF TrackInv
<1>1. UNCHANGED <<strategy, taskId, taskStatus, submitting, trackVars, timer,
                  streamVars, loadedFor, submits, misled>>
  BY DEF Serve, CallFails
<1>2. /\ status' \in [Tasks -> Statuses \cup {"none"}]
      /\ \A u \in Tasks : status[u] # "none" => status'[u] # "none"
      /\ call' \in [Calls -> CallType] /\ CallsKnown'
      /\ \A d \in Calls : call'[d].kind = call[d].kind
  <2>1. CASE Serve(c)
    <3>1. PICK t \in Tasks :
             /\ Effect(c, t)
             /\ call' = [call EXCEPT ![c].task = t, ![c].answer = status'[t]]
      BY <2>1 DEF Serve
    <3>2. status'[t] \in Statuses \cup {"none"}
      BY <3>1, EffectKeepsTasks
    <3>3. "none" \notin Statuses
      BY DEF Statuses, Active, Terminal
    <3> QED BY <3>1, <3>2, <3>3, <1>1, EffectKeepsTasks, ServedCall
  <2>2. CASE CallFails(c)
    <3>1. UNCHANGED status \/ \E t \in Tasks : Effect(c, t)
      BY <2>2 DEF CallFails
    <3>2. /\ status' \in [Tasks -> Statuses \cup {"none"}]
          /\ \A u \in Tasks : status[u] # "none" => status'[u] # "none"
      BY <3>1, EffectKeepsTasks DEF TypeOK
    <3>3. /\ call[c].kind # "free" /\ call[c] \in CallType /\ call \in [Calls -> CallType]
          /\ call' = [call EXCEPT ![c].answer = "error"]
      BY <2>2 DEF CallFails, Free, TypeOK, CallType
    <3>4. "error" \notin Statuses
      BY DEF Statuses, Active, Terminal
    <3>5. call' = [call EXCEPT ![c].task = call[c].task, ![c].answer = "error"]
      BY <3>3 DEF CallType
    <3>6. call[c].task \in Tasks \cup {NoTask}
      BY <3>3 DEF CallType
    <3> QED BY <3>2, <3>3, <3>4, <3>5, <3>6, <1>1, ServedCall
  <2> QED BY <2>1, <2>2
<1>3. TypeOK'
  BY <1>1, <1>2 DEF TypeOK, trackVars, streamVars, CallType
<1>4. SourcesAgree' /\ OneConnection'
  BY <1>1, <1>2 DEF SourcesAgree, OneConnection, StreamFirst, trackVars, streamVars, TypeOK
<1>5. SubmitsAlone'
  BY <1>1, <1>2 DEF SubmitsAlone, StreamFirst, trackVars
<1> QED BY <1>2, <1>3, <1>4, <1>5

\* Timers and buttons ask about the task shown.
LEMMA AskSteps ==
    ASSUME TrackInv, NEW c \in Calls, PollTick(c) \/ Refresh(c) \/ Cancel(c)
    PROVE  TrackInv'
<1> USE DEF TrackInv
<1>1. UNCHANGED <<status, strategy, taskId, taskStatus, submitting, trackVars,
                  timer, streamVars, loadedFor, submits, misled>>
  BY DEF PollTick, Refresh, Cancel
<1>2. PICK kind \in {"status", "result", "cancel"}, t \in Tasks :
         Ask(c, kind, t) /\ (kind = "cancel" => StreamFirst)
  BY DEF PollTick, Refresh, Cancel, TypeOK
<1>3. /\ call' \in [Calls -> CallType] /\ CallsKnown'
      /\ \A d \in Calls : call'[d].kind = "submit" => call[d].kind = "submit" /\ d # c
  <2>1. taskId # NoTask
    BY <1>2 DEF PollTick, Refresh, Cancel, TypeOK, SourcesAgree, OneConnection
  <2> QED BY <1>1, <1>2, <2>1, AskedCall
<1>4. TypeOK'
  BY <1>1, <1>3 DEF TypeOK, trackVars, streamVars, CallType
<1>5. SourcesAgree' /\ OneConnection'
  BY <1>1 DEF SourcesAgree, OneConnection, StreamFirst, trackVars, streamVars
<1>6. SubmitsAlone'
  BY <1>1, <1>3, NoNewSubmit DEF trackVars
<1> QED BY <1>3, <1>4, <1>5, <1>6

\* A submission stops what was tracked.
LEMMA SubmitSteps ==
    ASSUME TrackInv, NEW c \in Calls, Submit(c)
    PROVE  TrackInv'
<1> USE DEF TrackInv
<1>1. /\ ~submitting /\ submitting' = TRUE /\ loadedFor' = NoTask
      /\ UNCHANGED <<status, strategy, taskId, taskStatus, latest, misled>>
  BY DEF Submit, trackVars
<1>2. submits' \in 0 .. MaxSubmits
  BY BoundsAssumption DEF Submit, TypeOK
<1>3. /\ call' \in [Calls -> CallType] /\ CallsKnown'
      /\ \A d \in Calls : call'[d].kind = "submit" => d = c
  <2> DEFINE asked == [kind |-> "submit", task |-> NoTask, answer |-> "none"]
  <2>1. asked \in CallType /\ asked.kind = "submit" /\ asked.answer = "none"
    BY DEF CallType
  <2> HIDE DEF asked
  <2>2. call \in [Calls -> CallType] /\ call' = [call EXCEPT ![c] = asked]
    BY DEF Submit, Ask, TypeOK, CallType, asked
  <2>3. call' \in [Calls -> CallType]
    BY <2>1, <2>2
  <2>4. \A d \in Calls : call'[d] = IF d = c THEN asked ELSE call[d]
    BY <2>2
  <2>5. \A d \in Calls : call[d].kind # "submit"
    BY <1>1 DEF SubmitsAlone
  <2>6. "none" \notin Statuses
    BY DEF Statuses, Active, Terminal
  <2>7. CallsKnown'
    BY <1>1, <2>1, <2>4, <2>6 DEF CallsKnown, StreamFirst
  <2> QED BY <2>3, <2>4, <2>5, <2>7
<1>4. /\ timer' = NoTask /\ open' = {} /\ stream' = NoTask /\ tracked' = NoTask /\ mode' = "idle"
      /\ sent' \in [Tasks -> Statuses \cup {"none"}] /\ buffer' \in [Tasks -> Seq(Statuses)]
  <2>1. CASE StreamFirst
    BY <2>1, StopTrackingStops DEF Submit
  <2>2. CASE ~StreamFirst
    BY <2>2 DEF Submit, trackVars, streamVars, TypeOK, SourcesAgree, OneConnection
  <2> QED BY <2>1, <2>2
<1>5. TypeOK'
  BY <1>1, <1>2, <1>3, <1>4 DEF TypeOK, CallType
<1>6. SourcesAgree' /\ OneConnection' /\ SubmitsAlone'
  BY <1>1, <1>3, <1>4 DEF SourcesAgree, OneConnection, SubmitsAlone, StreamFirst
<1> QED BY <1>3, <1>5, <1>6

\* The answer to a submission: tracking starts afresh, or the polling effect runs.
LEMMA SubmitAnsweredSteps ==
    ASSUME TrackInv, NEW c \in Calls, SubmitAnswered(c)
    PROVE  TrackInv'
<1> USE DEF TrackInv
<1> DEFINE t == call[c].task
           st == call[c].answer
<1>1. /\ submitting /\ submitting' = FALSE /\ misled' = FALSE
      /\ st \in Statuses /\ t \in Tasks /\ status[t] # "none"
      /\ \A d \in Calls : call[d].kind = "submit" => d = c
      /\ UNCHANGED <<status, strategy, submits>>
  BY DEF SubmitAnswered, CallsKnown, SubmitsAlone
<1>2. CASE StreamFirst
  <2>1. /\ taskId' = t /\ taskStatus' = st /\ StartTracking(t, st)
        /\ call' = [call EXCEPT ![c] = NoCall] /\ UNCHANGED loadedFor
    BY <1>2 DEF SubmitAnswered
  <2> HIDE DEF t, st
  <2>2. /\ call' \in [Calls -> CallType] /\ CallsKnown'
        /\ \A d \in Calls : call'[d].kind = "submit" => call[d].kind = "submit" /\ d # c
    BY <1>1, <2>1, FreedCall, TasksAssumption
  <2>3. tracked = NoTask /\ mode = "idle" /\ open = {} /\ stream = NoTask
    BY <1>1, <1>2 DEF SubmitsAlone, SourcesAgree, OneConnection
  <2>4. CASE st \in Terminal /\ StopTracking
    <3>1. TypeOK'
      BY <1>1, <1>2, <2>1, <2>2, <2>4, StopTrackingStops DEF TypeOK, CallType, StartTracking
    <3>2. SourcesAgree' /\ OneConnection'
      BY <1>1, <1>2, <2>4, StopTrackingStops DEF SourcesAgree, OneConnection, StreamFirst
    <3>3. SubmitsAlone'
      BY <1>1, <2>2 DEF SubmitsAlone
    <3> QED BY <2>2, <3>1, <3>2, <3>3
  <2>5. CASE /\ st \in Active /\ latest' = st /\ tracked' = t /\ timer' = NoTask
             /\ stream' = t /\ open' = open \cup {t} /\ mode' = "sse"
             /\ UNCHANGED <<sent, buffer>>
    <3>1. t # NoTask
      BY <1>1, TasksAssumption
    <3>2. TypeOK'
      BY <1>1, <2>1, <2>2, <2>3, <2>5 DEF TypeOK, CallType
    <3>3. SourcesAgree' /\ OneConnection'
      BY <1>1, <1>2, <2>1, <2>3, <2>5, <3>1 DEF SourcesAgree, OneConnection, StreamFirst
    <3>4. SubmitsAlone'
      BY <1>1, <2>2 DEF SubmitsAlone
    <3> QED BY <2>2, <3>2, <3>3, <3>4
  <2> QED BY <2>1, <2>4, <2>5 DEF StartTracking
<1>3. CASE ~StreamFirst
  <2>1. ShowPolled(c, t, st)
    BY <1>3 DEF SubmitAnswered
  <2> HIDE DEF t, st
  <2>2. /\ call' \in [Calls -> CallType] /\ CallsKnown'
        /\ \A d \in Calls : call'[d].kind = "submit" => call[d].kind = "submit" /\ d # c
        /\ loadedFor' \in Tasks \cup {NoTask} /\ timer' \in Tasks \cup {NoTask}
        /\ timer' # NoTask => timer' = t /\ st \in Active
        /\ taskId' = t /\ taskStatus' = st /\ UNCHANGED <<trackVars, streamVars>>
    BY <1>1, <1>3, <2>1, ShownPolled
  <2>3. TypeOK'
    BY <1>1, <2>2 DEF TypeOK, CallType, trackVars, streamVars
  <2>4. SourcesAgree' /\ OneConnection'
    BY <1>1, <1>3, <2>2 DEF SourcesAgree, OneConnection, StreamFirst, trackVars, streamVars
  <2>5. SubmitsAlone'
    BY <1>1, <1>3, <2>2 DEF SubmitsAlone, StreamFirst
  <2> QED BY <2>2, <2>3, <2>4, <2>5
<1> QED BY <1>2, <1>3

\* A rejected submission leaves nothing tracked.
LEMMA SubmitRejectedSteps ==
    ASSUME TrackInv, NEW c \in Calls, SubmitRejected(c)
    PROVE  TrackInv'
<1> USE DEF TrackInv
<1>1. /\ submitting /\ submitting' = FALSE /\ call' = [call EXCEPT ![c] = NoCall]
      /\ \A d \in Calls : call[d].kind = "submit" => d = c
      /\ UNCHANGED <<status, strategy, taskId, taskStatus, latest, loadedFor, submits>>
  BY DEF SubmitRejected, SubmitsAlone
<1>2. misled' \in BOOLEAN
  BY DEF SubmitRejected, TypeOK
<1>3. /\ call' \in [Calls -> CallType] /\ CallsKnown'
      /\ \A d \in Calls : call'[d].kind = "submit" => call[d].kind = "submit" /\ d # c
  BY <1>1, FreedCall
<1>4. SubmitsAlone'
  BY <1>1, <1>3 DEF SubmitsAlone
<1>5. CASE StreamFirst /\ StopTracking
  <2>1. TypeOK'
    BY <1>1, <1>2, <1>3, <1>5, StopTrackingStops DEF TypeOK, CallType
  <2>2. SourcesAgree' /\ OneConnection'
    BY <1>1, <1>5, StopTrackingStops DEF SourcesAgree, OneConnection, StreamFirst
  <2> QED BY <1>3, <1>4, <2>1, <2>2
<1>6. CASE ~StreamFirst /\ UNCHANGED <<timer, tracked, mode, streamVars>>
  <2>1. TypeOK'
    BY <1>1, <1>2, <1>3, <1>6 DEF TypeOK, CallType, streamVars
  <2>2. SourcesAgree' /\ OneConnection'
    BY <1>1, <1>6 DEF SourcesAgree, OneConnection, StreamFirst, streamVars
  <2> QED BY <1>3, <1>4, <2>1, <2>2
<1> QED BY <1>5, <1>6 DEF SubmitRejected

\* The answer to a status or result call is applied to whatever is shown.
LEMMA StatusAnsweredSteps ==
    ASSUME TrackInv, NEW c \in Calls, StatusAnswered(c)
    PROVE  TrackInv'
<1> USE DEF TrackInv
<1> DEFINE st == call[c].answer
<1>1. /\ st \in Statuses /\ taskId \in Tasks /\ taskId # NoTask
      /\ UNCHANGED <<status, strategy, submitting, submits>>
  BY DEF StatusAnswered, CallsKnown, TypeOK
<1>2. misled' \in BOOLEAN
  BY DEF StatusAnswered, Misleading, TypeOK
<1>3. CASE StreamFirst
  <2>1. /\ ApplyTaskStatus(st) /\ call' = [call EXCEPT ![c] = NoCall]
        /\ UNCHANGED <<taskId, loadedFor>>
    BY <1>3 DEF StatusAnswered
  <2> HIDE DEF st
  <2>2. /\ call' \in [Calls -> CallType] /\ CallsKnown'
        /\ \A d \in Calls : call'[d].kind = "submit" => call[d].kind = "submit"
    BY <1>1, <2>1, FreedCall
  <2>3. CASE st \in Terminal /\ StopTracking
    <3>1. TypeOK'
      BY <1>1, <1>2, <1>3, <2>1, <2>2, <2>3, StopTrackingStops DEF TypeOK, CallType, ApplyTaskStatus
    <3>2. SourcesAgree' /\ OneConnection'
      BY <1>1, <1>3, <2>3, StopTrackingStops DEF SourcesAgree, OneConnection, StreamFirst
    <3>3. SubmitsAlone'
      BY <1>1, <1>3, <2>2, <2>3, NoNewSubmit, StopTrackingStops
    <3> QED BY <2>2, <3>1, <3>2, <3>3
  <2>4. CASE st \notin Terminal /\ UNCHANGED <<streamVars, timer, tracked, mode>>
    <3>1. st \in Active /\ latest' = st /\ taskStatus' = st
      BY <1>1, <2>1, <2>4 DEF ApplyTaskStatus, Statuses
    <3>2. TypeOK'
      BY <1>1, <1>2, <2>1, <2>2, <2>4, <3>1 DEF TypeOK, CallType, streamVars
    <3>3. SourcesAgree' /\ OneConnection'
      BY <1>1, <1>3, <2>1, <2>4, <3>1 DEF SourcesAgree, OneConnection, StreamFirst, streamVars
    <3>4. SubmitsAlone'
      BY <1>1, <2>2, <2>4, NoNewSubmit
    <3> QED BY <2>2, <3>2, <3>3, <3>4
  <2> QED BY <2>1, <2>3, <2>4 DEF ApplyTaskStatus
<1>4. CASE ~StreamFirst
  <2>1. ShowPolled(c, taskId, st)
    BY <1>4 DEF StatusAnswered
  <2> HIDE DEF st
  <2>2. /\ call' \in [Calls -> CallType] /\ CallsKnown'
        /\ \A d \in Calls : call'[d].kind = "submit" => call[d].kind = "submit" /\ d # c
        /\ loadedFor' \in Tasks \cup {NoTask} /\ timer' \in Tasks \cup {NoTask}
        /\ timer' # NoTask => timer' = taskId /\ st \in Active
        /\ taskId' = taskId /\ taskStatus' = st /\ UNCHANGED <<trackVars, streamVars>>
    BY <1>1, <1>4, <2>1, ShownPolled
  <2>3. TypeOK'
    BY <1>1, <1>2, <2>2 DEF TypeOK, CallType, trackVars, streamVars
  <2>4. SourcesAgree' /\ OneConnection'
    BY <1>1, <1>4, <2>2 DEF SourcesAgree, OneConnection, StreamFirst, trackVars, streamVars
  <2>5. SubmitsAlone'
    BY <1>1, <2>2, NoNewSubmit DEF trackVars
  <2> QED BY <2>2, <2>3, <2>4, <2>5
<1> QED BY <1>3, <1>4

\* Rejected calls and the answers to cancel requests.
LEMMA OtherAnswerSteps ==
    ASSUME TrackInv, NEW c \in Calls, StatusRejected(c) \/ CancelAnswered(c)
    PROVE  TrackInv'
<1> USE DEF TrackInv
<1>1. /\ call' = [call EXCEPT ![c] = NoCall]
      /\ UNCHANGED <<status, strategy, taskId, submitting, trackVars, timer,
                     streamVars, loadedFor, submits>>
  BY DEF StatusRejected, CancelAnswered
<1>2. misled' \in BOOLEAN /\ taskStatus' \in Statuses \cup {"none"}
  BY DEF StatusRejected, CancelAnswered, TypeOK, Statuses, Terminal
<1>3. StreamFirst \/ UNCHANGED taskStatus
  BY DEF StatusRejected, CancelAnswered, CallsKnown
<1>4. /\ call' \in [Calls -> CallType] /\ CallsKnown'
      /\ \A d \in Calls : call'[d].kind = "submit" => call[d].kind = "submit"
  BY <1>1, FreedCall
<1>5. TypeOK'
  BY <1>1, <1>2, <1>4 DEF TypeOK, CallType, trackVars, streamVars
<1>6. SourcesAgree' /\ OneConnection'
  BY <1>1, <1>3 DEF SourcesAgree, OneConnection, StreamFirst, trackVars, streamVars
<1>7. SubmitsAlone'
  BY <1>1, <1>4, NoNewSubmit DEF trackVars
<1> QED BY <1>4, <1>5, <1>6, <1>7

\* An event is about the task tracked; an end stops the tracking.
LEMMA StreamEventSteps ==
    ASSUME TrackInv, NEW t \in Tasks, StreamEvent(t)
    PROVE  TrackInv'
<1> USE DEF TrackInv
<1> DEFINE st == Head(buffer[t])
<1>1. /\ StreamFirst /\ tracked = t
      /\ UNCHANGED <<status, strategy, taskId, submitting, call, loadedFor, submits, misled>>
  BY DEF StreamEvent, SourcesAgree
<1>2. st \in Statuses /\ Tail(buffer[t]) \in Seq(Statuses)
  <2>1. buffer[t] \in Seq(Statuses) /\ buffer[t] # << >>
    BY DEF StreamEvent, TypeOK
  <2> QED BY <2>1
<1> HIDE DEF st
<1>3. CallsKnown'
  BY <1>1 DEF CallsKnown, StreamFirst
<1>4. CASE st \in Terminal /\ ApplyTaskStatus(st)
  <2>1. StopTracking /\ latest' = st /\ taskStatus' = st
    BY <1>4 DEF ApplyTaskStatus
  <2>2. TypeOK'
    BY <1>1, <1>2, <2>1, StopTrackingStops DEF TypeOK
  <2>3. SourcesAgree' /\ OneConnection'
    BY <1>1, <2>1, StopTrackingStops DEF SourcesAgree, OneConnection, StreamFirst
  <2>4. SubmitsAlone'
    BY <1>1, <2>1, NoNewSubmit, StopTrackingStops
  <2> QED BY <1>3, <2>2, <2>3, <2>4
<1>5. CASE /\ st \notin Terminal /\ latest' = st /\ taskStatus' = st
           /\ buffer' = [buffer EXCEPT ![t] = Tail(@)]
           /\ UNCHANGED <<stream, open, sent, timer, tracked, mode>>
  <2>1. st \in Active
    BY <1>2, <1>5 DEF Statuses
  <2>2. buffer' \in [Tasks -> Seq(Statuses)]
    BY <1>2, <1>5 DEF TypeOK
  <2>3. TypeOK'
    BY <1>1, <1>2, <1>5, <2>2 DEF TypeOK
  <2>4. SourcesAgree' /\ OneConnection'
    BY <1>1, <1>5, <2>1 DEF SourcesAgree, OneConnection, StreamFirst
  <2>5. SubmitsAlone'
    BY <1>1, <1>5, NoNewSubmit
  <2> QED BY <1>3, <2>3, <2>4, <2>5
<1> QED BY <1>1, <1>4, <1>5 DEF StreamEvent, st

\* A connection that ends is the one of the task tracked: polling takes over.
LEMMA StreamEndsSteps ==
    ASSUME TrackInv, NEW t \in Tasks, StreamEnds(t)
    PROVE  TrackInv'
<1> USE DEF TrackInv
<1>1. /\ StreamFirst /\ tracked = t /\ latest \in Active /\ open = {t}
      /\ taskId = t /\ t # NoTask
  BY TasksAssumption DEF StreamEnds, SourcesAgree
<1>2. /\ open' = {} /\ stream' = NoTask /\ timer' = t /\ mode' = "polling"
      /\ UNCHANGED <<status, strategy, taskId, taskStatus, submitting, tracked,
                     latest, loadedFor, submits, misled>>
  BY <1>1 DEF StreamEnds, Drop
<1>3. PICK c \in Calls : Ask(c, "status", t)
  BY <1>1 DEF StreamEnds
<1>4. /\ call' \in [Calls -> CallType] /\ CallsKnown'
      /\ \A d \in Calls : call'[d].kind = "submit" => call[d].kind = "submit"
  BY <1>1, <1>2, <1>3, AskedCall
<1>5. sent' \in [Tasks -> Statuses \cup {"none"}] /\ buffer' \in [Tasks -> Seq(Statuses)]
  <2>1. /\ sent' = [u \in Tasks |-> IF u = t THEN "none" ELSE sent[u]]
        /\ buffer' = [u \in Tasks |-> IF u = t THEN << >> ELSE buffer[u]]
    BY DEF StreamEnds, Drop
  <2>2. \A u \in Tasks : buffer[u] \in Seq(Statuses)
    BY DEF TypeOK
  <2>3. << >> \in Seq(Statuses)
    OBVIOUS
  <2> QED BY <2>1, <2>2, <2>3 DEF TypeOK
<1>6. TypeOK'
  BY <1>2, <1>4, <1>5 DEF TypeOK, CallType
<1>7. SourcesAgree' /\ OneConnection'
  BY <1>1, <1>2 DEF SourcesAgree, OneConnection, StreamFirst
<1>8. SubmitsAlone'
  BY <1>2, <1>4, NoNewSubmit
<1> QED BY <1>4, <1>6, <1>7, <1>8

----------------------------------------------------------------------------
\* Every step keeps the invariant.
LEMMA NextPreserves == TrackInv /\ [Next]_vars => TrackInv'
<1> SUFFICES ASSUME TrackInv, [Next]_vars PROVE TrackInv'
  OBVIOUS
<1>1. CASE \E t \in Tasks : Start(t) \/ End(t) \/ StreamPoll(t)
  BY <1>1, PlatformSteps
<1>2. CASE \E t \in Tasks : StreamEvent(t)
  BY <1>2, StreamEventSteps
<1>3. CASE \E t \in Tasks : StreamEnds(t)
  BY <1>3, StreamEndsSteps
<1>4. CASE \E c \in Calls : Serve(c) \/ CallFails(c)
  BY <1>4, CallSteps
<1>5. CASE \E c \in Calls : Submit(c)
  BY <1>5, SubmitSteps
<1>6. CASE \E c \in Calls : SubmitAnswered(c)
  BY <1>6, SubmitAnsweredSteps
<1>7. CASE \E c \in Calls : SubmitRejected(c)
  BY <1>7, SubmitRejectedSteps
<1>8. CASE \E c \in Calls : PollTick(c) \/ Refresh(c) \/ Cancel(c)
  BY <1>8, AskSteps
<1>9. CASE \E c \in Calls : StatusAnswered(c)
  BY <1>9, StatusAnsweredSteps
<1>10. CASE \E c \in Calls : StatusRejected(c) \/ CancelAnswered(c)
  BY <1>10, OtherAnswerSteps
<1>11. CASE UNCHANGED vars
  BY <1>11 DEF vars, trackVars, streamVars, TrackInv, TypeOK, SourcesAgree,
               OneConnection, CallsKnown, SubmitsAlone, StreamFirst
<1> QED BY <1>1, <1>2, <1>3, <1>4, <1>5, <1>6, <1>7, <1>8, <1>9, <1>10, <1>11 DEF Next

(***************************************************************************)
(* The strengthened invariant holds of every reachable state.              *)
(***************************************************************************)
THEOREM TrackingInvariant == Spec => []TrackInv
<1> QED BY InitiallyTrue, NextPreserves, PTL DEF Spec

(***************************************************************************)
(* The view's state has its types (task-runtime and tracking hooks).       *)
(***************************************************************************)
THEOREM TypeCorrect == Spec => []TypeOK
<1>1. TrackInv => TypeOK
  BY DEF TrackInv
<1> QED BY <1>1, TrackingInvariant, PTL

(***************************************************************************)
(* A workbench listens to one connection, or polls, or does neither, for   *)
(* the task it shows, and the code editor polls only the active task it    *)
(* shows, whatever callbacks, failures and late answers came before        *)
(* (use-task-status-tracking.ts, use-task-runtime.ts).                     *)
(***************************************************************************)
THEOREM OneSourceOfStatus == Spec => []SourcesAgree
<1>1. TrackInv => SourcesAgree
  BY DEF TrackInv
<1> QED BY <1>1, TrackingInvariant, PTL

----------------------------------------------------------------------------
(***************************************************************************)
(* What the view shows is true, and somebody follows a task that is under  *)
(* way: the safety of what EndShownUnlessMisled asks for in the long run.  *)
(***************************************************************************)

\* An end that an answer reports is the end of the task it is about.
AnswersTrue ==
    \A c \in Calls :
        call[c].answer \in Terminal => status[call[c].task] = call[c].answer

\* So is an end on its way on a connection.
EventsTrue ==
    \A t \in Tasks : \A i \in 1 .. Len(buffer[t]) :
        buffer[t][i] \in Terminal => status[t] = buffer[t][i]

\* The code editor's submissions are not deduplicated: the answer to one is
\* about another task than the one shown, which exists.
NewTask ==
    /\ taskId # NoTask => status[taskId] # "none"
    /\ \A c \in Calls :
          ~StreamFirst /\ call[c].kind = "submit" /\ call[c].answer \in Statuses =>
              call[c].task # taskId

(***************************************************************************)
(* An end that is shown is the end of the task shown, unless an answer has *)
(* misled the view (applyTaskStatus, onCancelHybrid, submitTaskRequest).   *)
(***************************************************************************)
ShownEndIsTrue ==
    taskStatus \in Terminal /\ ~misled => taskId # NoTask /\ status[taskId] = taskStatus

(***************************************************************************)
(* A task shown as under way is listened to or polled, unless its answer   *)
(* is awaited or an answer has misled the view (startTracking,             *)
(* startPolling and the polling effect of useTaskRuntime).                 *)
(***************************************************************************)
Followed ==
    taskStatus \in Active /\ ~submitting /\ ~misled =>
        /\ taskId # NoTask
        /\ IF StreamFirst THEN open = {taskId} \/ timer = taskId ELSE timer = taskId

\* A task is shown together with a status of it.
StatusShown == taskId # NoTask => taskStatus \in Statuses

ViewInv == AnswersTrue /\ EventsTrue /\ NewTask /\ ShownEndIsTrue /\ Followed

\* What a step leaves of the platform's tasks: an end is final.
EndsStay ==
    \A t \in Tasks :
        /\ status[t] \in Terminal => status'[t] = status[t]
        /\ status[t] # "none" => status'[t] # "none"

LEMMA Apart == Active \cap Terminal = {} /\ "none" \notin Statuses /\ "error" \notin Statuses
BY DEF Active, Terminal, Statuses

LEMMA UnchangedEndsStay == status' = status => EndsStay
BY DEF EndsStay

LEMMA ViewInitially == Init => ViewInv
<1> SUFFICES ASSUME Init PROVE ViewInv
  OBVIOUS
<1>1. \A c \in Calls : call[c].kind = "free" /\ call[c].answer = "none"
  BY DEF Init, NoCall
<1>2. \A t \in Tasks : Len(buffer[t]) = 0
  BY DEF Init
<1>3. taskStatus = "none" /\ taskId = NoTask
  BY DEF Init
<1> QED BY <1>1, <1>2, <1>3, Apart
        DEF ViewInv, AnswersTrue, EventsTrue, NewTask, ShownEndIsTrue, Followed, Statuses

\* The answers under way stay true when one call changes, if its own is.
LEMMA AnswersKept ==
    ASSUME TrackInv, AnswersTrue, EndsStay, NEW c \in Calls,
           \A d \in Calls : d # c => call'[d] = call[d],
           call'[c].answer \in Terminal => status'[call'[c].task] = call'[c].answer
    PROVE  AnswersTrue'
<1> SUFFICES ASSUME NEW d \in Calls, call'[d].answer \in Terminal
             PROVE  status'[call'[d].task] = call'[d].answer
  BY DEF AnswersTrue
<1>1. CASE d = c
  BY <1>1
<1>2. CASE d # c
  <2>1. call'[d] = call[d]
    BY <1>2
  <2>2. call[d].task \in Tasks
    BY <2>1 DEF TrackInv, CallsKnown, Statuses
  <2> QED BY <2>1, <2>2 DEF AnswersTrue, EndsStay
<1> QED BY <1>1, <1>2

\* The events under way stay true when some are delivered or lost.
LEMMA EventsKept ==
    ASSUME EventsTrue, EndsStay,
           \A t \in Tasks : \A i \in 1 .. Len(buffer'[t]) :
               \/ status'[t] = buffer'[t][i]
               \/ \E j \in 1 .. Len(buffer[t]) : buffer[t][j] = buffer'[t][i]
    PROVE  EventsTrue'
<1> SUFFICES ASSUME NEW t \in Tasks, NEW i \in 1 .. Len(buffer'[t]), buffer'[t][i] \in Terminal
             PROVE  status'[t] = buffer'[t][i]
  BY DEF EventsTrue
<1>1. CASE \E j \in 1 .. Len(buffer[t]) : buffer[t][j] = buffer'[t][i]
  BY <1>1 DEF EventsTrue, EndsStay
<1> QED BY <1>1

LEMMA SameEvents == EventsTrue /\ EndsStay /\ buffer' = buffer => EventsTrue'
BY DEF EventsTrue, EndsStay

LEMMA DroppedEvents ==
    ASSUME EventsTrue, EndsStay, NEW t, Drop(t)
    PROVE  EventsTrue'
<1>1. buffer' = [u \in Tasks |-> IF u = t THEN << >> ELSE buffer[u]]
  BY DEF Drop
<1> SUFFICES ASSUME NEW u \in Tasks, NEW i \in 1 .. Len(buffer'[u])
             PROVE  \E j \in 1 .. Len(buffer[u]) : buffer[u][j] = buffer'[u][i]
  BY EventsKept
<1>2. CASE u = t
  <2>1. Len(buffer'[u]) = 0
    BY <1>1, <1>2
  <2> QED BY <2>1
<1>3. CASE u # t
  BY <1>1, <1>3
<1> QED BY <1>2, <1>3

\* Calls: an empty slot, or one that has just asked, reports nothing.
LEMMA AskedAnswers ==
    ASSUME TypeOK, NEW c \in Calls,
           \/ call' = [call EXCEPT ![c] = NoCall]
           \/ \E kind, t : Ask(c, kind, t)
    PROVE  /\ \A d \in Calls : d # c => call'[d] = call[d]
           /\ call'[c].answer = "none"
<1>1. call \in [Calls -> CallType]
  BY DEF TypeOK, CallType
<1>2. CASE call' = [call EXCEPT ![c] = NoCall]
  BY <1>1, <1>2 DEF NoCall
<1>3. CASE \E kind, t : Ask(c, kind, t)
  BY <1>1, <1>3 DEF Ask
<1> QED BY <1>2, <1>3

\* An existing task stays shown, and a submission under way is for another.
LEMMA NewTaskKept ==
    ASSUME NewTask, EndsStay, TypeOK, UNCHANGED <<strategy, taskId>>, NEW c \in Calls,
           \A d \in Calls : d # c => call'[d] = call[d],
           call'[c].answer = "none" \/ call'[c].answer = "error"
    PROVE  NewTask'
<1>1. taskId # NoTask => status'[taskId] # "none"
  BY DEF NewTask, EndsStay, TypeOK
<1>2. ASSUME NEW d \in Calls, ~StreamFirst, call'[d].kind = "submit", call'[d].answer \in Statuses
      PROVE  call'[d].task # taskId
  <2>1. d # c
    BY <1>2, Apart
  <2> QED BY <1>2, <2>1 DEF NewTask
<1> QED BY <1>1, <1>2 DEF NewTask, StreamFirst

\* In the workbench, somebody follows the task shown when the mode says so.
LEMMA FollowedByMode ==
    ASSUME TypeOK, SourcesAgree, StreamFirst, taskId # NoTask
    PROVE  (open = {taskId} \/ timer = taskId) <=> mode # "idle"
BY DEF TypeOK, SourcesAgree

LEMMA ThenFollowed ==
    ASSUME TrackInv', StreamFirst', (taskId # NoTask)', (mode # "idle")'
    PROVE  Followed'
<1>1. (open = {taskId} \/ timer = taskId)'
  BY DEF TrackInv, TypeOK, SourcesAgree
<1> QED BY <1>1 DEF Followed

\* A step that leaves the view and its tracking alone.
LEMMA SameView ==
    ASSUME ViewInv, TypeOK, EndsStay,
           UNCHANGED <<strategy, taskId, taskStatus, submitting, timer, open, misled>>
    PROVE  ShownEndIsTrue' /\ Followed'
<1>1. ShownEndIsTrue'
  BY DEF ViewInv, ShownEndIsTrue, EndsStay, TypeOK
<1>2. Followed'
  BY DEF ViewInv, Followed, StreamFirst
<1> QED BY <1>1, <1>2

----------------------------------------------------------------------------
(* The steps, for what the view shows. *)

LEMMA ViewPlatform ==
    ASSUME TrackInv, ViewInv, NEW t \in Tasks, Start(t) \/ End(t) \/ StreamPoll(t)
    PROVE  ViewInv'
<1>1. EndsStay
  BY OutcomesAssumption, Apart DEF Start, End, StreamPoll, EndsStay, TrackInv, TypeOK, Active, Terminal
<1>2. UNCHANGED <<strategy, taskId, taskStatus, submitting, timer, open, call, misled>>
  BY DEF Start, End, StreamPoll, streamVars
<1>3. ShownEndIsTrue' /\ Followed'
  BY <1>1, <1>2, SameView DEF TrackInv
<1>4. AnswersTrue'
  <2> SUFFICES ASSUME NEW c \in Calls, call[c].answer \in Terminal
               PROVE  status'[call[c].task] = call[c].answer
    BY <1>2 DEF AnswersTrue
  <2>1. call[c].task \in Tasks
    BY DEF TrackInv, CallsKnown, Statuses
  <2> QED BY <1>1, <2>1 DEF ViewInv, AnswersTrue, EndsStay
<1>5. NewTask'
  BY <1>1, <1>2 DEF ViewInv, NewTask, EndsStay, StreamFirst, TrackInv, TypeOK
<1>6. EventsTrue'
  <2>1. CASE buffer' = buffer
    BY <1>1, <2>1, SameEvents DEF ViewInv
  <2>2. CASE StreamPoll(t)
    <3> DEFINE q == buffer[t]
               e == status[t]
    <3>1. status' = status /\ buffer' = [buffer EXCEPT ![t] = Append(q, e)]
      BY <2>2 DEF StreamPoll
    <3>2. q \in Seq(Statuses) /\ e \in Statuses
      BY <2>2 DEF StreamPoll, TrackInv, TypeOK, OneConnection
    <3>3. buffer'[t] = Append(q, e) /\ \A u \in Tasks : u # t => buffer'[u] = buffer[u]
      BY <3>1 DEF TrackInv, TypeOK
    <3>4. \A i \in 1 .. Len(Append(q, e)) :
              Append(q, e)[i] = e \/ \E j \in 1 .. Len(q) : q[j] = Append(q, e)[i]
      <4> HIDE DEF q, e
      <4> QED BY <3>2
    <3> QED BY <1>1, <3>1, <3>3, <3>4, EventsKept DEF ViewInv
  <2> QED BY <2>1, <2>2 DEF Start, End, streamVars
<1> QED BY <1>3, <1>4, <1>5, <1>6 DEF ViewInv

\* What a call does on the server ends no task that has ended.
LEMMA EffectEndsStay ==
    ASSUME TrackInv, NEW c \in Calls, NEW t \in Tasks, Effect(c, t)
    PROVE  EndsStay
BY Apart DEF Effect, TrackInv, TypeOK, EndsStay, Active, Terminal

LEMMA ViewCalls ==
    ASSUME TrackInv, ViewInv, NEW c \in Calls, Serve(c) \/ CallFails(c)
    PROVE  ViewInv'
<1>1. UNCHANGED <<strategy, taskId, taskStatus, submitting, timer, open, buffer, misled>>
  BY DEF Serve, CallFails, streamVars
<1>2. call \in [Calls -> CallType]
  BY DEF TrackInv, TypeOK, CallType
<1>3. EndsStay
  <2>1. CASE \E t \in Tasks : Effect(c, t)
    BY <2>1, EffectEndsStay
  <2>2. CASE UNCHANGED status
    BY <2>2, UnchangedEndsStay
  <2> QED BY <2>1, <2>2 DEF Serve, CallFails
<1>4. ShownEndIsTrue' /\ Followed' /\ EventsTrue'
  BY <1>1, <1>3, SameView, SameEvents DEF TrackInv, ViewInv
<1>5. CASE Serve(c)
  <2>1. PICK t \in Tasks :
           /\ Effect(c, t)
           /\ call' = [call EXCEPT ![c].task = t, ![c].answer = status'[t]]
    BY <1>5 DEF Serve
  <2>2. /\ call'[c].kind = call[c].kind /\ call'[c].task = t /\ call'[c].answer = status'[t]
        /\ \A d \in Calls : d # c => call'[d] = call[d]
    BY <1>2, <2>1 DEF CallType
  <2>3. AnswersTrue'
    BY <1>3, <2>2, AnswersKept DEF ViewInv
  <2>4. ASSUME ~StreamFirst, call[c].kind = "submit" PROVE t # taskId
    BY <2>1, <2>4, TasksAssumption DEF Effect, ViewInv, NewTask
  <2>5. NewTask'
    <3>1. taskId # NoTask => status'[taskId] # "none"
      BY <1>3 DEF ViewInv, NewTask, EndsStay, TrackInv, TypeOK
    <3>2. ASSUME NEW d \in Calls, ~StreamFirst, call'[d].kind = "submit", call'[d].answer \in Statuses
          PROVE  call'[d].task # taskId
      BY <2>2, <2>4, <3>2 DEF ViewInv, NewTask
    <3> QED BY <1>1, <3>1, <3>2 DEF NewTask, StreamFirst
  <2> QED BY <1>4, <2>3, <2>5 DEF ViewInv
<1>6. CASE CallFails(c)
  <2>1. call'[c].answer = "error" /\ \A d \in Calls : d # c => call'[d] = call[d]
    BY <1>2, <1>6 DEF CallFails, CallType
  <2>2. "error" \notin Terminal
    BY DEF Terminal
  <2>3. AnswersTrue' /\ NewTask'
    BY <1>1, <1>3, <2>1, <2>2, AnswersKept, NewTaskKept DEF ViewInv, TrackInv
  <2> QED BY <1>4, <2>3 DEF ViewInv
<1> QED BY <1>5, <1>6

\* A slot that asks or is emptied says nothing false.
LEMMA AnswersWithout ==
    ASSUME TrackInv, ViewInv, status' = status, NEW c \in Calls,
           \/ call' = [call EXCEPT ![c] = NoCall]
           \/ \E kind, t : Ask(c, kind, t)
    PROVE  AnswersTrue' /\ (UNCHANGED <<strategy, taskId>> => NewTask')
<1>1. EndsStay
  BY UnchangedEndsStay
<1>2. "none" \notin Terminal
  BY DEF Terminal
<1>3. /\ \A d \in Calls : d # c => call'[d] = call[d]
      /\ call'[c].answer = "none"
  BY AskedAnswers DEF TrackInv
<1> QED BY <1>1, <1>2, <1>3, AnswersKept, NewTaskKept DEF TrackInv, ViewInv

LEMMA ViewAsks ==
    ASSUME TrackInv, ViewInv, NEW c \in Calls, PollTick(c) \/ Refresh(c) \/ Cancel(c)
    PROVE  ViewInv'
<1>1. UNCHANGED <<status, strategy, taskId, taskStatus, submitting, timer, open, buffer, misled>>
  BY DEF PollTick, Refresh, Cancel, streamVars
<1>2. \E kind, t : Ask(c, kind, t)
  BY DEF PollTick, Refresh, Cancel
<1> QED BY <1>1, <1>2, AnswersWithout, SameView, SameEvents, UnchangedEndsStay DEF ViewInv, TrackInv

\* A submission shows nothing new and is followed when it is answered.
LEMMA ViewSubmit ==
    ASSUME TrackInv, ViewInv, NEW c \in Calls, Submit(c)
    PROVE  ViewInv'
<1>1. submitting' /\ UNCHANGED <<status, strategy, taskId, taskStatus, misled>>
  BY DEF Submit
<1>2. \E kind, t : Ask(c, kind, t)
  BY DEF Submit
<1>3. AnswersTrue' /\ NewTask'
  BY <1>1, <1>2, AnswersWithout
<1>4. EventsTrue'
  <2>1. buffer' = buffer \/ \E t : Drop(t)
    BY DEF Submit, StopTracking, StopStream, streamVars
  <2> QED BY <1>1, <2>1, SameEvents, DroppedEvents, UnchangedEndsStay DEF ViewInv
<1>5. ShownEndIsTrue' /\ Followed'
  BY <1>1 DEF ViewInv, ShownEndIsTrue, Followed
<1> QED BY <1>3, <1>4, <1>5 DEF ViewInv

(***************************************************************************)
(* What a polling-only view shows of a task it did not show like that      *)
(* before is what it follows.                                              *)
(***************************************************************************)
LEMMA PolledIsFollowed ==
    ASSUME NEW c \in Calls, NEW t \in Tasks, NEW st, ShowPolled(c, t, st), ~StreamFirst,
           strategy' = strategy,
           (t = taskId /\ st = taskStatus /\ st \in Active) => timer = taskId
    PROVE  Followed'
<1>1. taskId' = t /\ taskStatus' = st /\ t # NoTask
  BY TasksAssumption DEF ShowPolled
<1>2. ASSUME st \in Active PROVE timer' = t
  <2>1. CASE t = taskId /\ st = taskStatus
    BY <1>1, <1>2, <2>1 DEF ShowPolled, PollingEffect
  <2>2. CASE ~(t = taskId /\ st = taskStatus)
    BY <1>1, <1>2, <2>2 DEF ShowPolled, PollingEffect
  <2> QED BY <2>1, <2>2
<1> QED BY <1>1, <1>2 DEF Followed, StreamFirst

\* The call slot of an answer that is shown reports nothing afterwards.
LEMMA ShownAnswers ==
    ASSUME TrackInv, ViewInv, status' = status, NEW c \in Calls, NEW t, NEW st,
           ShowPolled(c, t, st)
    PROVE  /\ AnswersTrue'
           /\ \A d \in Calls : d # c => call'[d] = call[d]
           /\ call'[c].answer = "none"
<1>1. \/ call' = [call EXCEPT ![c] = NoCall]
      \/ \E kind, u : Ask(c, kind, u)
  BY DEF ShowPolled, ResultEffect
<1> QED BY <1>1, AnswersWithout, AskedAnswers DEF TrackInv

LEMMA ViewSubmitAnswered ==
    ASSUME TrackInv, TrackInv', ViewInv, NEW c \in Calls, SubmitAnswered(c)
    PROVE  ViewInv'
<1> DEFINE t == call[c].task
           st == call[c].answer
<1>1. /\ misled' = FALSE /\ st \in Statuses /\ t \in Tasks /\ status[t] # "none"
      /\ status' = status /\ strategy' = strategy /\ t # NoTask
      /\ \A d \in Calls : call[d].kind = "submit" => d = c
      /\ st \in Terminal => status[t] = st
      /\ ~StreamFirst => t # taskId
  BY TasksAssumption DEF SubmitAnswered, TrackInv, CallsKnown, SubmitsAlone, ViewInv, AnswersTrue, NewTask
<1>2. CASE StreamFirst
  <2>1. /\ taskId' = t /\ taskStatus' = st /\ StartTracking(t, st)
        /\ call' = [call EXCEPT ![c] = NoCall]
    BY <1>2 DEF SubmitAnswered
  <2> HIDE DEF t, st
  <2>2. AnswersTrue'
    BY <1>1, <2>1, AnswersWithout
  <2>3. EventsTrue'
    <3>1. buffer' = buffer \/ \E u : Drop(u)
      BY <2>1 DEF StartTracking, StopTracking, StopStream
    <3> QED BY <1>1, <3>1, SameEvents, DroppedEvents, UnchangedEndsStay DEF ViewInv
  <2>4. NewTask' /\ ShownEndIsTrue'
    BY <1>1, <1>2, <2>1 DEF NewTask, ShownEndIsTrue, StreamFirst
  <2>5. Followed'
    <3>1. CASE st \in Terminal
      BY <2>1, <3>1, Apart DEF Followed
    <3>2. CASE st \notin Terminal
      <4>1. mode' # "idle"
        BY <2>1, <3>2 DEF StartTracking
      <4> QED BY <1>1, <1>2, <2>1, <4>1, ThenFollowed DEF StreamFirst
    <3> QED BY <3>1, <3>2
  <2> QED BY <2>2, <2>3, <2>4, <2>5 DEF ViewInv
<1>3. CASE ~StreamFirst
  <2>1. ShowPolled(c, t, st)
    BY <1>3 DEF SubmitAnswered
  <2> HIDE DEF t, st
  <2>2. taskId' = t /\ taskStatus' = st /\ buffer' = buffer
    BY <2>1 DEF ShowPolled, streamVars
  <2>3. EventsTrue'
    BY <1>1, <2>2, SameEvents, UnchangedEndsStay DEF ViewInv
  <2>4. /\ AnswersTrue' /\ call'[c].answer = "none"
        /\ \A d \in Calls : d # c => call'[d] = call[d]
    BY <1>1, <2>1, ShownAnswers
  <2>5. NewTask'
    BY <1>1, <2>2, <2>4, Apart DEF NewTask
  <2>6. ShownEndIsTrue'
    BY <1>1, <2>2 DEF ShownEndIsTrue
  <2>7. Followed'
    BY <1>1, <1>3, <2>1, PolledIsFollowed
  <2> QED BY <2>3, <2>4, <2>5, <2>6, <2>7 DEF ViewInv
<1> QED BY <1>2, <1>3

\* A rejected submission leaves a task under way with nobody to follow it,
\* which counts as misled.
LEMMA ViewSubmitRejected ==
    ASSUME TrackInv, ViewInv, NEW c \in Calls, SubmitRejected(c)
    PROVE  ViewInv'
<1>1. /\ call' = [call EXCEPT ![c] = NoCall]
      /\ misled' = (misled \/ taskStatus \in Active)
      /\ UNCHANGED <<status, strategy, taskId, taskStatus>>
  BY DEF SubmitRejected
<1>2. AnswersTrue' /\ NewTask'
  BY <1>1, AnswersWithout
<1>3. EventsTrue'
  <2>1. buffer' = buffer \/ \E t : Drop(t)
    BY DEF SubmitRejected, StopTracking, StopStream, streamVars
  <2> QED BY <1>1, <2>1, SameEvents, DroppedEvents, UnchangedEndsStay DEF ViewInv
<1>4. ShownEndIsTrue' /\ Followed'
  BY <1>1 DEF ViewInv, ShownEndIsTrue, Followed
<1> QED BY <1>2, <1>3, <1>4 DEF ViewInv

LEMMA ViewStatusAnswered ==
    ASSUME TrackInv, TrackInv', StatusShown, ViewInv, NEW c \in Calls, StatusAnswered(c)
    PROVE  ViewInv'
<1> DEFINE st == call[c].answer
<1>1. /\ st \in Statuses /\ taskId \in Tasks /\ taskId # NoTask
      /\ UNCHANGED <<status, strategy, submitting>>
      /\ misled' = (misled \/ Misleading(call[c].task, st))
      /\ st \in Terminal => status[call[c].task] = st
  BY DEF StatusAnswered, TrackInv, TypeOK, CallsKnown, ViewInv, AnswersTrue
<1>2. ~misled' => ~misled /\ call[c].task = taskId /\ (taskStatus \in Terminal => st \notin Active)
  BY <1>1 DEF Misleading
<1>3. taskId' = taskId /\ taskStatus' = st
  BY DEF StatusAnswered, ApplyTaskStatus, ShowPolled
<1>4. ShownEndIsTrue'
  BY <1>1, <1>2, <1>3 DEF ShownEndIsTrue
<1>5. EventsTrue'
  <2>1. buffer' = buffer \/ \E t : Drop(t)
    BY DEF StatusAnswered, ApplyTaskStatus, StopTracking, StopStream, ShowPolled, streamVars
  <2> QED BY <1>1, <2>1, SameEvents, DroppedEvents, UnchangedEndsStay DEF ViewInv
<1>6. ASSUME ~misled', st \in Active PROVE taskStatus \in Active
  BY <1>1, <1>2, <1>6 DEF StatusShown, Statuses
<1>7. CASE StreamFirst
  <2>1. ApplyTaskStatus(st) /\ call' = [call EXCEPT ![c] = NoCall]
    BY <1>7 DEF StatusAnswered
  <2> HIDE DEF st
  <2>2. AnswersTrue' /\ NewTask'
    BY <1>1, <1>3, <2>1, AnswersWithout
  <2>3. Followed'
    <3> SUFFICES ASSUME st \in Active, ~submitting, ~misled' PROVE Followed'
      BY <1>1, <1>3 DEF Followed
    <3>1. taskStatus \in Active
      BY <1>6
    <3>2. mode # "idle"
      BY <1>1, <1>2, <1>7, <3>1, FollowedByMode DEF ViewInv, Followed, TrackInv
    <3>3. mode' = mode
      BY <2>1, Apart DEF ApplyTaskStatus
    <3> QED BY <1>1, <1>3, <1>7, <3>2, <3>3, ThenFollowed DEF StreamFirst
  <2> QED BY <1>4, <1>5, <2>2, <2>3 DEF ViewInv
<1>8. CASE ~StreamFirst
  <2>1. ShowPolled(c, taskId, st)
    BY <1>8 DEF StatusAnswered
  <2> HIDE DEF st
  <2>2. /\ AnswersTrue' /\ call'[c].answer = "none"
        /\ \A d \in Calls : d # c => call'[d] = call[d]
    BY <1>1, <2>1, ShownAnswers
  <2>3. NewTask'
    BY <1>1, <1>3, <2>2, Apart DEF ViewInv, NewTask, StreamFirst
  <2>4. Followed'
    <3> SUFFICES ASSUME ~submitting, ~misled' PROVE Followed'
      BY <1>1 DEF Followed
    <3>1. taskStatus \in Active => timer = taskId
      BY <1>2, <1>8 DEF ViewInv, Followed
    <3> QED BY <1>1, <1>8, <2>1, <3>1, PolledIsFollowed
  <2> QED BY <1>4, <1>5, <2>2, <2>3, <2>4 DEF ViewInv
<1> QED BY <1>7, <1>8

\* Errors leave what is shown; CANCELLED is true or counts as misled.
LEMMA ViewOtherAnswers ==
    ASSUME TrackInv, ViewInv, NEW c \in Calls, StatusRejected(c) \/ CancelAnswered(c)
    PROVE  ViewInv'
<1>1. /\ call' = [call EXCEPT ![c] = NoCall]
      /\ UNCHANGED <<status, strategy, taskId, submitting, timer, open, buffer>>
  BY DEF StatusRejected, CancelAnswered, streamVars
<1>2. AnswersTrue' /\ NewTask' /\ EventsTrue'
  BY <1>1, AnswersWithout, SameEvents, UnchangedEndsStay DEF ViewInv
<1>3. CASE UNCHANGED <<taskStatus, misled>>
  <2>1. ShownEndIsTrue' /\ Followed'
    BY <1>1, <1>3, SameView, UnchangedEndsStay DEF TrackInv
  <2> QED BY <1>2, <2>1 DEF ViewInv
<1>4. CASE CancelAnswered(c)
  <2>1. /\ taskStatus' = "CANCELLED" /\ call[c].answer \in Statuses /\ taskId # NoTask
        /\ misled' = (misled \/ call[c].task # taskId \/ call[c].answer # "CANCELLED")
    BY <1>4 DEF CancelAnswered, TrackInv, CallsKnown
  <2>2. "CANCELLED" \in Terminal /\ "CANCELLED" \notin Active
    BY DEF Terminal, Active
  <2>3. Followed'
    BY <2>1, <2>2 DEF Followed
  <2>4. ShownEndIsTrue'
    BY <1>1, <2>1, <2>2 DEF ShownEndIsTrue, ViewInv, AnswersTrue
  <2> QED BY <1>2, <2>3, <2>4 DEF ViewInv
<1> QED BY <1>3, <1>4 DEF StatusRejected

LEMMA ViewStreamEvent ==
    ASSUME TrackInv, TrackInv', ViewInv, NEW t \in Tasks, StreamEvent(t)
    PROVE  ViewInv'
<1> DEFINE st == Head(buffer[t])
<1>1. /\ StreamFirst /\ tracked = t /\ taskId = t /\ t # NoTask /\ mode # "idle"
      /\ UNCHANGED <<status, strategy, taskId, submitting, call, misled>>
  BY TasksAssumption DEF StreamEvent, TrackInv, SourcesAgree
<1>2. PICK q \in Seq(Statuses) : /\ q = buffer[t] /\ Len(q) > 0 /\ st = q[1] /\ st \in Statuses
                                 /\ Len(Tail(q)) = Len(q) - 1
                                 /\ \A i \in 1 .. Len(Tail(q)) : Tail(q)[i] = q[i + 1]
  <2>1. buffer[t] \in Seq(Statuses) /\ buffer[t] # << >>
    BY DEF StreamEvent, TrackInv, TypeOK
  <2>2. ASSUME NEW q \in Seq(Statuses), q # << >>
        PROVE  /\ Len(q) > 0 /\ Head(q) = q[1] /\ Head(q) \in Statuses
               /\ Len(Tail(q)) = Len(q) - 1
               /\ \A i \in 1 .. Len(Tail(q)) : Tail(q)[i] = q[i + 1]
    BY <2>2
  <2> QED BY <2>1, <2>2
<1>3. st \in Terminal => status[t] = st
  BY <1>2 DEF ViewInv, EventsTrue
<1>4. taskStatus' = st
  BY <1>1 DEF StreamEvent, ApplyTaskStatus
<1>5. AnswersTrue' /\ NewTask'
  BY <1>1 DEF ViewInv, AnswersTrue, NewTask, StreamFirst
<1>6. ShownEndIsTrue'
  BY <1>1, <1>3, <1>4 DEF ShownEndIsTrue
<1>7. CASE st \in Terminal /\ ApplyTaskStatus(st)
  <2>1. EventsTrue'
    <3>1. Drop(stream)
      BY <1>7 DEF ApplyTaskStatus, StopTracking, StopStream
    <3> QED BY <1>1, <3>1, DroppedEvents, UnchangedEndsStay DEF ViewInv
  <2>2. Followed'
    BY <1>4, <1>7, Apart DEF Followed
  <2> QED BY <1>5, <1>6, <2>1, <2>2 DEF ViewInv
<1>8. CASE st \notin Terminal /\ buffer' = [buffer EXCEPT ![t] = Tail(@)] /\ mode' = mode
  <2> HIDE DEF st
  <2>1. EventsTrue'
    <3>1. buffer'[t] = Tail(q) /\ \A u \in Tasks : u # t => buffer'[u] = buffer[u]
      BY <1>2, <1>8 DEF TrackInv, TypeOK
    <3>2. \A i \in 1 .. Len(Tail(q)) : \E j \in 1 .. Len(q) : q[j] = Tail(q)[i]
      BY <1>2
    <3>3. \A u \in Tasks : \A i \in 1 .. Len(buffer'[u]) :
             \E j \in 1 .. Len(buffer[u]) : buffer[u][j] = buffer'[u][i]
      <4> SUFFICES ASSUME NEW u \in Tasks, NEW i \in 1 .. Len(buffer'[u])
                   PROVE  \E j \in 1 .. Len(buffer[u]) : buffer[u][j] = buffer'[u][i]
        OBVIOUS
      <4>1. CASE u = t
        <5>1. buffer[u] = q /\ buffer'[u] = Tail(q)
          BY <1>2, <3>1, <4>1
        <5> QED BY <3>2, <5>1, Zenon
      <4>2. CASE u # t
        <5>1. buffer'[u] = buffer[u]
          BY <3>1, <4>2
        <5> QED BY <5>1, Zenon
      <4> QED BY <4>1, <4>2
    <3> QED BY <1>1, <3>3, EventsKept, UnchangedEndsStay DEF ViewInv
  <2>2. Followed'
    BY <1>1, <1>8, ThenFollowed DEF StreamFirst
  <2> QED BY <1>5, <1>6, <2>1, <2>2 DEF ViewInv
<1> QED BY <1>1, <1>7, <1>8 DEF StreamEvent

\* Polling takes over from the connection that ends.
LEMMA ViewStreamEnds ==
    ASSUME TrackInv, TrackInv', ViewInv, NEW t \in Tasks, StreamEnds(t)
    PROVE  ViewInv'
<1>1. /\ StreamFirst /\ tracked = t /\ latest \in Active /\ taskId = t /\ t # NoTask
  BY TasksAssumption DEF StreamEnds, TrackInv, SourcesAgree
<1>2. /\ Drop(t) /\ mode' = "polling"
      /\ UNCHANGED <<status, strategy, taskId, taskStatus, submitting, misled>>
  BY <1>1 DEF StreamEnds
<1>3. PICK c \in Calls : Ask(c, "status", t)
  BY <1>1 DEF StreamEnds
<1>4. AnswersTrue' /\ NewTask'
  BY <1>2, <1>3, AnswersWithout
<1>5. EventsTrue'
  BY <1>2, DroppedEvents, UnchangedEndsStay DEF ViewInv
<1>6. ShownEndIsTrue'
  BY <1>2 DEF ViewInv, ShownEndIsTrue
<1>7. Followed'
  BY <1>1, <1>2, ThenFollowed DEF StreamFirst
<1> QED BY <1>4, <1>5, <1>6, <1>7 DEF ViewInv

----------------------------------------------------------------------------
LEMMA StatusShownKept ==
    ASSUME TrackInv, StatusShown, [Next]_vars
    PROVE  StatusShown'
<1>1. CASE UNCHANGED <<taskId, taskStatus>>
  BY <1>1 DEF StatusShown
<1>2. CASE \E t \in Tasks : StreamEvent(t) /\ tracked = t
  <2>1. PICK t \in Tasks : StreamEvent(t) /\ tracked = t
    BY <1>2
  <2>2. Head(buffer[t]) \in Statuses
    <3>1. ASSUME NEW q \in Seq(Statuses), q # << >> PROVE Head(q) \in Statuses
      BY <3>1
    <3> QED BY <2>1, <3>1 DEF StreamEvent, TrackInv, TypeOK
  <2>3. taskStatus' = Head(buffer[t])
    BY <2>1 DEF StreamEvent, ApplyTaskStatus
  <2> QED BY <2>2, <2>3 DEF StatusShown
<1>3. CASE \E c \in Calls : SubmitAnswered(c) \/ StatusAnswered(c)
  BY <1>3 DEF SubmitAnswered, StatusAnswered, ApplyTaskStatus, ShowPolled, StatusShown
<1>4. CASE \E c \in Calls : CancelAnswered(c)
  BY <1>4 DEF CancelAnswered, StatusShown, Statuses, Terminal
<1>5. CASE \E t \in Tasks : Start(t) \/ End(t) \/ StreamPoll(t) \/ StreamEnds(t)
  BY <1>1, <1>5 DEF Start, End, StreamPoll, StreamEnds
<1>6. CASE \E t \in Tasks : StreamEvent(t) /\ tracked # t
  BY <1>1, <1>6 DEF StreamEvent
<1>7. CASE \E c \in Calls : Serve(c) \/ CallFails(c) \/ PollTick(c) \/ Refresh(c) \/ Cancel(c)
  BY <1>1, <1>7 DEF Serve, CallFails, PollTick, Refresh, Cancel
<1>8. CASE \E c \in Calls : Submit(c) \/ SubmitRejected(c) \/ StatusRejected(c)
  BY <1>1, <1>8 DEF Submit, SubmitRejected, StatusRejected
<1> QED BY <1>1, <1>2, <1>3, <1>4, <1>5, <1>6, <1>7, <1>8 DEF Next, vars

\* Every step keeps what the view shows true and followed.
LEMMA ViewPreserved ==
    ASSUME TrackInv, TrackInv', StatusShown, ViewInv, [Next]_vars
    PROVE  ViewInv'
<1>1. CASE \E t \in Tasks : Start(t) \/ End(t) \/ StreamPoll(t)
  BY <1>1, ViewPlatform
<1>2. CASE \E t \in Tasks : StreamEvent(t)
  BY <1>2, ViewStreamEvent
<1>3. CASE \E t \in Tasks : StreamEnds(t)
  BY <1>3, ViewStreamEnds
<1>4. CASE \E c \in Calls : Serve(c) \/ CallFails(c)
  BY <1>4, ViewCalls
<1>5. CASE \E c \in Calls : Submit(c)
  BY <1>5, ViewSubmit
<1>6. CASE \E c \in Calls : SubmitAnswered(c)
  BY <1>6, ViewSubmitAnswered
<1>7. CASE \E c \in Calls : SubmitRejected(c)
  BY <1>7, ViewSubmitRejected
<1>8. CASE \E c \in Calls : PollTick(c) \/ Refresh(c) \/ Cancel(c)
  BY <1>8, ViewAsks
<1>9. CASE \E c \in Calls : StatusAnswered(c)
  BY <1>9, ViewStatusAnswered
<1>10. CASE \E c \in Calls : StatusRejected(c) \/ CancelAnswered(c)
  BY <1>10, ViewOtherAnswers
<1>11. CASE UNCHANGED vars
  BY <1>11 DEF vars, trackVars, streamVars, ViewInv, AnswersTrue, EventsTrue, NewTask,
               ShownEndIsTrue, Followed, StreamFirst
<1> QED BY <1>1, <1>2, <1>3, <1>4, <1>5, <1>6, <1>7, <1>8, <1>9, <1>10, <1>11 DEF Next

LEMMA ViewInvariant == Spec => [](StatusShown /\ ViewInv)
<1>1. Init => StatusShown /\ ViewInv
  BY ViewInitially DEF Init, StatusShown
<1>2. TrackInv /\ TrackInv' /\ StatusShown /\ ViewInv /\ [Next]_vars => (StatusShown /\ ViewInv)'
  BY StatusShownKept, ViewPreserved
<1> QED BY <1>1, <1>2, TrackingInvariant, PTL DEF Spec

(***************************************************************************)
(* An end the browser shows is the end its task came to, whichever of      *)
(* stream, poll, refresh and cancel brought it, unless an answer about     *)
(* another task or one older than the end misled the view                  *)
(* (use-task-status-tracking.ts, use-task-runtime.ts).                     *)
(***************************************************************************)
THEOREM EndsShownAreTrue == Spec => []ShownEndIsTrue
<1>1. ViewInv => ShownEndIsTrue
  BY DEF ViewInv
<1> QED BY <1>1, ViewInvariant, PTL

(***************************************************************************)
(* A task shown as under way is never left without a source of its next    *)
(* status: its connection is open or its polling timer runs, through       *)
(* failing calls and ending streams, unless a submission is under way or   *)
(* an answer misled the view. With it, and the fairness of the timers and  *)
(* the event loop, an end reaches the browser.                             *)
(***************************************************************************)
THEOREM ActiveTaskIsFollowed == Spec => []Followed
<1>1. ViewInv => Followed
  BY DEF ViewInv
<1> QED BY <1>1, ViewInvariant, PTL

=============================================================================
