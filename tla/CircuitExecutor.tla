--------------------------- MODULE CircuitExecutor ---------------------------
(***************************************************************************)
(* The circuit worker's pool of hot executors and the heartbeat that       *)
(* announces it.  The pool keeps child processes that wait on a pipe for   *)
(* circuits.  The worker runs one task at a time (celery --pool=solo); a   *)
(* child may die at any moment, and the system may refuse to start one.    *)
(***************************************************************************)
EXTENDS Integers, Sequences, SequencesExt

CONSTANTS
    PoolSize,   \* settings.circuit_exec_pool_size
    MaxExecutions,   \* bound: calls of pool.execute
    MaxBoots,   \* bound: starts of the worker process
    Ttl         \* heartbeat TTL in heartbeat periods (30 s / 10 s)

ASSUME CircuitExecutorAssumption ==
    /\ PoolSize \in Nat \ {0}
    /\ MaxExecutions \in Nat /\ MaxBoots \in Nat /\ Ttl \in Nat \ {0, 1}

VARIABLES
    up,       \* the worker process runs
    phase,    \* where its only thread is: idle, or a step of start / execute
    slot,     \* the executor it is at
    call,     \* the call it makes; 0: it warms the pool up
    calls,    \* calls made so far
    turn,     \* CircuitHotExecutorPool._index
    hot,      \* the executors: child process, its job, the open pipe, direct mode
    answers,  \* how every call ended, and for whom the child computed
    beating,  \* the heartbeat thread is alive
    age,      \* periods since the heartbeat key was set; Ttl: it is gone
    boots

ceVars == <<up, phase, slot, call, calls, turn, hot, answers, beating, age, boots>>

Executors == 1 .. PoolSize
Phases == {"idle", "start", "init", "send", "poll", "direct"}
Cold == [process |-> "none", job |-> 0, pipe |-> <<>>, direct |-> FALSE]
Answer(kind, who) == [kind |-> kind, of |-> who]
Pending == Answer("pending", 0)
Message(ok, of) == [ok |-> ok, of |-> of]

Alive(w) == hot[w].process \in {"loading", "ready", "computing"}
Usable(w) == hot[w].direct \/ Alive(w)
Available == age < Ttl

CeInit ==
    /\ up = FALSE /\ phase = "idle" /\ slot = 1 /\ call = 0 /\ calls = 0 /\ turn = 1
    /\ hot = [w \in Executors |-> Cold] /\ answers = [r \in 1 .. MaxExecutions |-> Pending]
    /\ beating = FALSE /\ age = Ttl /\ boots = 0

(***************************************************************************)
(* How a step of the thread goes on.  Closing an executor drops its pipe,  *)
(* so that what the child still writes is lost with it.                    *)
(***************************************************************************)
\* Faulty variant: the child and its pipe stay in use.
ClosedKeepingChild(e) == e

Closed(e) == [e EXCEPT !.process = "none", !.job = 0, !.pipe = <<>>]
Close(w) == hot' = [hot EXCEPT ![w] = Closed(@)]

Ends(kind, who) ==
    /\ phase' = "idle"
    /\ answers' = IF call = 0 THEN answers ELSE [answers EXCEPT ![call] = Answer(kind, who)]
    /\ UNCHANGED <<slot, call, beating>>

\* start() returned: the warm-up turns to the next executor or to the
\* heartbeat, a call sends its circuit or runs it in this process.
Started ==
    /\ UNCHANGED <<call, answers>>
    /\ \/ /\ call = 0 /\ slot < PoolSize
          /\ phase' = "start" /\ slot' = slot + 1 /\ UNCHANGED beating
       \/ /\ call = 0 /\ slot = PoolSize
          /\ phase' = "idle" /\ beating' = TRUE /\ UNCHANGED slot
       \/ /\ call # 0
          /\ phase' = IF hot[slot].direct THEN "direct" ELSE "send"
          /\ UNCHANGED <<slot, beating>>

Steps(p) == up /\ phase = p /\ UNCHANGED <<up, calls, turn, age, boots>>

(***************************************************************************)
(* The worker: warm-up on worker_ready, one call at a time, shutdown.      *)
(***************************************************************************)
Boot ==
    /\ ~up /\ boots < MaxBoots
    /\ up' = TRUE /\ boots' = boots + 1
    /\ phase' = "start" /\ call' = 0 /\ slot' = 1 /\ turn' = 1
    /\ UNCHANGED <<calls, hot, answers, beating, age>>

\* Faulty variant: the turn goes past the last executor.
NextTurnUnwrapped(w) == w + 1

NextTurn(w) == (w % PoolSize) + 1
Call ==
    /\ up /\ phase = "idle" /\ calls < MaxExecutions
    /\ calls' = calls + 1 /\ call' = calls + 1
    /\ slot' = turn /\ turn' = NextTurn(turn)
    /\ phase' = "start"
    /\ UNCHANGED <<up, hot, answers, beating, age, boots>>

Stops ==
    /\ up' = FALSE /\ phase' = "idle" /\ call' = 0 /\ beating' = FALSE
    /\ hot' = [w \in Executors |-> Cold]
    /\ UNCHANGED <<slot, calls, turn, answers, age, boots>>

Shutdown == up /\ phase = "idle" /\ Stops
Crash == up /\ phase # "idle" /\ Stops

StartUsable == Steps("start") /\ Usable(slot) /\ Started /\ UNCHANGED hot
StartChild ==
    /\ Steps("start") /\ ~Usable(slot)
    /\ phase' = "init"
    /\ hot' = [hot EXCEPT ![slot] = [Cold EXCEPT !.process = "loading"]]
    /\ UNCHANGED <<slot, call, answers, beating>>
\* No process can be created: from now on circuits run in the worker itself.
StartRefused ==
    /\ Steps("start") /\ ~Usable(slot)
    /\ hot' = [hot EXCEPT ![slot] = [Cold EXCEPT !.direct = TRUE]]
    /\ phase' = "start"
    /\ UNCHANGED <<slot, call, answers, beating>>

InitAnswer ==
    /\ Steps("init") /\ hot[slot].pipe # <<>>
    /\ IF Head(hot[slot].pipe).ok
       THEN hot' = [hot EXCEPT ![slot].pipe = Tail(@)] /\ Started
       ELSE Close(slot) /\ Ends("error", 0)
\* While it waits the worker holds the child's end too: a child that dies
\* without a word is noticed by the time limit.
InitTimeout == Steps("init") /\ hot[slot].pipe = <<>> /\ Close(slot) /\ Ends("error", 0)

Send ==
    /\ Steps("send") /\ Alive(slot)
    /\ hot' = [hot EXCEPT ![slot] = [@ EXCEPT !.process = "computing", !.job = call]]
    /\ phase' = "poll" /\ UNCHANGED <<slot, call, answers, beating>>
SendFails == Steps("send") /\ ~Alive(slot) /\ Ends("error", 0) /\ UNCHANGED hot

Receive ==
    /\ Steps("poll") /\ hot[slot].pipe # <<>>
    /\ hot' = [hot EXCEPT ![slot].pipe = Tail(@)]
    /\ LET message == Head(hot[slot].pipe) IN
       Ends(IF message.ok THEN "result" ELSE "error", message.of)
EndOfFile == Steps("poll") /\ hot[slot].pipe = <<>> /\ ~Alive(slot) /\ Ends("error", 0) /\ UNCHANGED hot
ExecTimeout == Steps("poll") /\ hot[slot].pipe = <<>> /\ Alive(slot) /\ Close(slot) /\ Ends("timeout", 0)

RunDirect == Steps("direct") /\ (\E kind \in {"result", "error"} : Ends(kind, call)) /\ UNCHANGED hot

(***************************************************************************)
(* The children.                                                           *)
(***************************************************************************)
Only(w, e) == hot' = [hot EXCEPT ![w] = e]
              /\ UNCHANGED <<up, phase, slot, call, calls, turn, answers, beating, age, boots>>
Loads(w, ok) ==
    /\ hot[w].process = "loading"
    /\ Only(w, [hot[w] EXCEPT !.process = IF ok THEN "ready" ELSE "dead", !.pipe = Append(@, Message(ok, 0))])
Computes(w, ok) ==
    /\ hot[w].process = "computing"
    /\ Only(w, [hot[w] EXCEPT !.process = "ready", !.job = 0, !.pipe = Append(@, Message(ok, hot[w].job))])
Dies(w) == Alive(w) /\ Only(w, [hot[w] EXCEPT !.process = "dead", !.job = 0])

(***************************************************************************)
(* The heartbeat thread publishes every period and ends at the first error *)
(* of Redis; nothing starts it again before the next boot.                 *)
(***************************************************************************)
Beats(alive, to) ==
    /\ beating' = alive /\ age' = to
    /\ UNCHANGED <<up, phase, slot, call, calls, turn, hot, answers, boots>>
Publish == beating /\ age > 0 /\ Beats(TRUE, 0)
PublishFails == beating /\ Beats(FALSE, age)
\* A period passes; a living thread has published by its end.
Ages == age < Ttl /\ (beating => age = 0) /\ Beats(beating, age + 1)

CeThread ==
    \/ StartUsable \/ StartChild \/ StartRefused \/ InitAnswer \/ InitTimeout
    \/ Send \/ SendFails \/ Receive \/ EndOfFile \/ ExecTimeout
CeNext ==
    \/ Boot \/ Call \/ Shutdown \/ Crash \/ CeThread \/ RunDirect
    \/ \E w \in Executors : (\E ok \in BOOLEAN : Loads(w, ok) \/ Computes(w, ok)) \/ Dies(w)
    \/ Publish \/ PublishFails \/ Ages

CeSpec == CeInit /\ [][CeNext]_ceVars

CeTypeOK ==
    /\ up \in BOOLEAN /\ phase \in Phases /\ slot \in Executors /\ turn \in Executors
    /\ calls \in 0 .. MaxExecutions /\ call \in 0 .. calls /\ boots \in 0 .. MaxBoots
    /\ hot \in [Executors -> [process : {"none", "loading", "ready", "computing", "dead"}, job : 0 .. calls,
                              pipe : SeqOf([ok : BOOLEAN, of : 0 .. calls], 1), direct : BOOLEAN]]
    /\ answers \in [1 .. MaxExecutions -> [kind : {"pending", "result", "error", "timeout"}, of : 0 .. calls]]
    /\ beating \in BOOLEAN /\ age \in 0 .. Ttl

\* A call that is not run in the worker itself ends, whatever the child does,
\* and a worker that is gone is no longer announced after a while.
CallsEnd ==
    /\ phase \notin {"idle", "direct"} ~> phase \in {"idle", "direct"}
    /\ ~up ~> up \/ ~Available

\* A call is answered with what the child computed for this call, whichever
\* answers came late, and no child goes on computing for a call that has
\* ended (_CircuitHotWorker.execute, close).
AnswersOwnCall ==
    /\ \A r \in 1 .. MaxExecutions :
        /\ answers[r].of \in {0, r}
        /\ answers[r].kind = "result" => answers[r].of = r
    /\ \A w \in Executors : hot[w].process = "computing" => phase = "poll" /\ slot = w /\ hot[w].job = call
===============================================================================
