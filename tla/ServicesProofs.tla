---------------------------- MODULE ServicesProofs ----------------------------
(***************************************************************************)
(* Proofs about the four parts of MCServices -- CircuitExecutor, for any   *)
(* number of executors, calls and boots of the worker; CodeExecution, for  *)
(* any number of attempts and mishaps and every deployment; Accounts;      *)
(* TaskCenter -- and about what puts them beside each other.               *)
(***************************************************************************)
EXTENDS MCServices, SubsequencesProofs, FiniteSetTheorems

(***************************************************************************)
(* CircuitExecutor.                                                        *)
(***************************************************************************)
Messages == [ok : BOOLEAN, of : 0 .. calls]
Processes == {"none", "loading", "ready", "computing", "dead"}
AnswerKinds == {"pending", "result", "error", "timeout"}
Executor == [process : Processes, job : 0 .. calls,
             pipe : {<<>>} \cup {<<m>> : m \in Messages}, direct : BOOLEAN]

\* CeTypeOK, with at most one message in every pipe.
TypeInv ==
    /\ up \in BOOLEAN /\ phase \in Phases /\ slot \in Executors /\ turn \in Executors
    /\ calls \in 0 .. MaxExecutions /\ call \in 0 .. calls /\ boots \in 0 .. MaxBoots
    /\ hot \in [Executors -> Executor]
    /\ answers \in [1 .. MaxExecutions -> [kind : AnswerKinds, of : 0 .. calls]]
    /\ beating \in BOOLEAN /\ age \in 0 .. Ttl

\* Between two calls every pipe is empty and no child is at work; the others
\* are so during a call, too.
PipesInTurn ==
    \A w \in Executors :
        /\ hot[w].pipe # <<>> =>
             slot = w /\ phase \in {"init", "poll"} /\ hot[w].process \in {"ready", "dead"}
        /\ hot[w].process = "loading" => slot = w /\ phase = "init"
        /\ hot[w].process = "computing" => slot = w /\ phase = "poll" /\ hot[w].job = call

\* What waits in the pipe of a call that polls is about that call.
AnswerIsDue == phase = "poll" /\ hot[slot].pipe # <<>> => hot[slot].pipe[1].of = call

InCall ==
    /\ phase \in {"send", "poll", "direct"} => call # 0
    /\ ~up => phase = "idle"

OwnAnswers ==
    \A r \in 1 .. MaxExecutions :
        /\ answers[r].of \in {0, r}
        /\ answers[r].kind = "result" => answers[r].of = r

ExecutorInv == TypeInv /\ PipesInTurn /\ AnswerIsDue /\ InCall /\ OwnAnswers

(***************************************************************************)
(* A pipe with one message.                                                *)
(***************************************************************************)
LEMMA OneMessage ==
    ASSUME NEW m
    PROVE  /\ Append(<<>>, m) = <<m>> /\ <<m>> # <<>>
           /\ Head(<<m>>) = m /\ Tail(<<m>>) = <<>> /\ <<m>>[1] = m
OBVIOUS

(***************************************************************************)
(* The end of a call keeps the types and the answers right, provided it    *)
(* is not given a result of another call.                                  *)
(***************************************************************************)
LEMMA EndsRight ==
    ASSUME TypeInv, OwnAnswers, NEW kind \in AnswerKinds, NEW who \in {0, call},
           kind = "result" => who = call, calls' = calls, Ends(kind, who)
    PROVE  /\ phase' = "idle" /\ slot' = slot /\ call' = call /\ beating' = beating
           /\ answers' \in [1 .. MaxExecutions -> [kind : AnswerKinds, of : 0 .. calls]]
           /\ OwnAnswers'
<1>1. call \in 0 .. calls /\ calls \in 0 .. MaxExecutions
  BY DEF TypeInv
<1>2. Answer(kind, who) \in [kind : AnswerKinds, of : 0 .. calls]
  BY <1>1 DEF Answer, TypeInv
<1>3. CASE call = 0
  BY <1>3 DEF Ends, OwnAnswers, TypeInv
<1>4. CASE call # 0
  <2>1. call \in 1 .. MaxExecutions /\ answers' = [answers EXCEPT ![call] = Answer(kind, who)]
    BY <1>1, <1>4, CircuitExecutorAssumption DEF Ends
  <2>2. answers' \in [1 .. MaxExecutions -> [kind : AnswerKinds, of : 0 .. calls]]
    BY <1>2, <2>1 DEF TypeInv
  <2>3. OwnAnswers'
    BY <2>1 DEF OwnAnswers, Answer, TypeInv
  <2> QED BY <2>2, <2>3 DEF Ends
<1> QED BY <1>3, <1>4

(***************************************************************************)
(* With the child at hand, start() goes on to the next executor, ends the  *)
(* warm-up, or goes to a step of the call.                                 *)
(***************************************************************************)
LEMMA StartedRight ==
    ASSUME TypeInv, Started
    PROVE  /\ phase' \in {"start", "idle", "send", "direct"} /\ slot' \in Executors
           /\ phase' \in {"send", "direct"} => call # 0
           /\ call' = call /\ answers' = answers /\ beating' \in BOOLEAN
<1>1. slot \in 1 .. PoolSize /\ PoolSize \in Nat
  BY CircuitExecutorAssumption DEF TypeInv, Executors
<1>2. CASE call = 0 /\ slot < PoolSize
  <2>1. slot' = slot + 1 /\ phase' = "start"
    BY <1>1, <1>2 DEF Started
  <2>2. slot' \in Executors
    BY <1>1, <1>2, <2>1 DEF Executors
  <2> QED BY <1>2, <2>1, <2>2 DEF Started, TypeInv
<1>3. CASE call = 0 /\ slot = PoolSize
  <2>1. ~(slot < PoolSize)
    BY <1>1, <1>3
  <2>2. phase' = "idle" /\ beating' = TRUE /\ slot' = slot
    BY <1>3, <2>1, Zenon DEF Started
  <2> QED BY <1>3, <2>2 DEF Started, TypeInv
<1>4. CASE call # 0
  <2>1. phase' = (IF hot[slot].direct THEN "direct" ELSE "send") /\ slot' = slot /\ beating' = beating
    BY <1>4 DEF Started
  <2> QED BY <1>4, <2>1 DEF Started, TypeInv
<1>5. (call = 0 /\ slot < PoolSize) \/ (call = 0 /\ slot = PoolSize) \/ call # 0
  BY DEF Started
<1> QED BY <1>2, <1>3, <1>4, <1>5

(***************************************************************************)
(* A step that leaves every pipe empty and no child at work, and that does *)
(* not end at a poll, keeps the bookkeeping of pipes.                      *)
(***************************************************************************)
Quiet == \A w \in Executors : hot[w].pipe = <<>> /\ hot[w].process \in {"none", "ready", "dead"}

LEMMA QuietInTurn == Quiet' /\ phase' # "poll" => PipesInTurn' /\ AnswerIsDue'
BY DEF Quiet, PipesInTurn, AnswerIsDue

LEMMA QuietOutside ==
    ASSUME TypeInv, PipesInTurn, phase \notin {"init", "poll"}
    PROVE  Quiet
BY DEF TypeInv, PipesInTurn, Quiet, Executor, Processes

\* An executor other than the one at hand is always quiet.
LEMMA OthersQuiet ==
    ASSUME TypeInv, PipesInTurn, NEW w \in Executors, w # slot
    PROVE  hot[w].pipe = <<>> /\ hot[w].process \in {"none", "ready", "dead"}
BY DEF TypeInv, PipesInTurn, Executor, Processes

(***************************************************************************)
(* What a child puts in its pipe, and what the thread takes out of it.     *)
(***************************************************************************)
LEMMA Executing ==
    ASSUME TypeInv, NEW w \in Executors
    PROVE  /\ hot[w] \in Executor
           /\ Closed(hot[w]).process = "none" /\ Closed(hot[w]).pipe = <<>>
           /\ Closed(hot[w]) \in Executor
           /\ hot[w].pipe # <<>> => /\ hot[w].pipe[1] \in Messages /\ Head(hot[w].pipe) = hot[w].pipe[1]
                                    /\ Tail(hot[w].pipe) = <<>>
<1>1. hot[w] \in Executor
  BY DEF TypeInv
<1>2. Closed(hot[w]) \in Executor
  <2> DEFINE Pipes == {<<>>} \cup {<<m>> : m \in Messages}
  <2>1. <<>> \in Pipes /\ "none" \in Processes /\ 0 \in 0 .. calls
    BY DEF Processes, TypeInv
  <2>2. hot[w] \in [process : Processes, job : 0 .. calls, pipe : Pipes, direct : BOOLEAN]
    BY <1>1 DEF Executor
  <2> HIDE DEF Pipes
  <2>3. Closed(hot[w]) \in [process : Processes, job : 0 .. calls, pipe : Pipes, direct : BOOLEAN]
    BY <2>1, <2>2 DEF Closed
  <2> QED BY <2>3 DEF Executor, Pipes
<1>3. Closed(hot[w]).process = "none" /\ Closed(hot[w]).pipe = <<>>
  BY <1>1 DEF Closed, Executor
<1>4. ASSUME hot[w].pipe # <<>>
      PROVE  /\ hot[w].pipe[1] \in Messages /\ Head(hot[w].pipe) = hot[w].pipe[1]
             /\ Tail(hot[w].pipe) = <<>>
  <2>1. PICK m \in Messages : hot[w].pipe = <<m>>
    BY <1>1, <1>4 DEF Executor
  <2> QED BY <2>1, OneMessage
<1> QED BY <1>1, <1>2, <1>3, <1>4

\* An executor before its child is started, started, and set to direct mode.
LEMMA ColdTyped ==
    ASSUME calls \in Nat
    PROVE  /\ Cold \in Executor
           /\ [Cold EXCEPT !.process = "loading"] \in Executor
           /\ [Cold EXCEPT !.process = "loading"].process = "loading"
           /\ [Cold EXCEPT !.process = "loading"].pipe = <<>>
           /\ [Cold EXCEPT !.direct = TRUE] \in Executor
           /\ [Cold EXCEPT !.direct = TRUE].process = "none"
           /\ [Cold EXCEPT !.direct = TRUE].pipe = <<>>
<1> DEFINE Pipes == {<<>>} \cup {<<m>> : m \in Messages}
           Shape == [process : Processes, job : 0 .. calls, pipe : Pipes, direct : BOOLEAN]
<1>1. <<>> \in Pipes /\ "none" \in Processes /\ "loading" \in Processes /\ 0 \in 0 .. calls
  BY DEF Processes
<1>2. Shape = Executor
  BY DEF Executor
<1> HIDE DEF Pipes
<1>3. Cold \in Shape /\ Cold.process = "none" /\ Cold.pipe = <<>>
  BY <1>1 DEF Cold
<1>4. /\ [Cold EXCEPT !.process = "loading"] \in Shape
      /\ [Cold EXCEPT !.process = "loading"].process = "loading"
      /\ [Cold EXCEPT !.process = "loading"].pipe = <<>>
  BY <1>1, <1>3
<1>5. /\ [Cold EXCEPT !.direct = TRUE] \in Shape
      /\ [Cold EXCEPT !.direct = TRUE].process = "none"
      /\ [Cold EXCEPT !.direct = TRUE].pipe = <<>>
  BY <1>1, <1>3
<1> QED BY <1>2, <1>3, <1>4, <1>5

LEMMA InitiallyTrue == CeInit => ExecutorInv
<1> SUFFICES ASSUME CeInit PROVE ExecutorInv
  OBVIOUS
<1>1. Cold \in Executor
  BY ColdTyped DEF CeInit
<1>2. TypeInv
  <2>1. up \in BOOLEAN /\ phase \in Phases /\ beating \in BOOLEAN
    BY DEF CeInit, Phases
  <2>2. /\ slot \in Executors /\ turn \in Executors /\ calls \in 0 .. MaxExecutions
        /\ call \in 0 .. calls /\ boots \in 0 .. MaxBoots /\ age \in 0 .. Ttl
    BY CircuitExecutorAssumption DEF CeInit, Executors
  <2>3. hot \in [Executors -> Executor]
    BY <1>1 DEF CeInit
  <2>4. answers \in [1 .. MaxExecutions -> [kind : AnswerKinds, of : 0 .. calls]]
    BY DEF CeInit, Pending, Answer, AnswerKinds
  <2> QED BY <2>1, <2>2, <2>3, <2>4 DEF TypeInv
<1>3. PipesInTurn /\ AnswerIsDue /\ InCall /\ OwnAnswers
  BY CircuitExecutorAssumption DEF CeInit, PipesInTurn, AnswerIsDue, InCall, OwnAnswers, Cold, Pending, Answer, Executors
<1> QED BY <1>2, <1>3 DEF ExecutorInv

(***************************************************************************)
(* Steps of the thread: what start() does.                                 *)
(***************************************************************************)
LEMMA StartStep ==
    ASSUME ExecutorInv, StartUsable \/ StartChild \/ StartRefused
    PROVE  ExecutorInv'
<1> USE DEF ExecutorInv
<1>1. /\ phase = "start" /\ up /\ slot \in Executors
      /\ up' = up /\ calls' = calls /\ turn' = turn /\ age' = age /\ boots' = boots
  BY DEF StartUsable, StartChild, StartRefused, Steps, TypeInv
<1>2. Quiet
  BY <1>1, QuietOutside
<1>3. Executor' = Executor /\ Messages' = Messages
  BY <1>1 DEF Executor, Messages
<1>4. CASE StartUsable
  <2>1. Started /\ hot' = hot
    BY <1>4 DEF StartUsable
  <2>2. /\ phase' \in {"start", "idle", "send", "direct"} /\ slot' \in Executors
        /\ phase' \in {"send", "direct"} => call # 0
        /\ call' = call /\ answers' = answers /\ beating' \in BOOLEAN
    BY <2>1, StartedRight
  <2>3. TypeInv'
    BY <1>1, <1>3, <2>1, <2>2 DEF TypeInv, Phases
  <2>4. PipesInTurn' /\ AnswerIsDue'
    BY <1>2, <2>1, <2>2, QuietInTurn DEF Quiet
  <2>5. InCall' /\ OwnAnswers'
    BY <1>1, <2>2 DEF InCall, OwnAnswers
  <2> QED BY <2>3, <2>4, <2>5
<1>5. ASSUME NEW e \in Executor, NEW p \in {"init", "start"},
             hot' = [hot EXCEPT ![slot] = e], phase' = p, e.pipe = <<>>,
             e.process \in {"none", "loading"}, e.process = "loading" => p = "init",
             UNCHANGED <<slot, call, answers, beating>>
      PROVE  ExecutorInv'
  <2>1. TypeInv'
    BY <1>1, <1>3, <1>5 DEF TypeInv, Phases
  <2>2. \A w \in Executors : hot'[w] = IF w = slot THEN e ELSE hot[w]
    BY <1>5 DEF TypeInv
  <2>3. PipesInTurn' /\ AnswerIsDue'
    BY <1>2, <1>5, <2>2 DEF PipesInTurn, AnswerIsDue, Quiet
  <2>4. InCall' /\ OwnAnswers'
    BY <1>1, <1>5 DEF InCall, OwnAnswers
  <2> QED BY <2>1, <2>3, <2>4
<1>6. CASE StartChild \/ StartRefused
  <2>1. calls \in Nat
    BY CircuitExecutorAssumption DEF TypeInv
  <2>3. CASE StartChild
    <3> DEFINE e == [Cold EXCEPT !.process = "loading"]
    <3>2. e \in Executor /\ e.pipe = <<>> /\ e.process = "loading"
      BY <2>1, ColdTyped
    <3>3. hot' = [hot EXCEPT ![slot] = e] /\ phase' = "init" /\ UNCHANGED <<slot, call, answers, beating>>
      BY <2>3 DEF StartChild
    <3> HIDE DEF e
    <3> QED BY <1>5, <3>2, <3>3
  <2>4. CASE StartRefused
    <3> DEFINE e == [Cold EXCEPT !.direct = TRUE]
    <3>2. e \in Executor /\ e.pipe = <<>> /\ e.process = "none"
      BY <2>1, ColdTyped
    <3>3. hot' = [hot EXCEPT ![slot] = e] /\ phase' = "start" /\ UNCHANGED <<slot, call, answers, beating>>
      BY <2>4 DEF StartRefused
    <3> HIDE DEF e
    <3> QED BY <1>5, <3>2, <3>3
  <2> QED BY <1>6, <2>3, <2>4
<1> QED BY <1>4, <1>6

(***************************************************************************)
(* Steps of the thread that end a call or the warm-up and leave every      *)
(* executor quiet.                                                         *)
(***************************************************************************)
LEMMA EndingStep ==
    ASSUME ExecutorInv, NEW p, Steps(p), NEW kind \in AnswerKinds, NEW who \in {0, call},
           kind = "result" => who = call, Ends(kind, who),
           hot' \in [Executors -> Executor], Quiet'
    PROVE  ExecutorInv'
<1> USE DEF ExecutorInv
<1>1. up /\ up' = up /\ calls' = calls /\ turn' = turn /\ age' = age /\ boots' = boots
  BY DEF Steps
<1>2. Executor' = Executor
  BY <1>1 DEF Executor, Messages
<1>3. /\ phase' = "idle" /\ slot' = slot /\ call' = call /\ beating' = beating
      /\ answers' \in [1 .. MaxExecutions -> [kind : AnswerKinds, of : 0 .. calls]]
      /\ OwnAnswers'
  BY <1>1, EndsRight
<1>4. TypeInv'
  BY <1>1, <1>2, <1>3 DEF TypeInv, Phases
<1>5. PipesInTurn' /\ AnswerIsDue' /\ InCall'
  BY <1>3, QuietInTurn DEF InCall
<1> QED BY <1>3, <1>4, <1>5

(***************************************************************************)
(* Replacing the executor at hand by one that is quiet makes all quiet.    *)
(***************************************************************************)
LEMMA QuietReplaced ==
    ASSUME ExecutorInv, NEW e \in Executor, hot' = [hot EXCEPT ![slot] = e],
           e.pipe = <<>>, e.process \in {"none", "ready", "dead"}
    PROVE  hot' \in [Executors -> Executor] /\ Quiet'
<1>1. slot \in Executors /\ hot \in [Executors -> Executor]
  BY DEF ExecutorInv, TypeInv
<1>2. \A w \in Executors : hot'[w] = IF w = slot THEN e ELSE hot[w]
  BY <1>1
<1>3. \A w \in Executors : w # slot => hot[w].pipe = <<>> /\ hot[w].process \in {"none", "ready", "dead"}
  BY OthersQuiet DEF ExecutorInv
<1> QED BY <1>1, <1>2, <1>3 DEF Quiet

LEMMA Closing ==
    ASSUME ExecutorInv, Close(slot)
    PROVE  hot' \in [Executors -> Executor] /\ Quiet'
<1>1. slot \in Executors /\ hot' = [hot EXCEPT ![slot] = Closed(hot[slot])]
  BY DEF ExecutorInv, TypeInv, Close
<1> QED BY <1>1, Executing, QuietReplaced DEF ExecutorInv

\* Taking the message out of the pipe of a child that is not at work.
LEMMA Emptying ==
    ASSUME ExecutorInv, hot[slot].pipe # <<>>, hot' = [hot EXCEPT ![slot].pipe = Tail(@)]
    PROVE  hot' \in [Executors -> Executor] /\ Quiet'
<1> DEFINE e == [hot[slot] EXCEPT !.pipe = Tail(@)]
           Pipes == {<<>>} \cup {<<m>> : m \in Messages}
<1>1. slot \in Executors /\ hot[slot] \in Executor /\ Tail(hot[slot].pipe) = <<>>
  BY Executing DEF ExecutorInv, TypeInv
<1>2. hot[slot].process \in {"ready", "dead"}
  BY <1>1 DEF ExecutorInv, PipesInTurn
<1>3. hot' = [hot EXCEPT ![slot] = e]
  BY <1>1 DEF ExecutorInv, TypeInv
<1>4. e \in Executor /\ e.pipe = <<>> /\ e.process = hot[slot].process
  <2>1. <<>> \in Pipes /\ Executor = [process : Processes, job : 0 .. calls, pipe : Pipes, direct : BOOLEAN]
    BY DEF Executor
  <2> HIDE DEF Pipes
  <2> QED BY <1>1, <2>1
<1> HIDE DEF e
<1> QED BY <1>2, <1>3, <1>4, QuietReplaced

(***************************************************************************)
(* Steps of the thread: waiting for a child to load, sending, polling.     *)
(***************************************************************************)
LEMMA ThreadStep ==
    ASSUME ExecutorInv, CeThread \/ RunDirect
    PROVE  ExecutorInv'
<1> USE DEF ExecutorInv
<1>1. slot \in Executors /\ 0 \in {0, call} /\ {"error", "timeout", "result"} \subseteq AnswerKinds
  BY DEF TypeInv, AnswerKinds
<1>2. CASE StartUsable \/ StartChild \/ StartRefused
  BY <1>2, StartStep
<1>3. CASE InitAnswer
  <2>1. Steps("init") /\ hot[slot].pipe # <<>>
    BY <1>3 DEF InitAnswer
  <2>2. CASE ~Head(hot[slot].pipe).ok
    <3>1. Close(slot) /\ Ends("error", 0)
      BY <1>3, <2>2 DEF InitAnswer
    <3> QED BY <1>1, <2>1, <3>1, Closing, EndingStep
  <2>3. CASE Head(hot[slot].pipe).ok
    <3>1. hot' = [hot EXCEPT ![slot].pipe = Tail(@)] /\ Started
      BY <1>3, <2>3 DEF InitAnswer
    <3>2. hot' \in [Executors -> Executor] /\ Quiet'
      BY <2>1, <3>1, Emptying
    <3>3. /\ phase' \in {"start", "idle", "send", "direct"} /\ slot' \in Executors
          /\ phase' \in {"send", "direct"} => call # 0
          /\ call' = call /\ answers' = answers /\ beating' \in BOOLEAN
      BY <3>1, StartedRight
    <3>4. up /\ up' = up /\ calls' = calls /\ turn' = turn /\ age' = age /\ boots' = boots
      BY <2>1 DEF Steps
    <3>5. Executor' = Executor
      BY <3>4 DEF Executor, Messages
    <3>6. TypeInv'
      BY <3>2, <3>3, <3>4, <3>5 DEF TypeInv, Phases
    <3>7. PipesInTurn' /\ AnswerIsDue'
      BY <3>2, <3>3, QuietInTurn
    <3>8. InCall' /\ OwnAnswers'
      BY <3>3, <3>4 DEF InCall, OwnAnswers
    <3> QED BY <3>6, <3>7, <3>8
  <2> QED BY <2>2, <2>3
<1>4. CASE InitTimeout
  BY <1>1, <1>4, Closing, EndingStep DEF InitTimeout
<1>5. CASE Send
  <2>1. /\ Steps("send") /\ Alive(slot) /\ phase = "send" /\ phase' = "poll"
        /\ hot' = [hot EXCEPT ![slot] = [@ EXCEPT !.process = "computing", !.job = call]]
        /\ UNCHANGED <<slot, call, answers, beating>>
    BY <1>5 DEF Send, Steps
  <2>2. up /\ up' = up /\ calls' = calls /\ turn' = turn /\ age' = age /\ boots' = boots
    BY <2>1 DEF Steps
  <2>3. Quiet /\ hot[slot].pipe = <<>>
    BY <1>1, <2>1, QuietOutside DEF Quiet
  <2>4. Executor' = Executor
    BY <2>2 DEF Executor, Messages
  <2> DEFINE e == [hot[slot] EXCEPT !.process = "computing", !.job = call]
             Pipes == {<<>>} \cup {<<m>> : m \in Messages}
  <2>5. e \in Executor /\ e.process = "computing" /\ e.job = call /\ e.pipe = <<>>
    <3>1. "computing" \in Processes /\ call \in 0 .. calls /\ hot[slot] \in Executor
      BY <1>1 DEF Processes, TypeInv
    <3>2. Executor = [process : Processes, job : 0 .. calls, pipe : Pipes, direct : BOOLEAN]
      BY DEF Executor
    <3> HIDE DEF Pipes
    <3> QED BY <2>3, <3>1, <3>2
  <2>6. hot' = [hot EXCEPT ![slot] = e]
    BY <1>1, <2>1 DEF TypeInv
  <2> HIDE DEF e
  <2>7. hot' \in [Executors -> Executor] /\ \A w \in Executors : hot'[w] = IF w = slot THEN e ELSE hot[w]
    BY <1>1, <2>5, <2>6 DEF TypeInv
  <2>8. TypeInv'
    BY <2>1, <2>2, <2>4, <2>7 DEF TypeInv, Phases
  <2>9. PipesInTurn' /\ AnswerIsDue'
    BY <1>1, <2>1, <2>3, <2>5, <2>7 DEF PipesInTurn, AnswerIsDue, Quiet
  <2>10. InCall' /\ OwnAnswers'
    BY <2>1, <2>2 DEF InCall, OwnAnswers
  <2> QED BY <2>8, <2>9, <2>10
<1>6. CASE SendFails
  <2>1. Steps("send") /\ phase = "send" /\ Ends("error", 0) /\ hot' = hot
    BY <1>6 DEF SendFails, Steps
  <2>2. Quiet' /\ hot' \in [Executors -> Executor]
    BY <2>1, QuietOutside DEF Quiet, TypeInv
  <2> QED BY <1>1, <2>1, <2>2, EndingStep
<1>7. CASE Receive
  <2> DEFINE message == Head(hot[slot].pipe)
             kind == IF message.ok THEN "result" ELSE "error"
  <2>1. /\ Steps("poll") /\ phase = "poll" /\ hot[slot].pipe # <<>>
        /\ hot' = [hot EXCEPT ![slot].pipe = Tail(@)] /\ Ends(kind, message.of)
    BY <1>7 DEF Receive, Steps
  <2>2. message.of = call
    BY <1>1, <2>1, Executing DEF AnswerIsDue
  <2>3. kind \in AnswerKinds /\ message.of \in {0, call} /\ (kind = "result" => message.of = call)
    BY <1>1, <2>2
  <2>4. hot' \in [Executors -> Executor] /\ Quiet'
    BY <2>1, Emptying
  <2> HIDE DEF message, kind
  <2> QED BY <2>1, <2>3, <2>4, EndingStep
<1>8. CASE EndOfFile
  <2>1. /\ Steps("poll") /\ hot[slot].pipe = <<>> /\ ~Alive(slot)
        /\ Ends("error", 0) /\ hot' = hot
    BY <1>8 DEF EndOfFile
  <2>2. hot[slot].process \in {"none", "dead"}
    BY <1>1, <2>1 DEF Alive, TypeInv, Executor, Processes
  <2>3. Quiet
    BY <2>1, <2>2, OthersQuiet DEF Quiet
  <2>4. Quiet' /\ hot' \in [Executors -> Executor]
    BY <2>1, <2>3 DEF Quiet, TypeInv
  <2> QED BY <1>1, <2>1, <2>4, EndingStep
<1>9. CASE ExecTimeout
  BY <1>1, <1>9, Closing, EndingStep DEF ExecTimeout
<1>10. CASE RunDirect
  <2>1. PICK kind \in {"result", "error"} : Ends(kind, call)
    BY <1>10 DEF RunDirect
  <2>2. Steps("direct") /\ phase = "direct" /\ hot' = hot
    BY <1>10 DEF RunDirect, Steps
  <2>3. Quiet' /\ hot' \in [Executors -> Executor]
    BY <2>2, QuietOutside DEF Quiet, TypeInv
  <2> QED BY <1>1, <2>1, <2>2, <2>3, EndingStep
<1> QED BY <1>2, <1>3, <1>4, <1>5, <1>6, <1>7, <1>8, <1>9, <1>10 DEF CeThread

(***************************************************************************)
(* Steps of a child: it loads, computes, or dies.  Only the executor at    *)
(* hand has a child that loads or computes.                                *)
(***************************************************************************)
LEMMA ChildStep ==
    ASSUME ExecutorInv, NEW w \in Executors,
           (\E ok \in BOOLEAN : Loads(w, ok) \/ Computes(w, ok)) \/ Dies(w)
    PROVE  ExecutorInv'
<1> USE DEF ExecutorInv
<1> DEFINE Pipes == {<<>>} \cup {<<m>> : m \in Messages}
<1>1. hot[w] \in Executor /\ slot \in Executors /\ hot \in [Executors -> Executor]
  BY DEF TypeInv
<1>2. Executor = [process : Processes, job : 0 .. calls, pipe : Pipes, direct : BOOLEAN]
  BY DEF Executor
<1>3. 0 \in 0 .. calls /\ call \in 0 .. calls /\ {"ready", "dead"} \subseteq Processes
  BY DEF TypeInv, Processes
<1>4. ASSUME NEW e \in Executor, Only(w, e), w = slot, e.process \in {"ready", "dead"},
             e.pipe # <<>> => phase \in {"init", "poll"} /\ (phase = "poll" => e.pipe[1].of = call)
      PROVE  ExecutorInv'
  <2>1. /\ hot' = [hot EXCEPT ![w] = e]
        /\ UNCHANGED <<up, phase, slot, call, calls, turn, answers, beating, age, boots>>
    BY <1>4 DEF Only
  <2>2. \A v \in Executors : hot'[v] = IF v = w THEN e ELSE hot[v]
    BY <1>1, <2>1
  <2>3. TypeInv'
    <3>1. Executor' = Executor
      BY <2>1 DEF Executor, Messages
    <3> QED BY <1>1, <1>4, <2>1, <3>1 DEF TypeInv
  <2>4. PipesInTurn'
    BY <1>4, <2>1, <2>2 DEF PipesInTurn
  <2>5. AnswerIsDue' /\ InCall' /\ OwnAnswers'
    BY <1>1, <1>4, <2>1, <2>2 DEF AnswerIsDue, InCall, OwnAnswers
  <2> QED BY <2>3, <2>4, <2>5
<1>5. ASSUME NEW ok \in BOOLEAN, NEW of \in 0 .. calls
      PROVE  Append(<<>>, Message(ok, of)) \in Pipes /\ Append(<<>>, Message(ok, of)) # <<>>
             /\ Append(<<>>, Message(ok, of))[1].of = of
  <2>1. Message(ok, of) \in Messages /\ Message(ok, of).of = of
    BY DEF Message, Messages
  <2> QED BY <2>1, OneMessage
<1> HIDE DEF Pipes
<1>6. ASSUME NEW ok \in BOOLEAN, Loads(w, ok) PROVE ExecutorInv'
  <2> DEFINE p == Append(hot[w].pipe, Message(ok, 0))
             name == IF ok THEN "ready" ELSE "dead"
             e == [hot[w] EXCEPT !.process = name, !.pipe = p]
  <2>1. hot[w].process = "loading" /\ Only(w, [hot[w] EXCEPT !.process = name, !.pipe = Append(@, Message(ok, 0))])
    BY <1>6 DEF Loads
  <2>2. w = slot /\ phase = "init" /\ hot[w].pipe = <<>>
    BY <2>1 DEF PipesInTurn
  <2>3. p \in Pipes /\ name \in Processes /\ name \in {"ready", "dead"}
    BY <1>3, <1>5, <2>2
  <2>4. Only(w, e)
    BY <1>1, <1>2, <2>1
  <2> HIDE DEF p, name
  <2>5. e \in Executor /\ e.process = name
    BY <1>1, <1>2, <2>3
  <2> HIDE DEF e
  <2> QED BY <1>4, <2>2, <2>3, <2>4, <2>5
<1>7. ASSUME NEW ok \in BOOLEAN, Computes(w, ok) PROVE ExecutorInv'
  <2> DEFINE p == Append(hot[w].pipe, Message(ok, hot[w].job))
             e == [hot[w] EXCEPT !.process = "ready", !.job = 0, !.pipe = p]
  <2>1. /\ hot[w].process = "computing"
        /\ Only(w, [hot[w] EXCEPT !.process = "ready", !.job = 0, !.pipe = Append(@, Message(ok, hot[w].job))])
    BY <1>7 DEF Computes
  <2>2. w = slot /\ phase = "poll" /\ hot[w].pipe = <<>> /\ hot[w].job = call
    BY <2>1 DEF PipesInTurn
  <2>3. p \in Pipes /\ p # <<>> /\ p[1].of = call
    BY <1>3, <1>5, <2>2
  <2>4. Only(w, e)
    BY <1>1, <1>2, <2>1
  <2> HIDE DEF p
  <2>5. e \in Executor /\ e.process = "ready" /\ e.pipe = p
    BY <1>1, <1>2, <1>3, <2>3
  <2> HIDE DEF e
  <2> QED BY <1>4, <2>2, <2>3, <2>4, <2>5
<1>8. ASSUME Dies(w) PROVE ExecutorInv'
  <2> DEFINE e == [hot[w] EXCEPT !.process = "dead", !.job = 0]
  <2>1. Alive(w) /\ Only(w, e)
    BY <1>8 DEF Dies
  <2>2. e \in Executor /\ e.process = "dead" /\ e.pipe = hot[w].pipe
    BY <1>1, <1>2, <1>3
  <2> HIDE DEF e
  <2>3. CASE w = slot
    <3>1. e.pipe # <<>> => phase \in {"init", "poll"} /\ (phase = "poll" => e.pipe[1].of = call)
      BY <1>1, <2>2, <2>3 DEF PipesInTurn, AnswerIsDue
    <3> QED BY <1>4, <2>1, <2>2, <2>3, <3>1
  <2>4. CASE w # slot
    <3>1. hot[w].pipe = <<>> /\ e.pipe = <<>>
      BY <2>2, <2>4, OthersQuiet
    <3>2. /\ hot' = [hot EXCEPT ![w] = e]
          /\ UNCHANGED <<up, phase, slot, call, calls, turn, answers, beating, age, boots>>
      BY <2>1 DEF Only
    <3>3. \A v \in Executors : hot'[v] = IF v = w THEN e ELSE hot[v]
      BY <1>1, <3>2
    <3>4. TypeInv'
      <4>1. Executor' = Executor
        BY <3>2 DEF Executor, Messages
      <4> QED BY <1>1, <2>2, <3>2, <4>1 DEF TypeInv
    <3>5. PipesInTurn'
      BY <2>2, <3>1, <3>2, <3>3 DEF PipesInTurn
    <3>6. AnswerIsDue' /\ InCall' /\ OwnAnswers'
      BY <1>1, <2>4, <3>2, <3>3 DEF AnswerIsDue, InCall, OwnAnswers
    <3> QED BY <3>4, <3>5, <3>6
  <2> QED BY <2>3, <2>4
<1> QED BY <1>6, <1>7, <1>8

(***************************************************************************)
(* The worker process boots, takes a call, stops or dies.                  *)
(***************************************************************************)
LEMMA ProcessStep ==
    ASSUME ExecutorInv, Boot \/ Call \/ Shutdown \/ Crash
    PROVE  ExecutorInv'
<1> USE DEF ExecutorInv
<1>1. calls \in 0 .. MaxExecutions /\ MaxExecutions \in Nat /\ PoolSize \in Nat \ {0}
  BY CircuitExecutorAssumption DEF TypeInv
<1>2. CASE Boot
  <2>1. /\ phase = "idle" /\ up' = TRUE /\ boots < MaxBoots /\ boots' = boots + 1 /\ phase' = "start"
        /\ call' = 0 /\ slot' = 1 /\ turn' = 1
        /\ UNCHANGED <<calls, hot, answers, beating, age>>
    BY <1>2 DEF Boot, InCall
  <2>2. Quiet'
    BY <2>1, QuietOutside DEF Quiet
  <2>3. boots' \in 0 .. MaxBoots /\ 1 \in Executors /\ 0 \in 0 .. calls
    BY <1>1, <2>1, CircuitExecutorAssumption DEF TypeInv, Executors
  <2>4. TypeInv'
    <3>1. Executor' = Executor
      BY <2>1 DEF Executor, Messages
    <3> QED BY <2>1, <2>3, <3>1 DEF TypeInv, Phases
  <2>5. InCall' /\ OwnAnswers'
    BY <2>1 DEF InCall, OwnAnswers
  <2> QED BY <2>1, <2>2, <2>4, <2>5, QuietInTurn
<1>3. CASE Call
  <2>1. /\ up /\ phase = "idle" /\ calls < MaxExecutions /\ calls' = calls + 1 /\ call' = calls + 1
        /\ slot' = turn /\ turn' = NextTurn(turn) /\ phase' = "start"
        /\ UNCHANGED <<up, hot, answers, beating, age, boots>>
    BY <1>3 DEF Call
  <2>2. Quiet'
    BY <2>1, QuietOutside DEF Quiet
  <2>3. calls' \in 0 .. MaxExecutions /\ call' \in 0 .. calls' /\ 0 .. calls \subseteq 0 .. calls'
    BY <1>1, <2>1
  <2>4. NextTurn(turn) \in Executors
    <3>1. turn \in 1 .. PoolSize
      BY DEF TypeInv, Executors
    <3>2. turn % PoolSize \in 0 .. PoolSize - 1
      BY <1>1, <3>1
    <3> QED BY <1>1, <3>2 DEF NextTurn, Executors
  <2>5. hot' \in [Executors -> Executor']
    <3>1. Messages \subseteq Messages'
      BY <2>3 DEF Messages
    <3>2. Executor \subseteq Executor'
      BY <2>3, <3>1 DEF Executor
    <3> QED BY <2>1, <3>2 DEF TypeInv
  <2>6. answers' \in [1 .. MaxExecutions -> [kind : AnswerKinds, of : 0 .. calls']]
    BY <2>1, <2>3 DEF TypeInv
  <2>7. TypeInv'
    BY <2>1, <2>3, <2>4, <2>5, <2>6 DEF TypeInv, Phases
  <2>8. InCall' /\ OwnAnswers'
    BY <2>1 DEF InCall, OwnAnswers
  <2> QED BY <2>1, <2>2, <2>7, <2>8, QuietInTurn
<1>4. CASE Shutdown \/ Crash
  <2>1. /\ up' = FALSE /\ phase' = "idle" /\ call' = 0 /\ beating' = FALSE
        /\ hot' = [w \in Executors |-> Cold]
        /\ UNCHANGED <<slot, calls, turn, answers, age, boots>>
    BY <1>4 DEF Shutdown, Crash, Stops
  <2>2. Cold \in Executor /\ Cold.pipe = <<>> /\ Cold.process = "none"
    BY <1>1, ColdTyped DEF Cold
  <2>3. Quiet' /\ hot' \in [Executors -> Executor]
    BY <2>1, <2>2 DEF Quiet
  <2>4. TypeInv'
    <3>1. Executor' = Executor
      BY <2>1 DEF Executor, Messages
    <3>2. call' \in 0 .. calls'
      BY <1>1, <2>1
    <3> QED BY <2>1, <2>3, <3>1, <3>2 DEF TypeInv, Phases
  <2>5. InCall' /\ OwnAnswers'
    BY <2>1 DEF InCall, OwnAnswers
  <2> QED BY <2>1, <2>3, <2>4, <2>5, QuietInTurn
<1> QED BY <1>2, <1>3, <1>4

\* The heartbeat touches nothing of a call.
LEMMA BeatStep ==
    ASSUME ExecutorInv, Publish \/ PublishFails \/ Ages \/ UNCHANGED ceVars
    PROVE  ExecutorInv'
<1> USE DEF ExecutorInv
<1>1. UNCHANGED <<up, phase, slot, call, calls, turn, hot, answers, boots>>
  BY DEF Publish, PublishFails, Ages, Beats, ceVars
<1>2. beating' \in BOOLEAN
  BY DEF Publish, PublishFails, Ages, Beats, ceVars, TypeInv
<1>3. age' \in 0 .. Ttl
  BY CircuitExecutorAssumption DEF Publish, PublishFails, Ages, Beats, ceVars, TypeInv
<1>4. TypeInv'
  <2>1. Executor' = Executor
    BY <1>1 DEF Executor, Messages
  <2> QED BY <1>1, <1>2, <1>3, <2>1 DEF TypeInv
<1> QED BY <1>1, <1>4 DEF PipesInTurn, AnswerIsDue, InCall, OwnAnswers

LEMMA Inductive == ExecutorInv /\ [CeNext]_ceVars => ExecutorInv'
<1> SUFFICES ASSUME ExecutorInv, [CeNext]_ceVars PROVE ExecutorInv'
  OBVIOUS
<1> QED BY ThreadStep, ChildStep, ProcessStep, BeatStep DEF CeNext

(***************************************************************************)
(* The types and the bookkeeping of pipes give the checked properties.     *)
(***************************************************************************)
LEMMA Implied == ExecutorInv => AnswersOwnCall /\ CeTypeOK
<1> SUFFICES ASSUME ExecutorInv PROVE AnswersOwnCall /\ CeTypeOK
  OBVIOUS
<1>1. AnswersOwnCall
  BY DEF ExecutorInv, PipesInTurn, OwnAnswers, AnswersOwnCall
<1>2. {<<>>} \cup {<<m>> : m \in Messages} \subseteq SeqOf([ok : BOOLEAN, of : 0 .. calls], 1)
  <2>1. <<>> \in [1 .. 0 -> Messages] /\ \A m \in Messages : <<m>> \in [1 .. 1 -> Messages]
    OBVIOUS
  <2>2. SeqOf(Messages, 1) = UNION {[1 .. m -> Messages] : m \in 0 .. 1}
    BY DEF SeqOf
  <2>3. [1 .. 0 -> Messages] \subseteq SeqOf(Messages, 1) /\ [1 .. 1 -> Messages] \subseteq SeqOf(Messages, 1)
    <3>1. 0 \in 0 .. 1 /\ 1 \in 0 .. 1
      OBVIOUS
    <3> QED BY <2>2, <3>1
  <2>4. {<<>>} \cup {<<m>> : m \in Messages} \subseteq SeqOf(Messages, 1)
    BY <2>1, <2>3
  <2> QED BY <2>4 DEF Messages
<1>3. hot \in [Executors -> [process : {"none", "loading", "ready", "computing", "dead"}, job : 0 .. calls,
                              pipe : SeqOf([ok : BOOLEAN, of : 0 .. calls], 1), direct : BOOLEAN]]
  <2>1. hot \in [Executors -> Executor]
    BY DEF ExecutorInv, TypeInv
  <2>2. Executor \subseteq [process : {"none", "loading", "ready", "computing", "dead"}, job : 0 .. calls,
                            pipe : SeqOf([ok : BOOLEAN, of : 0 .. calls], 1), direct : BOOLEAN]
    BY <1>2 DEF Executor, Processes
  <2> QED BY <2>1, <2>2
<1>4. CeTypeOK
  BY <1>3 DEF ExecutorInv, TypeInv, CeTypeOK, AnswerKinds
<1> QED BY <1>1, <1>4

(***************************************************************************)
(* The invariant of the pool and its thread holds from the boot on.        *)
(***************************************************************************)
THEOREM ExecutorInvariant == CeSpec => []ExecutorInv
BY InitiallyTrue, Inductive, PTL DEF CeSpec

(***************************************************************************)
(* Every variable of the pool has its type, and no pipe ever holds more    *)
(* than one message (_CircuitHotWorker).                                   *)
(***************************************************************************)
THEOREM TypeCorrect == CeSpec => []CeTypeOK
BY ExecutorInvariant, Implied, PTL

(***************************************************************************)
(* A call is answered with what the child computed for it, and no child    *)
(* computes for a call that has ended, for every pool, number of calls and *)
(* boots of the worker (_CircuitHotWorker.execute, close).                 *)
(***************************************************************************)
THEOREM CallsGetOwnAnswers == CeSpec => []AnswersOwnCall
BY ExecutorInvariant, Implied, PTL

(***************************************************************************)
(* CodeExecution.                                                          *)
(***************************************************************************)
CxSpec == CxInit /\ [][CxNext]_cxVars

AllPrograms == {"good", "bulky", "odd", "shapeless", "raises", "silent", "endless", "forbidden"}
Containers == {"none", "created", "running", "exited", "removed"}
Children == {"none", "running", "exited", "terminated"}
Queues == {"empty", "partial", "result", "error"}
RunType == [at : Stages, container : Containers, child : Children, queue : Queues,
            printed : Codes \cup {""}, reply : Codes \cup {""}, refused : BOOLEAN]

CxTypeInv ==
    /\ backend \in Backends /\ program \in Programs /\ mishaps \in 0 .. MaxMishaps
    /\ attempt \in 0 .. MaxRetries + 1
    /\ seen \in [Attempts -> Codes \cup {""}] /\ verdict \in Codes \cup {""}
    /\ runs \in [Attempts -> RunType]

Docker == backend.inner = "docker"
Computed(e) == e.queue = "result" /\ e.child = "exited"

\* Where the container is when its caller is at a stage.
StageRight(e) ==
    /\ e.at = "none" => e = NotStarted
    /\ ~Docker => e.at \in {"none", "sandbox", "lost", "done"} /\ e.container = "none"
    /\ Docker => e.at # "sandbox"
    /\ e.at = "create" => e.container = "none"
    /\ e.at = "begin" => e.container = "created"
    /\ e.at = "wait" => e.container \in {"running", "exited"}
    /\ e.at = "logs" => e.container = "exited"
    /\ e.at = "done" /\ ~e.refused => e.container \in {"none", "removed"}

\* The child runs in a sandbox; an answer in the queue is one the program gives.
ChildRight(e) ==
    /\ e.child = "running" => IF Docker THEN e.container = "running" ELSE e.at = "sandbox"
    /\ Docker /\ e.container \in {"none", "created"} => e.child = "none"
    /\ e.child # "none" => program # "forbidden"
    /\ e.child = "none" => e.queue = "empty"
    /\ e.queue = "result" => program \in {"good", "bulky", "odd", "shapeless"}
    /\ Computed(e) => program # "bulky"

\* What is printed and answered is what was computed.
ReplyRight(e) ==
    /\ e.printed # "" => e.container \in {"exited", "removed"}
    /\ e.printed = "RESULT" => Computed(e) /\ program # "odd"
    /\ e.reply # "" => e.at \in (IF Docker THEN {"remove", "lost", "done"} ELSE {"done"})
    /\ e.at \in {"remove", "done"} => e.reply # ""
    /\ e.reply = "RESULT" => Computed(e) /\ (Docker => program # "odd" /\ e.container \in {"exited", "removed"})

RunRight(e) == StageRight(e) /\ ChildRight(e) /\ ReplyRight(e)
RunsRight == \A a \in Attempts : RunRight(runs[a])

\* What the worker has seen of an attempt it was answered by the execution,
\* and it goes on to the next only after one that failed and may be retried.
SeenRight ==
    /\ \A a \in Attempts :
        /\ a > attempt => runs[a].at = "none" /\ seen[a] = ""
        /\ seen[a] # "" /\ ~GivenUp(a) => runs[a].at = "done"
        /\ seen[a] = "RESULT" =>
            /\ runs[a].at = "done" /\ runs[a].reply = "RESULT"
            /\ program # "shapeless" /\ (program = "odd" => ~backend.remote)
        /\ a < attempt => seen[a] \notin {"", "RESULT"} /\ (Docker => seen[a] # "SANDBOX_VALIDATION_ERROR")
    /\ verdict # "" => attempt > 0 /\ verdict = seen[attempt]

CodeInv == CxTypeInv /\ RunsRight /\ SeenRight

LEMMA CxConstants ==
    ASSUME CxTypeInv
    PROVE  /\ program \in AllPrograms /\ backend.inner \in {"docker", "local"} /\ backend.remote \in BOOLEAN
           /\ ~Docker <=> backend.inner = "local"
BY CodeExecutionAssumption DEF CxTypeInv, AllPrograms, Docker

LEMMA NothingStarted ==
    /\ NotStarted \in RunType /\ NotStarted.at = "none" /\ NotStarted.container = "none"
    /\ NotStarted.child = "none" /\ NotStarted.queue = "empty" /\ NotStarted.printed = "" /\ NotStarted.reply = ""
BY DEF NotStarted, RunType, Stages, Containers, Children, Queues

LEMMA RunOf ==
    ASSUME CodeInv, NEW a \in Attempts
    PROVE  runs[a] \in RunType /\ RunRight(runs[a])
BY DEF CodeInv, CxTypeInv, RunsRight

(***************************************************************************)
(* Runs that do not change stay right.                                     *)
(***************************************************************************)
LEMMA RunsStayRight ==
    ASSUME RunsRight, UNCHANGED <<backend, program, runs>>
    PROVE  RunsRight'
<1> SUFFICES ASSUME NEW a \in Attempts PROVE RunRight(runs[a])'
  BY DEF RunsRight
<1>1. RunRight(runs[a]) /\ runs'[a] = runs[a] /\ Docker' = Docker
  BY DEF RunsRight, Docker
<1>2. StageRight(runs[a])'
  BY <1>1 DEF RunRight, StageRight
<1>3. ChildRight(runs[a])'
  BY <1>1 DEF RunRight, ChildRight, Computed
<1>4. ReplyRight(runs[a])'
  BY <1>1 DEF RunRight, ReplyRight, Computed
<1> QED BY <1>2, <1>3, <1>4 DEF RunRight

(***************************************************************************)
(* One execution takes a step: it becomes e.                               *)
(***************************************************************************)
Becomes(r, e) ==
    /\ e \in RunType /\ RunRight(e) /\ r.at # "none" /\ e.at # "none"
    /\ r.at = "done" => e.at = "done" /\ e.reply = r.reply

LEMMA OneRunSteps ==
    ASSUME CodeInv, NEW a \in Attempts, NEW e, Becomes(runs[a], e), runs' = [runs EXCEPT ![a] = e],
           UNCHANGED <<backend, program, attempt, seen, verdict>>, mishaps' \in 0 .. MaxMishaps
    PROVE  CodeInv'
<1> USE DEF CodeInv
<1>1. \A b \in Attempts : runs'[b] = IF b = a THEN e ELSE runs[b]
  BY DEF CxTypeInv
<1>2. CxTypeInv'
  BY DEF CxTypeInv, Becomes
<1>3. RunsRight'
  <2>1. ASSUME NEW b \in Attempts
        PROVE  RunRight(runs[b])'
    <3>1. PICK f : f = runs'[b] /\ RunRight(f)
      BY <1>1 DEF RunsRight, Becomes
    <3>2. backend' = backend /\ program' = program
      OBVIOUS
    <3>3. RunRight(f)'
      BY <3>1, <3>2 DEF RunRight, StageRight, ChildRight, ReplyRight, Docker
    <3> QED BY <3>1, <3>3
  <2> QED BY <2>1 DEF RunsRight
<1>4. SeenRight'
  <2>1. ASSUME NEW b \in Attempts
        PROVE  /\ runs'[b].at = "none" <=> runs[b].at = "none"
               /\ runs[b].at = "done" => runs'[b].at = "done" /\ runs'[b].reply = runs[b].reply
    BY <1>1 DEF Becomes
  <2> QED BY <2>1 DEF SeenRight, GivenUp, Docker
<1> QED BY <1>2, <1>3, <1>4

(***************************************************************************)
(* The sandbox.                                                            *)
(***************************************************************************)
InSandboxed(e) == IF Docker THEN e.container = "running" ELSE e.at = "sandbox"

LEMMA SandboxedRight ==
    ASSUME CodeInv, NEW e \in RunType, RunRight(e), InSandboxed(e)
    PROVE  e.at # "none" /\ e.printed = "" /\ e.reply # "RESULT" /\ (~Docker => e.container = "none" /\ e.reply = "")
<1>1. e.at # "none"
  BY NothingStarted DEF RunRight, StageRight, InSandboxed
<1>2. e.container \notin {"exited", "removed"}
  BY DEF RunRight, StageRight, InSandboxed
<1> QED BY <1>1, <1>2 DEF RunRight, StageRight, ReplyRight, InSandboxed

\* A sandbox that ends prints or answers nothing but what was computed.
LEMMA PrintsRight ==
    ASSUME CodeInv, NEW r, NEW e \in RunType, RunRight(e), InSandboxed(e), e.child # "running",
           NEW code \in {"RESULT", "SANDBOX_VALIDATION_ERROR", "SANDBOX_EXECUTION_ERROR"},
           code = "RESULT" => Computed(e), r.at = e.at, r.reply = e.reply
    PROVE  Becomes(r, Prints(e, code))
<1>1. e.at # "none" /\ e.printed = "" /\ e.reply # "RESULT" /\ (~Docker => e.container = "none" /\ e.reply = "")
  BY SandboxedRight
<1>2. code \in Codes /\ "RUNNER_ERROR" \in Codes
  BY DEF Codes
<1>3. CASE Docker
  <2>1. PICK c \in Codes : c = IF code = "RESULT" /\ program = "odd" THEN "RUNNER_ERROR" ELSE code
    BY <1>2
  <2>2. c = "RESULT" => Computed(e) /\ program # "odd"
    BY <2>1
  <2> DEFINE d == [e EXCEPT !.container = "exited", !.printed = c]
  <2>3. Prints(e, code) = d /\ e.container = "running"
    BY <1>3, <2>1 DEF Prints, InSandboxed
  <2>4. /\ d \in RunType /\ d.at = e.at /\ d.child = e.child /\ d.queue = e.queue /\ d.reply = e.reply
        /\ d.refused = e.refused /\ d.container = "exited" /\ d.printed = c
    BY DEF RunType, Containers
  <2> HIDE DEF d
  <2>5. StageRight(d)
    BY <1>1, <1>3, <2>3, <2>4 DEF RunRight, StageRight
  <2>6. ChildRight(d) /\ ReplyRight(d)
    BY <1>1, <1>3, <2>2, <2>4 DEF RunRight, ChildRight, ReplyRight, Computed
  <2> QED BY <1>1, <2>3, <2>4, <2>5, <2>6 DEF Becomes, RunRight
<1>4. CASE ~Docker
  <2> DEFINE d == [e EXCEPT !.at = "done", !.reply = code]
  <2>1. Prints(e, code) = d /\ e.at = "sandbox"
    BY <1>1, <1>4 DEF Prints, InSandboxed
  <2>2. /\ d \in RunType /\ d.at = "done" /\ d.child = e.child /\ d.queue = e.queue /\ d.reply = code
        /\ d.refused = e.refused /\ d.container = "none" /\ d.printed = ""
    BY <1>1, <1>2, <1>4 DEF RunType, Stages
  <2> HIDE DEF d
  <2>3. StageRight(d)
    BY <1>4, <2>2 DEF StageRight
  <2>4. ChildRight(d) /\ ReplyRight(d)
    BY <1>4, <2>2 DEF RunRight, ChildRight, ReplyRight, Computed
  <2> QED BY <1>1, <2>1, <2>2, <2>3, <2>4 DEF Becomes, RunRight
<1> QED BY <1>3, <1>4

\* A step inside the sandbox ends nothing.
LEMMA InsideRight ==
    ASSUME CodeInv, NEW r \in RunType, RunRight(r), InSandboxed(r), NEW e \in RunType,
           e.at = r.at, e.container = r.container, e.printed = r.printed, e.reply = r.reply, e.refused = r.refused,
           e.child # "none", program # "forbidden",
           e.queue = "result" => program \in {"good", "bulky", "odd", "shapeless"},
           Computed(e) => program # "bulky"
    PROVE  RunRight(e) /\ InSandboxed(e) /\ Becomes(r, e)
<1>1. r.at # "none" /\ r.printed = "" /\ r.reply # "RESULT"
  BY SandboxedRight
<1>2. StageRight(e)
  BY <1>1 DEF RunRight, StageRight
<1>3. InSandboxed(e) /\ ChildRight(e)
  BY DEF InSandboxed, ChildRight
<1>4. ReplyRight(e)
  BY <1>1 DEF RunRight, ReplyRight
<1> QED BY <1>1, <1>2, <1>3, <1>4 DEF RunRight, Becomes

LEMMA Turned ==
    ASSUME CodeInv, NEW a \in Attempts, NEW stage, NEW e, Run(a, stage, e) \/ Mishap(a, stage, e), Becomes(runs[a], e)
    PROVE  CodeInv'
<1>1. mishaps' \in 0 .. MaxMishaps
  <2>1. mishaps \in 0 .. MaxMishaps /\ MaxMishaps \in Nat
    BY CodeExecutionAssumption DEF CodeInv, CxTypeInv
  <2>2. mishaps' = mishaps \/ (mishaps < MaxMishaps /\ mishaps' = mishaps + 1)
    BY DEF Run, Mishap
  <2> QED BY <2>1, <2>2
<1>2. runs' = [runs EXCEPT ![a] = e] /\ UNCHANGED <<backend, program, attempt, seen, verdict>>
  BY DEF Run, Mishap, Turns
<1> QED BY <1>1, <1>2, OneRunSteps

LEMMA InSandboxRight ==
    ASSUME CodeInv, NEW a \in Attempts, Refuse(a) \/ Fork(a) \/ Joined(a) \/ JoinTimesOut(a)
    PROVE  CodeInv'
<1>1. PICK r \in RunType : r = runs[a] /\ RunRight(r)
  BY RunOf
<1>2. InSandboxed(r)
  BY <1>1 DEF Refuse, Fork, Joined, JoinTimesOut, Sandbox, Sandboxed, InSandboxed, Docker
<1>3. CASE Refuse(a)
  <2>1. r.child # "running"
    BY <1>1, <1>3 DEF Refuse
  <2>2. Becomes(r, Prints(r, "SANDBOX_VALIDATION_ERROR"))
    BY <1>1, <1>2, <2>1, PrintsRight
  <2> QED BY <1>1, <1>3, <2>2, Turned DEF Refuse, Sandbox
<1>4. CASE Fork(a)
  <2> DEFINE d == [r EXCEPT !.child = "running"]
  <2>1. /\ d \in RunType /\ d.at = r.at /\ d.container = r.container /\ d.printed = r.printed
        /\ d.reply = r.reply /\ d.refused = r.refused /\ d.child = "running" /\ d.queue = r.queue
    BY DEF RunType, Children
  <2>2. r.queue = "empty" /\ program # "forbidden"
    BY <1>1, <1>4 DEF Fork, RunRight, ChildRight
  <2>3. Run(a, r.at, d)
    BY <1>1, <1>4 DEF Fork, Sandbox
  <2> HIDE DEF d
  <2>4. Becomes(r, d)
    BY <1>1, <1>2, <2>1, <2>2, InsideRight DEF Computed
  <2> QED BY <1>1, <2>3, <2>4, Turned
<1>5. CASE Joined(a)
  <2>1. r.child = "exited"
    BY <1>1, <1>5 DEF Joined
  <2>2. PICK code \in {"RESULT", "SANDBOX_EXECUTION_ERROR"} : /\ code = Outcome(r.queue)
                                                              /\ code = "RESULT" => Computed(r)
    BY <2>1 DEF Outcome, Computed
  <2>3. Becomes(r, Prints(r, code))
    BY <1>1, <1>2, <2>1, <2>2, PrintsRight
  <2> QED BY <1>1, <1>5, <2>2, <2>3, Turned DEF Joined, Sandbox
<1>6. CASE JoinTimesOut(a)
  <2> DEFINE d == [r EXCEPT !.child = "terminated"]
  <2>1. /\ d \in RunType /\ d.at = r.at /\ d.container = r.container /\ d.printed = r.printed
        /\ d.reply = r.reply /\ d.refused = r.refused /\ d.child = "terminated" /\ d.queue = r.queue
    BY DEF RunType, Children
  <2>2. r.child = "running" /\ program # "forbidden"
    BY <1>1, <1>6 DEF JoinTimesOut, RunRight, ChildRight
  <2>3. Run(a, r.at, Prints(d, "SANDBOX_EXECUTION_ERROR"))
    BY <1>1, <1>6 DEF JoinTimesOut, Sandbox, TimedOut
  <2> HIDE DEF d
  <2>4. RunRight(d) /\ InSandboxed(d)
    BY <1>1, <1>2, <2>1, <2>2, InsideRight DEF Computed, RunRight, ChildRight
  <2>5. Becomes(r, Prints(d, "SANDBOX_EXECUTION_ERROR"))
    BY <2>1, <2>4, PrintsRight
  <2> QED BY <1>1, <2>3, <2>5, Turned
<1> QED BY <1>3, <1>4, <1>5, <1>6

LEMMA ChildActsRight ==
    ASSUME CodeInv, NEW a \in Attempts, Delivers(a) \/ ChildKilled(a)
    PROVE  CodeInv'
<1>1. PICK r \in RunType : r = runs[a] /\ RunRight(r)
  BY RunOf
<1>2. InSandboxed(r) /\ r.child = "running" /\ program # "forbidden"
  BY <1>1 DEF Delivers, ChildKilled, Sandbox, Sandboxed, InSandboxed, Docker, RunRight, ChildRight
<1>3. CASE Delivers(a)
  <2>1. PICK q \in Queues, c \in Children :
          /\ q = (IF program \in {"raises", "silent"} THEN "error" ELSE "result")
          /\ c = IF program = "bulky" THEN "running" ELSE "exited"
    BY DEF Queues, Children
  <2> DEFINE d == [r EXCEPT !.queue = q, !.child = c]
  <2>2. Run(a, r.at, d)
    BY <1>1, <1>3, <2>1 DEF Delivers, Sandbox
  <2>3. /\ d \in RunType /\ d.at = r.at /\ d.container = r.container /\ d.printed = r.printed
        /\ d.reply = r.reply /\ d.refused = r.refused /\ d.child = c /\ d.queue = q
    BY DEF RunType
  <2> HIDE DEF d
  <2>4. program \in AllPrograms /\ program # "endless"
    BY <1>3, CxConstants DEF CodeInv, Delivers
  <2>5. c # "none" /\ (q = "result" => program \in {"good", "bulky", "odd", "shapeless"})
        /\ (c = "exited" => program # "bulky")
    BY <1>2, <2>1, <2>4 DEF AllPrograms
  <2>6. Becomes(r, d)
    BY <1>1, <1>2, <2>3, <2>5, InsideRight DEF Computed
  <2> QED BY <1>1, <2>2, <2>6, Turned
<1>4. CASE ChildKilled(a)
  <2>1. PICK q \in Queues : q = IF r.queue = "result" THEN "partial" ELSE r.queue
    BY DEF Queues, RunType
  <2> DEFINE d == [r EXCEPT !.child = "exited", !.queue = q]
  <2>2. Mishap(a, r.at, d)
    BY <1>1, <1>4, <2>1 DEF ChildKilled
  <2>3. /\ d \in RunType /\ d.at = r.at /\ d.container = r.container /\ d.printed = r.printed
        /\ d.reply = r.reply /\ d.refused = r.refused /\ d.child = "exited" /\ d.queue = q
    BY DEF RunType, Children
  <2> HIDE DEF d
  <2>4. q # "result"
    BY <2>1
  <2>5. Becomes(r, d)
    BY <1>1, <1>2, <2>3, <2>4, InsideRight DEF Computed
  <2> QED BY <1>1, <2>2, <2>5, Turned
<1> QED BY <1>3, <1>4

(***************************************************************************)
(* The docker executor.                                                    *)
(***************************************************************************)
\* Without its container a child does not run on.
LEMMA DeadRight ==
    ASSUME NEW r \in RunType
    PROVE  /\ Dead(r) \in RunType /\ Dead(r).child # "running"
           /\ Dead(r).at = r.at /\ Dead(r).container = r.container /\ Dead(r).printed = r.printed
           /\ Dead(r).reply = r.reply /\ Dead(r).refused = r.refused /\ Dead(r).queue = r.queue
           /\ Computed(r) => Dead(r).child = "exited"
           /\ Dead(r).child = "exited" => r.child = "exited"
           /\ (Dead(r).child = "none") <=> (r.child = "none")
<1>1. PICK c \in Children : c = IF r.child = "running" THEN "terminated" ELSE r.child
  <2>1. r.child \in Children /\ "terminated" \in Children
    BY DEF RunType, Children
  <2> QED BY <2>1
<1> DEFINE d == [r EXCEPT !.child = c]
<1>2. Dead(r) = d
  BY <1>1 DEF Dead
<1>3. /\ d \in RunType /\ d.child = c /\ d.at = r.at /\ d.container = r.container /\ d.printed = r.printed
      /\ d.reply = r.reply /\ d.refused = r.refused /\ d.queue = r.queue
  BY DEF RunType
<1> HIDE DEF d
<1> QED BY <1>1, <1>2, <1>3 DEF Computed

LEMMA NoEmptyCode == "" \notin Codes /\ {"DOCKER_UNAVAILABLE", "EXECUTION_TIMEOUT", "CONTAINER_EXIT_ERROR"} \subseteq Codes
BY DEF Codes

\* A caller that goes on to the removal with a code.
LEMMA CleanupRight ==
    ASSUME CodeInv, Docker, NEW r, NEW e \in RunType, NEW code \in Codes, ChildRight(e),
           e.printed # "" => e.container \in {"exited", "removed"},
           e.printed = "RESULT" => Computed(e) /\ program # "odd",
           e.container \in {"created", "running", "exited"}, r.at \notin {"none", "done"},
           code = "RESULT" => Computed(e) /\ program # "odd" /\ e.container = "exited"
    PROVE  Becomes(r, Cleanup(e, code))
<1> DEFINE d == [e EXCEPT !.at = "remove", !.reply = code]
<1>1. /\ d \in RunType /\ d.at = "remove" /\ d.child = e.child /\ d.queue = e.queue /\ d.reply = code
      /\ d.refused = e.refused /\ d.container = e.container /\ d.printed = e.printed
  BY DEF RunType, Stages
<1>2. Cleanup(e, code) = d
  BY DEF Cleanup
<1> HIDE DEF d
<1>3. StageRight(d)
  BY <1>1 DEF StageRight
<1>4. ChildRight(d) /\ ReplyRight(d)
  BY <1>1, NoEmptyCode DEF ChildRight, ReplyRight, Computed
<1> QED BY <1>1, <1>2, <1>3, <1>4 DEF Becomes, RunRight

\* Only the docker executor is at these stages.
LEMMA AtDocker ==
    ASSUME CodeInv, NEW r \in RunType, RunRight(r), r.at \in {"create", "begin", "wait", "logs", "remove"}
    PROVE  Docker
BY DEF RunRight, StageRight

LEMMA CreateRight ==
    ASSUME CodeInv, NEW a \in Attempts, Create(a)
    PROVE  CodeInv'
<1>1. PICK r \in RunType : r = runs[a] /\ RunRight(r)
  BY RunOf
<1>2. r.at = "create"
  BY <1>1 DEF Create, Run, Mishap, Turns
<1>3. Docker /\ r.container = "none" /\ r.child = "none" /\ r.queue = "empty" /\ r.printed = "" /\ r.reply = ""
  BY <1>1, <1>2, AtDocker DEF RunRight, StageRight, ChildRight, ReplyRight
<1>4. CASE Run(a, "create", [runs[a] EXCEPT !.at = "begin", !.container = "created"])
  <2> DEFINE d == [r EXCEPT !.at = "begin", !.container = "created"]
  <2>1. /\ d \in RunType /\ d.at = "begin" /\ d.child = "none" /\ d.queue = "empty" /\ d.reply = ""
        /\ d.container = "created" /\ d.printed = ""
    BY <1>3 DEF RunType, Stages, Containers
  <2>2. Run(a, "create", d)
    BY <1>1, <1>4
  <2> HIDE DEF d
  <2>3. Becomes(r, d)
    BY <1>2, <1>3, <2>1 DEF Becomes, RunRight, StageRight, ChildRight, ReplyRight, Computed
  <2> QED BY <1>1, <2>2, <2>3, Turned
<1>5. ASSUME NEW code \in {"EXEC_IMAGE_NOT_FOUND", "DOCKER_UNAVAILABLE"},
             Mishap(a, "create", [runs[a] EXCEPT !.at = "done", !.reply = code])
      PROVE  CodeInv'
  <2> DEFINE d == [r EXCEPT !.at = "done", !.reply = code]
  <2>1. /\ d \in RunType /\ d.at = "done" /\ d.child = "none" /\ d.queue = "empty" /\ d.reply = code
        /\ d.container = "none" /\ d.printed = ""
    BY <1>3, <1>5 DEF RunType, Stages, Codes
  <2>2. Mishap(a, "create", d)
    BY <1>1, <1>5
  <2> HIDE DEF d
  <2>3. Becomes(r, d)
    BY <1>2, <1>3, <2>1 DEF Becomes, RunRight, StageRight, ChildRight, ReplyRight, Computed
  <2> QED BY <1>1, <2>2, <2>3, Turned
<1> QED BY <1>4, <1>5 DEF Create

LEMMA BeginRight ==
    ASSUME CodeInv, NEW a \in Attempts, Begin(a)
    PROVE  CodeInv'
<1>1. PICK r \in RunType : r = runs[a] /\ RunRight(r)
  BY RunOf
<1>2. r.at = "begin"
  BY <1>1 DEF Begin, Run, Mishap, Turns
<1>3. Docker /\ r.container = "created" /\ r.child = "none" /\ r.queue = "empty" /\ r.printed = "" /\ r.reply = ""
  BY <1>1, <1>2, AtDocker DEF RunRight, StageRight, ChildRight, ReplyRight
<1>4. CASE Run(a, "begin", [runs[a] EXCEPT !.at = "wait", !.container = "running"])
  <2> DEFINE d == [r EXCEPT !.at = "wait", !.container = "running"]
  <2>1. /\ d \in RunType /\ d.at = "wait" /\ d.child = "none" /\ d.queue = "empty" /\ d.reply = ""
        /\ d.container = "running" /\ d.printed = ""
    BY <1>3 DEF RunType, Stages, Containers
  <2>2. Run(a, "begin", d)
    BY <1>1, <1>4
  <2> HIDE DEF d
  <2>3. Becomes(r, d)
    BY <1>2, <1>3, <2>1 DEF Becomes, RunRight, StageRight, ChildRight, ReplyRight, Computed
  <2> QED BY <1>1, <2>2, <2>3, Turned
<1>5. CASE Mishap(a, "begin", Cleanup(runs[a], "DOCKER_UNAVAILABLE"))
  <2>1. Becomes(r, Cleanup(r, "DOCKER_UNAVAILABLE"))
    BY <1>1, <1>2, <1>3, CleanupRight, NoEmptyCode DEF RunRight
  <2> QED BY <1>1, <1>5, <2>1, Turned
<1> QED BY <1>4, <1>5 DEF Begin

LEMMA ContainerKilledRight ==
    ASSUME CodeInv, NEW a \in Attempts, ContainerKilled(a)
    PROVE  CodeInv'
<1>1. PICK r \in RunType : r = runs[a] /\ RunRight(r)
  BY RunOf
<1>2. r.container = "running"
  BY <1>1 DEF ContainerKilled
<1>3. Docker /\ InSandboxed(r)
  BY <1>1, <1>2 DEF RunRight, StageRight, InSandboxed
<1>4. r.printed = "" /\ r.reply # "RESULT" /\ r.at # "none"
  BY <1>1, <1>3, SandboxedRight
<1>5. PICK k \in RunType : /\ k = Dead(r) /\ k.child # "running" /\ k.at = r.at /\ k.printed = "" /\ k.reply = r.reply
                           /\ k.refused = r.refused /\ k.queue = r.queue
                           /\ k.child = "exited" => r.child = "exited"
                           /\ (k.child = "none") <=> (r.child = "none")
  <2> DEFINE k == Dead(r)
  <2>1. /\ k \in RunType /\ k.child # "running" /\ k.at = r.at /\ k.printed = r.printed /\ k.reply = r.reply
        /\ k.refused = r.refused /\ k.queue = r.queue
        /\ Computed(r) => k.child = "exited"
        /\ k.child = "exited" => r.child = "exited"
        /\ (k.child = "none") <=> (r.child = "none")
    BY DeadRight
  <2> HIDE DEF k
  <2>2. k \in RunType /\ k.printed = ""
    BY <1>4, <2>1
  <2> QED BY <2>1, <2>2 DEF k
<1> DEFINE d == [k EXCEPT !.container = "exited"]
<1>6. /\ d \in RunType /\ d.at = r.at /\ d.child = k.child /\ d.queue = r.queue /\ d.reply = r.reply
      /\ d.refused = r.refused /\ d.container = "exited" /\ d.printed = ""
  BY <1>5 DEF RunType, Containers
<1>7. Mishap(a, r.at, d)
  BY <1>1, <1>5 DEF ContainerKilled
<1> HIDE DEF d
<1>8. StageRight(d)
  BY <1>1, <1>2, <1>3, <1>4, <1>6 DEF RunRight, StageRight
<1>9. ChildRight(d) /\ ReplyRight(d)
  BY <1>1, <1>3, <1>4, <1>5, <1>6 DEF RunRight, ChildRight, ReplyRight, Computed
<1>10. Becomes(r, d)
  BY <1>4, <1>6, <1>8, <1>9 DEF Becomes, RunRight
<1> QED BY <1>1, <1>7, <1>10, Turned

LEMMA WaitRight ==
    ASSUME CodeInv, NEW a \in Attempts, WaitReturns(a) \/ WaitTimesOut(a) \/ WaitFails(a)
    PROVE  CodeInv'
<1>1. PICK r \in RunType : r = runs[a] /\ RunRight(r)
  BY RunOf
<1>2. r.at = "wait"
  BY <1>1 DEF WaitReturns, WaitTimesOut, WaitFails, Run, Mishap, Turns
<1>3. Docker /\ r.container \in {"running", "exited"} /\ r.reply = ""
  BY <1>1, <1>2, AtDocker DEF RunRight, StageRight, ReplyRight
<1>4. /\ ChildRight(r)
      /\ r.printed # "" => r.container \in {"exited", "removed"}
      /\ r.printed = "RESULT" => Computed(r) /\ program # "odd"
  BY <1>1 DEF RunRight, ReplyRight
<1>5. CASE WaitReturns(a)
  <2> DEFINE d == [r EXCEPT !.at = "logs"]
  <2>1. /\ d \in RunType /\ d.at = "logs" /\ d.child = r.child /\ d.queue = r.queue /\ d.reply = ""
        /\ d.container = r.container /\ d.printed = r.printed
    BY <1>3 DEF RunType, Stages
  <2>2. Run(a, "wait", d) /\ r.container = "exited"
    BY <1>1, <1>5 DEF WaitReturns
  <2> HIDE DEF d
  <2>3. StageRight(d) /\ ChildRight(d)
    BY <1>3, <1>4, <2>1, <2>2 DEF StageRight, ChildRight, Computed
  <2>4. ReplyRight(d)
    BY <1>3, <1>4, <2>1 DEF ReplyRight, Computed
  <2>5. Becomes(r, d)
    BY <1>2, <2>1, <2>3, <2>4 DEF Becomes, RunRight
  <2> QED BY <1>1, <2>2, <2>5, Turned
<1>6. CASE Run(a, "wait", Cleanup([Dead(runs[a]) EXCEPT !.container = "exited"], "EXECUTION_TIMEOUT"))
  <2>1. PICK k \in RunType : /\ k = Dead(r) /\ k.child # "running" /\ k.printed = r.printed
                             /\ k.queue = r.queue /\ (Computed(r) => k.child = "exited")
                             /\ k.child = "exited" => r.child = "exited"
                             /\ (k.child = "none") <=> (r.child = "none")
    BY DeadRight
  <2> DEFINE d == [k EXCEPT !.container = "exited"]
  <2>2. /\ d \in RunType /\ d.child = k.child /\ d.queue = r.queue /\ d.container = "exited" /\ d.printed = r.printed
    BY <2>1 DEF RunType, Containers
  <2>3. Run(a, "wait", Cleanup(d, "EXECUTION_TIMEOUT"))
    BY <1>1, <1>6, <2>1
  <2> HIDE DEF d
  <2>4. ChildRight(d)
    BY <1>3, <1>4, <2>1, <2>2 DEF ChildRight, Computed
  <2>5. d.printed = "RESULT" => Computed(d) /\ program # "odd"
    BY <1>4, <2>1, <2>2 DEF Computed
  <2>6. Becomes(r, Cleanup(d, "EXECUTION_TIMEOUT"))
    BY <1>2, <1>3, <2>2, <2>4, <2>5, CleanupRight, NoEmptyCode
  <2> QED BY <1>1, <2>3, <2>6, Turned
<1>7. ASSUME NEW code \in {"EXECUTION_TIMEOUT", "DOCKER_UNAVAILABLE"}, Mishap(a, "wait", Cleanup(runs[a], code))
      PROVE  CodeInv'
  <2>1. Becomes(r, Cleanup(r, code))
    BY <1>1, <1>2, <1>3, <1>4, <1>7, CleanupRight, NoEmptyCode
  <2> QED BY <1>1, <1>7, <2>1, Turned
<1> QED BY <1>5, <1>6, <1>7 DEF WaitTimesOut, WaitFails

LEMMA ReadLogsRight ==
    ASSUME CodeInv, NEW a \in Attempts, ReadLogs(a)
    PROVE  CodeInv'
<1>1. PICK r \in RunType : r = runs[a] /\ RunRight(r)
  BY RunOf
<1>2. r.at = "logs"
  BY <1>1 DEF ReadLogs, Run, Mishap, Turns
<1>3. Docker /\ r.container = "exited"
  BY <1>1, <1>2, AtDocker DEF RunRight, StageRight
<1>4. ChildRight(r) /\ (r.printed = "RESULT" => Computed(r) /\ program # "odd")
  BY <1>1 DEF RunRight, ReplyRight
<1>5. PICK code \in Codes : /\ code \in {"CONTAINER_EXIT_ERROR", "DOCKER_UNAVAILABLE", r.printed}
                            /\ Run(a, "logs", Cleanup(r, code)) \/ Mishap(a, "logs", Cleanup(r, code))
  <2>1. r.printed \in Codes \cup {""}
    BY DEF RunType
  <2> QED BY <1>1, <2>1, NoEmptyCode DEF ReadLogs
<1>6. Becomes(r, Cleanup(r, code))
  BY <1>2, <1>3, <1>4, <1>5, CleanupRight
<1> QED BY <1>1, <1>5, <1>6, Turned

LEMMA RemoveContainerRight ==
    ASSUME CodeInv, NEW a \in Attempts, RemoveContainer(a)
    PROVE  CodeInv'
<1>1. PICK r \in RunType : r = runs[a] /\ RunRight(r)
  BY RunOf
<1>2. r.at = "remove"
  BY <1>1 DEF RemoveContainer, Run, Mishap, Turns
<1>3. Docker /\ r.reply # ""
  BY <1>1, <1>2, AtDocker DEF RunRight, ReplyRight
<1>4. CASE Run(a, "remove", [Dead(runs[a]) EXCEPT !.at = "done", !.container = "removed"])
  <2>1. PICK k \in RunType : /\ k = Dead(r) /\ k.child # "running" /\ k.printed = r.printed /\ k.reply = r.reply
                             /\ k.refused = r.refused /\ k.queue = r.queue /\ (Computed(r) => k.child = "exited")
                             /\ k.child = "exited" => r.child = "exited"
                             /\ (k.child = "none") <=> (r.child = "none")
    BY DeadRight
  <2> DEFINE d == [k EXCEPT !.at = "done", !.container = "removed"]
  <2>2. /\ d \in RunType /\ d.at = "done" /\ d.child = k.child /\ d.queue = r.queue /\ d.reply = r.reply
        /\ d.container = "removed" /\ d.printed = r.printed
    <3>1. "done" \in Stages /\ "removed" \in Containers
      BY DEF Stages, Containers
    <3> QED BY <2>1, <3>1 DEF RunType
  <2>3. Run(a, "remove", d)
    BY <1>1, <1>4, <2>1
  <2> HIDE DEF d
  <2>4. StageRight(d)
    BY <1>3, <2>2 DEF StageRight
  <2>5. ChildRight(d) /\ ReplyRight(d)
    BY <1>1, <1>3, <2>1, <2>2 DEF RunRight, ChildRight, ReplyRight, Computed
  <2>6. Becomes(r, d)
    BY <1>2, <2>2, <2>4, <2>5 DEF Becomes, RunRight
  <2> QED BY <1>1, <2>3, <2>6, Turned
<1>5. CASE Mishap(a, "remove", [runs[a] EXCEPT !.at = "done", !.refused = TRUE])
  <2> DEFINE d == [r EXCEPT !.at = "done", !.refused = TRUE]
  <2>1. /\ d \in RunType /\ d.at = "done" /\ d.child = r.child /\ d.queue = r.queue /\ d.reply = r.reply
        /\ d.container = r.container /\ d.printed = r.printed /\ d.refused = TRUE
    BY DEF RunType, Stages
  <2>2. Mishap(a, "remove", d)
    BY <1>1, <1>5
  <2>3. d.refused
    BY <2>1
  <2> HIDE DEF d
  <2>4. StageRight(d)
    BY <1>3, <2>1, <2>3 DEF StageRight
  <2>5. ChildRight(d) /\ ReplyRight(d)
    BY <1>1, <1>3, <2>1 DEF RunRight, ChildRight, ReplyRight, Computed
  <2>6. Becomes(r, d)
    BY <1>2, <2>1, <2>4, <2>5 DEF Becomes, RunRight
  <2> QED BY <1>1, <2>2, <2>6, Turned
<1> QED BY <1>4, <1>5 DEF RemoveContainer

(***************************************************************************)
(* The worker.                                                             *)
(***************************************************************************)
LEMMA AttemptInRange ==
    ASSUME CxTypeInv
    PROVE  /\ attempt > 0 => attempt \in Attempts
           /\ attempt < MaxRetries + 1 => attempt + 1 \in Attempts
           /\ attempt \in Nat /\ \A a \in Attempts : a \in Nat /\ (a < attempt + 1 => a = attempt \/ a < attempt)
<1>1. attempt \in 0 .. MaxRetries + 1 /\ MaxRetries \in Nat
  BY CodeExecutionAssumption DEF CxTypeInv
<1> QED BY <1>1 DEF Attempts

LEMMA StartAttemptRight ==
    ASSUME CodeInv, StartAttempt
    PROVE  CodeInv'
<1> USE DEF CodeInv
<1>1. PICK b \in Attempts : b = attempt + 1 /\ b > attempt
  <2>1. attempt + 1 \in Attempts /\ attempt \in Nat
    BY AttemptInRange DEF StartAttempt
  <2> QED BY <2>1
<1>2. runs[b].at = "none" /\ seen[b] = ""
  BY <1>1 DEF SeenRight
<1>3. runs[b] = NotStarted
  BY <1>1, <1>2, RunOf DEF RunRight, StageRight
<1>4. PICK stage \in {"create", "sandbox"} : stage = IF Docker THEN "create" ELSE "sandbox"
  OBVIOUS
<1> DEFINE d == [NotStarted EXCEPT !.at = stage]
<1>5. /\ d \in RunType /\ d.at = stage /\ d.child = "none" /\ d.queue = "empty" /\ d.reply = ""
      /\ d.container = "none" /\ d.printed = ""
  BY DEF NotStarted, RunType, Stages, Containers, Children, Queues
<1>6. runs' = [runs EXCEPT ![b] = d]
  BY <1>1, <1>3, <1>4 DEF StartAttempt, Docker
<1> HIDE DEF d
<1>7. RunRight(d)
  BY <1>4, <1>5, CxConstants DEF RunRight, StageRight, ChildRight, ReplyRight, Computed
<1>8. UNCHANGED <<backend, program, seen, verdict, mishaps>> /\ attempt' = b /\ verdict = ""
  BY <1>1 DEF StartAttempt
<1>9. CxTypeInv'
  <2>1. attempt' \in 0 .. MaxRetries + 1
    <3>1. b \in 1 .. MaxRetries + 1 /\ MaxRetries \in Nat /\ attempt' = b
      BY <1>8, CodeExecutionAssumption DEF Attempts
    <3> QED BY <3>1
  <2> QED BY <1>5, <1>6, <1>8, <2>1 DEF CxTypeInv
<1>10. \A a \in Attempts : runs'[a] = IF a = b THEN d ELSE runs[a]
  BY <1>6 DEF CxTypeInv
<1>11. RunsRight'
  <2>1. ASSUME NEW a \in Attempts
        PROVE  RunRight(runs[a])'
    <3>1. PICK f : f = runs'[a] /\ RunRight(f)
      BY <1>7, <1>10 DEF RunsRight
    <3>2. RunRight(f)'
      BY <1>8, <3>1 DEF RunRight, StageRight, ChildRight, ReplyRight, Docker
    <3> QED BY <3>1, <3>2
  <2> QED BY <2>1 DEF RunsRight
<1>12. SeenRight'
  <2>1. ASSUME NEW a \in Attempts, a < b
        PROVE  seen[a] \notin {"", "RESULT"} /\ (Docker => seen[a] # "SANDBOX_VALIDATION_ERROR")
    <3>1. CASE a < attempt
      BY <3>1 DEF SeenRight
    <3>2. CASE a = attempt
      <4>1. attempt > 0 /\ seen[a] \notin {"", "RESULT"} /\ CanRetry(seen[a])
        <5>1. attempt > 0
          <6>1. attempt \in 1 .. MaxRetries + 1
            BY <3>2 DEF Attempts
          <6> QED BY <6>1, CodeExecutionAssumption
        <5> QED BY <3>2, <5>1 DEF StartAttempt
      <4> QED BY <4>1 DEF CanRetry, IsBackendError, NonRetryable, Docker
    <3> QED BY <1>1, <2>1, <3>1, <3>2, AttemptInRange
  <2>2. ASSUME NEW a \in Attempts
        PROVE  /\ a > b => runs'[a].at = "none" /\ seen[a] = ""
               /\ seen[a] # "" => a # b
    <3>1. a > b => a > attempt /\ a # b
      BY <1>1, <2>2, AttemptInRange
    <3> QED BY <1>2, <1>10, <3>1 DEF SeenRight
  <2>3. ASSUME NEW a \in Attempts, seen[a] # ""
        PROVE  /\ ~GivenUp(a) => runs'[a].at = "done"
               /\ seen[a] = "RESULT" =>
                  /\ runs'[a].at = "done" /\ runs'[a].reply = "RESULT"
                  /\ program # "shapeless" /\ (program = "odd" => ~backend.remote)
    <3>1. runs'[a] = runs[a]
      BY <1>10, <2>2, <2>3
    <3> QED BY <2>3, <3>1 DEF SeenRight
  <2>4. verdict' = ""
    BY <1>8
  <2> QED BY <1>8, <2>1, <2>2, <2>3, <2>4 DEF SeenRight, GivenUp, Docker
<1> QED BY <1>9, <1>11, <1>12

\* What is seen of an attempt does not change, and nothing else changes with it.
LEMMA ReturnsRight ==
    ASSUME CodeInv, NEW code \in Codes, Returns(code),
           code \notin {"REMOTE_EXECUTION_TIMEOUT", "REMOTE_EXECUTION_UNAVAILABLE"} => runs[attempt].at = "done",
           code = "RESULT" => /\ runs[attempt].reply = "RESULT"
                              /\ program # "shapeless" /\ (program = "odd" => ~backend.remote)
    PROVE  CodeInv'
<1> USE DEF CodeInv
<1>1. attempt \in Attempts /\ attempt > 0 /\ seen[attempt] = ""
  BY AttemptInRange DEF Returns
<1>2. /\ seen' = [seen EXCEPT ![attempt] = code] /\ code # ""
      /\ UNCHANGED <<backend, program, attempt, runs, verdict, mishaps>>
  BY NoEmptyCode DEF Returns
<1>3. CxTypeInv'
  BY <1>1, <1>2 DEF CxTypeInv
<1>4. RunsRight'
  BY <1>2, RunsStayRight
<1>5. \A a \in Attempts : seen'[a] = IF a = attempt THEN code ELSE seen[a]
  BY <1>2 DEF CxTypeInv
<1>6. SeenRight'
  <2>1. ASSUME NEW a \in Attempts, a # attempt
        PROVE  /\ a > attempt => runs[a].at = "none" /\ seen'[a] = ""
               /\ seen'[a] # "" /\ ~GivenUp(a)' => runs[a].at = "done"
               /\ seen'[a] = "RESULT" =>
                    /\ runs[a].at = "done" /\ runs[a].reply = "RESULT"
                    /\ program # "shapeless" /\ (program = "odd" => ~backend.remote)
               /\ a < attempt => seen'[a] \notin {"", "RESULT"} /\ (Docker => seen'[a] # "SANDBOX_VALIDATION_ERROR")
    <3>1. seen'[a] = seen[a]
      BY <1>5, <2>1
    <3> QED BY <3>1 DEF SeenRight, GivenUp
  <2>2. /\ ~(attempt > attempt) /\ ~(attempt < attempt) /\ seen'[attempt] = code
        /\ ~GivenUp(attempt)' => runs[attempt].at = "done"
    <3>1. ~(attempt > attempt) /\ ~(attempt < attempt)
      BY AttemptInRange
    <3>2. seen'[attempt] = code /\ attempt' = attempt
      BY <1>1, <1>2, <1>5
    <3> QED BY <3>1, <3>2 DEF GivenUp
  <2>3. verdict' = ""
    BY <1>1, <1>2 DEF SeenRight
  <2> QED BY <1>1, <1>2, <2>1, <2>2, <2>3 DEF SeenRight, GivenUp, Docker
<1> QED BY <1>3, <1>4, <1>6

LEMMA AnswerArrivesRight ==
    ASSUME CodeInv, AnswerArrives
    PROVE  CodeInv'
<1>1. attempt \in Attempts /\ runs[attempt].at = "done"
  BY AttemptInRange DEF AnswerArrives, CodeInv
<1>2. runs[attempt].reply \in Codes
  <2>1. runs[attempt] \in RunType /\ runs[attempt].reply # ""
    BY <1>1, RunOf DEF RunRight, ReplyRight
  <2> QED BY <2>1 DEF RunType
<1>3. PICK code : code = Answered(runs[attempt].reply)
  OBVIOUS
<1>4. code \in Codes
  BY <1>2, <1>3 DEF Answered, Normalized, Served, Codes
<1>5. code = "RESULT" => /\ runs[attempt].reply = "RESULT" /\ program # "shapeless"
                         /\ program = "odd" /\ backend.remote => backend.inner # "local"
  BY <1>3 DEF Answered, Normalized, Served
<1>6. code = "RESULT" /\ program = "odd" => ~backend.remote
  <2>1. runs[attempt].reply = "RESULT" /\ Docker => program # "odd"
    BY <1>1, RunOf DEF RunRight, ReplyRight
  <2> QED BY <1>5, <2>1, CxConstants DEF CodeInv
<1>7. Returns(code)
  BY <1>3 DEF AnswerArrives
<1> QED BY <1>1, <1>4, <1>5, <1>6, <1>7, ReturnsRight

LEMMA RequestFailsRight ==
    ASSUME CodeInv, RequestFails
    PROVE  CodeInv'
<1>1. PICK code \in {"REMOTE_EXECUTION_TIMEOUT", "REMOTE_EXECUTION_UNAVAILABLE"} : Returns(code)
  BY DEF RequestFails
<1> QED BY <1>1, ReturnsRight DEF Codes

LEMMA ServiceDiesRight ==
    ASSUME CodeInv, ServiceDies
    PROVE  CodeInv'
<1> USE DEF CodeInv
<1>1. UNCHANGED <<backend, program, attempt, seen, verdict>> /\ mishaps' \in 0 .. MaxMishaps
  <2>1. mishaps \in 0 .. MaxMishaps /\ MaxMishaps \in Nat
    BY CodeExecutionAssumption DEF CxTypeInv
  <2>2. mishaps < MaxMishaps /\ mishaps' = mishaps + 1
    BY DEF ServiceDies
  <2>3. UNCHANGED <<backend, program, attempt, seen, verdict>>
    BY DEF ServiceDies
  <2> QED BY <2>1, <2>2, <2>3
<1>2. ASSUME NEW a \in Attempts
      PROVE  /\ runs'[a] \in RunType /\ RunRight(runs'[a])
             /\ Ended(a) => runs'[a] = runs[a]
             /\ ~Ended(a) => runs[a].at \notin {"none", "done"} /\ runs'[a].at = "lost"
  <2>1. PICK r \in RunType : r = runs[a] /\ RunRight(r)
    BY RunOf
  <2>2. CASE Ended(a)
    BY <2>1, <2>2 DEF ServiceDies
  <2>3. CASE ~Ended(a) /\ backend.inner = "local"
    <3>1. r.at \notin {"none", "lost", "done"} /\ ~Docker
      BY <2>1, <2>3 DEF Ended, Docker
    <3>2. r.at = "sandbox" /\ r.container = "none" /\ r.printed = "" /\ r.reply = ""
      BY <2>1, <3>1 DEF RunRight, StageRight, ReplyRight
    <3> DEFINE k == Dead(r)
               d == [k EXCEPT !.at = "lost"]
    <3>3. /\ k \in RunType /\ k.child # "running" /\ k.container = r.container /\ k.printed = r.printed
          /\ k.reply = r.reply /\ k.queue = r.queue /\ (k.child = "exited" => r.child = "exited")
          /\ (k.child = "none") <=> (r.child = "none")
      BY DeadRight
    <3> HIDE DEF k
    <3>4. /\ d \in RunType /\ d.at = "lost" /\ d.child = k.child /\ d.container = "none" /\ d.printed = ""
          /\ d.reply = "" /\ d.queue = r.queue
      BY <3>2, <3>3 DEF RunType, Stages
    <3>5. runs'[a] = d
      BY <2>1, <2>3 DEF ServiceDies, k
    <3> HIDE DEF d
    <3>6. StageRight(d) /\ ReplyRight(d)
      BY <3>1, <3>4 DEF StageRight, ReplyRight
    <3>7. ChildRight(d)
      BY <2>1, <3>1, <3>3, <3>4 DEF RunRight, ChildRight, Computed
    <3> QED BY <2>1, <2>3, <3>1, <3>4, <3>5, <3>6, <3>7 DEF RunRight
  <2>4. CASE ~Ended(a) /\ backend.inner # "local"
    <3>1. r.at \notin {"none", "lost", "done"} /\ Docker
      BY <2>1, <2>4, CxConstants DEF Ended
    <3> DEFINE d == [r EXCEPT !.at = "lost"]
    <3>2. /\ d \in RunType /\ d.at = "lost" /\ d.child = r.child /\ d.container = r.container
          /\ d.printed = r.printed /\ d.reply = r.reply /\ d.queue = r.queue
      BY DEF RunType, Stages
    <3>3. runs'[a] = d
      BY <2>1, <2>4 DEF ServiceDies
    <3> HIDE DEF d
    <3>4. StageRight(d)
      BY <3>1, <3>2 DEF StageRight
    <3>5. ChildRight(d) /\ ReplyRight(d)
      BY <2>1, <3>1, <3>2 DEF RunRight, ChildRight, ReplyRight, Computed
    <3> QED BY <2>1, <2>4, <3>1, <3>2, <3>3, <3>4, <3>5 DEF RunRight
  <2> QED BY <2>2, <2>3, <2>4
<1>3. CxTypeInv'
  <2>1. runs' \in [Attempts -> RunType]
    BY <1>2 DEF ServiceDies
  <2> QED BY <1>1, <2>1 DEF CxTypeInv
<1>4. RunsRight'
  <2>1. ASSUME NEW a \in Attempts
        PROVE  RunRight(runs[a])'
    <3>1. PICK f : f = runs'[a] /\ RunRight(f)
      BY <1>2
    <3>2. RunRight(f)'
      BY <1>1, <3>1 DEF RunRight, StageRight, ChildRight, ReplyRight, Docker
    <3> QED BY <3>1, <3>2
  <2> QED BY <2>1 DEF RunsRight
<1>5. SeenRight'
  <2>1. ASSUME NEW a \in Attempts
        PROVE  /\ runs[a].at = "none" => runs'[a].at = "none"
               /\ runs[a].at = "done" => runs'[a].at = "done" /\ runs'[a].reply = runs[a].reply
    BY <1>2 DEF Ended
  <2> QED BY <1>1, <2>1 DEF SeenRight, GivenUp, Docker
<1> QED BY <1>3, <1>4, <1>5

LEMMA ConcludeRight ==
    ASSUME CodeInv, Conclude
    PROVE  CodeInv'
<1> USE DEF CodeInv
<1>1. /\ attempt \in Attempts /\ attempt > 0 /\ verdict' = seen[attempt]
      /\ UNCHANGED <<backend, program, attempt, runs, seen, mishaps>>
  BY AttemptInRange DEF Conclude
<1>2. CxTypeInv'
  BY <1>1 DEF CxTypeInv
<1>3. RunsRight'
  BY <1>1, RunsStayRight
<1>4. SeenRight'
  BY <1>1 DEF SeenRight, GivenUp, Docker
<1> QED BY <1>2, <1>3, <1>4

(***************************************************************************)
(* The initial state, every step, and the theorems.                        *)
(***************************************************************************)
LEMMA InitiallyInOrder == CxInit => CodeInv
<1> SUFFICES ASSUME CxInit PROVE CodeInv
  OBVIOUS
<1>1. /\ NotStarted \in RunType /\ NotStarted.at = "none" /\ NotStarted.container = "none"
      /\ NotStarted.child = "none" /\ NotStarted.queue = "empty" /\ NotStarted.printed = "" /\ NotStarted.reply = ""
  BY NothingStarted
<1>2. 0 \in 0 .. MaxMishaps /\ 0 \in 0 .. MaxRetries + 1
  BY CodeExecutionAssumption
<1>3. CxTypeInv
  BY <1>1, <1>2 DEF CxInit, CxTypeInv
<1>4. RunRight(NotStarted)
  BY <1>1 DEF RunRight, StageRight, ChildRight, ReplyRight, Computed
<1>5. RunsRight
  BY <1>4 DEF RunsRight, CxInit
<1>6. SeenRight
  <2>1. \A a \in Attempts : ~(a < attempt) /\ runs[a].at = "none" /\ seen[a] = ""
    <3>1. \A a \in Attempts : a \in Nat \ {0}
      BY CodeExecutionAssumption DEF Attempts
    <3>2. attempt = 0
      BY DEF CxInit
    <3>3. \A a \in Attempts : ~(a < attempt)
      BY <3>1, <3>2
    <3>4. \A a \in Attempts : runs[a] = NotStarted /\ seen[a] = ""
      BY DEF CxInit
    <3> QED BY <1>1, <3>3, <3>4
  <2> QED BY <2>1 DEF SeenRight, CxInit
<1> QED BY <1>3, <1>5, <1>6 DEF CodeInv

LEMMA StepsInOrder == CodeInv /\ [CxNext]_cxVars => CodeInv'
<1> SUFFICES ASSUME CodeInv, [CxNext]_cxVars PROVE CodeInv'
  OBVIOUS
<1>1. CASE CxWorker
  BY <1>1, StartAttemptRight, AnswerArrivesRight, ConcludeRight DEF CxWorker
<1>2. CASE RequestFails \/ ServiceDies
  BY <1>2, RequestFailsRight, ServiceDiesRight
<1>3. ASSUME NEW a \in Attempts, InSandbox(a) \/ Delivers(a) \/ ChildKilled(a)
      PROVE  CodeInv'
  BY <1>3, InSandboxRight, ChildActsRight DEF InSandbox
<1>4. ASSUME NEW a \in Attempts, InDocker(a) \/ ContainerKilled(a) \/ WaitFails(a)
      PROVE  CodeInv'
  BY <1>4, CreateRight, BeginRight, WaitRight, ReadLogsRight, RemoveContainerRight, ContainerKilledRight DEF InDocker
<1>5. CASE UNCHANGED cxVars
  <2>1. UNCHANGED <<backend, program, attempt, runs, seen, verdict, mishaps>>
    BY <1>5 DEF cxVars
  <2>2. CxTypeInv'
    BY <2>1 DEF CodeInv, CxTypeInv
  <2>3. RunsRight'
    BY <2>1, RunsStayRight DEF CodeInv
  <2>4. SeenRight'
    BY <2>1 DEF CodeInv, SeenRight, GivenUp, Docker
  <2> QED BY <2>2, <2>3, <2>4 DEF CodeInv
<1> QED BY <1>1, <1>2, <1>3, <1>4, <1>5 DEF CxNext

LEMMA ImpliesResult ==
    ASSUME CodeInv
    PROVE  ResultIsComputed
<1> USE DEF CodeInv
<1>1. ASSUME verdict = "RESULT"
      PROVE  /\ program \in {"good", "odd"} /\ (program = "odd" => backend.inner = "local" /\ ~backend.remote)
             /\ runs[attempt].queue = "result" /\ runs[attempt].child = "exited"
  <2>1. attempt \in Attempts /\ seen[attempt] = "RESULT"
    BY <1>1, AttemptInRange DEF SeenRight
  <2>2. runs[attempt].reply = "RESULT" /\ program # "shapeless" /\ (program = "odd" => ~backend.remote)
    BY <2>1 DEF SeenRight
  <2>3. Computed(runs[attempt]) /\ (Docker => program # "odd")
    BY <2>1, <2>2, RunOf DEF RunRight, ReplyRight
  <2>4. program \in {"good", "odd", "shapeless"}
    BY <2>1, <2>3, RunOf DEF RunRight, ChildRight, Computed
  <2> QED BY <2>2, <2>3, <2>4, CxConstants DEF Computed
<1>2. ASSUME program = "forbidden", NEW a \in Attempts
      PROVE  runs[a].child = "none"
  BY <1>2, RunOf DEF RunRight, ChildRight
<1>3. ASSUME verdict = "SANDBOX_VALIDATION_ERROR", backend.inner = "docker", NEW a \in 1 .. attempt - 1
      PROVE  seen[a] \in Codes \ {"SANDBOX_VALIDATION_ERROR"}
  <2>1. a \in Attempts /\ a < attempt
    <3>1. attempt \in 0 .. MaxRetries + 1
      BY DEF CxTypeInv
    <3> QED BY <3>1, CodeExecutionAssumption DEF Attempts
  <2>2. seen[a] # "" /\ seen[a] # "SANDBOX_VALIDATION_ERROR"
    BY <1>3, <2>1 DEF SeenRight, Docker
  <2> QED BY <2>1, <2>2 DEF CxTypeInv
<1> QED BY <1>1, <1>2, <1>3 DEF ResultIsComputed

LEMMA ImpliesNothingLeft ==
    ASSUME CodeInv
    PROVE  NothingLeftBehind
<1> USE DEF CodeInv
<1>1. ASSUME NEW a \in Attempts, runs[a].at = "done", ~runs[a].refused
      PROVE  runs[a].child # "running" /\ runs[a].container \in {"none", "removed"}
  BY <1>1, RunOf DEF RunRight, StageRight, ChildRight
<1>2. ASSUME NEW a \in Attempts, NEW b \in Attempts, a < b, runs[a].child = "running", runs[b].child = "running"
      PROVE  GivenUp(a) \/ runs[a].refused
  <2>1. runs[b].at # "none"
    <3>1. runs[b].at = "none" => runs[b].child = "none"
      BY RunOf, NothingStarted DEF RunRight, StageRight
    <3> QED BY <1>2, <3>1
  <2>2. ~(b > attempt)
    BY <2>1 DEF SeenRight
  <2>3. a < attempt
    BY <1>2, <2>2, AttemptInRange
  <2>4. seen[a] # ""
    BY <2>3 DEF SeenRight
  <2>5. GivenUp(a) \/ runs[a].at = "done"
    BY <2>4 DEF SeenRight
  <2> QED BY <1>1, <1>2, <2>5
<1> QED BY <1>1, <1>2 DEF NothingLeftBehind

LEMMA ImpliesCodeTypes == CodeInv => CxTypeOK
BY DEF CodeInv, CxTypeInv, CxTypeOK, RunType, Containers, Children, Queues

\* The inductive invariant of the executions: where the container and the
\* child are at every stage, and what is printed and answered.
THEOREM CodeInvariant == CxSpec => []CodeInv
BY InitiallyInOrder, StepsInOrder, PTL DEF CxSpec

\* A code task succeeds only with what its program computed, and nothing of
\* an execution that has ended is left running (sandbox, docker executor).
THEOREM ExecutionsAreAccounted == CxSpec => [](CxTypeOK /\ ExecutionsAccounted)
<1>1. CodeInv => CxTypeOK /\ ExecutionsAccounted
  BY ImpliesResult, ImpliesNothingLeft, ImpliesCodeTypes DEF ExecutionsAccounted
<1> QED BY <1>1, CodeInvariant, PTL

(***************************************************************************)
(* Accounts.                                                               *)
(***************************************************************************)
AcSpec == AcInit /\ [][AcNext]_acVars

Ats == {"idle", "slug", "tenant", "user", "token", "verify", "save"}
Slugs == {SlugOf[n] : n \in Usernames} \X (Nat \ {0})
Tokens == {NoToken} \cup [user : Usernames, number : Nat \ {0}]
User == [slug : Slugs \cup {NoUser.slug}, password : Passwords \cup {""},
         form : {"none", "legacy", "pbkdf2"}, logins : Nat, valid : BOOLEAN]
Tab == [at : Ats, name : Usernames \cup {""}, password : Passwords \cup {""},
        slug : Slugs \cup {NoUser.slug}, legacy : BOOLEAN, found : BOOLEAN, registered : BOOLEAN,
        issued : Tokens, token : Tokens, code : Tabs, saved : BOOLEAN]

\* AcTypeOK, with the fields of a tab, and finitely many tenants.
AcTypeInv ==
    /\ requests \in 0 .. MaxRequests
    /\ tenants \subseteq Slugs /\ IsFiniteSet(tenants)
    /\ users \in [Usernames -> User]
    /\ projects \in [Usernames -> Tabs \cup {NoCode}]
    /\ tabs \in [Tabs -> Tab]

\* What a tab may rely on: about a request in progress, what it has read and
\* the constraints have not yet refused; about one answered, what it was told.
RightTab(e) ==
    /\ e.at \in {"slug", "tenant", "user", "token"} => e.name \in Usernames /\ e.password \in Passwords
    /\ e.at = "save" => e.name \in Usernames
    /\ e.at \in {"tenant", "user"} => e.slug \in Slugs
    /\ e.at = "user" => e.slug \in tenants /\ \A n \in Usernames : Exists(n) => users[n].slug # e.slug
    /\ e.at = "token" => Exists(e.name) /\ users[e.name].password = e.password
    /\ e.registered => e.name \in Usernames /\ Exists(e.name) /\ users[e.name].password = e.password
    /\ e.saved => e.name \in Usernames /\ projects[e.name] # NoCode
    /\ \A x \in {e.token, e.issued} : x # NoToken => Exists(x.user) /\ x.number <= users[x.user].logins

\* Two tabs neither hold one token nor have committed one tenant.
Apart(e, f) ==
    /\ e.at = "user" /\ f.at = "user" => e.slug # f.slug
    /\ \A x \in {e.token, e.issued}, y \in {f.token, f.issued} : x # NoToken => x # y

OwnTenants ==
    /\ \A n \in Usernames : users[n].slug \in (IF Exists(n) THEN tenants ELSE {NoUser.slug})
    /\ \A n, m \in Usernames : Exists(n) /\ Exists(m) /\ n # m => users[n].slug # users[m].slug

TabsRight == \A t \in Tabs : RightTab(tabs[t])
TabsApart == \A t, u \in Tabs : t # u => Apart(tabs[t], tabs[u])

AccountsInv == AcTypeInv /\ TabsRight /\ TabsApart /\ OwnTenants

LEMMA FieldsOfNothing ==
    /\ NoUser.slug = <<0, 0>> /\ NoUser.form = "none" /\ NoUser.logins = 0
    /\ NoUser.slug \notin Slugs
    /\ NoToken \in Tokens
BY DEF NoUser, Slugs, NoToken, Tokens

(***************************************************************************)
(* Slugs.  Among one number more than there are tenants one is free.       *)
(***************************************************************************)
LEMMA FreeNumber ==
    ASSUME NEW base, IsFiniteSet(tenants)
    PROVE  {k \in 1 .. Cardinality(tenants) + 1 : <<base, k>> \notin tenants} # {}
<1> DEFINE C == Cardinality(tenants)
           f == [k \in 1 .. C + 1 |-> <<base, k>>]
<1>1. C \in Nat
  BY FS_CardinalityType
<1> SUFFICES ASSUME \A k \in 1 .. C + 1 : <<base, k>> \in tenants
             PROVE  FALSE
  OBVIOUS
<1>2. f \in Injection(1 .. C + 1, tenants)
  BY DEF Injection, IsInjective
<1>3. Cardinality(1 .. C + 1) = C + 1 /\ IsFiniteSet(1 .. C + 1)
  BY <1>1, FS_Interval
<1>4. C + 1 <= C
  BY <1>2, <1>3, FS_Injection
<1> QED BY <1>1, <1>4

LEMMA FreeSlugIsNew ==
    ASSUME AcTypeInv, NEW n \in Usernames
    PROVE  FreeSlug(SlugOf[n]) \in Slugs
<1> DEFINE S == {k \in 1 .. Cardinality(tenants) + 1 : <<SlugOf[n], k>> \notin tenants}
<1>1. S # {}
  BY FreeNumber DEF AcTypeInv
<1>2. S \subseteq Nat \ {0}
  BY FS_CardinalityType DEF AcTypeInv
<1>3. FreeSlug(SlugOf[n]) = <<SlugOf[n], Min(S)>>
  BY DEF FreeSlug
<1> HIDE DEF S
<1>4. PICK k \in S : \A j \in S : k <= j
  <2> DEFINE R == OpToRel(<, Nat)
  <2>1. PICK k \in S : \A j \in S : ~(<<j, k>> \in R)
    <3>1. IsWellFoundedOn(R, Nat)
      BY NatLessThanWellFounded
    <3> HIDE DEF R
    <3> QED BY <1>1, <1>2, <3>1, WFMin
  <2>2. \A j \in S : ~(j < k)
    BY <1>2, <2>1 DEF OpToRel
  <2>3. k \in S /\ \A j \in S : k <= j
    BY <1>2, <2>2
  <2> QED BY <2>3
<1>5. Min(S) \in S
  BY <1>4 DEF Min
<1> DEFINE least == Min(S)
<1>6. least \in Nat \ {0}
  BY <1>2, <1>5
<1> HIDE DEF least
<1> QED BY <1>3, <1>6 DEF Slugs, least

(***************************************************************************)
(* The invariant says what AccountsHold and AcTypeOK ask for.              *)
(***************************************************************************)
LEMMA OneTokenPerUser ==
    ASSUME AcTypeInv, TabsApart, NEW t \in Tabs, NEW u \in Tabs, t # u,
           Accepts(tabs[t].token), Accepts(tabs[u].token)
    PROVE  tabs[t].token.user # tabs[u].token.user
<1> DEFINE x == tabs[t].token
           y == tabs[u].token
<1>1. x \in [user : Usernames, number : Nat \ {0}] /\ y \in [user : Usernames, number : Nat \ {0}]
  BY DEF AcTypeInv, Tab, Tokens, Accepts
<1>2. x # y
  BY DEF TabsApart, Apart, Accepts
<1>3. users[x.user].logins = x.number /\ users[y.user].logins = y.number
  BY DEF Accepts
<1> QED BY <1>1, <1>2, <1>3

LEMMA ImpliesHold ==
    ASSUME AccountsInv
    PROVE  AccountsHold
<1> USE DEF AccountsInv
<1>1. ASSUME NEW t \in Tabs, tabs[t].registered
      PROVE  Exists(tabs[t].name) /\ users[tabs[t].name].password = tabs[t].password
  BY <1>1, Zenon DEF TabsRight, RightTab
<1>2. ASSUME NEW n \in Usernames, NEW m \in Usernames, Exists(n), n # m
      PROVE  users[n].slug \in tenants /\ users[n].slug # users[m].slug
  <2>1. users[n].slug \in tenants /\ users[n].slug # NoUser.slug
    BY <1>2, FieldsOfNothing DEF OwnTenants, AcTypeInv
  <2>2. users[n].slug # users[m].slug
    BY <1>2, <2>1 DEF OwnTenants
  <2> QED BY <2>1, <2>2
<1>3. ASSUME NEW t \in Tabs, tabs[t].saved
      PROVE  projects[tabs[t].name] # NoCode
  BY <1>3, Zenon DEF TabsRight, RightTab
<1> QED BY <1>1, <1>2, <1>3, OneTokenPerUser, Zenon DEF AccountsHold

LEMMA ImpliesTypeOK ==
    ASSUME AccountsInv
    PROVE  AcTypeOK
<1> USE DEF AccountsInv, AcTypeInv
<1>1. tenants \subseteq {SlugOf[n] : n \in Usernames} \X Nat
  BY DEF Slugs
<1>2. ASSUME NEW n \in Usernames
      PROVE  /\ users[n].slug \in tenants \cup {NoUser.slug} /\ users[n].password \in Passwords \cup {""}
             /\ users[n].form \in {"none", "legacy", "pbkdf2"} /\ users[n].logins \in Nat /\ users[n].valid \in BOOLEAN
  <2>1. users[n].slug \in tenants \cup {NoUser.slug}
    BY <1>2 DEF OwnTenants
  <2>2. users[n] \in User
    BY <1>2
  <2> QED BY <2>1, <2>2 DEF User
<1>3. ASSUME NEW t \in Tabs
      PROVE  tabs[t].at \in {"idle", "slug", "tenant", "user", "token", "verify", "save"}
  BY <1>3 DEF Tab, Ats
<1> QED BY <1>1, <1>2, <1>3 DEF AcTypeOK

(***************************************************************************)
(* A step that moves one tab.                                              *)
(***************************************************************************)
\* The tab is not at the tenant's commit, and holds no new token.
HoldsNoMore(e, f) ==
    /\ e.at # "user"
    /\ {e.token, e.issued} \subseteq {f.token, f.issued, NoToken}

LEMMA OneTabMoves ==
    ASSUME AccountsInv, NEW t \in Tabs, NEW e \in Tab, HoldsNoMore(e, tabs[t]), RightTab(e),
           tabs' = [tabs EXCEPT ![t] = e], requests' \in 0 .. MaxRequests, ReadsOnly
    PROVE  AccountsInv'
<1> USE DEF AccountsInv
<1>1. \A u \in Tabs : tabs'[u] = IF u = t THEN e ELSE tabs[u]
  BY DEF AcTypeInv
<1>2. AcTypeInv'
  BY DEF AcTypeInv, ReadsOnly
<1>3. \A f : RightTab(f)' = RightTab(f)
  BY DEF RightTab, Exists, ReadsOnly
<1>4. TabsRight'
  BY <1>1 DEF TabsRight, RightTab, Exists, ReadsOnly
<1>5. TabsApart'
  <2>1. ASSUME NEW u \in Tabs, u # t
        PROVE  Apart(e, tabs[u]) /\ Apart(tabs[u], e)
    BY <2>1 DEF TabsApart, Apart, HoldsNoMore
  <2> QED BY <1>1, <2>1 DEF TabsApart
<1>6. OwnTenants'
  BY DEF OwnTenants, Exists, ReadsOnly
<1> QED BY <1>2, <1>4, <1>5, <1>6

LEMMA ReleasedTab ==
    ASSUME NEW e \in Tab
    PROVE  /\ Released(e) \in Tab /\ Released(e).at = "idle"
           /\ Released(e).name = e.name /\ Released(e).password = e.password
           /\ Released(e).registered = e.registered /\ Released(e).saved = e.saved
           /\ Released(e).token = e.token /\ Released(e).issued = e.issued /\ Released(e).code = e.code
BY DEF Released, Tab, Ats, NoUser

\* A request that is refused or over leaves what its tab was told before.
LEMMA ReleasedRight ==
    ASSUME NEW e \in Tab, RightTab(e)
    PROVE  RightTab(Released(e)) /\ HoldsNoMore(Released(e), e)
BY ReleasedTab DEF RightTab, HoldsNoMore

LEMMA Refused ==
    ASSUME AccountsInv, NEW t \in Tabs, tabs' = [tabs EXCEPT ![t] = Released(tabs[t])],
           requests' = requests, ReadsOnly
    PROVE  AccountsInv'
<1>1. tabs[t] \in Tab /\ RightTab(tabs[t]) /\ requests' \in 0 .. MaxRequests
  BY DEF AccountsInv, AcTypeInv, TabsRight
<1> QED BY <1>1, ReleasedTab, ReleasedRight, OneTabMoves

(***************************************************************************)
(* Steps that only read the tables.                                        *)
(***************************************************************************)
LEMMA AskedInBounds ==
    ASSUME AcTypeInv, Asked
    PROVE  requests' \in 0 .. MaxRequests
BY AccountsAssumption DEF AcTypeInv, Asked

LEMMA RegisterRight ==
    ASSUME AccountsInv, NEW t \in Tabs, Register(t)
    PROVE  AccountsInv'
<1> USE DEF AccountsInv
<1>1. PICK n \in Usernames, p \in Passwords :
        Does(t, "idle", [tabs[t] EXCEPT !.at = "slug", !.name = n, !.password = p,
                                        !.registered = FALSE, !.saved = FALSE])
  BY DEF Register
<1> DEFINE e == [tabs[t] EXCEPT !.at = "slug", !.name = n, !.password = p,
                                !.registered = FALSE, !.saved = FALSE]
<1>2. tabs[t] \in Tab /\ RightTab(tabs[t])
  BY DEF AcTypeInv, TabsRight
<1>3. /\ e \in Tab /\ e.at = "slug" /\ e.name = n /\ e.password = p /\ ~e.registered /\ ~e.saved
      /\ e.token = tabs[t].token /\ e.issued = tabs[t].issued
  BY <1>2 DEF Tab, Ats
<1>4. tabs' = [tabs EXCEPT ![t] = e] /\ ReadsOnly /\ requests' \in 0 .. MaxRequests
  BY <1>1, AskedInBounds DEF Does, Register
<1> HIDE DEF e
<1>5. RightTab(e) /\ HoldsNoMore(e, tabs[t])
  BY <1>2, <1>3 DEF RightTab, HoldsNoMore
<1> QED BY <1>3, <1>4, <1>5, OneTabMoves

LEMMA ChooseSlugRight ==
    ASSUME AccountsInv, NEW t \in Tabs, ChooseSlug(t)
    PROVE  AccountsInv'
<1> USE DEF AccountsInv
<1> DEFINE s == FreeSlug(SlugOf[tabs[t].name])
           e == [tabs[t] EXCEPT !.at = "tenant", !.slug = s]
<1>1. tabs[t] \in Tab /\ RightTab(tabs[t]) /\ tabs[t].at = "slug"
  BY DEF AcTypeInv, TabsRight, ChooseSlug, Does
<1>2. tabs[t].name \in Usernames /\ tabs[t].password \in Passwords
  BY <1>1 DEF RightTab
<1>3. s \in Slugs
  BY <1>2, FreeSlugIsNew
<1>4. tabs' = [tabs EXCEPT ![t] = e] /\ ReadsOnly /\ requests' \in 0 .. MaxRequests
  BY DEF Does, ChooseSlug, AcTypeInv
<1> HIDE DEF s
<1>5. /\ e \in Tab /\ e.at = "tenant" /\ e.slug = s /\ e.name = tabs[t].name /\ e.password = tabs[t].password
      /\ e.registered = tabs[t].registered /\ e.saved = tabs[t].saved
      /\ e.token = tabs[t].token /\ e.issued = tabs[t].issued
  BY <1>1, <1>3 DEF Tab, Ats
<1> HIDE DEF e
<1>6. RightTab(e) /\ HoldsNoMore(e, tabs[t])
  BY <1>1, <1>2, <1>3, <1>5 DEF RightTab, HoldsNoMore
<1> QED BY <1>4, <1>5, <1>6, OneTabMoves

LEMMA LoginRight ==
    ASSUME AccountsInv, NEW t \in Tabs, Login(t)
    PROVE  AccountsInv'
<1> USE DEF AccountsInv
<1>1. PICK n \in Usernames, p \in Passwords :
        /\ Exists(n) /\ users[n].password = p
        /\ Does(t, "idle", [tabs[t] EXCEPT !.at = "token", !.name = n, !.password = p,
                   !.legacy = users[n].form = "legacy", !.registered = FALSE, !.saved = FALSE])
  BY DEF Login
<1> DEFINE old == users[n].form = "legacy"
           e == [tabs[t] EXCEPT !.at = "token", !.name = n, !.password = p,
                                !.legacy = old, !.registered = FALSE, !.saved = FALSE]
<1>2. tabs[t] \in Tab /\ RightTab(tabs[t]) /\ old \in BOOLEAN
  BY DEF AcTypeInv, TabsRight
<1>3. tabs' = [tabs EXCEPT ![t] = e] /\ ReadsOnly /\ requests' \in 0 .. MaxRequests
  BY <1>1, AskedInBounds, Zenon DEF Does, Login
<1> HIDE DEF old
<1>4. /\ e \in Tab /\ e.at = "token" /\ e.name = n /\ e.password = p /\ ~e.registered /\ ~e.saved
      /\ e.token = tabs[t].token /\ e.issued = tabs[t].issued
  BY <1>2 DEF Tab, Ats
<1> HIDE DEF e
<1>5. RightTab(e) /\ HoldsNoMore(e, tabs[t])
  BY <1>1, <1>2, <1>4 DEF RightTab, HoldsNoMore
<1> QED BY <1>3, <1>4, <1>5, OneTabMoves

LEMMA VerifyLoginRight ==
    ASSUME AccountsInv, NEW t \in Tabs, VerifyLogin(t)
    PROVE  AccountsInv'
<1> USE DEF AccountsInv
<1> DEFINE f == Released(tabs[t])
           x == IF Accepts(tabs[t].issued) THEN tabs[t].issued ELSE f.token
           e == [f EXCEPT !.issued = NoToken, !.token = x]
<1>1. tabs[t] \in Tab /\ RightTab(tabs[t])
  BY DEF AcTypeInv, TabsRight
<1>2. f \in Tab /\ RightTab(f) /\ HoldsNoMore(f, tabs[t]) /\ f.at = "idle" /\ f.issued = tabs[t].issued
  BY <1>1, ReleasedTab, ReleasedRight
<1>3. tabs' = [tabs EXCEPT ![t] = e] /\ ReadsOnly /\ requests' \in 0 .. MaxRequests
  BY DEF Does, VerifyLogin, AcTypeInv
<1>4. x \in {f.token, f.issued}
  BY <1>2
<1> HIDE DEF f, x
<1>5. x \in Tokens /\ NoToken \in Tokens
  BY <1>2, <1>4, FieldsOfNothing DEF Tab
<1>6. /\ e \in Tab /\ e.at = "idle" /\ e.name = f.name /\ e.password = f.password
      /\ e.registered = f.registered /\ e.saved = f.saved /\ e.token = x /\ e.issued = NoToken
  BY <1>2, <1>5 DEF Tab
<1> HIDE DEF e
<1>7. RightTab(e) /\ HoldsNoMore(e, tabs[t])
  BY <1>2, <1>4, <1>6 DEF RightTab, HoldsNoMore
<1> QED BY <1>3, <1>6, <1>7, OneTabMoves

LEMMA LogoutRight ==
    ASSUME AccountsInv, NEW t \in Tabs, Logout(t)
    PROVE  AccountsInv'
<1> USE DEF AccountsInv
<1> DEFINE e == [tabs[t] EXCEPT !.token = NoToken]
<1>1. tabs[t] \in Tab /\ RightTab(tabs[t]) /\ tabs[t].at = "idle" /\ NoToken \in Tokens
  BY FieldsOfNothing DEF AcTypeInv, TabsRight, Logout, Does
<1>2. tabs' = [tabs EXCEPT ![t] = e] /\ ReadsOnly /\ requests' \in 0 .. MaxRequests
  BY AskedInBounds DEF Does, Logout
<1>3. /\ e \in Tab /\ e.at = "idle" /\ e.name = tabs[t].name /\ e.password = tabs[t].password
      /\ e.registered = tabs[t].registered /\ e.saved = tabs[t].saved
      /\ e.token = NoToken /\ e.issued = tabs[t].issued
  BY <1>1 DEF Tab
<1> HIDE DEF e
<1>4. RightTab(e) /\ HoldsNoMore(e, tabs[t])
  BY <1>1, <1>3 DEF RightTab, HoldsNoMore
<1> QED BY <1>2, <1>3, <1>4, OneTabMoves

LEMMA AcceptedOfUser ==
    ASSUME AcTypeInv, NEW t \in Tabs, Accepts(tabs[t].token)
    PROVE  tabs[t].token.user \in Usernames
BY DEF AcTypeInv, Tab, Tokens, Accepts

LEMMA SaveProjectRight ==
    ASSUME AccountsInv, NEW t \in Tabs, SaveProject(t)
    PROVE  AccountsInv'
<1> USE DEF AccountsInv
<1> DEFINE n == tabs[t].token.user
           there == projects[n] # NoCode
           e == [tabs[t] EXCEPT !.at = "save", !.name = n, !.found = there, !.saved = FALSE, !.registered = FALSE]
<1>1. tabs[t] \in Tab /\ RightTab(tabs[t]) /\ there \in BOOLEAN
  BY DEF AcTypeInv, TabsRight
<1>2. n \in Usernames
  BY AcceptedOfUser DEF SaveProject
<1>3. tabs' = [tabs EXCEPT ![t] = e] /\ ReadsOnly /\ requests' \in 0 .. MaxRequests
  BY AskedInBounds, Zenon DEF Does, SaveProject
<1> HIDE DEF there, n
<1>4. /\ e \in Tab /\ e.at = "save" /\ e.name = n /\ ~e.registered /\ ~e.saved
      /\ e.token = tabs[t].token /\ e.issued = tabs[t].issued
  BY <1>1, <1>2 DEF Tab, Ats
<1> HIDE DEF e
<1>5. RightTab(e) /\ HoldsNoMore(e, tabs[t])
  BY <1>1, <1>2, <1>4 DEF RightTab, HoldsNoMore
<1> QED BY <1>3, <1>4, <1>5, OneTabMoves

LEMMA LoadProjectRight ==
    ASSUME AccountsInv, NEW t \in Tabs, LoadProject(t)
    PROVE  AccountsInv'
<1> USE DEF AccountsInv
<1> DEFINE c == projects[tabs[t].token.user]
           e == [tabs[t] EXCEPT !.code = c]
<1>1. tabs[t] \in Tab /\ RightTab(tabs[t]) /\ tabs[t].at = "idle"
  BY DEF AcTypeInv, TabsRight, LoadProject, Does
<1>2. c \in Tabs
  BY AcceptedOfUser DEF LoadProject, AcTypeInv
<1>3. tabs' = [tabs EXCEPT ![t] = e] /\ ReadsOnly /\ requests' \in 0 .. MaxRequests
  BY AskedInBounds DEF Does, LoadProject
<1> HIDE DEF c
<1>4. /\ e \in Tab /\ e.at = "idle" /\ e.name = tabs[t].name /\ e.password = tabs[t].password
      /\ e.registered = tabs[t].registered /\ e.saved = tabs[t].saved
      /\ e.token = tabs[t].token /\ e.issued = tabs[t].issued
  BY <1>1, <1>2 DEF Tab
<1> HIDE DEF e
<1>5. RightTab(e) /\ HoldsNoMore(e, tabs[t])
  BY <1>1, <1>4 DEF RightTab, HoldsNoMore
<1> QED BY <1>3, <1>4, <1>5, OneTabMoves

(***************************************************************************)
(* Steps that write the tables: what the other tabs rely on stays.         *)
(***************************************************************************)
Keeps ==
    /\ tenants \subseteq tenants'
    /\ \A n \in Usernames :
        /\ Exists(n) => /\ Exists(n)' /\ users'[n].password = users[n].password
                        /\ users[n].logins <= users'[n].logins
        /\ projects[n] # NoCode => projects'[n] # NoCode

Untaken(slug) == \A n \in Usernames : Exists(n) => users[n].slug # slug
StaysUntaken(slug) == \A n \in Usernames : users'[n].form # "none" => users'[n].slug # slug

LEMMA UserTypes ==
    ASSUME AcTypeInv, NEW n \in Usernames
    PROVE  users[n] \in User /\ users[n].logins \in Nat
<1>1. users[n] \in User
  BY DEF AcTypeInv
<1> QED BY <1>1 DEF User

LEMMA StaysRight ==
    ASSUME AcTypeInv, AcTypeInv', Keeps, NEW e \in Tab, RightTab(e), e.at = "user" => StaysUntaken(e.slug)
    PROVE  RightTab(e)'
<1>1. ASSUME NEW x \in {e.token, e.issued}, x # NoToken
      PROVE  Exists(x.user)' /\ x.number <= users'[x.user].logins
  <2>1. x.user \in Usernames /\ x.number \in Nat
    <3>1. e.token \in Tokens /\ e.issued \in Tokens
      BY DEF Tab
    <3> QED BY <1>1, <3>1 DEF Tokens
  <2>2. Exists(x.user) /\ x.number <= users[x.user].logins
    BY <1>1 DEF RightTab
  <2>3. users[x.user].logins \in Nat /\ users'[x.user].logins \in Nat
    BY <2>1 DEF AcTypeInv, User
  <2> QED BY <2>1, <2>2, <2>3 DEF Keeps
<1>2. e.at = "user" => e.slug \in tenants' /\ StaysUntaken(e.slug)
  BY DEF RightTab, Keeps
<1>3. e.at = "token" => Exists(e.name)' /\ users'[e.name].password = e.password
  BY DEF RightTab, Keeps
<1>4. e.registered => e.name \in Usernames /\ Exists(e.name)' /\ users'[e.name].password = e.password
  BY Zenon DEF RightTab, Keeps
<1>5. e.saved => e.name \in Usernames /\ projects'[e.name] # NoCode
  BY Zenon DEF RightTab, Keeps
<1>6. /\ e.at \in {"slug", "tenant", "user", "token"} => e.name \in Usernames /\ e.password \in Passwords
      /\ e.at = "save" => e.name \in Usernames
      /\ e.at \in {"tenant", "user"} => e.slug \in Slugs
  BY DEF RightTab
<1> QED BY <1>1, <1>2, <1>3, <1>4, <1>5, <1>6, Zenon DEF RightTab, StaysUntaken, Exists

\* One tab moves, the others stay as they are.
LEMMA MovesRight ==
    ASSUME AcTypeInv, AcTypeInv', Keeps, TabsRight, NEW t \in Tabs, NEW e \in Tab,
           tabs' = [tabs EXCEPT ![t] = e], RightTab(e)',
           \A u \in Tabs \ {t} : tabs[u].at = "user" => StaysUntaken(tabs[u].slug)
    PROVE  TabsRight'
<1>1. \A u \in Tabs : tabs'[u] = IF u = t THEN e ELSE tabs[u]
  BY DEF AcTypeInv
<1>2. ASSUME NEW u \in Tabs
      PROVE  RightTab(tabs[u])'
  <2>1. CASE u = t
    <3>1. tabs'[u] = e
      BY <1>1, <2>1
    <3> QED BY <3>1 DEF RightTab, Exists
  <2>2. CASE u # t
    <3>1. tabs[u] \in Tab /\ RightTab(tabs[u]) /\ tabs'[u] = tabs[u]
      BY <1>1, <2>2 DEF AcTypeInv, TabsRight
    <3>2. PICK f \in Tab : f = tabs[u]
      BY <3>1
    <3>3. RightTab(f) /\ (f.at = "user" => StaysUntaken(f.slug))
      BY <2>2, <3>1, <3>2
    <3>4. RightTab(f)'
      BY <3>2, <3>3, StaysRight
    <3>5. tabs'[u] = f
      BY <3>1, <3>2
    <3> QED BY <3>4, <3>5 DEF RightTab, Exists
  <2> QED BY <2>1, <2>2
<1> QED BY <1>2 DEF TabsRight

LEMMA MovesApart ==
    ASSUME AcTypeInv, TabsApart, NEW t \in Tabs, NEW e, tabs' = [tabs EXCEPT ![t] = e],
           \A u \in Tabs \ {t} : Apart(e, tabs[u]) /\ Apart(tabs[u], e)
    PROVE  TabsApart'
BY DEF TabsApart, AcTypeInv, Apart

LEMMA AddTenantRight ==
    ASSUME AccountsInv, NEW t \in Tabs, AddTenant(t)
    PROVE  AccountsInv'
<1> USE DEF AccountsInv
<1>1. CASE tabs[t].slug \in tenants
  BY <1>1, Refused DEF AddTenant, Does, ReadsOnly
<1>2. CASE tabs[t].slug \notin tenants
  <2>1. tabs[t] \in Tab /\ RightTab(tabs[t]) /\ tabs[t].at = "tenant"
    BY <1>2 DEF AcTypeInv, TabsRight, AddTenant, Does
  <2>2. PICK s : s = tabs[t].slug
    OBVIOUS
  <2>3. PICK e \in Tab :
          /\ tabs' = [tabs EXCEPT ![t] = e]
          /\ e.at = "user" /\ e.slug = s /\ e.name = tabs[t].name /\ e.password = tabs[t].password
          /\ e.registered = tabs[t].registered /\ e.saved = tabs[t].saved
          /\ e.token = tabs[t].token /\ e.issued = tabs[t].issued
    <3> DEFINE d == [tabs[t] EXCEPT !.at = "user"]
    <3>1. tabs' = [tabs EXCEPT ![t] = d]
      BY <1>2 DEF AddTenant, Does
    <3>2. /\ d \in Tab /\ d.at = "user" /\ d.slug = s /\ d.name = tabs[t].name /\ d.password = tabs[t].password
          /\ d.registered = tabs[t].registered /\ d.saved = tabs[t].saved
          /\ d.token = tabs[t].token /\ d.issued = tabs[t].issued
      BY <2>1, <2>2 DEF Tab, Ats
    <3> HIDE DEF d
    <3> QED BY <3>1, <3>2
  <2>4. tenants' = tenants \cup {s} /\ users' = users /\ projects' = projects /\ requests' = requests
    BY <1>2, <2>2 DEF AddTenant
  <2>5. s \in Slugs /\ IsFiniteSet(tenants')
    BY <2>1, <2>2, <2>4, FS_AddElement DEF RightTab, AcTypeInv
  <2>6. AcTypeInv'
    BY <2>3, <2>4, <2>5 DEF AcTypeInv
  <2>7. Keeps
    BY <2>4, UserTypes DEF Keeps, Exists
  <2>8. Untaken(s) /\ \A slug : Untaken(slug) => StaysUntaken(slug)
    BY <1>2, <2>2, <2>4 DEF Untaken, StaysUntaken, OwnTenants, Exists
  <2>9. RightTab(e)'
    BY <2>1, <2>3, <2>4, <2>5, <2>8 DEF RightTab, Exists, Untaken
  <2>10. ASSUME NEW u \in Tabs \ {t}
         PROVE  /\ Apart(e, tabs[u]) /\ Apart(tabs[u], e)
                /\ tabs[u].at = "user" => StaysUntaken(tabs[u].slug)
    <3>1. Apart(tabs[t], tabs[u]) /\ Apart(tabs[u], tabs[t]) /\ RightTab(tabs[u])
      BY <2>10 DEF TabsApart, TabsRight
    <3>2. tabs[u].at = "user" => tabs[u].slug # s /\ Untaken(tabs[u].slug)
      BY <1>2, <2>2, <3>1 DEF RightTab, Untaken
    <3> QED BY <2>3, <2>8, <3>1, <3>2 DEF Apart
  <2>11. TabsRight'
    BY <2>3, <2>6, <2>7, <2>9, <2>10, MovesRight
  <2>12. TabsApart'
    BY <2>3, <2>10, MovesApart
  <2>13. OwnTenants'
    BY <2>4 DEF OwnTenants, Exists
  <2> QED BY <2>6, <2>11, <2>12, <2>13
<1> QED BY <1>1, <1>2

LEMMA AddUserRight ==
    ASSUME AccountsInv, NEW t \in Tabs, AddUser(t)
    PROVE  AccountsInv'
<1> USE DEF AccountsInv
<1>1. CASE Exists(tabs[t].name)
  BY <1>1, Refused DEF AddUser, Does, ReadsOnly
<1>2. CASE ~Exists(tabs[t].name)
  <2>1. tabs[t] \in Tab /\ RightTab(tabs[t]) /\ tabs[t].at = "user"
    BY <1>2 DEF AcTypeInv, TabsRight, AddUser
  <2>2. tabs[t].password \in Passwords /\ tabs[t].slug \in tenants /\ tabs[t].slug \in Slugs /\ Untaken(tabs[t].slug)
    BY <2>1 DEF RightTab, Untaken
  <2>3. PICK n \in Usernames : n = tabs[t].name
    BY <2>1 DEF RightTab
  <2>4. PICK r \in Tab : /\ r = Released(tabs[t])
                         /\ RightTab(r) /\ r.at = "idle" /\ r.name = n /\ r.password = tabs[t].password
                         /\ r.token = tabs[t].token /\ r.issued = tabs[t].issued
    BY <2>1, <2>3, ReleasedTab, ReleasedRight
  <2>5. PICK e \in Tab : /\ tabs' = [tabs EXCEPT ![t] = e]
                         /\ e.at = "idle" /\ e.name = n /\ e.password = tabs[t].password /\ e.saved = r.saved
                         /\ e.token = r.token /\ e.issued = r.issued
    <3> DEFINE d == [r EXCEPT !.registered = TRUE]
    <3>1. tabs' = [tabs EXCEPT ![t] = d]
      BY <1>2, <2>4 DEF AddUser, Does
    <3>2. /\ d \in Tab /\ d.at = "idle" /\ d.name = n /\ d.password = tabs[t].password /\ d.saved = r.saved
          /\ d.token = r.token /\ d.issued = r.issued
      BY <2>4 DEF Tab
    <3> HIDE DEF d
    <3> QED BY <3>1, <3>2
  <2>6. PICK v \in User : /\ users' = [users EXCEPT ![n] = v]
                          /\ v.slug = tabs[t].slug /\ v.password = tabs[t].password /\ v.form = "pbkdf2"
    <3> DEFINE d == Fresh(tabs[t])
    <3>1. users' = [users EXCEPT ![n] = d]
      BY <1>2, <2>3 DEF AddUser
    <3>2. /\ d \in User /\ d.slug = tabs[t].slug /\ d.password = tabs[t].password /\ d.form = "pbkdf2"
      BY <2>2 DEF Fresh, NoUser, User
    <3> HIDE DEF d
    <3> QED BY <3>1, <3>2
  <2>7. tenants' = tenants /\ projects' = projects /\ requests' = requests
    BY <1>2 DEF AddUser
  <2>8. \A m \in Usernames : users'[m] = IF m = n THEN v ELSE users[m]
    BY <2>6 DEF AcTypeInv
  <2>9. AcTypeInv'
    BY <2>5, <2>6, <2>7 DEF AcTypeInv
  <2>10. Keeps
    BY <1>2, <2>3, <2>7, <2>8, UserTypes DEF Keeps, Exists
  <2>11. Exists(n)' /\ users'[n].password = e.password
    BY <2>5, <2>6, <2>8 DEF Exists
  <2>12. RightTab(e)'
    <3>1. RightTab(r)'
      BY <2>4, <2>9, <2>10, StaysRight
    <3>2. \A x \in {e.token, e.issued} : x # NoToken => Exists(x.user)' /\ x.number <= users'[x.user].logins
      BY <2>5, <3>1 DEF RightTab
    <3>3. e.saved => e.name \in Usernames /\ projects'[e.name] # NoCode
      BY <2>4, <2>5, <3>1, Zenon DEF RightTab
    <3>4. e.registered => e.name \in Usernames /\ Exists(e.name)' /\ users'[e.name].password = e.password
      BY <2>5, <2>11
    <3> QED BY <2>5, <3>2, <3>3, <3>4 DEF RightTab, Exists
  <2>13. ASSUME NEW u \in Tabs \ {t}
         PROVE  /\ Apart(e, tabs[u]) /\ Apart(tabs[u], e)
                /\ tabs[u].at = "user" => StaysUntaken(tabs[u].slug)
    <3>1. Apart(tabs[t], tabs[u]) /\ Apart(tabs[u], tabs[t]) /\ RightTab(tabs[u])
      BY <2>13 DEF TabsApart, TabsRight
    <3>2. tabs[u].at = "user" => Untaken(tabs[u].slug) /\ tabs[u].slug # tabs[t].slug
      BY <2>1, <3>1 DEF RightTab, Apart, Untaken
    <3>3. tabs[u].at = "user" => StaysUntaken(tabs[u].slug)
      BY <2>6, <2>8, <3>2 DEF Untaken, StaysUntaken, Exists
    <3>4. Apart(e, tabs[u]) /\ Apart(tabs[u], e)
      BY <2>4, <2>5, <3>1 DEF Apart
    <3> QED BY <3>3, <3>4
  <2>14. TabsRight'
    BY <2>5, <2>9, <2>10, <2>12, <2>13, MovesRight
  <2>15. TabsApart'
    BY <2>5, <2>13, MovesApart
  <2>16. OwnTenants'
    BY <1>2, <2>2, <2>3, <2>6, <2>7, <2>8 DEF OwnTenants, Exists, Untaken
  <2> QED BY <2>9, <2>14, <2>15, <2>16
<1> QED BY <1>1, <1>2

LEMMA SetTokenRight ==
    ASSUME AccountsInv, NEW t \in Tabs, SetToken(t)
    PROVE  AccountsInv'
<1> USE DEF AccountsInv
<1>1. tabs[t] \in Tab /\ RightTab(tabs[t]) /\ tabs[t].at = "token"
  BY DEF AcTypeInv, TabsRight, SetToken
<1>2. PICK n \in Usernames : /\ n = tabs[t].name /\ tabs[t].password \in Passwords
                             /\ Exists(n) /\ users[n].password = tabs[t].password
  BY <1>1 DEF RightTab
<1>3. PICK next \in Nat \ {0} : next = users[n].logins + 1 /\ next > users[n].logins
  BY UserTypes
<1>4. PICK x \in Tokens : x = [user |-> n, number |-> next] /\ x # NoToken /\ x.user = n /\ x.number = next
  <2> DEFINE d == [user |-> n, number |-> next]
  <2>1. d \in [user : Usernames, number : Nat \ {0}] /\ d.user = n /\ d.number = next
    OBVIOUS
  <2>2. NoToken.number = 0 /\ next # 0
    BY DEF NoToken
  <2> HIDE DEF d
  <2>3. d # NoToken
    BY <2>1, <2>2
  <2> QED BY <2>1, <2>3 DEF Tokens, d
<1>5. tenants' = tenants /\ projects' = projects /\ requests' = requests
  BY DEF SetToken
<1>6. PICK e \in Tab : /\ tabs' = [tabs EXCEPT ![t] = e]
                       /\ e.at = "verify" /\ e.name = n /\ e.password = tabs[t].password
                       /\ e.registered = tabs[t].registered /\ e.saved = tabs[t].saved
                       /\ e.token = tabs[t].token /\ e.issued = x
  <2> DEFINE d == [tabs[t] EXCEPT !.at = "verify", !.issued = x]
  <2>1. tabs' = [tabs EXCEPT ![t] = d]
    BY <1>2, <1>3, <1>4 DEF SetToken, Does
  <2>2. /\ d \in Tab /\ d.at = "verify" /\ d.name = n /\ d.password = tabs[t].password
        /\ d.registered = tabs[t].registered /\ d.saved = tabs[t].saved
        /\ d.token = tabs[t].token /\ d.issued = x
    BY <1>1, <1>2 DEF Tab, Ats
  <2> HIDE DEF d
  <2> QED BY <2>1, <2>2
<1>7. PICK v \in User : /\ users' = [users EXCEPT ![n] = v]
                        /\ v.slug = users[n].slug /\ v.password = users[n].password
                        /\ v.form # "none" /\ v.logins = next
  <2> DEFINE w == Upgraded(users[n], tabs[t])
             d == [w EXCEPT !.logins = next, !.valid = TRUE]
  <2>1. users' = [users EXCEPT ![n] = d]
    BY <1>2, <1>3 DEF SetToken, AcTypeInv
  <2>2. w \in User /\ w.slug = users[n].slug /\ w.password = users[n].password /\ w.form # "none"
    BY <1>2, UserTypes DEF Upgraded, User, Exists
  <2> HIDE DEF w
  <2>3. /\ d \in User /\ d.slug = users[n].slug /\ d.password = users[n].password /\ d.form # "none" /\ d.logins = next
    BY <2>2 DEF User
  <2> HIDE DEF d
  <2> QED BY <2>1, <2>3
<1>8. \A m \in Usernames : users'[m] = IF m = n THEN v ELSE users[m]
  BY <1>7 DEF AcTypeInv
<1>9. AcTypeInv'
  BY <1>5, <1>6, <1>7 DEF AcTypeInv
<1>10. Keeps
  <2>1. ASSUME NEW m \in Usernames, Exists(m)
        PROVE  Exists(m)' /\ users'[m].password = users[m].password /\ users[m].logins <= users'[m].logins
    <3>1. CASE m = n
      BY <1>3, <1>7, <1>8, <3>1, UserTypes DEF Exists
    <3>2. CASE m # n
      BY <1>8, <2>1, <3>2, UserTypes DEF Exists
    <3> QED BY <3>1, <3>2
  <2> QED BY <1>5, <2>1 DEF Keeps
<1>11. ASSUME NEW slug, Untaken(slug)
       PROVE  StaysUntaken(slug)
  BY <1>2, <1>7, <1>8, <1>11 DEF Untaken, StaysUntaken, Exists
<1>12. RightTab(e)'
  <2>1. PICK f \in Tab : f = tabs[t] /\ RightTab(f)'
    <3>1. PICK f \in Tab : f = tabs[t]
      BY <1>1
    <3>2. RightTab(f) /\ f.at = "token"
      BY <1>1, <3>1
    <3> QED BY <1>9, <1>10, <3>1, <3>2, StaysRight
  <2>2. /\ e.registered => e.name \in Usernames /\ Exists(e.name)' /\ users'[e.name].password = e.password
        /\ e.saved => e.name \in Usernames /\ projects'[e.name] # NoCode
    BY <1>2, <1>6, <2>1, Zenon DEF RightTab
  <2>3. Exists(n)' /\ x.number <= users'[n].logins
    BY <1>3, <1>4, <1>7, <1>8 DEF Exists
  <2>4. \A y \in {e.token, e.issued} : y # NoToken => Exists(y.user)' /\ y.number <= users'[y.user].logins
    BY <1>4, <1>6, <2>1, <2>3 DEF RightTab
  <2> QED BY <1>6, <2>2, <2>4 DEF RightTab, Exists
<1>13. ASSUME NEW u \in Tabs \ {t}
       PROVE  /\ Apart(e, tabs[u]) /\ Apart(tabs[u], e)
              /\ tabs[u].at = "user" => StaysUntaken(tabs[u].slug)
  <2>1. Apart(tabs[t], tabs[u]) /\ Apart(tabs[u], tabs[t]) /\ RightTab(tabs[u]) /\ tabs[u] \in Tab
    BY <1>13 DEF TabsApart, TabsRight, AcTypeInv
  <2>2. tabs[u].at = "user" => StaysUntaken(tabs[u].slug)
    BY <1>11, <2>1 DEF RightTab, Untaken
  <2>3. x \notin {tabs[u].token, tabs[u].issued}
    <3>1. ASSUME NEW y \in {tabs[u].token, tabs[u].issued}, y = x
          PROVE  FALSE
      <4>1. next <= users[n].logins
        BY <1>4, <2>1, <3>1 DEF RightTab
      <4> QED BY <1>3, <4>1, UserTypes
    <3> QED BY <3>1
  <2>4. Apart(e, tabs[u]) /\ Apart(tabs[u], e)
    BY <1>6, <2>1, <2>3 DEF Apart
  <2> QED BY <2>2, <2>4
<1>14. TabsRight'
  BY <1>6, <1>9, <1>10, <1>12, <1>13, MovesRight
<1>15. TabsApart'
  BY <1>6, <1>13, MovesApart
<1>16. OwnTenants'
  BY <1>2, <1>5, <1>7, <1>8 DEF OwnTenants, Exists
<1> QED BY <1>9, <1>14, <1>15, <1>16

LEMMA CommitProjectRight ==
    ASSUME AccountsInv, NEW t \in Tabs, CommitProject(t)
    PROVE  AccountsInv'
<1> USE DEF AccountsInv
<1>1. tabs[t] \in Tab /\ RightTab(tabs[t]) /\ tabs[t].at = "save"
  BY DEF AcTypeInv, TabsRight, CommitProject
<1>2. PICK n \in Usernames : n = tabs[t].name
  BY <1>1 DEF RightTab
<1>3. CASE ~tabs[t].found /\ projects[n] # NoCode
  BY <1>2, <1>3, Refused DEF CommitProject, Does, ReadsOnly
<1>4. CASE ~(~tabs[t].found /\ projects[n] # NoCode)
  <2>1. PICK r \in Tab : /\ r = Released(tabs[t])
                         /\ RightTab(r) /\ HoldsNoMore(r, tabs[t]) /\ r.at = "idle" /\ r.name = n
    BY <1>1, <1>2, ReleasedTab, ReleasedRight
  <2>2. PICK c \in Tabs : c = tabs[t].code /\ c # NoCode
    BY <1>1, AccountsAssumption DEF Tab
  <2>3. PICK e \in Tab : /\ tabs' = [tabs EXCEPT ![t] = e]
                         /\ e.at = "idle" /\ e.name = n /\ e.password = r.password /\ e.registered = r.registered
                         /\ e.token = r.token /\ e.issued = r.issued
    <3> DEFINE d == [r EXCEPT !.saved = TRUE]
    <3>1. tabs' = [tabs EXCEPT ![t] = d]
      BY <1>2, <1>4, <2>1, Zenon DEF CommitProject, Does
    <3>2. /\ d \in Tab /\ d.at = "idle" /\ d.name = n /\ d.password = r.password /\ d.registered = r.registered
          /\ d.token = r.token /\ d.issued = r.issued
      BY <2>1 DEF Tab
    <3> HIDE DEF d
    <3> QED BY <3>1, <3>2
  <2>4. projects' = [projects EXCEPT ![n] = c]
    BY <1>2, <1>4, <2>2, Zenon DEF CommitProject
  <2>5. tenants' = tenants /\ users' = users /\ requests' = requests
    BY DEF CommitProject
  <2>6. AcTypeInv'
    BY <2>3, <2>4, <2>5 DEF AcTypeInv
  <2>7. projects'[n] # NoCode /\ \A m \in Usernames : projects[m] # NoCode => projects'[m] # NoCode
    BY <2>2, <2>4 DEF AcTypeInv
  <2>8. Keeps
    BY <2>5, <2>7, UserTypes DEF Keeps, Exists
  <2>9. RightTab(e)'
    <3>1. RightTab(r)'
      BY <2>1, <2>6, <2>8, StaysRight
    <3>2. \A x \in {e.token, e.issued} : x # NoToken => Exists(x.user)' /\ x.number <= users'[x.user].logins
      BY <2>3, <3>1 DEF RightTab
    <3>3. e.registered => e.name \in Usernames /\ Exists(e.name)' /\ users'[e.name].password = e.password
      BY <2>1, <2>3, <3>1, Zenon DEF RightTab
    <3>4. e.saved => e.name \in Usernames /\ projects'[e.name] # NoCode
      BY <2>3, <2>7
    <3> QED BY <2>3, <3>2, <3>3, <3>4 DEF RightTab, Exists
  <2>10. ASSUME NEW u \in Tabs \ {t}
         PROVE  /\ Apart(e, tabs[u]) /\ Apart(tabs[u], e)
                /\ tabs[u].at = "user" => StaysUntaken(tabs[u].slug)
    <3>1. Apart(tabs[t], tabs[u]) /\ Apart(tabs[u], tabs[t]) /\ RightTab(tabs[u])
      BY <2>10 DEF TabsApart, TabsRight
    <3>2. {e.token, e.issued} \subseteq {tabs[t].token, tabs[t].issued, NoToken}
      BY <2>1, <2>3 DEF HoldsNoMore
    <3>3. Apart(e, tabs[u]) /\ Apart(tabs[u], e)
      BY <2>3, <3>1, <3>2 DEF Apart
    <3> QED BY <2>5, <3>1, <3>3 DEF RightTab, StaysUntaken, Exists
  <2>11. TabsRight'
    BY <2>3, <2>6, <2>8, <2>9, <2>10, MovesRight
  <2>12. TabsApart'
    BY <2>3, <2>10, MovesApart
  <2>13. OwnTenants'
    BY <2>5 DEF OwnTenants, Exists
  <2> QED BY <2>6, <2>11, <2>12, <2>13
<1> QED BY <1>3, <1>4

LEMMA ExpireRight ==
    ASSUME AccountsInv, NEW n \in Usernames, Expire(n)
    PROVE  AccountsInv'
<1> USE DEF AccountsInv
<1>1. PICK v \in User : /\ users' = [users EXCEPT ![n] = v]
                        /\ v.slug = users[n].slug /\ v.password = users[n].password
                        /\ v.form = users[n].form /\ v.logins = users[n].logins
  <2> DEFINE d == [users[n] EXCEPT !.valid = FALSE]
  <2>1. users' = [users EXCEPT ![n] = d]
    BY DEF Expire
  <2>2. d \in User /\ d.slug = users[n].slug /\ d.password = users[n].password
        /\ d.form = users[n].form /\ d.logins = users[n].logins
    BY UserTypes DEF User
  <2> HIDE DEF d
  <2> QED BY <2>1, <2>2
<1>2. tenants' = tenants /\ projects' = projects /\ tabs' = tabs /\ requests' \in 0 .. MaxRequests
  BY AskedInBounds DEF Expire
<1>3. \A m \in Usernames : /\ users'[m].slug = users[m].slug /\ users'[m].password = users[m].password
                           /\ users'[m].form = users[m].form /\ users'[m].logins = users[m].logins
  BY <1>1 DEF AcTypeInv
<1>4. AcTypeInv'
  BY <1>1, <1>2 DEF AcTypeInv
<1>5. Keeps
  BY <1>2, <1>3, UserTypes DEF Keeps, Exists
<1>6. TabsRight'
  <2>1. ASSUME NEW t \in Tabs
        PROVE  RightTab(tabs[t])'
    <3>1. PICK f \in Tab : f = tabs[t] /\ RightTab(f)
      BY DEF TabsRight, AcTypeInv
    <3>2. f.at = "user" => StaysUntaken(f.slug)
      BY <1>3, <3>1 DEF RightTab, StaysUntaken, Exists
    <3>3. RightTab(f)'
      BY <1>4, <1>5, <3>1, <3>2, StaysRight
    <3> QED BY <1>2, <3>1, <3>3
  <2> QED BY <2>1 DEF TabsRight
<1>7. TabsApart'
  BY <1>2 DEF TabsApart, Apart
<1>8. OwnTenants'
  BY <1>2, <1>3 DEF OwnTenants, Exists
<1> QED BY <1>4, <1>6, <1>7, <1>8

LEMMA ApiDiesRight ==
    ASSUME AccountsInv, ApiDies
    PROVE  AccountsInv'
<1> USE DEF AccountsInv
<1>1. tenants' = tenants /\ projects' = projects /\ users' = users /\ requests' \in 0 .. MaxRequests
  BY AskedInBounds DEF ApiDies, ReadsOnly
<1>2. ASSUME NEW t \in Tabs
      PROVE  tabs'[t] \in Tab /\ RightTab(tabs'[t]) /\ HoldsNoMore(tabs'[t], tabs[t])
  <2>1. tabs[t] \in Tab /\ RightTab(tabs[t])
    BY DEF AcTypeInv, TabsRight
  <2>2. CASE tabs[t].at = "idle"
    <3>1. tabs'[t] = tabs[t]
      BY <2>2 DEF ApiDies
    <3> QED BY <2>1, <2>2, <3>1 DEF HoldsNoMore
  <2>3. CASE tabs[t].at # "idle"
    <3>1. PICK r \in Tab : r = Released(tabs[t]) /\ RightTab(r) /\ HoldsNoMore(r, tabs[t]) /\ r.at = "idle"
      BY <2>1, ReleasedTab, ReleasedRight
    <3>2. tabs'[t] = [r EXCEPT !.issued = NoToken]
      BY <2>3, <3>1 DEF ApiDies
    <3> DEFINE d == [r EXCEPT !.issued = NoToken]
    <3>3. /\ d \in Tab /\ d.at = "idle" /\ d.name = r.name /\ d.password = r.password
          /\ d.registered = r.registered /\ d.saved = r.saved /\ d.token = r.token /\ d.issued = NoToken
      BY <3>1, FieldsOfNothing DEF Tab
    <3> HIDE DEF d
    <3>4. RightTab(d) /\ HoldsNoMore(d, tabs[t])
      BY <3>1, <3>3 DEF RightTab, HoldsNoMore
    <3> QED BY <3>2, <3>3, <3>4 DEF d
  <2> QED BY <2>2, <2>3
<1>3. AcTypeInv'
  <2>1. tabs' \in [Tabs -> Tab]
    BY <1>2 DEF ApiDies
  <2> QED BY <1>1, <2>1 DEF AcTypeInv
<1>4. TabsRight'
  BY <1>1, <1>2 DEF TabsRight, RightTab, Exists
<1>5. TabsApart'
  <2>1. ASSUME NEW t \in Tabs, NEW u \in Tabs, t # u
        PROVE  Apart(tabs'[t], tabs'[u])
    <3>1. Apart(tabs[t], tabs[u])
      BY <2>1 DEF TabsApart
    <3>2. HoldsNoMore(tabs'[t], tabs[t]) /\ HoldsNoMore(tabs'[u], tabs[u])
      BY <1>2
    <3> QED BY <3>1, <3>2 DEF Apart, HoldsNoMore
  <2> QED BY <2>1 DEF TabsApart, Apart
<1>6. OwnTenants'
  BY <1>1 DEF OwnTenants, Exists
<1> QED BY <1>3, <1>4, <1>5, <1>6

(***************************************************************************)
(* The initial state, every step, and the theorems.                        *)
(***************************************************************************)
LEMMA OneLegacy ==
    ASSUME NEW l \in Legacy, NEW k \in Legacy
    PROVE  l = k
<1>1. {l, k} \in SUBSET Legacy
  OBVIOUS
<1>2. Cardinality({l, k}) <= Cardinality(Legacy) /\ Cardinality({l, k}) \in Nat /\ Cardinality(Legacy) \in Nat
  BY <1>1, AccountsAssumption, FS_Subset, FS_CardinalityType
<1>3. Cardinality({l}) = 1 /\ IsFiniteSet({l})
  BY FS_Singleton
<1>4. {l, k} = {l} \cup {k} /\ (l # k => k \notin {l})
  OBVIOUS
<1>5. l # k => Cardinality({l, k}) = 2
  BY <1>3, <1>4, FS_AddElement
<1> QED BY <1>2, <1>5, AccountsAssumption

LEMMA InitiallyRight == AcInit => AccountsInv
<1> SUFFICES ASSUME AcInit PROVE AccountsInv
  OBVIOUS
<1>1. ASSUME NEW n \in Usernames
      PROVE  /\ users[n] \in User
             /\ IF \E l \in Legacy : l.username = n
                THEN users[n].form = "legacy" /\ users[n].slug = <<SlugOf[n], 1>> /\ users[n].slug \in tenants
                ELSE users[n] = NoUser
  <2>1. CASE \E l \in Legacy : l.username = n
    <3>1. PICK p : p = (CHOOSE l \in Legacy : TRUE).password
      OBVIOUS
    <3>2. p \in Passwords
      <4>1. (CHOOSE l \in Legacy : TRUE) \in Legacy
        BY <2>1
      <4> QED BY <3>1, <4>1, AccountsAssumption
    <3>3. <<SlugOf[n], 1>> \in Slugs
      BY DEF Slugs
    <3>4. users[n] = [NoUser EXCEPT !.slug = <<SlugOf[n], 1>>, !.form = "legacy", !.password = p]
      BY <2>1, <3>1, Zenon DEF AcInit
    <3>5. users[n] \in User /\ users[n].form = "legacy" /\ users[n].slug = <<SlugOf[n], 1>>
      <4>1. PICK s \in Slugs : s = <<SlugOf[n], 1>>
        BY <3>3
      <4>2. NoUser \in User
        BY DEF NoUser, User
      <4>3. users[n] = [NoUser EXCEPT !.slug = s, !.form = "legacy", !.password = p]
        BY <3>4, <4>1
      <4>4. users[n] \in User /\ users[n].form = "legacy" /\ users[n].slug = s
        BY <3>2, <4>2, <4>3 DEF User
      <4> QED BY <4>1, <4>4
    <3>6. users[n].slug \in tenants
      <4>1. PICK l \in Legacy : l.username = n
        BY <2>1
      <4>2. <<SlugOf[l.username], 1>> \in tenants
        BY DEF AcInit
      <4> QED BY <3>5, <4>1, <4>2
    <3> QED BY <2>1, <3>5, <3>6
  <2>2. CASE ~\E l \in Legacy : l.username = n
    <3>1. users[n] = NoUser
      BY <2>2, Zenon DEF AcInit
    <3>2. NoUser \in User
      BY DEF NoUser, User
    <3> QED BY <2>2, <3>1, <3>2
  <2> QED BY <2>1, <2>2
<1>2. tenants \subseteq Slugs /\ IsFiniteSet(tenants)
  <2>1. tenants \subseteq Slugs
    <3>1. ASSUME NEW l \in Legacy
          PROVE  <<SlugOf[l.username], 1>> \in Slugs
      <4>1. l.username \in Usernames
        BY AccountsAssumption
      <4> QED BY <4>1 DEF Slugs
    <3> QED BY <3>1 DEF AcInit
  <2>2. CASE Legacy = {}
    BY <2>2, FS_EmptySet DEF AcInit
  <2>3. CASE Legacy # {}
    <3>1. PICK l \in Legacy : TRUE
      BY <2>3
    <3>2. tenants = {<<SlugOf[l.username], 1>>}
      BY <3>1, OneLegacy DEF AcInit
    <3> QED BY <2>1, <3>2, FS_Singleton
  <2> QED BY <2>1, <2>2, <2>3
<1>3. ASSUME NEW t \in Tabs
      PROVE  /\ tabs[t] \in Tab /\ tabs[t].at = "idle" /\ tabs[t].registered = FALSE /\ tabs[t].saved = FALSE
             /\ tabs[t].token = NoToken /\ tabs[t].issued = NoToken
  BY FieldsOfNothing DEF AcInit, NewTab, Tab, Ats, NoUser
<1>4. AcTypeInv
  <2>1. users \in [Usernames -> User] /\ tabs \in [Tabs -> Tab] /\ projects \in [Usernames -> Tabs \cup {NoCode}]
    BY <1>1, <1>3 DEF AcInit
  <2>2. requests \in 0 .. MaxRequests
    <3>1. requests = 0 /\ MaxRequests \in Nat
      BY AccountsAssumption DEF AcInit
    <3> QED BY <3>1
  <2> QED BY <1>2, <2>1, <2>2 DEF AcTypeInv
<1>5. TabsRight /\ TabsApart
  <2>1. ASSUME NEW t \in Tabs
        PROVE  RightTab(tabs[t])
    <3>1. /\ tabs[t].at = "idle" /\ ~tabs[t].registered /\ ~tabs[t].saved
          /\ \A x \in {tabs[t].token, tabs[t].issued} : x = NoToken
      <4>1. /\ tabs[t].at = "idle" /\ tabs[t].registered = FALSE /\ tabs[t].saved = FALSE
            /\ tabs[t].token = NoToken /\ tabs[t].issued = NoToken
        BY <1>3, <2>1
      <4>2. ~tabs[t].registered /\ ~tabs[t].saved
        BY <4>1, Zenon
      <4> QED BY <4>1, <4>2
    <3> QED BY <3>1 DEF RightTab
  <2>2. ASSUME NEW t \in Tabs, NEW u \in Tabs
        PROVE  Apart(tabs[t], tabs[u])
    BY <1>3 DEF Apart
  <2> QED BY <2>1, <2>2 DEF TabsRight, TabsApart
<1>6. OwnTenants
  <2>1. ASSUME NEW n \in Usernames, NEW m \in Usernames, Exists(n), Exists(m)
        PROVE  n = m
    <3>1. PICK l \in Legacy, k \in Legacy : l.username = n /\ k.username = m
      BY <1>1, <2>1, FieldsOfNothing DEF Exists
    <3> QED BY <3>1, OneLegacy
  <2>2. ASSUME NEW n \in Usernames
        PROVE  users[n].slug \in (IF Exists(n) THEN tenants ELSE {NoUser.slug})
    BY <1>1, FieldsOfNothing DEF Exists
  <2> QED BY <2>1, <2>2 DEF OwnTenants
<1> QED BY <1>4, <1>5, <1>6 DEF AccountsInv

LEMMA StepsRight == AccountsInv /\ [AcNext]_acVars => AccountsInv'
<1> SUFFICES ASSUME AccountsInv, [AcNext]_acVars PROVE AccountsInv'
  OBVIOUS
<1>1. ASSUME NEW t \in Tabs, \/ Register(t) \/ ChooseSlug(t) \/ Login(t) \/ VerifyLogin(t) \/ Logout(t)
                             \/ SaveProject(t) \/ LoadProject(t)
      PROVE  AccountsInv'
  BY <1>1, RegisterRight, ChooseSlugRight, LoginRight, VerifyLoginRight, LogoutRight, SaveProjectRight,
     LoadProjectRight
<1>2. ASSUME NEW t \in Tabs, AddTenant(t) \/ AddUser(t) \/ SetToken(t) \/ CommitProject(t)
      PROVE  AccountsInv'
  BY <1>2, AddTenantRight, AddUserRight, SetTokenRight, CommitProjectRight
<1>3. ASSUME ApiDies \/ \E n \in Usernames : Expire(n)
      PROVE  AccountsInv'
  BY <1>3, ApiDiesRight, ExpireRight
<1>4. CASE UNCHANGED acVars
  BY <1>4 DEF acVars, AccountsInv, AcTypeInv, TabsRight, RightTab, TabsApart, Apart, OwnTenants, Exists
<1> QED BY <1>1, <1>2, <1>3, <1>4 DEF AcNext

\* The inductive invariant of accounts: what a request in progress and a tab
\* that was answered may rely on, whatever other tabs commit meanwhile.
THEOREM AccountsInvariant == AcSpec => []AccountsInv
BY InitiallyRight, StepsRight, PTL DEF AcSpec

\* Registrations, logins and saves that race keep accounts, tenants, tokens
\* and projects apart (auth_service, upsert_project).
THEOREM AccountsAreKept == AcSpec => [](AcTypeOK /\ AccountsHold)
BY AccountsInvariant, ImpliesHold, ImpliesTypeOK, PTL

(***************************************************************************)
(* TaskCenter.                                                             *)
(***************************************************************************)
TcSpec == TcInit /\ [][TcNext]_tcVars

Row == [status : Statuses, iteration : 0 .. Iterations]
CallRow == [key : Tasks \cup Filters, served : BOOLEAN,
         answer : [Tasks -> Statuses \cup {None}], late : BOOLEAN]
EventType == [task : Tasks, status : Statuses, iterations : Seq(Nat)]
Connection == [open : BOOLEAN, sent : [Tasks -> Row \cup {Unsent}], events : Seq(EventType),
               points : [Tasks -> Seq(Nat)]]

PlatformRight ==
    /\ limit \in StreamLimits /\ rows \in [Tasks -> Row]
    /\ recent \in Seq(Tasks) /\ ToSet(recent) = Tasks /\ Distinct(recent)

CallsRight(kind, queue) ==
    /\ queue \in Seq(CallRow) /\ Len(queue) <= MaxCalls[kind]
    /\ kind = "detail" => \A i \in 1 .. Len(queue) : queue[i].key \in Tasks

ScreenRight ==
    /\ list \in [Tasks -> Statuses \cup {None}] /\ filter \in Filters
    /\ selected \in Tasks \cup {None}
    /\ detail \in [task : Tasks \cup {None}, status : Statuses \cup {None}]
    /\ down \in BOOLEAN /\ passed \in [Kinds -> BOOLEAN] /\ actions \in 0 .. MaxActions

FlightRight(f) == f \in [Kinds -> Seq(CallRow)] /\ \A kind \in Kinds : CallsRight(kind, f[kind])

\* An event under way tells of the iterations that follow those delivered, up
\* to the version sent; what no event tells of was delivered.
EventRight(c, e) ==
    LET n == Len(c.points[e.task]) IN
    /\ n + Len(e.iterations) = c.sent[e.task].iteration
    /\ \A k \in 1 .. Len(e.iterations) : e.iterations[k] = n + k
StreamRight(c) ==
    /\ c \in Connection
    /\ \A i, j \in 1 .. Len(c.events) : c.events[i].task = c.events[j].task => i = j
    /\ \A i \in 1 .. Len(c.events) : EventRight(c, c.events[i])
    /\ \A t \in Tasks :
        /\ c.sent[t].iteration <= rows[t].iteration
        /\ (\A i \in 1 .. Len(c.events) : c.events[i].task # t) => Len(c.points[t]) = c.sent[t].iteration
        /\ \A k \in 1 .. Len(c.points[t]) : c.points[t][k] = k

CenterInv == PlatformRight /\ ScreenRight /\ FlightRight(flight) /\ StreamRight(conn)

LEMMA ImpliesOrder == CenterInv => IterationsInOrder
<1> SUFFICES ASSUME CenterInv, NEW t \in Tasks
             PROVE  conn.points[t] = [k \in 1 .. Len(conn.points[t]) |-> k]
  BY DEF IterationsInOrder
<1>1. conn.points[t] \in Seq(Nat) /\ \A k \in 1 .. Len(conn.points[t]) : conn.points[t][k] = k
  BY DEF CenterInv, StreamRight, Connection
<1> DEFINE p == conn.points[t]
<1> HIDE DEF p
<1>2. p \in Seq(Nat) /\ \A k \in 1 .. Len(p) : p[k] = k
  BY <1>1 DEF p
<1>3. p = [k \in 1 .. Len(p) |-> p[k]]
  BY <1>2
<1>4. p = [k \in 1 .. Len(p) |-> k]
  BY <1>2, <1>3
<1> QED BY <1>4 DEF p

LEMMA ImpliesCenterTypes == CenterInv => TcTypeOK
BY DEF CenterInv, PlatformRight, ScreenRight, FlightRight, CallsRight, StreamRight, Connection, Row, TcTypeOK

(***************************************************************************)
(* A task that was written comes first, the others in their order.         *)
(***************************************************************************)
LEMMA Prefixed ==
    ASSUME NEW t \in Tasks, NEW o \in Seq(Tasks), NEW q, q = <<t>> \o o
    PROVE  /\ q \in Seq(Tasks) /\ Len(q) = Len(o) + 1 /\ Len(o) \in Nat /\ q[1] = t
           /\ \A i \in 1 .. Len(o) : q[i + 1] = o[i]
           /\ \A i \in 1 .. Len(q) : q[i] \in Tasks
           /\ \A i \in 1 .. Len(q) : i = 1 \/ (i - 1 \in 1 .. Len(o) /\ q[i] = o[i - 1])
<1>1. <<t>> \in Seq(Tasks) /\ Len(<<t>>) = 1 /\ <<t>>[1] = t
  OBVIOUS
<1>2. q \in Seq(Tasks) /\ Len(q) = Len(o) + 1 /\ Len(o) \in Nat
  BY <1>1
<1>3. q[1] = t
  BY <1>1, <1>2
<1>4. \A i \in 1 .. Len(o) : q[i + 1] = o[i]
  BY <1>1, <1>2
<1>5. ASSUME NEW i \in 1 .. Len(q), i # 1 PROVE i - 1 \in 1 .. Len(o) /\ q[i] = o[i - 1]
  <2>1. i - 1 \in 1 .. Len(o) /\ i - 1 + 1 = i
    BY <1>2, <1>5
  <2> QED BY <1>4, <2>1
<1>6. \A i \in 1 .. Len(q) : q[i] \in Tasks
  BY <1>2
<1> QED BY <1>2, <1>3, <1>4, <1>5, <1>6

LEMMA PutFirst ==
    ASSUME NEW t \in Tasks, NEW o \in Seq(Tasks), NEW q, q = <<t>> \o o,
           ToSet(o) = Tasks \ {t}, Distinct(o)
    PROVE  q \in Seq(Tasks) /\ ToSet(q) = Tasks /\ Distinct(q)
<1>1. o \in Seq(Tasks) /\ ToSet(o) = Tasks \ {t} /\ Distinct(o)
  OBVIOUS
<1>2. PICK n \in Nat :
      /\ n = Len(o) /\ q \in Seq(Tasks) /\ Len(q) = n + 1 /\ q[1] = t
      /\ \A i \in 1 .. n : q[i + 1] = o[i]
      /\ \A i \in 1 .. n + 1 : q[i] \in Tasks
      /\ \A i \in 1 .. n + 1 : i = 1 \/ (i - 1 \in 1 .. n /\ q[i] = o[i - 1])
  BY Prefixed
<1>3. DOMAIN q = 1 .. n + 1 /\ DOMAIN o = 1 .. n
  BY <1>1, <1>2
<1>4. \A i \in 1 .. n : o[i] # t /\ i + 1 \in 1 .. n + 1 /\ o[i] \in Tasks \ {t}
  <2>1. \A i \in 1 .. n : o[i] \in Tasks \ {t}
    BY <1>1, <1>3 DEF ToSet
  <2>2. \A i \in 1 .. n : i + 1 \in 1 .. n + 1
    OBVIOUS
  <2> QED BY <2>1, <2>2
<1>5. 1 \in 1 .. n + 1
  OBVIOUS
<1>6. ToSet(q) = Tasks
  <2>1. ToSet(q) \subseteq Tasks
    <3> SUFFICES ASSUME NEW i \in 1 .. n + 1 PROVE q[i] \in Tasks
      BY <1>3 DEF ToSet
    <3> QED BY <1>2
  <2>2. t \in ToSet(q)
    BY <1>2, <1>3, <1>5 DEF ToSet
  <2>3. ToSet(o) \subseteq ToSet(q)
    <3> SUFFICES ASSUME NEW i \in 1 .. n PROVE o[i] \in ToSet(q)
      BY <1>3 DEF ToSet
    <3>1. i + 1 \in DOMAIN q /\ q[i + 1] = o[i]
      BY <1>2, <1>3, <1>4
    <3> QED BY <3>1 DEF ToSet
  <2>4. Tasks \ {t} \subseteq ToSet(q)
    BY <1>1, <2>3
  <2> QED BY <2>1, <2>2, <2>4
<1>7. Distinct(q)
  <2>1. \A i, j \in 1 .. n : o[i] = o[j] => i = j
    BY <1>1, <1>2 DEF Distinct
  <2> SUFFICES ASSUME NEW i \in 1 .. n + 1, NEW j \in 1 .. n + 1, q[i] = q[j] PROVE i = j
    BY <1>2 DEF Distinct
  <2>2. \A k \in 1 .. n + 1 : k # 1 => q[k] # t
    <3> SUFFICES ASSUME NEW k \in 1 .. n + 1, k # 1 PROVE q[k] # t
      OBVIOUS
    <3>1. k - 1 \in 1 .. n /\ q[k] = o[k - 1]
      BY <1>2
    <3> QED BY <1>4, <3>1
  <2>4. CASE i = 1 \/ j = 1
    BY <1>2, <2>2, <2>4
  <2>3. CASE i # 1 /\ j # 1
    <3>1. i - 1 \in 1 .. n /\ j - 1 \in 1 .. n /\ o[i - 1] = o[j - 1]
      BY <1>2, <2>3
    <3>2. i - 1 = j - 1
      BY <2>1, <3>1
    <3> QED BY <3>2
  <2> QED BY <2>3, <2>4
<1> QED BY <1>2, <1>6, <1>7

LEMMA MovedFirst ==
    ASSUME PlatformRight, NEW t \in Tasks, NEW q, q = <<t>> \o Among(recent, Tasks \ {t})
    PROVE  q \in Seq(Tasks) /\ ToSet(q) = Tasks /\ Distinct(q)
<1>1. PICK o \in Seq(Tasks) : o = Among(recent, Tasks \ {t}) /\ ToSet(o) = Tasks \ {t} /\ Distinct(o)
  BY AmongRight DEF PlatformRight
<1> QED BY <1>1, PutFirst, ZenonT(60)

LEMMA RowsMove ==
    ASSUME CenterInv, NEW t \in Tasks, NEW row \in Row, Updates(t, row),
           row.iteration >= rows[t].iteration
    PROVE  CenterInv'
<1>1. /\ rows' = [rows EXCEPT ![t] = row] /\ recent' = <<t>> \o Among(recent, Tasks \ {t})
      /\ UNCHANGED <<limit, conn, list, filter, selected, detail, down, flight, passed, actions>>
  BY DEF Updates, screenVars
<1>2. PlatformRight'
  BY <1>1, MovedFirst DEF CenterInv, PlatformRight
<1>3. ScreenRight' /\ FlightRight(flight)'
  BY <1>1 DEF CenterInv, ScreenRight
<1>4. StreamRight(conn)'
  <2>1. \A u \in Tasks : rows'[u].iteration >= rows[u].iteration /\ rows[u].iteration \in Nat
                         /\ rows'[u].iteration \in Nat
    BY <1>1, TaskCenterAssumption DEF CenterInv, PlatformRight, Row
  <2>2. \A u \in Tasks : conn.sent[u].iteration \in Nat
    BY TaskCenterAssumption DEF CenterInv, StreamRight, Connection, Row, Unsent
  <2>3. \A u \in Tasks : conn.sent[u].iteration <= rows[u].iteration
    BY DEF CenterInv, StreamRight
  <2>4. \A u \in Tasks : conn.sent[u].iteration <= rows'[u].iteration
    BY <2>1, <2>2, <2>3
  <2> QED BY <1>1, <2>4 DEF CenterInv, StreamRight, EventRight
<1> QED BY <1>2, <1>3, <1>4 DEF CenterInv

LEMMA RowStep ==
    ASSUME CenterInv, NEW t \in Tasks, Iterate(t) \/ End(t)
    PROVE  CenterInv'
<1>1. rows[t] \in Row /\ rows[t].iteration \in Nat /\ Iterations \in Nat
  BY TaskCenterAssumption DEF CenterInv, PlatformRight, Row
<1>2. CASE Iterate(t)
  <2> DEFINE row == [rows[t] EXCEPT !.iteration = @ + 1]
  <2>1. Updates(t, row) /\ rows[t].iteration < Iterations
    BY <1>2 DEF Iterate
  <2>2. rows[t].iteration + 1 \in 0 .. Iterations
    BY <1>1, <2>1
  <2>3. row \in Row /\ row.iteration = rows[t].iteration + 1
    BY <1>1, <2>2 DEF Row
  <2>4. row.iteration >= rows[t].iteration
    BY <1>1, <2>3
  <2> HIDE DEF row
  <2> QED BY <2>1, <2>3, <2>4, RowsMove
<1>3. CASE End(t)
  <2> DEFINE row == [rows[t] EXCEPT !.status = "SUCCESS"]
  <2>1. row \in Row /\ row.iteration = rows[t].iteration
    BY <1>1 DEF Row, Statuses
  <2>2. Updates(t, row)
    BY <1>3 DEF End
  <2>3. row.iteration >= rows[t].iteration
    BY <1>1, <2>1
  <2> HIDE DEF row
  <2> QED BY <2>1, <2>2, <2>3, RowsMove
<1> QED BY <1>2, <1>3

LEMMA ChangedRight ==
    ASSUME PlatformRight
    PROVE  /\ Changed \in Seq(Tasks) /\ Distinct(Changed)
           /\ ToSet(Changed) = {t \in Window : conn.sent[t] # Version(t)}
           /\ Window \subseteq Tasks
<1>1. Window \subseteq Tasks
  BY DEF Window, PlatformRight
<1>2. {t \in Window : conn.sent[t] # Version(t)} \subseteq Tasks
  BY <1>1
<1> QED BY <1>1, <1>2, AmongRight DEF PlatformRight, Changed

LEMMA PollStep ==
    ASSUME CenterInv, StreamPoll
    PROVE  CenterInv'
<1> USE DEF CenterInv
<1> DEFINE moved == {t \in Window : conn.sent[t] # Version(t)}
           sent == [t \in Tasks |-> IF t \in Window THEN Version(t) ELSE conn.sent[t]]
           events == [k \in DOMAIN Changed |-> Event(Changed[k])]
<1>1. /\ conn.events = <<>> /\ UNCHANGED <<limit, rows, recent, list, filter, selected, detail, down, flight, passed, actions>>
      /\ conn' = [conn EXCEPT !.sent = sent, !.events = events]
  BY DEF StreamPoll, platformVars, screenVars
<1>2. PICK q \in Seq(Tasks) : q = Changed /\ Distinct(q) /\ ToSet(q) = moved /\ Window \subseteq Tasks
  BY ChangedRight
<1>3. PICK n \in Nat : n = Len(q) /\ DOMAIN q = 1 .. n
  BY <1>2
<1>4. /\ \A t \in Tasks : rows[t] \in Row /\ rows[t].iteration \in Nat
      /\ \A t \in Tasks : conn.sent[t].iteration \in Nat /\ conn.sent[t].iteration <= rows[t].iteration
      /\ \A t \in Tasks : conn.sent[t] \in Row \cup {Unsent}
      /\ \A t \in Tasks : conn.points[t] \in Seq(Nat) /\ Len(conn.points[t]) = conn.sent[t].iteration
      /\ \A t \in Tasks : \A k \in 1 .. Len(conn.points[t]) : conn.points[t][k] = k
  <2>1. rows \in [Tasks -> Row] /\ StreamRight(conn)
    BY DEF PlatformRight
  <2>2. \A x \in Row : x.iteration \in Nat
    BY TaskCenterAssumption DEF Row
  <2>3. Unsent.iteration \in Nat
    BY DEF Unsent
  <2>4. conn.sent \in [Tasks -> Row \cup {Unsent}] /\ conn.points \in [Tasks -> Seq(Nat)]
    BY <2>1 DEF StreamRight, Connection
  <2>5. /\ \A t \in Tasks : conn.sent[t].iteration <= rows[t].iteration
        /\ \A t \in Tasks : \A k \in 1 .. Len(conn.points[t]) : conn.points[t][k] = k
    BY <2>1 DEF StreamRight
  <2>6. \A t \in Tasks : Len(conn.points[t]) = conn.sent[t].iteration
    <3>1. \A i \in 1 .. Len(conn.events) : FALSE
      BY <1>1
    <3> QED BY <2>1, <3>1 DEF StreamRight
  <2>7. \A t \in Tasks : rows[t] \in Row /\ conn.sent[t] \in Row \cup {Unsent} /\ conn.points[t] \in Seq(Nat)
    BY <2>1, <2>4
  <2>8. \A t \in Tasks : rows[t].iteration \in Nat /\ conn.sent[t].iteration \in Nat
    BY <2>2, <2>3, <2>7
  <2> QED BY <2>5, <2>6, <2>7, <2>8
<1>5. sent \in [Tasks -> Row \cup {Unsent}] /\ \A t \in Tasks : sent[t].iteration \in Nat /\ sent[t].iteration <= rows[t].iteration
  BY <1>4 DEF Version
<1>6. \A i \in 1 .. n : q[i] \in Tasks /\ q[i] \in Window
  BY <1>2, <1>3 DEF ToSet
<1>7. \A i \in 1 .. n : /\ Event(q[i]) \in EventType /\ Event(q[i]).task = q[i]
                        /\ Len(Event(q[i]).iterations) = rows[q[i]].iteration - conn.sent[q[i]].iteration
                        /\ \A k \in 1 .. Len(Event(q[i]).iterations) :
                              Event(q[i]).iterations[k] = conn.sent[q[i]].iteration + k
  <2> SUFFICES ASSUME NEW t \in Tasks
               PROVE  /\ Event(t) \in EventType /\ Event(t).task = t
                      /\ Len(Event(t).iterations) = rows[t].iteration - conn.sent[t].iteration
                      /\ \A k \in 1 .. Len(Event(t).iterations) : Event(t).iterations[k] = conn.sent[t].iteration + k
    BY <1>6
  <2>1. PICK a \in Nat, b \in Nat : a = conn.sent[t].iteration /\ b = rows[t].iteration /\ a <= b
    BY <1>4
  <2>2. PICK p : p = NewIterations(t) /\ p = [k \in 1 .. b - a |-> a + k]
    BY <2>1 DEF NewIterations
  <2>3. b - a \in Nat
    BY <2>1
  <2>4. p \in Seq(Nat) /\ Len(p) = b - a /\ \A k \in 1 .. b - a : p[k] = a + k
    BY <2>2, <2>3
  <2>5. Event(t) = [task |-> t, status |-> rows[t].status, iterations |-> p] /\ rows[t].status \in Statuses
    BY <1>4, <2>2 DEF Event, Row
  <2> QED BY <2>1, <2>4, <2>5 DEF EventType
<1>8. /\ events \in Seq(EventType) /\ Len(events) = n
      /\ \A i \in 1 .. n : events[i] = Event(q[i])
  <2>1. events = [k \in 1 .. n |-> Event(q[k])]
    BY <1>2, <1>3
  <2>2. \A i \in 1 .. n : Event(q[i]) \in EventType
    BY <1>7
  <2> HIDE DEF events
  <2> QED BY <2>1, <2>2
<1>9. \A i, j \in 1 .. n : q[i] = q[j] => i = j
  BY <1>2, <1>3 DEF Distinct
<1>10. /\ conn \in Connection
  BY DEF StreamRight
<1> HIDE DEF events, sent
<1>11. /\ conn' \in Connection /\ conn'.sent = sent /\ conn'.events = events /\ conn'.points = conn.points
  BY <1>1, <1>5, <1>8, <1>10 DEF Connection
<1>12. PICK c \in Connection : c = conn'
  BY <1>11
<1>13. /\ \A t \in Tasks : c.sent[t] = (IF t \in Window THEN Version(t) ELSE conn.sent[t]) /\ c.points[t] = conn.points[t]
       /\ Len(c.events) = n /\ \A i \in 1 .. n : c.events[i] = Event(q[i])
  BY <1>8, <1>11, <1>12 DEF sent
<1>14. \A t \in Tasks : /\ c.sent[t].iteration <= rows[t].iteration
                        /\ \A k \in 1 .. Len(c.points[t]) : c.points[t][k] = k
  <2> SUFFICES ASSUME NEW t \in Tasks
               PROVE  /\ c.sent[t].iteration <= rows[t].iteration
                      /\ \A k \in 1 .. Len(c.points[t]) : c.points[t][k] = k
    OBVIOUS
  <2>1. c.sent[t].iteration <= rows[t].iteration
    BY <1>4, <1>13 DEF Version
  <2>2. c.points[t] = conn.points[t] /\ \A k \in 1 .. Len(conn.points[t]) : conn.points[t][k] = k
    BY <1>4, <1>13
  <2> QED BY <2>1, <2>2
<1>15. \A i \in 1 .. n : EventRight(c, c.events[i])
  <2> SUFFICES ASSUME NEW i \in 1 .. n PROVE EventRight(c, c.events[i])
    OBVIOUS
  <2>0. PICK t \in Tasks : t = q[i] /\ t \in Window
    BY <1>6
  <2>1. PICK e : e = c.events[i] /\ e = Event(q[i]) /\ t = q[i] /\ t \in Window
    BY <1>13, <2>0
  <2>2. /\ e.task = t /\ Len(e.iterations) = rows[t].iteration - conn.sent[t].iteration
        /\ \A k \in 1 .. Len(e.iterations) : e.iterations[k] = conn.sent[t].iteration + k
    BY <1>7, <2>1
  <2>3. c.sent[t].iteration = rows[t].iteration
    BY <1>13, <2>1 DEF Version
  <2>4. conn.sent[t].iteration + Len(e.iterations) = c.sent[t].iteration
    BY <1>4, <2>2, <2>3
  <2>5. Len(c.points[t]) = conn.sent[t].iteration
    BY <1>4, <1>13
  <2> QED BY <2>1, <2>2, <2>4, <2>5 DEF EventRight
<1>16. ASSUME NEW t \in Tasks, \A i \in 1 .. n : c.events[i].task # t
       PROVE  Len(c.points[t]) = c.sent[t].iteration
  <2>1. t \notin moved
    BY <1>2, <1>3, <1>7, <1>13, <1>16 DEF ToSet
  <2>2. c.sent[t] = conn.sent[t]
    BY <1>13, <2>1
  <2>3. Len(conn.points[t]) = conn.sent[t].iteration /\ c.points[t] = conn.points[t]
    BY <1>4, <1>13
  <2> QED BY <2>2, <2>3
<1>17. StreamRight(c)'
  <2>1. \A i, j \in 1 .. n : c.events[i].task = c.events[j].task => i = j
    BY <1>7, <1>9, <1>13
  <2>2. Len(c.events) = n
    BY <1>13
  <2> HIDE <1>13
  <2>3. StreamRight(c)
    BY <1>14, <1>15, <1>16, <2>1, <2>2 DEF StreamRight
  <2> QED BY <1>1, <2>3 DEF StreamRight
<1>18. PlatformRight' /\ ScreenRight' /\ FlightRight(flight)'
  BY <1>1 DEF PlatformRight, ScreenRight
<1> QED BY <1>12, <1>17, <1>18 DEF StreamRight

(***************************************************************************)
(* Calls.                                                                  *)
(***************************************************************************)
LEMMA NewCallRight ==
    ASSUME NEW key \in Tasks \cup Filters
    PROVE  NewCall(key) \in CallRow /\ NewCall(key).key = key
BY DEF NewCall, CallRow

LEMMA AskedRight ==
    ASSUME NEW kind \in Kinds, NEW queue, CallsRight(kind, queue), Len(queue) < MaxCalls[kind],
           NEW key \in Tasks \cup Filters, kind = "detail" => key \in Tasks
    PROVE  CallsRight(kind, Append(queue, NewCall(key)))
<1>1. PICK c \in CallRow : c = NewCall(key) /\ c.key = key
  BY NewCallRight
<1>2. /\ queue \in Seq(CallRow) /\ Append(queue, c) \in Seq(CallRow) /\ Len(Append(queue, c)) = Len(queue) + 1
      /\ \A i \in 1 .. Len(queue) : Append(queue, c)[i] = queue[i]
      /\ Append(queue, c)[Len(queue) + 1] = c /\ Len(queue) \in Nat
  BY DEF CallsRight
<1>3. Len(queue) + 1 <= MaxCalls[kind]
  BY <1>2, TaskCenterAssumption DEF Kinds
<1>4. \A i \in 1 .. Len(queue) + 1 : i \in 1 .. Len(queue) \/ i = Len(queue) + 1
  BY <1>2
<1>5. kind = "detail" => \A i \in 1 .. Len(Append(queue, c)) : Append(queue, c)[i].key \in Tasks
  BY <1>1, <1>2, <1>4 DEF CallsRight
<1> QED BY <1>1, <1>2, <1>3, <1>5 DEF CallsRight

LEMMA FlightMoves ==
    ASSUME FlightRight(flight), NEW kind \in Kinds, NEW q, CallsRight(kind, q)
    PROVE  FlightRight([flight EXCEPT ![kind] = q])
BY DEF FlightRight, CallsRight

LEMMA TwoFlights ==
    ASSUME NEW a, NEW b, CallsRight("list", a), CallsRight("detail", b)
    PROVE  FlightRight([list |-> a, detail |-> b])
<1> DEFINE f == [list |-> a, detail |-> b]
<1>1. f["list"] = a /\ f["detail"] = b /\ f \in [Kinds -> Seq(CallRow)]
  BY DEF CallsRight, Kinds
<1> HIDE DEF f
<1> QED BY <1>1 DEF FlightRight, Kinds

LEMMA JoinedSeq ==
    ASSUME NEW T, NEW a \in Seq(T), NEW b \in Seq(T)
    PROVE  /\ a \o b \in Seq(T) /\ Len(a \o b) = Len(a) + Len(b)
           /\ \A j \in 1 .. Len(a) + Len(b) : (a \o b)[j] = IF j <= Len(a) THEN a[j] ELSE b[j - Len(a)]
OBVIOUS

LEMMA RemovedAt ==
    ASSUME NEW kind \in Kinds, NEW q, CallsRight(kind, q), NEW i \in 1 .. Len(q)
    PROVE  CallsRight(kind, RemoveAt(q, i))
<1>1. PICK n \in Nat : n = Len(q) /\ n <= MaxCalls[kind] /\ i \in 1 .. n /\ q \in Seq(CallRow)
  BY DEF CallsRight
<1> DEFINE a == SubSeq(q, 1, i - 1)
           b == SubSeq(q, i + 1, n)
           r == a \o b
<1>2. /\ a \in Seq(CallRow) /\ Len(a) = i - 1 /\ \A j \in 1 .. i - 1 : a[j] = q[j]
  BY <1>1
<1>3. /\ b \in Seq(CallRow) /\ Len(b) = n - i /\ \A j \in 1 .. n - i : b[j] = q[i + j]
  BY <1>1
<1> HIDE DEF a, b
<1>4. /\ r \in Seq(CallRow) /\ Len(r) = n - 1
      /\ \A j \in 1 .. n - 1 : r[j] = IF j <= i - 1 THEN a[j] ELSE b[j - (i - 1)]
  <2>1. /\ r \in Seq(CallRow) /\ Len(r) = Len(a) + Len(b)
        /\ \A j \in 1 .. Len(a) + Len(b) : r[j] = IF j <= Len(a) THEN a[j] ELSE b[j - Len(a)]
    BY <1>2, <1>3, JoinedSeq
  <2>2. Len(a) + Len(b) = n - 1
    BY <1>1, <1>2, <1>3
  <2> HIDE DEF r
  <2> QED BY <1>2, <2>1, <2>2
<1>5. \A j \in 1 .. n - 1 : \E k \in 1 .. n : r[j] = q[k]
  <2> SUFFICES ASSUME NEW j \in 1 .. n - 1 PROVE \E k \in 1 .. n : r[j] = q[k]
    OBVIOUS
  <2>1. CASE j <= i - 1
    <3>1. j \in 1 .. i - 1 /\ j \in 1 .. n
      BY <1>1, <2>1
    <3> QED BY <1>2, <1>4, <2>1, <3>1
  <2>2. CASE ~(j <= i - 1)
    <3>1. j - (i - 1) \in 1 .. n - i /\ i + (j - (i - 1)) = j + 1 /\ j + 1 \in 1 .. n
      BY <1>1, <2>2
    <3> QED BY <1>3, <1>4, <2>2, <3>1
  <2> QED BY <2>1, <2>2
<1>6. RemoveAt(q, i) = r
  BY <1>1 DEF RemoveAt, a, b
<1> HIDE DEF r
<1>7. kind = "detail" => \A j \in 1 .. n - 1 : r[j].key \in Tasks
  BY <1>1, <1>5 DEF CallsRight
<1>8. n - 1 <= MaxCalls[kind]
  BY <1>1, TaskCenterAssumption DEF Kinds
<1> QED BY <1>4, <1>6, <1>7, <1>8 DEF CallsRight

\* Calls that change but for their keys stay right.
LEMMA SameKeys ==
    ASSUME NEW kind \in Kinds, NEW q, CallsRight(kind, q), NEW p, DOMAIN p = DOMAIN q,
           p = [j \in DOMAIN q |-> p[j]],
           \A j \in DOMAIN q : p[j] \in CallRow /\ p[j].key = q[j].key
    PROVE  CallsRight(kind, p)
<1>1. q \in Seq(CallRow) /\ DOMAIN q = 1 .. Len(q) /\ Len(q) \in Nat
  BY DEF CallsRight
<1>2. p \in [1 .. Len(q) -> CallRow]
  BY <1>1
<1>3. p \in Seq(CallRow) /\ Len(p) = Len(q)
  BY <1>1, <1>2
<1> QED BY <1>1, <1>3 DEF CallsRight

LEMMA Serving ==
    ASSUME CenterInv, NEW kind \in Kinds, NEW i \in DOMAIN flight[kind], Serve(kind, i)
    PROVE  CenterInv'
<1> USE DEF CenterInv
<1> DEFINE queue == flight[kind]
           key == queue[i].key
           Listed(t) == IF kind = "detail" THEN t = key ELSE key \in {"ALL", rows[t].status}
           answer == [t \in Tasks |-> IF Listed(t) THEN rows[t].status ELSE None]
           asked == [queue[i] EXCEPT !.served = TRUE, !.answer = answer]
           q == [queue EXCEPT ![i] = asked]
<1>1. CallsRight(kind, queue) /\ queue \in Seq(CallRow) /\ queue[i] \in CallRow
  BY DEF FlightRight, CallsRight
<1>2. answer \in [Tasks -> Statuses \cup {None}]
  BY DEF PlatformRight, Row
<1>3. /\ flight' = [flight EXCEPT ![kind] = q]
      /\ UNCHANGED <<limit, rows, recent, conn, list, filter, selected, detail, down, passed, actions>>
  BY DEF Serve, platformVars, screenVars
<1> HIDE DEF answer
<1>4. asked \in CallRow /\ asked.key = queue[i].key
  BY <1>1, <1>2 DEF CallRow
<1> HIDE DEF asked
<1>5. \A j \in DOMAIN queue : queue[j] \in CallRow
  BY <1>1
<1> HIDE DEF queue
<1>6. CallsRight(kind, q)
  <2>1. \A j \in DOMAIN queue : q[j] \in CallRow /\ q[j].key = queue[j].key
    BY <1>4, <1>5
  <2>2. DOMAIN q = DOMAIN queue /\ q = [j \in DOMAIN queue |-> q[j]]
    OBVIOUS
  <2> HIDE DEF q
  <2> QED BY <1>1, <2>1, <2>2, SameKeys
<1> HIDE DEF q
<1>7. FlightRight(flight)'
  BY <1>3, <1>6, FlightMoves DEF FlightRight, CallsRight
<1>8. PlatformRight' /\ ScreenRight' /\ StreamRight(conn)'
  BY <1>3 DEF PlatformRight, ScreenRight, StreamRight
<1> QED BY <1>7, <1>8

LEMMA TakenRight ==
    ASSUME FlightRight(flight), NEW kind \in Kinds, NEW i \in DOMAIN flight[kind], NEW late, Taken(kind, i, late)
    PROVE  FlightRight(flight)' /\ passed' = [passed EXCEPT ![kind] = late]
<1> DEFINE queue == flight[kind]
           q == Overtaken(queue, i)
<1>1. CallsRight(kind, queue) /\ queue \in Seq(CallRow) /\ \A j \in DOMAIN queue : queue[j] \in CallRow
  BY DEF FlightRight, CallsRight
<1>2. CallsRight(kind, q)
  <2>1. DOMAIN q = DOMAIN queue /\ q = [j \in DOMAIN queue |-> q[j]]
    BY DEF Overtaken
  <2>2. \A j \in DOMAIN queue : q[j] \in CallRow /\ q[j].key = queue[j].key
    <3> SUFFICES ASSUME NEW j \in DOMAIN queue PROVE q[j] \in CallRow /\ q[j].key = queue[j].key
      OBVIOUS
    <3>1. queue[j] \in CallRow /\ (queue[j].late \/ j < i) \in BOOLEAN
      BY <1>1
    <3>2. q[j] = [queue[j] EXCEPT !.late = (queue[j].late \/ j < i)]
      BY DEF Overtaken
    <3> HIDE DEF queue, q
    <3> QED BY <3>1, <3>2 DEF CallRow
  <2> HIDE DEF queue, q
  <2> QED BY <1>1, <2>1, <2>2, SameKeys
<1>3. Len(q) = Len(queue) /\ DOMAIN queue = 1 .. Len(queue) /\ DOMAIN q = DOMAIN queue
  BY <1>1, <1>2 DEF CallsRight, Overtaken
<1>4. CallsRight(kind, RemoveAt(q, i))
  <2>1. i \in 1 .. Len(q)
    BY <1>3
  <2> HIDE DEF q
  <2> QED BY <1>2, <2>1, RemovedAt
<1>5. flight' = [flight EXCEPT ![kind] = RemoveAt(q, i)] /\ passed' = [passed EXCEPT ![kind] = late]
  BY DEF Taken
<1> HIDE DEF q
<1> QED BY <1>4, <1>5, FlightMoves DEF FlightRight, CallsRight

LEMMA Arriving ==
    ASSUME CenterInv, NEW kind \in Kinds, NEW i \in DOMAIN flight[kind], Arrive(kind, i) \/ CallFails(kind, i)
    PROVE  CenterInv'
<1> USE DEF CenterInv
<1>1. PICK asked \in CallRow : asked = flight[kind][i] /\ (kind = "detail" => asked.key \in Tasks)
  BY DEF FlightRight, CallsRight
<1>2. /\ asked.late \in BOOLEAN /\ asked.answer \in [Tasks -> Statuses \cup {None}]
      /\ MaxActions \in Nat
  BY TaskCenterAssumption DEF CallRow
<1>3. UNCHANGED <<limit, rows, recent, conn, filter, selected, down>>
  BY DEF Arrive, CallFails, platformVars, screenVars
<1>4. PlatformRight' /\ StreamRight(conn)'
  BY <1>3 DEF PlatformRight, StreamRight
<1>5. CASE Arrive(kind, i)
  <2>1. Taken(kind, i, asked.late) /\ UNCHANGED actions
    BY <1>1, <1>5 DEF Arrive
  <2>2. FlightRight(flight)' /\ passed' \in [Kinds -> BOOLEAN]
    BY <1>2, <2>1, TakenRight DEF ScreenRight
  <2>3. CASE kind = "list"
    <3>1. list' = asked.answer /\ UNCHANGED detail
      BY <1>1, <1>5, <2>3 DEF Arrive
    <3> QED BY <1>2, <1>3, <1>4, <2>1, <2>2, <3>1 DEF ScreenRight
  <2>4. CASE kind # "list"
    <3>1. kind = "detail"
      BY <2>4 DEF Kinds
    <3>2. detail' = [task |-> asked.key, status |-> asked.answer[asked.key]] /\ UNCHANGED list
      BY <1>1, <1>5, <2>4 DEF Arrive
    <3>3. detail' \in [task : Tasks \cup {None}, status : Statuses \cup {None}]
      BY <1>1, <1>2, <3>1, <3>2
    <3> QED BY <1>3, <1>4, <2>1, <2>2, <3>2, <3>3 DEF ScreenRight
  <2> QED BY <2>3, <2>4
<1>6. CASE CallFails(kind, i)
  <2>1. Taken(kind, i, TRUE) /\ actions < MaxActions /\ actions' = actions + 1 /\ UNCHANGED <<list, detail>>
    BY <1>6 DEF CallFails, screenVars
  <2>2. FlightRight(flight)' /\ passed' \in [Kinds -> BOOLEAN]
    <3>1. FlightRight(flight)' /\ passed' = [passed EXCEPT ![kind] = TRUE]
      BY <2>1, TakenRight, Zenon
    <3> QED BY <3>1 DEF ScreenRight
  <2>3. actions' \in 0 .. MaxActions
    BY <1>2, <2>1 DEF ScreenRight
  <2> QED BY <1>3, <1>4, <2>1, <2>2, <2>3 DEF ScreenRight
<1> QED BY <1>5, <1>6

(***************************************************************************)
(* A connection that begins.                                               *)
(***************************************************************************)
LEMMA Begins ==
    ASSUME PlatformRight, NEW c, c = Subscribed \/ c = [Subscribed EXCEPT !.open = FALSE]
    PROVE  StreamRight(c)
<1>1. /\ c.open \in BOOLEAN /\ c.sent = [t \in Tasks |-> Unsent] /\ c.events = <<>>
      /\ c.points = [t \in Tasks |-> <<>>]
      /\ c = [open |-> c.open, sent |-> c.sent, events |-> c.events, points |-> c.points]
  <2>1. PICK d : d = Subscribed
    OBVIOUS
  <2>2. d = [open |-> TRUE, sent |-> [t \in Tasks |-> Unsent], events |-> <<>>, points |-> [t \in Tasks |-> <<>>]]
    BY <2>1 DEF Subscribed
  <2>3. c = d \/ c = [d EXCEPT !.open = FALSE]
    BY <2>1
  <2> HIDE <2>1
  <2>4. CASE c = d
    BY <2>2, <2>4
  <2>5. CASE c = [d EXCEPT !.open = FALSE]
    BY <2>2, <2>5
  <2> QED BY <2>3, <2>4, <2>5
<1>2. c \in Connection
  <2>1. <<>> \in Seq(EventType) /\ <<>> \in Seq(Nat)
    OBVIOUS
  <2> QED BY <1>1, <2>1, ZenonT(60) DEF Connection
<1>3. \A t \in Tasks : c.sent[t].iteration = 0 /\ Len(c.points[t]) = 0 /\ rows[t].iteration \in Nat
  BY <1>1, TaskCenterAssumption DEF Unsent, PlatformRight, Row
<1>4. Len(c.events) = 0
  BY <1>1
<1> HIDE <1>1
<1>5. /\ \A t \in Tasks : c.sent[t].iteration <= rows[t].iteration /\ Len(c.points[t]) = c.sent[t].iteration
      /\ \A t \in Tasks : \A k \in 1 .. Len(c.points[t]) : c.points[t][k] = k
      /\ 1 .. Len(c.events) = {}
  BY <1>3, <1>4
<1> QED BY <1>2, <1>5 DEF StreamRight

LEMMA StreamEndStep ==
    ASSUME CenterInv, StreamEnds
    PROVE  CenterInv'
<1> USE DEF CenterInv
<1>1. /\ actions < MaxActions /\ actions' = actions + 1 /\ conn' = [Subscribed EXCEPT !.open = FALSE] /\ down' = TRUE
      /\ UNCHANGED <<limit, rows, recent, list, filter, selected, detail, flight, passed>>
  BY DEF StreamEnds, platformVars, screenVars
<1>2. StreamRight(conn)'
  <2>1. PICK c : c = conn' /\ StreamRight(c)
    BY <1>1, Begins
  <2>2. StreamRight(c)'
    BY <1>1, <2>1 DEF StreamRight
  <2> QED BY <2>1, <2>2
<1>3. actions' \in 0 .. MaxActions
  BY <1>1, TaskCenterAssumption DEF ScreenRight
<1> QED BY <1>1, <1>2, <1>3 DEF PlatformRight, ScreenRight, FlightRight

LEMMA TickStep ==
    ASSUME CenterInv, PollTick
    PROVE  CenterInv'
<1> USE DEF CenterInv
<1> DEFINE a == Append(flight["list"], NewCall(filter))
           b == IF selected = None THEN flight["detail"] ELSE Append(flight["detail"], NewCall(selected))
<1>1. /\ Len(flight["list"]) < MaxCalls["list"] /\ Len(flight["detail"]) < MaxCalls["detail"]
      /\ flight' = [list |-> a, detail |-> b]
      /\ UNCHANGED <<limit, rows, recent, conn, list, filter, selected, detail, down, passed, actions>>
  BY DEF PollTick, Room, platformVars, screenVars
<1>2. CallsRight("list", a)
  <2>1. filter \in Tasks \cup Filters /\ "list" \in Kinds /\ CallsRight("list", flight["list"])
    BY DEF ScreenRight, FlightRight, Kinds
  <2> QED BY <1>1, <2>1, AskedRight
<1>3. CallsRight("detail", b)
  <2>1. selected \in Tasks \cup {None} /\ "detail" \in Kinds /\ CallsRight("detail", flight["detail"])
    BY DEF ScreenRight, FlightRight, Kinds
  <2> QED BY <1>1, <2>1, AskedRight
<1> HIDE DEF a, b
<1>4. FlightRight(flight)'
  BY <1>1, <1>2, <1>3, TwoFlights DEF FlightRight, CallsRight
<1> QED BY <1>1, <1>4 DEF PlatformRight, ScreenRight, StreamRight

LEMMA UserStep ==
    ASSUME CenterInv, (\E t \in Tasks : Select(t)) \/ (\E f \in Filters : SetFilter(f)) \/ Reconnect \/ Refresh
    PROVE  CenterInv'
<1> USE DEF CenterInv
<1>1. /\ actions < MaxActions /\ actions' = actions + 1
      /\ UNCHANGED <<limit, rows, recent, list, detail, passed>>
  BY DEF Select, SetFilter, Reconnect, Refresh, Acts, platformVars
<1>2. conn' = conn \/ conn' = Subscribed
  BY DEF Select, SetFilter, Reconnect, Refresh
<1>3. StreamRight(conn)'
  <2>1. PICK c : c = conn' /\ StreamRight(c)
    BY <1>2, Begins
  <2>2. StreamRight(c)'
    BY <1>1, <2>1 DEF StreamRight
  <2> QED BY <2>1, <2>2
<1>4. actions' \in 0 .. MaxActions
  BY <1>1, TaskCenterAssumption DEF ScreenRight
<1>5. /\ filter' \in Filters /\ selected' \in Tasks \cup {None} /\ down' \in BOOLEAN
  BY DEF Select, SetFilter, Reconnect, Refresh, ScreenRight
<1>6. FlightRight(flight)'
  <2>1. ASSUME NEW kind \in Kinds, Len(flight[kind]) < MaxCalls[kind], NEW key \in Tasks \cup Filters,
               kind = "detail" => key \in Tasks, flight' = Asking(kind, key)
        PROVE  FlightRight(flight)'
    <3>1. CallsRight(kind, Append(flight[kind], NewCall(key)))
      BY <2>1, AskedRight DEF FlightRight
    <3>2. flight' = [flight EXCEPT ![kind] = Append(flight[kind], NewCall(key))]
      BY <2>1 DEF Asking
    <3> QED BY <3>1, <3>2, FlightMoves DEF FlightRight, CallsRight
  <2>2. "list" \in Kinds /\ "detail" \in Kinds /\ filter \in Filters
    BY DEF Kinds, ScreenRight
  <2>3. ASSUME NEW t \in Tasks, Select(t) PROVE FlightRight(flight)'
    BY <2>1, <2>2, <2>3 DEF Select, Room
  <2>4. ASSUME NEW f \in Filters, SetFilter(f) PROVE FlightRight(flight)'
    BY <2>1, <2>2, <2>4 DEF SetFilter, Room
  <2>5. CASE Refresh
    BY <2>1, <2>2, <2>5 DEF Refresh, Room
  <2>6. CASE Reconnect
    BY <2>6 DEF Reconnect, FlightRight
  <2> QED BY <2>3, <2>4, <2>5, <2>6
<1> QED BY <1>1, <1>3, <1>4, <1>5, <1>6 DEF PlatformRight, ScreenRight

(***************************************************************************)
(* An event arrives: its iterations follow those delivered before.         *)
(***************************************************************************)
LEMMA Follows ==
    ASSUME NEW p \in Seq(Nat), NEW its \in Seq(Nat),
           \A k \in 1 .. Len(p) : p[k] = k, \A k \in 1 .. Len(its) : its[k] = Len(p) + k
    PROVE  /\ p \o its \in Seq(Nat) /\ Len(p \o its) = Len(p) + Len(its)
           /\ \A k \in 1 .. Len(p \o its) : (p \o its)[k] = k
<1>1. PICK a \in Nat, b \in Nat : a = Len(p) /\ b = Len(its)
  OBVIOUS
<1>2. PICK r \in Seq(Nat) : /\ r = p \o its /\ Len(r) = a + b
                           /\ \A k \in 1 .. a + b : r[k] = IF k <= a THEN p[k] ELSE its[k - a]
  <2>1. /\ p \o its \in Seq(Nat) /\ Len(p \o its) = Len(p) + Len(its)
        /\ \A j \in 1 .. Len(p) + Len(its) : (p \o its)[j] = IF j <= Len(p) THEN p[j] ELSE its[j - Len(p)]
    BY JoinedSeq
  <2>2. PICK r : r = p \o its
    OBVIOUS
  <2>3. /\ r \in Seq(Nat) /\ Len(r) = Len(p) + Len(its)
        /\ \A j \in 1 .. Len(p) + Len(its) : r[j] = IF j <= Len(p) THEN p[j] ELSE its[j - Len(p)]
    BY <2>1, <2>2, Zenon
  <2>4. \A j \in 1 .. a + b : r[j] = IF j <= a THEN p[j] ELSE its[j - a]
    BY <1>1, <2>3
  <2> QED BY <1>1, <2>2, <2>3, <2>4
<1>3. ASSUME NEW k \in 1 .. a + b PROVE r[k] = k
  <2>1. CASE k <= a
    BY <1>1, <1>2, <2>1
  <2>2. CASE ~(k <= a)
    <3>1. k - a \in 1 .. b /\ a + (k - a) = k
      BY <2>2
    <3> QED BY <1>1, <1>2, <2>2, <3>1
  <2> QED BY <2>1, <2>2
<1> QED BY <1>1, <1>2, <1>3

LEMMA TailIs ==
    ASSUME NEW T, NEW s \in Seq(T), s # <<>>
    PROVE  /\ Tail(s) \in Seq(T) /\ Len(Tail(s)) = Len(s) - 1
           /\ \A i \in 1 .. Len(s) - 1 : Tail(s)[i] = s[i + 1]
OBVIOUS

LEMMA Delivered ==
    ASSUME StreamRight(conn), conn.events # <<>>, NEW c,
           c = [conn EXCEPT !.events = Tail(@), !.points[Head(conn.events).task] = @ \o Head(conn.events).iterations]
    PROVE  StreamRight(c)
<1> DEFINE events == conn.events
<1>1. PICK n \in Nat, event \in EventType, t \in Tasks :
        n + 1 = Len(events) /\ event = Head(events) /\ event = events[1] /\ t = event.task /\ event.iterations \in Seq(Nat)
  <2>1. events \in Seq(EventType) /\ events # <<>>
    BY DEF StreamRight, Connection
  <2>2. Len(events) \in Nat \ {0} /\ Head(events) = events[1] /\ events[1] \in EventType
    BY <2>1
  <2>3. events[1].task \in Tasks /\ events[1].iterations \in Seq(Nat)
    BY <2>2 DEF EventType
  <2>4. Len(events) - 1 \in Nat /\ Len(events) - 1 + 1 = Len(events)
    BY <2>2
  <2> QED BY <2>2, <2>3, <2>4
<1>2. PICK q \in Seq(EventType) : q = Tail(events) /\ Len(q) = n /\ \A i \in 1 .. n : q[i] = events[i + 1]
  <2>1. events \in Seq(EventType) /\ events # <<>>
    BY DEF StreamRight, Connection
  <2>2. /\ Tail(events) \in Seq(EventType) /\ Len(Tail(events)) = Len(events) - 1
        /\ \A i \in 1 .. Len(events) - 1 : Tail(events)[i] = events[i + 1]
    BY <2>1, TailIs
  <2>3. Len(events) - 1 = n
    BY <1>1
  <2> QED BY <2>2, <2>3
<1>3. conn \in Connection /\ conn.points \in [Tasks -> Seq(Nat)] /\ conn.points[t] \in Seq(Nat)
  BY DEF StreamRight, Connection
<1>4. /\ EventRight(conn, event) /\ 1 \in 1 .. n + 1 /\ \A i \in 1 .. n : i + 1 \in 1 .. n + 1 /\ i + 1 # 1
      /\ \A i \in 1 .. n + 1 : i = 1 \/ (i - 1 \in 1 .. n /\ i - 1 + 1 = i)
  BY <1>1 DEF StreamRight
<1>5. PICK p \in Seq(Nat) : /\ p = conn.points[t] \o event.iterations
                            /\ Len(p) = conn.sent[t].iteration /\ \A k \in 1 .. Len(p) : p[k] = k
  <2>1. \A k \in 1 .. Len(conn.points[t]) : conn.points[t][k] = k
    BY DEF StreamRight
  <2>2. /\ Len(conn.points[t]) + Len(event.iterations) = conn.sent[t].iteration
        /\ \A k \in 1 .. Len(event.iterations) : event.iterations[k] = Len(conn.points[t]) + k
    BY <1>1, <1>4 DEF EventRight
  <2>3. PICK a \in Seq(Nat), b \in Seq(Nat) : a = conn.points[t] /\ b = event.iterations
    BY <1>1, <1>3
  <2>4. /\ a \o b \in Seq(Nat) /\ Len(a \o b) = Len(a) + Len(b)
        /\ \A k \in 1 .. Len(a \o b) : (a \o b)[k] = k
    <3>1. /\ \A k \in 1 .. Len(a) : a[k] = k
          /\ \A k \in 1 .. Len(b) : b[k] = Len(a) + k
      BY <2>1, <2>2, <2>3
    <3> QED BY <3>1, Follows
  <2> QED BY <2>2, <2>3, <2>4
<1>6. c = [conn EXCEPT !.events = q, !.points = [conn.points EXCEPT ![t] = p]]
  BY <1>1, <1>2, <1>5
<1>7. /\ c \in Connection /\ c.events = q /\ c.sent = conn.sent
      /\ \A u \in Tasks : c.points[u] = IF u = t THEN p ELSE conn.points[u]
  <2>1. PICK points \in [Tasks -> Seq(Nat)] :
          points = [conn.points EXCEPT ![t] = p] /\ \A u \in Tasks : points[u] = IF u = t THEN p ELSE conn.points[u]
    <3>1. PICK old \in [Tasks -> Seq(Nat)] : old = conn.points
      BY <1>3
    <3>2. /\ [old EXCEPT ![t] = p] \in [Tasks -> Seq(Nat)]
          /\ \A u \in Tasks : [old EXCEPT ![t] = p][u] = IF u = t THEN p ELSE old[u]
      OBVIOUS
    <3> QED BY <3>1, <3>2
  <2>2. c = [conn EXCEPT !.events = q, !.points = points]
    BY <1>6, <2>1
  <2>3. c \in Connection /\ c.events = q /\ c.sent = conn.sent /\ c.points = points
    BY <1>3, <2>2 DEF Connection
  <2> QED BY <2>1, <2>3
<1>8. \A i \in 1 .. n : q[i].task # t /\ q[i].task \in Tasks
  <2> SUFFICES ASSUME NEW i \in 1 .. n PROVE q[i].task # t /\ q[i].task \in Tasks
    OBVIOUS
  <2>1. q[i] = events[i + 1] /\ i + 1 \in 1 .. n + 1 /\ i + 1 # 1 /\ 1 \in 1 .. n + 1
    BY <1>2, <1>4
  <2>2. events[i + 1].task # events[1].task
    BY <1>1, <2>1 DEF StreamRight
  <2>3. q[i] \in EventType
    BY <1>2
  <2> QED BY <1>1, <2>1, <2>2, <2>3 DEF EventType
<1>9. \A i \in 1 .. n : EventRight(c, q[i])
  <2> SUFFICES ASSUME NEW i \in 1 .. n PROVE EventRight(c, q[i])
    OBVIOUS
  <2>1. PICK e : e = q[i] /\ EventRight(conn, e) /\ e.task # t /\ e.task \in Tasks
    BY <1>1, <1>2, <1>4, <1>8 DEF StreamRight
  <2>2. c.points[e.task] = conn.points[e.task] /\ c.sent = conn.sent
    BY <1>7, <2>1
  <2> QED BY <2>1, <2>2 DEF EventRight
<1>10. \A i, j \in 1 .. n : q[i].task = q[j].task => i = j
  <2> SUFFICES ASSUME NEW i \in 1 .. n, NEW j \in 1 .. n, q[i].task = q[j].task PROVE i = j
    OBVIOUS
  <2>1. i + 1 = j + 1
    BY <1>1, <1>2, <1>4 DEF StreamRight
  <2> QED BY <2>1
<1>11. ASSUME NEW u \in Tasks, \A i \in 1 .. n : q[i].task # u
       PROVE  Len(c.points[u]) = c.sent[u].iteration
  <2>1. CASE u = t
    BY <1>5, <1>7, <2>1
  <2>2. CASE u # t
    <3>1. \A i \in 1 .. n + 1 : events[i].task # u
      <4> SUFFICES ASSUME NEW i \in 1 .. n + 1 PROVE events[i].task # u
        OBVIOUS
      <4>1. CASE i = 1
        BY <1>1, <2>2, <4>1
      <4>2. CASE i # 1
        <5>1. i - 1 \in 1 .. n /\ i - 1 + 1 = i
          BY <1>4, <4>2
        <5>2. q[i - 1] = events[i] /\ q[i - 1].task # u
          BY <1>2, <1>11, <5>1
        <5> QED BY <5>2
      <4> QED BY <4>1, <4>2
    <3>2. Len(conn.points[u]) = conn.sent[u].iteration
      BY <1>1, <3>1 DEF StreamRight
    <3> QED BY <1>7, <2>2, <3>2
  <2> QED BY <2>1, <2>2
<1>12. \A u \in Tasks : /\ c.sent[u].iteration <= rows[u].iteration
                        /\ \A k \in 1 .. Len(c.points[u]) : c.points[u][k] = k
  <2> SUFFICES ASSUME NEW u \in Tasks
               PROVE  /\ c.sent[u].iteration <= rows[u].iteration
                      /\ \A k \in 1 .. Len(c.points[u]) : c.points[u][k] = k
    OBVIOUS
  <2>1. conn.sent[u].iteration <= rows[u].iteration /\ \A k \in 1 .. Len(conn.points[u]) : conn.points[u][k] = k
    BY DEF StreamRight
  <2>2. CASE u = t
    BY <1>5, <1>7, <2>1, <2>2
  <2>3. CASE u # t
    BY <1>7, <2>1, <2>3
  <2> QED BY <2>2, <2>3
<1>13. c.events = q /\ Len(q) = n /\ c \in Connection
  BY <1>2, <1>7
<1> HIDE <1>7
<1>14. /\ \A i, j \in 1 .. Len(c.events) : c.events[i].task = c.events[j].task => i = j
       /\ \A i \in 1 .. Len(c.events) : EventRight(c, c.events[i])
  BY <1>9, <1>10, <1>13, SMTT(30)
<1>15. \A u \in Tasks : (\A i \in 1 .. Len(c.events) : c.events[i].task # u) => Len(c.points[u]) = c.sent[u].iteration
  BY <1>11, <1>13
<1> HIDE <1>13
<1> QED BY <1>12, <1>13, <1>14, <1>15 DEF StreamRight

LEMMA DeliverStep ==
    ASSUME CenterInv, Deliver
    PROVE  CenterInv'
<1> USE DEF CenterInv
<1>1. PICK event, t : event = Head(conn.events) /\ t = event.task
  OBVIOUS
<1>2. /\ conn.events # <<>> /\ Len(flight["detail"]) < MaxCalls["detail"]
      /\ conn' = [conn EXCEPT !.events = Tail(@), !.points[t] = @ \o event.iterations]
      /\ list' = [list EXCEPT ![t] = IF @ = None THEN None ELSE event.status]
      /\ flight' = [list |-> Marked(flight["list"], event), detail |-> Refreshed(flight["detail"], t)]
      /\ UNCHANGED <<limit, rows, recent, filter, selected, detail, down, passed, actions>>
  BY <1>1 DEF Deliver, Room, platformVars
<1>3. StreamRight(conn)'
  <2>1. PICK c : c = conn' /\ StreamRight(c)
    BY <1>1, <1>2, Delivered
  <2>2. StreamRight(c)'
    BY <1>2, <2>1 DEF StreamRight
  <2> QED BY <2>1, <2>2
<1>4. event \in EventType
  <2>1. conn.events \in Seq(EventType)
    BY DEF StreamRight, Connection
  <2> QED BY <1>1, <1>2, <2>1
<1>5. list' \in [Tasks -> Statuses \cup {None}]
  BY <1>1, <1>2, <1>4 DEF ScreenRight, EventType
<1>6. "list" \in Kinds /\ "detail" \in Kinds /\ CallsRight("list", flight["list"]) /\ CallsRight("detail", flight["detail"])
  BY DEF Kinds, FlightRight
<1>7. CallsRight("list", Marked(flight["list"], event))
  <2> DEFINE queue == flight["list"]
             q == Marked(queue, event)
  <2>1. queue \in Seq(CallRow) /\ \A j \in DOMAIN queue : queue[j] \in CallRow
    BY <1>6 DEF CallsRight
  <2>2. DOMAIN q = DOMAIN queue /\ q = [j \in DOMAIN queue |-> q[j]]
    BY DEF Marked
  <2>3. \A j \in DOMAIN queue : q[j] \in CallRow /\ q[j].key = queue[j].key
    <3> SUFFICES ASSUME NEW j \in DOMAIN queue PROVE q[j] \in CallRow /\ q[j].key = queue[j].key
      OBVIOUS
    <3>1. PICK late \in BOOLEAN :
            late = (queue[j].late \/ (queue[j].served /\ queue[j].answer[event.task] \notin {None, event.status}))
      OBVIOUS
    <3>2. q[j] = [queue[j] EXCEPT !.late = late]
      BY <3>1 DEF Marked
    <3>3. queue[j] \in CallRow
      BY <2>1
    <3> HIDE DEF queue, q
    <3> QED BY <3>2, <3>3 DEF CallRow
  <2> HIDE DEF queue, q
  <2>4. CallsRight("list", q)
    BY <1>6, <2>2, <2>3, SameKeys DEF queue
  <2> QED BY <2>4 DEF queue, q
<1>8. CallsRight("detail", Refreshed(flight["detail"], t))
  <2>1. t \in Tasks /\ t \in Tasks \cup Filters
    BY <1>1, <1>4 DEF EventType
  <2>2. CallsRight("detail", Append(flight["detail"], NewCall(t)))
    BY <1>2, <1>6, <2>1, AskedRight
  <2> QED BY <1>6, <2>2 DEF Refreshed
<1>9. FlightRight(flight)'
  BY <1>2, <1>7, <1>8, TwoFlights DEF FlightRight, CallsRight
<1> QED BY <1>2, <1>3, <1>5, <1>9 DEF PlatformRight, ScreenRight

LEMMA InitiallyFollowed == TcInit => CenterInv
<1> SUFFICES ASSUME TcInit PROVE CenterInv
  OBVIOUS
<1>1. PlatformRight
  <2>1. limit \in StreamLimits /\ rows \in [Tasks -> Row]
    BY TaskCenterAssumption DEF TcInit, Row, Statuses
  <2>2. PICK f : f \in Bijection(1 .. Cardinality(Tasks), Tasks)
    BY TaskCenterAssumption, FS_CardinalityType DEF ExistsBijection
  <2>3. recent = SetToSeq(Tasks)
    BY DEF TcInit
  <2>4. recent \in [1 .. Cardinality(Tasks) -> Tasks] /\ IsInjective(recent)
    BY <2>2, <2>3, ZenonT(60) DEF SetToSeq, IsInjective, Bijection, Injection
  <2>5. Cardinality(Tasks) \in Nat /\ IsFiniteSet(Tasks)
    BY TaskCenterAssumption, FS_CardinalityType
  <2>6. recent \in Seq(Tasks) /\ Len(recent) = Cardinality(Tasks) /\ DOMAIN recent = 1 .. Cardinality(Tasks)
    BY <2>4, <2>5
  <2>7. recent \in Surjection(1 .. Cardinality(Tasks), Tasks)
    <3>1. recent \in Injection(1 .. Cardinality(Tasks), Tasks)
      BY <2>4 DEF Injection
    <3>2. IsFiniteSet(1 .. Cardinality(Tasks)) /\ Cardinality(1 .. Cardinality(Tasks)) = Cardinality(Tasks)
      BY <2>5, FS_Interval
    <3> QED BY <2>5, <3>1, <3>2, FS_Injection
  <2>8. ToSet(recent) = Tasks
    BY <2>4, <2>6, <2>7 DEF ToSet, Surjection
  <2>9. Distinct(recent)
    BY <2>4, <2>6 DEF Distinct, IsInjective
  <2> QED BY <2>1, <2>6, <2>8, <2>9 DEF PlatformRight
<1>2. ScreenRight /\ FlightRight(flight)
  <2>1. ScreenRight
    <3>1. /\ list = [t \in Tasks |-> None] /\ filter = "ALL" /\ selected = None /\ down = FALSE
          /\ detail = [task |-> None, status |-> None] /\ passed = [kind \in Kinds |-> FALSE] /\ actions = 0
      BY DEF TcInit
    <3>2. list \in [Tasks -> Statuses \cup {None}] /\ passed \in [Kinds -> BOOLEAN]
      BY <3>1
    <3>3. detail \in [task : Tasks \cup {None}, status : Statuses \cup {None}]
      BY <3>1
    <3>4. actions \in 0 .. MaxActions /\ filter \in Filters
      BY <3>1, TaskCenterAssumption DEF Filters
    <3> QED BY <3>1, <3>2, <3>3, <3>4 DEF ScreenRight
  <2>2. CallsRight("list", <<NewCall("ALL")>>)
    <3>1. PICK c \in CallRow : c = NewCall("ALL")
      BY NewCallRight DEF Filters
    <3>2. <<c>> \in Seq(CallRow) /\ Len(<<c>>) = 1
      OBVIOUS
    <3>3. 1 <= MaxCalls["list"]
      BY TaskCenterAssumption
    <3> QED BY <3>1, <3>2, <3>3 DEF CallsRight
  <2>3. CallsRight("detail", <<>>)
    BY TaskCenterAssumption DEF CallsRight
  <2>4. flight["list"] = <<NewCall("ALL")>> /\ flight["detail"] = <<>> /\ flight = [kind \in Kinds |-> flight[kind]]
    BY DEF TcInit, Kinds
  <2>5. \A kind \in Kinds : CallsRight(kind, flight[kind])
    BY <2>2, <2>3, <2>4 DEF Kinds
  <2> QED BY <2>1, <2>4, <2>5 DEF FlightRight, CallsRight
<1>3. StreamRight(conn)
  BY <1>1, Begins DEF TcInit
<1> QED BY <1>1, <1>2, <1>3 DEF CenterInv

LEMMA CenterSteps == CenterInv /\ [TcNext]_tcVars => CenterInv'
<1> SUFFICES ASSUME CenterInv, [TcNext]_tcVars PROVE CenterInv'
  OBVIOUS
<1>1. CASE \E t \in Tasks : Iterate(t) \/ End(t)
  BY <1>1, RowStep
<1>2. CASE StreamPoll \/ Deliver \/ StreamEnds \/ PollTick
  BY <1>2, PollStep, DeliverStep, StreamEndStep, TickStep
<1>3. CASE \E kind \in Kinds : \E i \in DOMAIN flight[kind] : Serve(kind, i) \/ Arrive(kind, i) \/ CallFails(kind, i)
  BY <1>3, Serving, Arriving
<1>4. CASE (\E t \in Tasks : Select(t)) \/ (\E f \in Filters : SetFilter(f)) \/ Reconnect \/ Refresh
  BY <1>4, UserStep
<1>5. CASE UNCHANGED tcVars
  <2>1. UNCHANGED <<limit, rows, recent, conn, list, filter, selected, detail, down, flight, passed, actions>>
    BY <1>5 DEF tcVars
  <2> QED BY <2>1 DEF CenterInv, PlatformRight, ScreenRight, FlightRight, StreamRight
<1> QED BY <1>1, <1>2, <1>3, <1>4, <1>5 DEF TcNext

\* The inductive invariant of the task center: what a stream has sent, has
\* under way and has delivered of every task, and the queue of the screen.
THEOREM CenterInvariant == TcSpec => []CenterInv
BY InitiallyFollowed, CenterSteps, PTL DEF TcSpec

(***************************************************************************)
(* MCServices: every step is one of a part, and leaves the others alone.   *)
(***************************************************************************)
ServicesInv == ExecutorInv /\ CodeInv /\ AccountsInv /\ CenterInv

LEMMA EveryPartBegins == Init => ServicesInv
BY InitiallyTrue, InitiallyInOrder, InitiallyRight, InitiallyFollowed DEF Init, ServicesInv

LEMMA EveryPartSteps ==
    [Next]_parts => [CeNext]_ceVars /\ [CxNext]_cxVars /\ [AcNext]_acVars /\ [TcNext]_tcVars
BY DEF Next, parts, OnlyExecutor, OnlyCode, OnlyAccounts, OnlyCenter

\* The inductive invariants hold side by side.
THEOREM ServicesInvariant == Spec => []ServicesInv
<1>1. ServicesInv /\ [Next]_parts => ServicesInv'
  BY EveryPartSteps, Inductive, StepsInOrder, StepsRight, CenterSteps DEF ServicesInv
<1> QED BY <1>1, EveryPartBegins, PTL DEF Spec

\* Every variable of the four parts has its type.
THEOREM ServicesTyped == Spec => []TypeOK
<1>1. ServicesInv => TypeOK
  BY Implied, ImpliesCodeTypes, ImpliesTypeOK, ImpliesCenterTypes DEF ServicesInv, TypeOK
<1> QED BY <1>1, ServicesInvariant, PTL

\* Circuits are answered with their own results, code tasks succeed only with
\* what was computed and leave nothing running, and accounts are kept apart
\* (_CircuitHotWorker, sandbox and docker executor, auth_service).
THEOREM ServicesKeepPromises == Spec => [](AnswersOwnCall /\ ExecutionsAccounted /\ AccountsHold)
<1>1. ServicesInv => AnswersOwnCall /\ ExecutionsAccounted /\ AccountsHold
  BY Implied, ImpliesResult, ImpliesNothingLeft, ImpliesHold DEF ServicesInv, ExecutionsAccounted
<1> QED BY <1>1, ServicesInvariant, PTL

\* Over one connection every iteration of a task is delivered once and in
\* order, however many tasks, iterations, polls and reconnections there are
\* (list_changed_tasks, _to_hybrid_iteration_payloads).
THEOREM StreamKeepsOrder == Spec => []IterationsInOrder
<1>1. ServicesInv => IterationsInOrder
  BY ImpliesOrder DEF ServicesInv
<1> QED BY <1>1, ServicesInvariant, PTL
==============================================================================
