------------------------ MODULE ProcessLifecycleProofs ------------------------
(***************************************************************************)
(* Proofs about one _start() run with the health check loop and the query  *)
(* serializer, for every bound on requests.                                *)
(***************************************************************************)
EXTENDS ProcessLifecycle, QuerySerializerProofs, TLAPS

(* The step TimeoutDisarmedByOwnAnswer forbids: a tick's timeout cleared   *)
(* neither by its own answer nor by firing.                                *)
DisarmedByOwnAnswer == \A r \in armed \ armed' : Answered(r) \/ healthy' = "no"

(* The inductive invariant of the runtime: the serializer's own, with the *)
(* types of the health loop and of _start.                                 *)
RInv == QIInv /\ RuntimeTypeOK

(* The inductive invariant behind StartOkMeansUp: a poll answered without *)
(* error found postgres up, and postgres never leaves "up" but by exiting; *)
(* before _start() runs there is no process and no poll, and the polling  *)
(* interval runs only while _start's callback is pending.                  *)
StartInv ==
    /\ \A s \in pollReqs : answer[s] = "ok" => proc \in {"up", "exited"}
    /\ startCb = "ok" => \E s \in pollReqs : answer[s] = "ok"
    /\ startCb = "idle" => proc = "none" /\ pollReqs = {}
    /\ interval => startCb = "pending"

SInv == RInv /\ StartInv

-----------------------------------------------------------------------------
(* healthHandler() clears the timeout of the request it answers, and only  *)
(* that one.                                                               *)
LEMMA CallbacksDisarm ==
  ASSUME Callbacks PROVE DisarmedByOwnAnswer
<1>1. CASE \E r \in healthReqs : answer[r] = "none" /\ answer'[r] # "none"
  <2>1. PICK r \in healthReqs : answer[r] = "none" /\ answer'[r] # "none" /\ HealthHandler(r)
    BY <1>1 DEF Callbacks
  <2>2. armed \ armed' \subseteq {r}
    BY <2>1 DEF HealthHandler
  <2>. QED
    BY <2>1, <2>2 DEF DisarmedByOwnAnswer, Answered
<1>2. CASE ~\E r \in healthReqs : answer[r] = "none" /\ answer'[r] # "none"
  BY <1>2 DEF Callbacks, DisarmedByOwnAnswer
<1>. QED
  BY <1>1, <1>2

(* Every step of the runtime either leaves the armed timeouts alone, arms *)
(* a new one, fires one, or runs a healthHandler.                          *)
LEMMA StepDisarm == [RuntimeNext]_runtimeVars => DisarmedByOwnAnswer
<1>. SUFFICES ASSUME [RuntimeNext]_runtimeVars PROVE DisarmedByOwnAnswer
  OBVIOUS
<1>1. CASE RuntimeEvent
  BY <1>1, CallbacksDisarm DEF RuntimeEvent, SerializerEvent
<1>2. ASSUME NEW r \in Requests, HealthTimeout(r) PROVE DisarmedByOwnAnswer
  BY <1>2 DEF HealthTimeout, DisarmedByOwnAnswer
<1>3. CASE HealthTick
  BY <1>3 DEF HealthTick, DisarmedByOwnAnswer
<1>4. CASE UNCHANGED armed
  BY <1>4 DEF DisarmedByOwnAnswer
<1>. QED
  BY <1>1, <1>2, <1>3, <1>4
     DEF RuntimeNext, StartHealthCheck, StopHealthCheck, OtherQuery, Elapse, Start, ComeUp,
         Exit, Poll, OpsElapse, StopLadderEnds, runtimeVars, healthVars

-----------------------------------------------------------------------------
(* Every runtime step is a serializer step or leaves the serializer alone. *)
LEMMA SerializerPart == [RuntimeNext]_runtimeVars => [Next]_vars
<1>. SUFFICES ASSUME [RuntimeNext]_runtimeVars PROVE [Next]_vars
  OBVIOUS
<1>1. CASE HealthTick \/ OtherQuery \/ Poll
  BY <1>1 DEF HealthTick, OtherQuery, Poll, Next
<1>2. CASE RuntimeEvent
  BY <1>2 DEF RuntimeEvent, SerializerEvent, Next
<1>. QED
  BY <1>1, <1>2
     DEF RuntimeNext, StartHealthCheck, StopHealthCheck, HealthTimeout, Elapse, Start, ComeUp,
         Exit, OpsElapse, StopLadderEnds, runtimeVars

(* _start's callback runs at most once, with "ok" or "err".                *)
LEMMA StartCallbackTyped ==
  ASSUME NEW res \in {"ok", "err"}, StartCallback(res),
         startCb \in {"idle", "pending", "ok", "err"}, interval \in BOOLEAN
  PROVE  startCb' \in {"idle", "pending", "ok", "err"} /\ interval' \in BOOLEAN
BY DEF StartCallback

(* The health loop's callbacks keep their variables typed.                 *)
LEMMA CallbacksTyped ==
  ASSUME HealthTypeOK, Callbacks
  PROVE  /\ healthy' \in {"null", "yes", "no"} /\ late' \in BOOLEAN
         /\ armed' \subseteq armed /\ healthReqs' = healthReqs
BY DEF Callbacks, HealthHandler, HealthTypeOK

(* The clients the serializer created are request ids.                     *)
LEMMA ClientsTyped ==
  ASSUME TypeOK
  PROVE  Clients \subseteq Requests
BY DEF Clients, TypeOK

(* The poll callbacks of _start keep its variables typed.                  *)
LEMMA PollCallbacksTyped ==
  ASSUME RuntimeTypeOK, PollCallbacks
  PROVE  /\ startCb' \in {"idle", "pending", "ok", "err"} /\ interval' \in BOOLEAN
         /\ signalled' \in BOOLEAN /\ exitListener' \in {Nil, StartListener} \cup Requests
         /\ stopPhase' \in [Requests -> {"none", "ladder", "done"}]
         /\ sigintConns' \subseteq Requests
         /\ UNCHANGED <<proc, handle, opsLate, pollReqs, stopOk, fatal>>
<1>1. CASE \E s \in pollReqs : Answered(s)
  <2>1. PICK s \in pollReqs : Answered(s) /\ PollHandler(s)
    BY <1>1 DEF PollCallbacks
  <2>2. s \in Requests
    BY DEF RuntimeTypeOK
  <2>3. CASE answer'[s] = "ok"
    BY <2>1, <2>3, StartCallbackTyped DEF PollHandler, RuntimeTypeOK
  <2>4. CASE answer'[s] # "ok" /\ opsLate /\ ~handle
    BY <2>1, <2>4, StartCallbackTyped DEF PollHandler, StopFromPoll, RuntimeTypeOK
  <2>5. CASE answer'[s] # "ok" /\ opsLate /\ handle
    <3>1. Clients \subseteq Requests
      BY ClientsTyped DEF RuntimeTypeOK, HealthTypeOK
    <3>. QED
      BY <2>1, <2>2, <2>5, <3>1 DEF PollHandler, StopFromPoll, RuntimeTypeOK
  <2>6. CASE answer'[s] # "ok" /\ ~opsLate
    BY <2>1, <2>6 DEF PollHandler, RuntimeTypeOK
  <2>. QED
    BY <2>3, <2>4, <2>5, <2>6
<1>2. CASE ~\E s \in pollReqs : Answered(s)
  BY <1>2 DEF PollCallbacks, RuntimeTypeOK, lifeVars
<1>. QED
  BY <1>1, <1>2

-----------------------------------------------------------------------------
(* A request the serializer has answered keeps its answer: only the       *)
(* oldest pending request, still unanswered, gets one.                     *)
LEMMA AnswersStay ==
  ASSUME QIInv, [Next]_vars, NEW r \in Requests, answer[r] # "none"
  PROVE  answer'[r] = answer[r]
<1>1. SubmitStep \/ ReplyStep \/ StutterStep
  BY StepShape
<1>2. CASE ReplyStep
  <2>1. Pending \in Seq(Requests) /\ Len(Pending) >= 1 /\ Head(Pending) = Pending[1]
    BY <1>2, PendingTyped, EmptySeq DEF QIInv, ReplyStep
  <2>2. answer[Head(Pending)] = "none"
    BY <2>1 DEF QIInv, PendingFresh
  <2>3. r # Head(Pending) /\ answer \in [Requests -> {"none", "ok", "err"}]
    BY <2>2 DEF QIInv, TypeOK
  <2>. QED
    BY <1>2, <2>3 DEF ReplyStep
<1>. QED
  BY <1>1, <1>2 DEF SubmitStep, StutterStep

(* _start's callback, called with res, is never undone, and the interval  *)
(* it clears runs only while the callback is pending.                      *)
LEMMA StartCallbackKeeps ==
  ASSUME NEW res \in {"ok", "err"}, StartCallback(res), interval => startCb = "pending"
  PROVE  /\ interval' => startCb' = "pending"
         /\ startCb' = "idle" => startCb = "idle"
         /\ startCb' = "ok" => startCb = "ok" \/ res = "ok"
BY DEF StartCallback

(* The steps that touch neither _start nor the answers.                    *)
LEMMA QuietKeeps ==
  ASSUME StartInv, answer' = answer, UNCHANGED <<proc, startCb, interval, pollReqs>>
  PROVE  StartInv'
BY DEF StartInv

(* The constructor's state with _start not yet called.                     *)
LEMMA InitRInv == RuntimeInit => RInv
BY InitQIInv, SerializerAssumption
   DEF RuntimeInit, HealthInit, RInv, RuntimeTypeOK, HealthTypeOK, QIInv, StartListener

(* Every runtime step keeps the runtime typed.                             *)
LEMMA NextRInv == RInv /\ [RuntimeNext]_runtimeVars => RInv'
<1>. SUFFICES ASSUME RInv, [RuntimeNext]_runtimeVars PROVE RInv'
  OBVIOUS
<1>0. QIInv' /\ TypeOK' /\ RuntimeTypeOK /\ TypeOK
  BY SerializerPart, NextQIInv DEF RInv, QIInv, RuntimeTypeOK, HealthTypeOK
<1>. SUFFICES RuntimeTypeOK'
  BY <1>0 DEF RInv
<1>. USE <1>0
<1>1. CASE HealthTick /\ UNCHANGED lifeVars
  <2>1. nextId \in Requests
    BY <1>1 DEF HealthTick, QueryDb, TypeOK, Requests
  <2>. QED
    BY <1>1, <2>1 DEF HealthTick, RuntimeTypeOK, HealthTypeOK, lifeVars
<1>2. CASE Poll
  <2>1. nextId \in Requests
    BY <1>2 DEF Poll, QueryDb, TypeOK, Requests
  <2>. QED
    BY <1>2, <2>1 DEF Poll, RuntimeTypeOK, HealthTypeOK, healthVars
<1>3. CASE RuntimeEvent
  <2>1. healthy' \in {"null", "yes", "no"} /\ late' \in BOOLEAN
        /\ armed' \subseteq armed /\ healthReqs' = healthReqs
    BY <1>3, CallbacksTyped DEF RuntimeEvent, SerializerEvent, RuntimeTypeOK
  <2>2. /\ startCb' \in {"idle", "pending", "ok", "err"} /\ interval' \in BOOLEAN
        /\ signalled' \in BOOLEAN /\ exitListener' \in {Nil, StartListener} \cup Requests
        /\ stopPhase' \in [Requests -> {"none", "ladder", "done"}]
        /\ sigintConns' \subseteq Requests
        /\ UNCHANGED <<proc, handle, opsLate, pollReqs, stopOk, fatal>>
    BY <1>3, PollCallbacksTyped DEF RuntimeEvent
  <2>. QED
    BY <1>3, <2>1, <2>2 DEF RuntimeEvent, SerializerEvent, Callbacks, RuntimeTypeOK, HealthTypeOK, healthVars
<1>4. CASE Start
  BY <1>4 DEF Start, RuntimeTypeOK, HealthTypeOK, healthVars
<1>5. CASE Exit
  <2>1. CASE exitListener = Nil
    BY <1>5, <2>1 DEF Exit, RuntimeTypeOK, HealthTypeOK, healthVars
  <2>2. CASE exitListener = StartListener
    BY <1>5, <2>2, StartCallbackTyped DEF Exit, StartExitListener, RuntimeTypeOK, HealthTypeOK, healthVars, StartListener
  <2>3. CASE exitListener \notin {Nil, StartListener}
    <3>1. exitListener \in Requests
      BY <2>3 DEF RuntimeTypeOK
    <3>. QED
      BY <1>5, <2>3, <3>1, StartCallbackTyped DEF Exit, StopExitListener, RuntimeTypeOK, HealthTypeOK, healthVars
  <2>. QED
    BY <2>1, <2>2, <2>3
<1>6. ASSUME NEW s \in Requests, StopLadderEnds(s) PROVE RuntimeTypeOK'
  BY <1>6, StartCallbackTyped DEF StopLadderEnds, RuntimeTypeOK, HealthTypeOK, healthVars
<1>7. ASSUME NEW r \in Requests, HealthTimeout(r) /\ UNCHANGED lifeVars PROVE RuntimeTypeOK'
  BY <1>7 DEF HealthTimeout, RuntimeTypeOK, HealthTypeOK, lifeVars
<1>8. CASE \/ StartHealthCheck /\ UNCHANGED lifeVars
           \/ StopHealthCheck /\ UNCHANGED lifeVars
           \/ Elapse /\ UNCHANGED lifeVars
  <2>1. CASE StartHealthCheck /\ UNCHANGED lifeVars
    BY <2>1 DEF StartHealthCheck, RuntimeTypeOK, HealthTypeOK, lifeVars
  <2>2. CASE StopHealthCheck /\ UNCHANGED lifeVars
    <3>1. HealthTypeOK'
      BY <2>2 DEF StopHealthCheck, RuntimeTypeOK, HealthTypeOK
    <3>2. UNCHANGED lifeVars
      BY <2>2
    <3>. QED
      BY <3>1, <3>2 DEF RuntimeTypeOK, lifeVars
  <2>3. CASE Elapse /\ UNCHANGED lifeVars
    BY <2>3 DEF Elapse, RuntimeTypeOK, HealthTypeOK, lifeVars
  <2>. QED
    BY <1>8, <2>1, <2>2, <2>3
<1>9. CASE OtherQuery /\ UNCHANGED lifeVars
  BY <1>9 DEF OtherQuery, RuntimeTypeOK, HealthTypeOK, lifeVars, healthVars
<1>10. CASE ComeUp \/ OpsElapse
  <2>1. HealthTypeOK' /\ UNCHANGED <<handle, signalled, exitListener, startCb, interval,
                                      pollReqs, stopPhase, stopOk, fatal, sigintConns>>
    BY <1>10 DEF ComeUp, OpsElapse, RuntimeTypeOK, HealthTypeOK, healthVars
  <2>2. proc' \in {"none", "booting", "up", "exited"} /\ opsLate' \in BOOLEAN
    BY <1>10 DEF ComeUp, OpsElapse, RuntimeTypeOK
  <2>. QED
    BY <2>1, <2>2 DEF RuntimeTypeOK
<1>11. CASE UNCHANGED runtimeVars
  BY <1>11 DEF RuntimeTypeOK, HealthTypeOK, lifeVars, healthVars, runtimeVars
<1>. QED
  BY <1>1, <1>2, <1>3, <1>4, <1>5, <1>6, <1>7, <1>8, <1>9, <1>10, <1>11
     DEF RuntimeNext

LEMMA InitSInv == RuntimeInit => SInv
BY InitRInv DEF RuntimeInit, SInv, StartInv

(* Every runtime step keeps StartInv.                                      *)
LEMMA NextSInv == SInv /\ [RuntimeNext]_runtimeVars => SInv'
<1>. SUFFICES ASSUME SInv, [RuntimeNext]_runtimeVars PROVE SInv'
  OBVIOUS
<1>0. /\ RInv' /\ RuntimeTypeOK /\ QIInv /\ StartInv
      /\ \A r \in Requests : answer[r] # "none" => answer'[r] = answer[r]
  <2>1. RInv' /\ RuntimeTypeOK /\ QIInv /\ StartInv
    BY NextRInv DEF SInv, RInv
  <2>2. [Next]_vars
    BY SerializerPart
  <2>. QED
    BY <2>1, <2>2, AnswersStay
<1>. SUFFICES StartInv'
  BY <1>0 DEF SInv
<1>. USE <1>0
<1>1. CASE \/ StartHealthCheck /\ UNCHANGED lifeVars
           \/ StopHealthCheck /\ UNCHANGED lifeVars
           \/ \E r \in Requests : HealthTimeout(r) /\ UNCHANGED lifeVars
           \/ Elapse /\ UNCHANGED lifeVars
           \/ OpsElapse
  BY <1>1, QuietKeeps
     DEF StartHealthCheck, StopHealthCheck, HealthTimeout, Elapse, OpsElapse, lifeVars, vars
<1>2. CASE (HealthTick \/ OtherQuery) /\ UNCHANGED lifeVars
  BY <1>2, QuietKeeps DEF HealthTick, OtherQuery, QueryDb, lifeVars
<1>3. CASE Poll
  <2>1. answer' = answer /\ nextId \in Requests /\ answer[nextId] = "none"
    BY <1>3 DEF Poll, QueryDb, QIInv, TypeOK, PendingFresh, Requests
  <2>. QED
    BY <1>3, <2>1 DEF Poll, StartInv, RuntimeTypeOK
<1>4. CASE Start
  BY <1>4 DEF Start, StartInv
<1>5. CASE ComeUp
  BY <1>5 DEF ComeUp, StartInv
<1>6. CASE Exit
  <2>1. /\ interval' => startCb' = "pending"
        /\ startCb' = "idle" => startCb = "idle"
        /\ startCb' = "ok" => startCb = "ok"
    BY <1>6, StartCallbackKeeps DEF Exit, StartExitListener, StopExitListener, StartInv
  <2>2. answer' = answer /\ pollReqs' = pollReqs /\ proc' = "exited" /\ proc \in {"booting", "up"}
    BY <1>6 DEF Exit, vars
  <2>. QED
    BY <2>1, <2>2 DEF StartInv
<1>7. ASSUME NEW s \in Requests, StopLadderEnds(s) PROVE StartInv'
  <2>1. /\ interval' => startCb' = "pending"
        /\ startCb' = "idle" => startCb = "idle"
        /\ startCb' = "ok" => startCb = "ok"
    BY <1>7, StartCallbackKeeps DEF StopLadderEnds, StartInv
  <2>2. answer' = answer /\ pollReqs' = pollReqs /\ proc' = proc
    BY <1>7 DEF StopLadderEnds, vars
  <2>. QED
    BY <2>1, <2>2 DEF StartInv
<1>8. CASE RuntimeEvent
  <2>1. \A r \in Requests : answer[r] = "none" /\ answer'[r] = "ok" => proc = "up"
    BY <1>8 DEF RuntimeEvent
  <2>2. CASE \E s \in pollReqs : Answered(s)
    <3>1. PICK s \in pollReqs : Answered(s) /\ PollHandler(s)
      BY <1>8, <2>2 DEF RuntimeEvent, PollCallbacks
    <3>2. s \in Requests /\ UNCHANGED <<proc, pollReqs>>
      BY <3>1 DEF PollHandler, RuntimeTypeOK
    <3>3. /\ interval' => startCb' = "pending"
          /\ startCb' = "idle" => startCb = "idle"
          /\ startCb' = "ok" => startCb = "ok" \/ answer'[s] = "ok"
      BY <3>1, StartCallbackKeeps DEF PollHandler, StopFromPoll, StartInv
    <3>4. \A t \in pollReqs' : answer'[t] = "ok" => proc' \in {"up", "exited"}
      BY <2>1, <3>2 DEF StartInv, RuntimeTypeOK
    <3>5. startCb' = "ok" => \E t \in pollReqs' : answer'[t] = "ok"
      BY <3>2, <3>3 DEF StartInv, RuntimeTypeOK
    <3>. QED
      BY <3>2, <3>3, <3>4, <3>5 DEF StartInv
  <2>3. CASE ~\E s \in pollReqs : Answered(s)
    <3>1. UNCHANGED lifeVars
      BY <1>8, <2>3 DEF RuntimeEvent, PollCallbacks
    <3>2. \A t \in pollReqs : answer'[t] = "ok" => answer[t] = "ok"
      BY <2>3 DEF Answered, RuntimeTypeOK
    <3>. QED
      BY <3>1, <3>2 DEF StartInv, lifeVars, RuntimeTypeOK
  <2>. QED
    BY <2>2, <2>3
<1>9. CASE UNCHANGED runtimeVars
  BY <1>9, QuietKeeps DEF runtimeVars, lifeVars, vars
<1>. QED
  BY <1>1, <1>2, <1>3, <1>4, <1>5, <1>6, <1>7, <1>8, <1>9 DEF RuntimeNext

(* Type correctness of the runtime, for every bound on requests: the      *)
(* health loop's armed timeouts belong to its own requests, _start's      *)
(* callback, its 'exit' listener and every stop's ladder keep the values   *)
(* the code gives them, and the serializer keeps its own invariant.       *)
THEOREM RuntimeTyped == RuntimeSpec => []RuntimeTypeOK
<1>1. RuntimeInit => RInv
  BY InitRInv
<1>2. RInv /\ [RuntimeNext]_runtimeVars => RInv'
  BY NextRInv
<1>3. RInv => RuntimeTypeOK
  BY DEF RInv
<1>. QED
  BY <1>1, <1>2, <1>3, PTL DEF RuntimeSpec

(* Spec section 4: a health tick's timeout is disarmed only by that tick's *)
(* own healthHandler or by firing and marking the manager unhealthy, for   *)
(* any number of requests: an answer to one tick never clears another     *)
(* tick's timer queued behind a hung query.                                *)
THEOREM TimeoutsDisarmedByOwner == RuntimeSpec => TimeoutDisarmedByOwnAnswer
<1>1. [RuntimeNext]_runtimeVars => [DisarmedByOwnAnswer]_runtimeVars
  BY StepDisarm
<1>. QED
  BY <1>1, PTL DEF RuntimeSpec, TimeoutDisarmedByOwnAnswer, DisarmedByOwnAnswer

(* The runtime, with the serializer's steps interleaved with the health   *)
(* loop's and _start's, starts where the serializer does and takes only    *)
(* serializer steps or steps that leave it alone.                         *)
LEMMA RuntimeIsSerializer == RuntimeSpec => Spec
<1>1. RuntimeInit => Init
  BY DEF RuntimeInit, HealthInit
<1>. QED
  BY <1>1, SerializerPart, PTL DEF RuntimeSpec, Spec

(* Refinement in the composition: with _start's polls, the health ticks    *)
(* and the other callers all sharing _queryDb(), and the callbacks of     *)
(* _start and healthHandler() running inside the serializer's steps, every *)
(* request is still answered at most once and in the order it was queued, *)
(* for every bound on requests.                                           *)
THEOREM RuntimeQueue == RuntimeSpec => QueueSpec
BY RuntimeIsSerializer, Refinement


(* The invariant behind _start's success holds in every reachable state,  *)
(* for any bound on requests: a poll answered without error found         *)
(* postgres up, _start succeeds only on such a poll, nothing is spawned or *)
(* polled before _start() runs, and the interval polls only while its     *)
(* callback is pending.                                                    *)
THEOREM StartInvariant == RuntimeSpec => []SInv
<1>1. RuntimeInit => SInv
  BY InitSInv
<1>2. SInv /\ [RuntimeNext]_runtimeVars => SInv'
  BY NextSInv
<1>. QED
  BY <1>1, <1>2, PTL DEF RuntimeSpec

(* Spec section 3 (Start): for any bound on requests, _start() calls back  *)
(* with success only after one of its own polls was answered without      *)
(* error, by the postgres it spawned having come up -- whatever the stops *)
(* begun by earlier failed polls, the health ticks and the other callers  *)
(* of _queryDb() did in between.                                          *)
THEOREM StartOnlyWhenUp == RuntimeSpec => []StartOkMeansUp
<1>1. SInv => StartOkMeansUp
  BY DEF SInv, StartInv, StartOkMeansUp
<1>. QED
  BY <1>1, StartInvariant, PTL

=============================================================================
