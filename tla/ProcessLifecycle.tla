--------------------------- MODULE ProcessLifecycle ---------------------------
(***************************************************************************)
(* One _start() of lib/postgresMgr.js, composed with the health check loop *)
(* and the query serializer both run through.  _start spawns postgres,     *)
(* registers an 'exit' listener and polls _health() every second through  *)
(* _queryDb(); a poll that fails after _opsTimeout calls _stop(), whose    *)
(* signal ladder ends in a zero-delay 'SIGKILL failed' timer.  Every       *)
(* _stop() replaces all 'exit' listeners of the handle with its own.       *)
(*                                                                         *)
(* A stop is named by the poll whose answer started it.  The signals       *)
(* themselves are not modelled: the process may exit at any time, and once *)
(* signalled it never comes up.  SIGINT is postgres's fast shutdown: from  *)
(* then on it refuses new connections, so only a query on a connection     *)
(* opened before the signal may still succeed.                             *)
(***************************************************************************)
EXTENDS HealthCheck

VARIABLES
    proc,          \* the postgres process: "none", "booting", "up", "exited"
    handle,        \* self._postgres is set
    signalled,     \* a stop has sent SIGINT
    exitListener,  \* the handle's 'exit' listener: Nil, StartListener, or a stop
    startCb,       \* _start's callback: "idle" (not called), "pending", "ok", "err"
    interval,      \* _start's polling interval is set
    opsLate,       \* more than _opsTimeout since the spawn
    pollReqs,      \* the requests made by _start's polls
    stopPhase,     \* stop -> "none", "ladder" or "done"
    stopOk,        \* stop -> its closure's 'successful'
    fatal,         \* 'error' was emitted: postgres exited after start succeeded
    sigintConns    \* the clients already created when SIGINT was first sent

(* _start's own 'exit' listener; a stop's listener is named by the stop.  *)
StartListener == 0

lifeVars == <<proc, handle, signalled, exitListener, startCb, interval, opsLate,
              pollReqs, stopPhase, stopOk, fatal, sigintConns>>
runtimeVars == <<vars, healthVars, lifeVars>>

RuntimeTypeOK ==
    /\ HealthTypeOK
    /\ proc \in {"none", "booting", "up", "exited"}
    /\ handle \in BOOLEAN
    /\ signalled \in BOOLEAN
    /\ exitListener \in {Nil, StartListener} \cup Requests
    /\ startCb \in {"idle", "pending", "ok", "err"}
    /\ interval \in BOOLEAN
    /\ opsLate \in BOOLEAN
    /\ pollReqs \subseteq Requests
    /\ stopPhase \in [Requests -> {"none", "ladder", "done"}]
    /\ stopOk \in [Requests -> BOOLEAN]
    /\ fatal \in BOOLEAN
    /\ sigintConns \subseteq Requests

RuntimeInit ==
    /\ HealthInit
    /\ proc = "none"
    /\ handle = FALSE
    /\ signalled = FALSE
    /\ exitListener = Nil
    /\ startCb = "idle"
    /\ interval = FALSE
    /\ opsLate = FALSE
    /\ pollReqs = {}
    /\ stopPhase = [s \in Requests |-> "none"]
    /\ stopOk = [s \in Requests |-> FALSE]
    /\ fatal = FALSE
    /\ sigintConns = {}

(* _start's callback (err or not): once, and it clears the interval.       *)
StartCallback(res) ==
    IF startCb = "pending"
    THEN startCb' = res /\ interval' = FALSE
    ELSE UNCHANGED <<startCb, interval>>

(* _start(): resolveVersionedPaths() throws, or postgres is spawned with   *)
(* the 'exit' listener and the polling interval.                           *)
Start ==
    /\ crash = "none"
    /\ startCb = "idle"
    /\ \/ /\ startCb' = "err"
          /\ UNCHANGED <<proc, handle, exitListener, interval>>
       \/ /\ proc' = "booting" /\ handle' = TRUE /\ exitListener' = StartListener
          /\ interval' = TRUE /\ startCb' = "pending"
    /\ UNCHANGED <<vars, healthVars, signalled, opsLate, pollReqs, stopPhase, stopOk, fatal,
                   sigintConns>>

(* postgres finishes recovery and accepts connections.                     *)
ComeUp ==
    /\ proc = "booting" /\ ~signalled
    /\ proc' = "up"
    /\ UNCHANGED <<vars, healthVars, handle, signalled, exitListener, startCb, interval,
                   opsLate, pollReqs, stopPhase, stopOk, fatal, sigintConns>>

(* _start's 'exit' listener: clear the handle, emit 'error' if _start's   *)
(* callback was already called (MANTA-997), and call it back.              *)
StartExitListener ==
    /\ handle' = FALSE
    /\ fatal' = (fatal \/ startCb # "pending")
    /\ StartCallback("err")
    /\ UNCHANGED stopOk

(* Stop s's once-'exit' listener: clear the handle, mark the stop          *)
(* successful and call back -- for a stop begun by a poll, _start's        *)
(* callback with the poll's error.                                         *)
StopExitListener(s) ==
    /\ handle' = FALSE
    /\ stopOk' = [stopOk EXCEPT ![s] = TRUE]
    /\ StartCallback("err")
    /\ UNCHANGED fatal

(* The process exits, signalled or not, and the listener registered runs. *)
Exit ==
    /\ crash = "none"
    /\ proc \in {"booting", "up"}
    /\ proc' = "exited"
    /\ exitListener' = Nil
    /\ IF exitListener = Nil THEN UNCHANGED <<handle, startCb, interval, stopOk, fatal>>
       ELSE IF exitListener = StartListener THEN StartExitListener
       ELSE StopExitListener(exitListener)
    /\ UNCHANGED <<vars, healthVars, signalled, opsLate, pollReqs, stopPhase, sigintConns>>

(* _start's interval: _health() -> _queryDb().                             *)
Poll ==
    /\ interval
    /\ QueryDb
    /\ pollReqs' = pollReqs \cup {nextId}
    /\ UNCHANGED <<healthVars, proc, handle, signalled, exitListener, startCb, interval,
                   opsLate, stopPhase, stopOk, fatal, sigintConns>>

(* Time passes beyond _opsTimeout since the spawn.                         *)
OpsElapse ==
    /\ crash = "none"
    /\ startCb = "pending" /\ ~opsLate
    /\ opsLate' = TRUE
    /\ UNCHANGED <<vars, healthVars, proc, handle, signalled, exitListener, startCb,
                   interval, pollReqs, stopPhase, stopOk, fatal, sigintConns>>

(* _stop(cb) called by poll s: with no handle it calls back at once;       *)
(* otherwise it replaces the 'exit' listeners with its own, sends SIGINT   *)
(* and arms its ladder.  The client the serializer creates for the next   *)
(* request, after this callback returns, connects after the signal.        *)
StopFromPoll(s) ==
    IF ~handle
    THEN StartCallback("err") /\ UNCHANGED <<signalled, exitListener, stopPhase, sigintConns>>
    ELSE /\ exitListener' = s /\ signalled' = TRUE
         /\ sigintConns' = IF signalled THEN sigintConns ELSE Clients
         /\ stopPhase' = [stopPhase EXCEPT ![s] = "ladder"]
         /\ UNCHANGED <<startCb, interval>>

(* Mutant: a failed poll never gives up, whatever the time since start.    *)
PollHandlerNoStop(s) ==
    /\ IF answer'[s] = "ok"
          THEN StartCallback("ok")
          ELSE UNCHANGED <<startCb, interval>>
    /\ UNCHANGED <<signalled, exitListener, stopPhase, sigintConns>>
    /\ UNCHANGED <<proc, handle, opsLate, pollReqs, stopOk, fatal>>

(* Mutant: the poll's callback ignores the error of _health().           *)
PollHandlerIgnoresErr(s) ==
    /\ StartCallback("ok") /\ UNCHANGED <<signalled, exitListener, stopPhase, sigintConns>>
    /\ UNCHANGED <<proc, handle, opsLate, pollReqs, stopOk, fatal>>

(* The poll's callback for request s: success returns the handle; an       *)
(* error after _opsTimeout stops postgres and returns the error.           *)
PollHandler(s) ==
    /\ IF answer'[s] = "ok"
          THEN StartCallback("ok") /\ UNCHANGED <<signalled, exitListener, stopPhase, sigintConns>>
       ELSE IF opsLate
          THEN StopFromPoll(s)
          ELSE UNCHANGED <<startCb, interval, signalled, exitListener, stopPhase, sigintConns>>
    /\ UNCHANGED <<proc, handle, opsLate, pollReqs, stopOk, fatal>>

(* The callbacks of the request a serializer step answered.                *)
Answered(r) == answer[r] = "none" /\ answer'[r] # "none"

PollCallbacks ==
    IF \E s \in pollReqs : Answered(s)
    THEN \E s \in pollReqs : Answered(s) /\ PollHandler(s)
    ELSE UNCHANGED lifeVars

(* A serializer event with the callbacks it runs.  A query succeeds only   *)
(* while postgres is up, and after SIGINT only on a connection it accepted *)
(* before the signal.                                                      *)
RuntimeEvent ==
    /\ SerializerEvent
    /\ PollCallbacks
    /\ \A r \in Requests : answer[r] = "none" /\ answer'[r] = "ok" =>
           /\ proc = "up"
           /\ signalled => qclient[r] \in sigintConns

(* The last, zero-delay timer of stop s's ladder: unless its own exit      *)
(* listener ran, remove every 'exit' listener and call back with           *)
(* 'SIGKILL failed'.                                                       *)
StopLadderEnds(s) ==
    /\ crash = "none"
    /\ stopPhase[s] = "ladder"
    /\ stopPhase' = [stopPhase EXCEPT ![s] = "done"]
    /\ IF stopOk[s]
          THEN UNCHANGED <<exitListener, startCb, interval>>
          ELSE exitListener' = Nil /\ StartCallback("err")
    /\ UNCHANGED <<vars, healthVars, proc, handle, signalled, opsLate, pollReqs, stopOk, fatal,
                   sigintConns>>

(* Model bound: while _start has not returned, the last request id is     *)
(* kept for a poll made after _opsTimeout, so that the bound on requests   *)
(* never stands in for a poll the interval would still make.               *)
SpareId == startCb \notin {"idle", "pending"} \/ nextId < MaxRequests

RuntimeNext ==
    \/ StartHealthCheck /\ UNCHANGED lifeVars
    \/ StopHealthCheck /\ UNCHANGED lifeVars
    \/ HealthTick /\ SpareId /\ UNCHANGED lifeVars
    \/ OtherQuery /\ SpareId /\ UNCHANGED lifeVars
    \/ \E r \in Requests : HealthTimeout(r) /\ UNCHANGED lifeVars
    \/ Elapse /\ UNCHANGED lifeVars
    \/ RuntimeEvent
    \/ Start
    \/ ComeUp
    \/ Exit
    \/ Poll /\ (opsLate \/ SpareId)
    \/ OpsElapse
    \/ \E s \in Requests : StopLadderEnds(s)

(* Node runs every timer and interval callback, time passes, and postgres *)
(* answers or fails every query it was sent.                               *)
RuntimeFairness ==
    /\ \A r \in Requests : WF_runtimeVars(RuntimeEvent /\ (Answered(r) \/ qstate'[r] # qstate[r]))
    /\ \A r \in Requests : WF_runtimeVars(HealthTimeout(r) /\ UNCHANGED lifeVars)
    /\ \A s \in Requests : WF_runtimeVars(StopLadderEnds(s))
    /\ WF_runtimeVars(Poll /\ (opsLate \/ SpareId))
    /\ WF_runtimeVars(OpsElapse)

RuntimeSpec == RuntimeInit /\ [][RuntimeNext]_runtimeVars /\ RuntimeFairness

-----------------------------------------------------------------------------
(* Spec section 4 (health check loop): a tick's timeout is cleared only by *)
(* that tick's own healthHandler (its answer) or by firing, which marks    *)
(* the manager unhealthy -- an answer to one tick never disarms another    *)
(* tick queued behind a hung query.                                        *)
TimeoutDisarmedByOwnAnswer ==
    [][\A r \in armed \ armed' : Answered(r) \/ healthy' = "no"]_runtimeVars

(* Spec: every timed operation has a timeout and ends in an error, never a *)
(* silent hang.  _start() calls back -- postgres up, or an error after a   *)
(* poll fails past _opsTimeout and _stop() returns -- provided postgres     *)
(* answers the queries it is sent.                                         *)
StartTerminates ==
    startCb = "pending" ~> (startCb \in {"ok", "err"} \/ crash # "none")

(* Spec section 3 (Start): _start() polls a health probe "until success": *)
(* it reports success only after one of its own polls was answered without *)
(* error, by the postgres it spawned having come up -- never for a process *)
(* still recovering, whatever the stops and the other callers of           *)
(* _queryDb() do in between.                                               *)
StartOkMeansUp ==
    startCb = "ok" => /\ proc \in {"up", "exited"}
                      /\ \E s \in pollReqs : answer[s] = "ok"

(* MANTA-997 (the 'exit' listener of _start): once _start() has reported   *)
(* postgres running, an exit of that postgres is fatal -- 'error' is       *)
(* emitted so that manatee exits.                                          *)
ExitAfterStartIsFatal ==
    (startCb = "ok" /\ proc = "exited") => fatal
=============================================================================
