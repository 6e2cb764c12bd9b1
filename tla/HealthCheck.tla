----------------------------- MODULE HealthCheck -----------------------------
(***************************************************************************)
(* The health check loop of lib/postgresMgr.js composed with the query     *)
(* serializer it runs through.  Each interval tick arms a timeout and      *)
(* sends 'select current_time;' through _queryDb(); healthHandler() runs   *)
(* as that request's callback, inside the serializer step that answers     *)
(* it.  Other callers (_start's polling, _checkReplStatus, getXLogLocation)*)
(* share the queue.                                                        *)
(*                                                                         *)
(* Time is abstracted to the one comparison the code makes:                *)
(* Date.now() - _lastHealthChkTime > _healthChkTimeout, held in "late".    *)
(***************************************************************************)
EXTENDS QuerySerializer

VARIABLES
    intervalOn,    \* self._healthChkIntervalId is set
    healthy,       \* self._healthy: "null", "yes" or "no"
    late,          \* more than _healthChkTimeout since _lastHealthChkTime
    armed,         \* health requests whose timeout is still pending
    healthReqs     \* the requests made by health ticks

healthVars == <<intervalOn, healthy, late, armed, healthReqs>>
allVars == <<vars, healthVars>>

HealthTypeOK ==
    /\ TypeOK
    /\ intervalOn \in BOOLEAN
    /\ healthy \in {"null", "yes", "no"}
    /\ late \in BOOLEAN
    /\ armed \subseteq healthReqs
    /\ healthReqs \subseteq Requests

HealthInit ==
    /\ Init
    /\ intervalOn = FALSE
    /\ healthy = "null"
    /\ late = FALSE
    /\ armed = {}
    /\ healthReqs = {}

(* _startHealthCheck(), called once from the constructor's init.           *)
StartHealthCheck ==
    /\ ~intervalOn
    /\ intervalOn' = TRUE
    /\ healthy' = "null"
    /\ late' = FALSE
    /\ UNCHANGED <<vars, armed, healthReqs>>

(* _stopHealthCheck(), from close(): clears the interval only.             *)
StopHealthCheck ==
    /\ intervalOn' = FALSE
    /\ UNCHANGED <<vars, healthy, late, armed, healthReqs>>

(* Mutant: the tick's timer is registered under the next tick's id.       *)
HealthTickOffByOne ==
    /\ intervalOn
    /\ QueryDb
    /\ armed' = armed \cup {nextId + 1}
    /\ healthReqs' = healthReqs \cup {nextId}
    /\ UNCHANGED <<intervalOn, healthy, late>>

(* An interval tick: arm the timeout, then _health() -> _queryDb().        *)
HealthTick ==
    /\ intervalOn
    /\ QueryDb
    /\ armed' = armed \cup {nextId}
    /\ healthReqs' = healthReqs \cup {nextId}
    /\ UNCHANGED <<intervalOn, healthy, late>>

(* Another caller's request through the same queue.                        *)
OtherQuery ==
    /\ QueryDb
    /\ UNCHANGED healthVars

(* A tick's timeout fires before its query returned.                       *)
HealthTimeout(r) ==
    /\ crash = "none"
    /\ r \in armed
    /\ armed' = armed \ {r}
    /\ healthy' = "no"
    /\ UNCHANGED <<vars, intervalOn, late, healthReqs>>

(* Time passes beyond _healthChkTimeout since the last good check.         *)
Elapse ==
    /\ crash = "none"
    /\ ~late
    /\ late' = TRUE
    /\ UNCHANGED <<vars, intervalOn, healthy, armed, healthReqs>>

(* Mutant: healthHandler() clears every pending tick's timeout, as if the  *)
(* timeout id were shared by all ticks.                                    *)
HealthHandlerClearsAll(r) ==
    /\ armed' = {}
    /\ IF answer'[r] = "ok"
          THEN healthy' = "yes" /\ late' = FALSE
          ELSE /\ healthy' = IF late THEN "no" ELSE healthy
               /\ UNCHANGED late

(* healthHandler(timeoutId, err) for the health request r the step         *)
(* answered: clearTimeout, then a success resets the health, and an error  *)
(* counts only once the last good check is older than the timeout.         *)
HealthHandler(r) ==
    /\ armed' = armed \ {r}
    /\ IF answer'[r] = "ok"
          THEN healthy' = "yes" /\ late' = FALSE
          ELSE /\ healthy' = IF late THEN "no" ELSE healthy
               /\ UNCHANGED late

(* The callbacks run by a serializer step: healthHandler for a health     *)
(* request it answered; other callers' callbacks are outside this model.   *)
Callbacks ==
    /\ UNCHANGED <<intervalOn, healthReqs>>
    /\ IF \E r \in healthReqs : answer[r] = "none" /\ answer'[r] # "none"
          THEN \E r \in healthReqs :
                  answer[r] = "none" /\ answer'[r] # "none" /\ HealthHandler(r)
          ELSE UNCHANGED <<healthy, late, armed>>

SerializerEvent ==
    /\ \/ \E r \in Requests : QueryEnd(r) \/ QueryError(r)
       \/ \E c \in Requests : ClientError(c)
    /\ Callbacks

=============================================================================
