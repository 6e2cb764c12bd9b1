--------------------------- MODULE ManagerContract ---------------------------
(***************************************************************************)
(* What the manager promises its coordinator (spec sections 3 and 4.1),    *)
(* seen only through its public state: the stored topology, whether it was *)
(* applied, whether postgres is running, the transitioning mutex, the call *)
(* in progress with the topology it applies, and the last reply.           *)
(*                                                                         *)
(* A reconfigure() while stopped only stores the topology.  start, stop    *)
(* and a reconfigure() while running take the mutex, which only their own  *)
(* completion releases; a completed start or reconfigure records the       *)
(* topology it applied, and only a successful one marks it applied or      *)
(* changes running.  A request may instead crash the sitter, holding the   *)
(* mutex, and the sitter may be restarted at any time, with a fresh        *)
(* manager.  Everything else the manager does -- pipelines, catch-up       *)
(* tasks, files, the process -- is invisible here.                         *)
(***************************************************************************)
CONSTANTS
    Topologies,  \* the topologies reconfigure() accepts: records with a role
    Nil          \* no topology

VARIABLES
    topology,       \* the stored topology, or Nil
    applied,        \* the stored topology was applied
    running,        \* postgres is running under the manager
    transitioning,  \* the mutex of start, stop and reconfigure
    call,           \* "idle", "start", "stop", "reconfigure" or "crashed"
    request,        \* the topology the call in progress applies, or Nil
    reply           \* "none", "ok" or "error": the last callback

cvars == <<topology, applied, running, transitioning, call, request, reply>>

Init ==
    /\ topology = Nil
    /\ applied = FALSE
    /\ running = FALSE
    /\ transitioning = FALSE
    /\ call = "idle"
    /\ request = Nil
    /\ reply = "none"

(* reconfigure() while stopped: stored, applied at the next start.        *)
Store(t) ==
    /\ ~transitioning /\ ~running
    /\ topology' = t /\ applied' = FALSE /\ reply' = "ok"
    /\ UNCHANGED <<running, transitioning, call, request>>

(* A call takes the mutex and starts applying its topology.                *)
Begin(c, t) ==
    /\ ~transitioning
    /\ transitioning' = TRUE /\ call' = c /\ request' = t
    /\ UNCHANGED <<topology, applied, running, reply>>

Reconfigure(t) == running /\ Begin("reconfigure", t)
Start == ~running /\ topology # Nil /\ topology.role # "none" /\ Begin("start", topology)
Stop == running /\ Begin("stop", Nil)

(* A reconfigure() that crashes the sitter with the mutex held.            *)
Crash ==
    /\ ~transitioning /\ running
    /\ transitioning' = TRUE /\ call' = "crashed"
    /\ UNCHANGED <<topology, applied, running, request, reply>>

(* The call in progress completes, successfully or not, and releases the  *)
(* mutex.                                                                  *)
Complete(ok) ==
    /\ call \in {"start", "stop", "reconfigure"}
    /\ transitioning' = FALSE /\ call' = "idle" /\ request' = Nil
    /\ reply' = IF ok THEN "ok" ELSE "error"
    /\ IF ok /\ call \in {"start", "reconfigure"}
          THEN topology' = request /\ applied' = TRUE
          ELSE UNCHANGED <<topology, applied>>
    /\ running' = IF ok /\ call = "start" THEN TRUE
                  ELSE IF ok /\ call = "stop" THEN FALSE
                  ELSE running

(* The sitter is restarted with a fresh manager.                           *)
Restart ==
    /\ topology' = Nil /\ applied' = FALSE /\ running' = FALSE
    /\ transitioning' = FALSE /\ call' = "idle" /\ request' = Nil /\ reply' = "none"

Next ==
    \/ \E t \in Topologies : Store(t) \/ Reconfigure(t)
    \/ Start \/ Stop \/ Crash
    \/ \E ok \in BOOLEAN : Complete(ok)
    \/ Restart

Spec == Init /\ [][Next]_cvars
=============================================================================
