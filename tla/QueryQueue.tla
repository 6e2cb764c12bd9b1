----------------------------- MODULE QueryQueue ------------------------------
(***************************************************************************)
(* What the query serializer of lib/postgresMgr.js promises its callers    *)
(* (_health, _checkReplStatus, getXLogLocation): every request is answered *)
(* exactly once, with a result or an error, in the order it was made.      *)
(***************************************************************************)
EXTENDS Naturals, Sequences

CONSTANTS MaxRequests

VARIABLES
    pending,   \* requests made and not yet answered, oldest first
    answer,    \* request -> "none", "ok" or "err"
    nextId     \* id of the next request

Requests == 1 .. MaxRequests

Init ==
    /\ pending = <<>>
    /\ answer = [r \in Requests |-> "none"]
    /\ nextId = 1

(* A caller makes a request.                                               *)
Submit ==
    /\ nextId <= MaxRequests
    /\ pending' = Append(pending, nextId)
    /\ nextId' = nextId + 1
    /\ UNCHANGED answer

(* The oldest pending request is answered, for the first and only time.   *)
Reply ==
    /\ pending # <<>>
    /\ answer[Head(pending)] = "none"
    /\ \E res \in {"ok", "err"} : answer' = [answer EXCEPT ![Head(pending)] = res]
    /\ pending' = Tail(pending)
    /\ UNCHANGED nextId

Next == Submit \/ Reply

Spec == Init /\ [][Next]_<<pending, answer, nextId>>
=============================================================================
