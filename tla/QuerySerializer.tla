--------------------------- MODULE QuerySerializer ---------------------------
(***************************************************************************)
(* The query serializer of lib/postgresMgr.js: _queryDb() queues a         *)
(* request, _pgQueryKick() dispatches the head of the queue when nothing   *)
(* is outstanding, creating a client when there is none, and               *)
(* _pgQueryFini() answers the outstanding request, drops the client on an  *)
(* error and kicks the queue again.                                        *)
(*                                                                         *)
(* The events of node-postgres are actions: a query's 'end' and 'error',   *)
(* and a client's 'error', which may come from any client ever created,    *)
(* including one the serializer has already dropped (it is never ended).   *)
(* A client is named by the request that created it; a request's query     *)
(* text and its row are abstracted away.                                   *)
(***************************************************************************)
EXTENDS Naturals, Sequences, FiniteSets

CONSTANTS
    MaxRequests,   \* bound on the _queryDb() calls of a behaviour
    Nil            \* null

ASSUME SerializerAssumption == MaxRequests \in Nat /\ Nil \notin Nat

Requests == 1 .. MaxRequests

VARIABLES
    queue,         \* self._pgRequestsQueued: request ids in arrival order
    outstanding,   \* self._pgRequestOutstanding, or Nil
    client,        \* self._pgClient: the client in use, or Nil
    listening,     \* clients that still have the 'error' listener of _pgQueryKick
    errored,       \* clients that have emitted 'error'
    qclient,       \* the client each request's query was issued on
    qstate,        \* a request's query: "none", "running", or "settled"
    answer,        \* what each request's callback was given: "none", "ok", "err"
    nextId,        \* id of the next _queryDb() call
    crash          \* an exception that ended the process, or "none"

vars == <<queue, outstanding, client, listening, errored, qclient, qstate,
          answer, nextId, crash>>

TypeOK ==
    /\ queue \in Seq(Requests)
    /\ outstanding \in Requests \cup {Nil}
    /\ client \in Requests \cup {Nil}
    /\ listening \subseteq Requests
    /\ errored \subseteq Requests
    /\ qclient \in [Requests -> Requests \cup {Nil}]
    /\ qstate \in [Requests -> {"none", "running", "settled"}]
    /\ answer \in [Requests -> {"none", "ok", "err"}]
    /\ nextId \in 1 .. MaxRequests + 1
    /\ crash \in {"none", "assert", "nullClient", "unhandledError"}

(* The constructor: no client, nothing queued or outstanding.              *)
Init ==
    /\ queue = <<>>
    /\ outstanding = Nil
    /\ client = Nil
    /\ listening = {}
    /\ errored = {}
    /\ qclient = [r \in Requests |-> Nil]
    /\ qstate = [r \in Requests |-> "none"]
    /\ answer = [r \in Requests |-> "none"]
    /\ nextId = 1
    /\ crash = "none"

(* The clients created so far.                                             *)
Clients == {qclient[r] : r \in Requests} \ {Nil}

-----------------------------------------------------------------------------
(* Mutant: _pgQueryKick() takes the newest request instead of shift()ing  *)
(* the oldest.                                                             *)
DispatchNewest(q, cl, lis, qs) ==
    IF q = <<>>
    THEN /\ queue' = q /\ outstanding' = Nil /\ client' = cl /\ listening' = lis
         /\ qstate' = qs /\ UNCHANGED qclient
    ELSE LET r == q[Len(q)]
             c == IF cl = Nil THEN r ELSE cl
         IN  /\ queue' = SubSeq(q, 1, Len(q) - 1)
             /\ outstanding' = r
             /\ client' = c
             /\ listening' = IF cl = Nil THEN lis \cup {r} ELSE lis
             /\ qclient' = [qclient EXCEPT ![r] = c]
             /\ qstate' = [qs EXCEPT ![r] = "running"]

(* _pgQueryKick() when no request is outstanding, from the queue q, the    *)
(* client cl, the listened clients lis and the query states qs left by     *)
(* the step that kicks: pop the head, create a client (with its 'error'    *)
(* listener) if there is none, and issue the query on it.                  *)
Dispatch(q, cl, lis, qs) ==
    IF q = <<>>
    THEN /\ queue' = q /\ outstanding' = Nil /\ client' = cl /\ listening' = lis
         /\ qstate' = qs /\ UNCHANGED qclient
    ELSE LET r == Head(q)
             c == IF cl = Nil THEN r ELSE cl
         IN  /\ queue' = Tail(q)
             /\ outstanding' = r
             /\ client' = c
             /\ listening' = IF cl = Nil THEN lis \cup {r} ELSE lis
             /\ qclient' = [qclient EXCEPT ![r] = c]
             /\ qstate' = [qs EXCEPT ![r] = "running"]

(* Mutant: _pgQueryFini() without its trailing _pgQueryKick().           *)
FiniNoKick(ok, cl, lis, qs) ==
    /\ answer' = [answer EXCEPT ![outstanding] = IF ok THEN "ok" ELSE "err"]
    /\ queue' = queue /\ outstanding' = Nil
    /\ client' = IF ok THEN cl ELSE Nil
    /\ listening' = lis /\ qstate' = qs /\ UNCHANGED qclient

(* _pgQueryFini(err): answer the outstanding request, drop the client on   *)
(* an error, then kick.                                                    *)
Fini(ok, cl, lis, qs) ==
    /\ answer' = [answer EXCEPT ![outstanding] = IF ok THEN "ok" ELSE "err"]
    /\ Dispatch(queue, IF ok THEN cl ELSE Nil, lis, qs)

(* _queryDb(): queue the request and kick.                                 *)
QueryDb ==
    /\ crash = "none"
    /\ nextId <= MaxRequests
    /\ nextId' = nextId + 1
    /\ IF outstanding = Nil
          THEN Dispatch(Append(queue, nextId), client, listening, qstate)
          ELSE /\ queue' = Append(queue, nextId)
               /\ UNCHANGED <<outstanding, client, listening, qclient, qstate>>
    /\ UNCHANGED <<errored, answer, crash>>

(* The query of r emits 'end': assert that r is still the outstanding      *)
(* request, then answer it.  A query ends only on a working connection.    *)
QueryEnd(r) ==
    /\ crash = "none"
    /\ qstate[r] = "running"
    /\ qclient[r] \notin errored
    /\ IF r = outstanding
          THEN Fini(TRUE, client, listening, [qstate EXCEPT ![r] = "settled"])
               /\ UNCHANGED crash
          ELSE /\ crash' = "assert"
               /\ qstate' = [qstate EXCEPT ![r] = "settled"]
               /\ UNCHANGED <<queue, outstanding, client, listening, qclient, answer>>
    /\ UNCHANGED <<errored, nextId>>

(* The query of r emits 'error': answered only if r is still outstanding.  *)
QueryError(r) ==
    /\ crash = "none"
    /\ qstate[r] = "running"
    /\ IF r = outstanding
          THEN Fini(FALSE, client, listening, [qstate EXCEPT ![r] = "settled"])
          ELSE /\ qstate' = [qstate EXCEPT ![r] = "settled"]
               /\ UNCHANGED <<queue, outstanding, client, listening, qclient, answer>>
    /\ UNCHANGED <<errored, nextId, crash>>

(* Client c emits 'error'.  With no listener left the EventEmitter throws. *)
(* The once-listener of _pgQueryKick acts on self._pgClient, whichever     *)
(* client that is now: it removes all of its listeners (a TypeError when   *)
(* it is null), then fails the outstanding request or drops the client.   *)
ClientError(c) ==
    /\ crash = "none"
    /\ c \in Clients \ errored
    /\ errored' = errored \cup {c}
    /\ IF c \notin listening
          THEN /\ crash' = "unhandledError"
               /\ UNCHANGED <<queue, outstanding, client, listening, qclient, qstate, answer>>
       ELSE IF client = Nil
          THEN /\ crash' = "nullClient"
               /\ UNCHANGED <<queue, outstanding, client, listening, qclient, qstate, answer>>
       ELSE IF outstanding # Nil
          THEN Fini(FALSE, client, listening \ {c, client}, qstate) /\ UNCHANGED crash
       ELSE /\ client' = Nil /\ listening' = listening \ {c, client}
            /\ UNCHANGED <<queue, outstanding, qclient, qstate, answer, crash>>
    /\ UNCHANGED nextId

Next ==
    \/ QueryDb
    \/ \E r \in Requests : QueryEnd(r) \/ QueryError(r)
    \/ \E c \in Requests : ClientError(c)

Spec == Init /\ [][Next]_vars

-----------------------------------------------------------------------------
(* The requests made and not yet answered, as callers see them.            *)
Pending == IF outstanding = Nil THEN queue ELSE <<outstanding>> \o queue

Q == INSTANCE QueryQueue WITH pending <- Pending

(* Refinement: whatever node-postgres emits, the serializer answers every  *)
(* _queryDb() request exactly once and in the order the requests were      *)
(* queued -- _pgQueryFini() answers only _pgRequestOutstanding and         *)
(* _pgQueryKick() only ever takes the head of the queue.                   *)
QueueSpec == Q!Spec

(* Spec section 3: the serializer has zero or one query dispatched to      *)
(* postgres at any time.  A query counts as dispatched while it runs on a  *)
(* connection that has not failed.                                         *)
OneQueryInFlight ==
    Cardinality({r \in Requests : qstate[r] = "running" /\ qclient[r] \notin errored}) <= 1

(* No event handler of the serializer throws: the 'end' handler's         *)
(* assert.ok(rq == self._pgRequestOutstanding) holds, and a client's       *)
(* 'error' finds its listener in place and a client to act on -- spec      *)
(* section 4.4: an unsolicited client error with nothing outstanding       *)
(* discards the stale client without invoking any callback.                *)
NoHandlerThrow == crash = "none"
=============================================================================
