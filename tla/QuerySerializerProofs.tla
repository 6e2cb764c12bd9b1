------------------------ MODULE QuerySerializerProofs ------------------------
(***************************************************************************)
(* Proofs that the query serializer implements QueryQueue: every request  *)
(* is answered at most once and in the order it was queued.                *)
(***************************************************************************)
EXTENDS QuerySerializer, SequenceTheorems, TLAPS

Ordered(s) == \A i, j \in 1 .. Len(s) : i < j => s[i] < s[j]

(* _pgQueryKick() runs after every step that leaves nothing outstanding,   *)
(* so the queue is empty whenever nothing is outstanding.                  *)
KickedWhenIdle == outstanding = Nil => queue = <<>>

(* The pending requests were issued in increasing id order, are not yet   *)
(* answered, and no request not yet issued has an answer.                  *)
PendingFresh ==
    /\ Ordered(Pending)
    /\ \A i \in 1 .. Len(Pending) : Pending[i] < nextId /\ answer[Pending[i]] = "none"
    /\ \A r \in Requests : r >= nextId => answer[r] = "none"

QIInv == TypeOK /\ KickedWhenIdle /\ PendingFresh

(* What a step does to the state callers see.                              *)
SubmitStep ==
    /\ nextId <= MaxRequests
    /\ Pending' = Append(Pending, nextId)
    /\ nextId' = nextId + 1
    /\ answer' = answer
ReplyStep ==
    /\ Pending # <<>>
    /\ Pending' = Tail(Pending)
    /\ nextId' = nextId
    /\ \E res \in {"ok", "err"} : answer' = [answer EXCEPT ![Head(Pending)] = res]
StutterStep ==
    /\ Pending' = Pending
    /\ answer' = answer
    /\ nextId' = nextId

USE SerializerAssumption

LEMMA DispatchEffect ==
    ASSUME NEW q \in Seq(Requests), NEW cl \in Requests \cup {Nil},
           NEW lis \in SUBSET Requests,
           NEW qs \in [Requests -> {"none", "running", "settled"}],
           qclient \in [Requests -> Requests \cup {Nil}],
           Dispatch(q, cl, lis, qs)
    PROVE  /\ Pending' = q
           /\ outstanding' = Nil => queue' = <<>>
           /\ queue' \in Seq(Requests)
           /\ outstanding' \in Requests \cup {Nil}
           /\ client' \in Requests \cup {Nil}
           /\ listening' \subseteq Requests
           /\ qclient' \in [Requests -> Requests \cup {Nil}]
           /\ qstate' \in [Requests -> {"none", "running", "settled"}]
<1>1. CASE q = <<>>
  BY <1>1 DEF Dispatch, Pending
<1>2. CASE q # <<>>
  <2>1. Head(q) \in Requests /\ Tail(q) \in Seq(Requests)
    BY <1>2, HeadTailProperties
  <2>2. <<Head(q)>> \o Tail(q) = q
    BY <1>2, HeadTailProperties, SeqEqual
  <2>3. outstanding' = Head(q) /\ queue' = Tail(q)
    BY <1>2 DEF Dispatch
  <2>4. Head(q) # Nil
    BY <2>1
  <2>5. QED
    BY <1>2, <2>1, <2>2, <2>3, <2>4 DEF Dispatch, Pending
<1>3. QED
  BY <1>1, <1>2
LEMMA FiniEffect ==
    ASSUME TypeOK, outstanding # Nil,
           NEW ok \in BOOLEAN, NEW cl \in Requests \cup {Nil},
           NEW lis \in SUBSET Requests,
           NEW qs \in [Requests -> {"none", "running", "settled"}],
           Fini(ok, cl, lis, qs)
    PROVE  /\ Pending # <<>>
           /\ Pending' = Tail(Pending)
           /\ \E res \in {"ok", "err"} : answer' = [answer EXCEPT ![Head(Pending)] = res]
           /\ answer' \in [Requests -> {"none", "ok", "err"}]
           /\ outstanding' = Nil => queue' = <<>>
           /\ queue' \in Seq(Requests)
           /\ outstanding' \in Requests \cup {Nil}
           /\ client' \in Requests \cup {Nil}
           /\ listening' \subseteq Requests
           /\ qclient' \in [Requests -> Requests \cup {Nil}]
           /\ qstate' \in [Requests -> {"none", "running", "settled"}]
<1>1. Pending = <<outstanding>> \o queue
  BY DEF Pending
<1>2. Pending # <<>> /\ Head(Pending) = outstanding /\ Tail(Pending) = queue
  BY <1>1, ConcatProperties, HeadTailProperties, SeqEqual DEF TypeOK
<1>3. (IF ok THEN cl ELSE Nil) \in Requests \cup {Nil}
  OBVIOUS
<1>4. Dispatch(queue, IF ok THEN cl ELSE Nil, lis, qs)
  BY DEF Fini
<1>5. Pending' = queue /\ (outstanding' = Nil => queue' = <<>>)
      /\ queue' \in Seq(Requests) /\ outstanding' \in Requests \cup {Nil}
      /\ client' \in Requests \cup {Nil} /\ listening' \subseteq Requests
      /\ qclient' \in [Requests -> Requests \cup {Nil}]
      /\ qstate' \in [Requests -> {"none", "running", "settled"}]
  BY <1>3, <1>4, DispatchEffect DEF TypeOK
<1>6. answer' = [answer EXCEPT ![Head(Pending)] = IF ok THEN "ok" ELSE "err"]
  BY <1>2 DEF Fini
<1>7. QED
  BY <1>2, <1>5, <1>6 DEF TypeOK
(* The state a crash, or an event ignored by the code, leaves.             *)
LEMMA StutterKeeps ==
    ASSUME QIInv,
           UNCHANGED <<queue, outstanding, client, listening, qclient, answer, nextId>>,
           errored' \subseteq Requests,
           qstate' \in [Requests -> {"none", "running", "settled"}],
           crash' \in {"none", "assert", "nullClient", "unhandledError"}
    PROVE  TypeOK' /\ KickedWhenIdle' /\ StutterStep
BY DEF QIInv, TypeOK, KickedWhenIdle, StutterStep, Pending

LEMMA FiniStep ==
    ASSUME QIInv, outstanding # Nil,
           NEW ok \in BOOLEAN, NEW cl \in Requests \cup {Nil},
           NEW lis \in SUBSET Requests,
           NEW qs \in [Requests -> {"none", "running", "settled"}],
           Fini(ok, cl, lis, qs),
           errored' \subseteq Requests, UNCHANGED nextId,
           crash' \in {"none", "assert", "nullClient", "unhandledError"}
    PROVE  TypeOK' /\ KickedWhenIdle' /\ ReplyStep
BY FiniEffect DEF QIInv, TypeOK, KickedWhenIdle, ReplyStep

LEMMA QueryDbShape ==
    ASSUME QIInv, QueryDb
    PROVE  TypeOK' /\ KickedWhenIdle' /\ SubmitStep
<1> USE DEF QIInv, TypeOK, Requests
<1>1. nextId \in Requests
  BY DEF QueryDb
<1>2. Append(queue, nextId) \in Seq(Requests)
  BY <1>1
<1>3. CASE outstanding = Nil
  <2>1. queue = <<>> /\ Pending = <<>>
    BY <1>3 DEF KickedWhenIdle, Pending
  <2>2. Dispatch(Append(queue, nextId), client, listening, qstate)
    BY <1>3 DEF QueryDb
  <2>3. /\ Pending' = Append(queue, nextId)
        /\ outstanding' = Nil => queue' = <<>>
        /\ queue' \in Seq(Requests)
        /\ outstanding' \in Requests \cup {Nil}
        /\ client' \in Requests \cup {Nil}
        /\ listening' \subseteq Requests
        /\ qclient' \in [Requests -> Requests \cup {Nil}]
        /\ qstate' \in [Requests -> {"none", "running", "settled"}]
    BY <1>2, <2>2, DispatchEffect
  <2>4. Pending' = Append(Pending, nextId)
    BY <2>1, <2>3
  <2>5. UNCHANGED <<errored, answer, crash>> /\ nextId' = nextId + 1 /\ nextId <= MaxRequests
    BY DEF QueryDb
  <2>6. TypeOK'
    <3>1. nextId' \in 1 .. MaxRequests + 1
      BY <1>1, <2>5
    <3>2. errored' \subseteq Requests /\ answer' \in [Requests -> {"none", "ok", "err"}]
          /\ crash' \in {"none", "assert", "nullClient", "unhandledError"}
      BY <2>5
    <3>3. QED
      BY <2>3, <3>1, <3>2
  <2>7. KickedWhenIdle' /\ SubmitStep
    BY <2>3, <2>4, <2>5 DEF KickedWhenIdle, SubmitStep
  <2>8. QED
    BY <2>6, <2>7
<1>4. CASE outstanding # Nil
  <2>1. queue' = Append(queue, nextId) /\ outstanding' = outstanding
        /\ UNCHANGED <<client, listening, qclient, qstate, errored, answer, crash>>
    BY <1>4 DEF QueryDb
  <2>2. Pending' = Append(Pending, nextId)
    <3>1. Pending' = <<outstanding>> \o Append(queue, nextId)
      BY <1>4, <2>1 DEF Pending
    <3>2. Pending = <<outstanding>> \o queue
      BY <1>4 DEF Pending
    <3>3. <<outstanding>> \in Seq(Requests \cup {Nil})
      OBVIOUS
    <3>4. <<outstanding>> \o Append(queue, nextId) = Append(<<outstanding>> \o queue, nextId)
      BY <1>1, <3>3, AppendIsConcat, ConcatAssociative, SeqMonotonic
    <3>5. QED
      BY <3>1, <3>2, <3>4
  <2>3. QED
    BY <1>1, <1>4, <2>1, <2>2 DEF QueryDb, KickedWhenIdle, SubmitStep
<1>5. QED
  BY <1>3, <1>4
LEMMA EventShape ==
    ASSUME QIInv,
           \/ \E r \in Requests : QueryEnd(r) \/ QueryError(r)
           \/ \E c \in Requests : ClientError(c)
    PROVE  TypeOK' /\ KickedWhenIdle' /\ (ReplyStep \/ StutterStep)
<1> USE DEF QIInv, TypeOK
<1>1. ASSUME NEW r \in Requests, QueryEnd(r)
      PROVE  TypeOK' /\ KickedWhenIdle' /\ (ReplyStep \/ StutterStep)
  <2> DEFINE qs == [qstate EXCEPT ![r] = "settled"]
  <2>1. qs \in [Requests -> {"none", "running", "settled"}]
    OBVIOUS
  <2>2. CASE r = outstanding
    <3>1. Fini(TRUE, client, listening, qs) /\ UNCHANGED <<errored, nextId, crash>>
      BY <1>1, <2>2 DEF QueryEnd
    <3>2. outstanding # Nil
      BY <2>2, SerializerAssumption DEF Requests
    <3>3. QED
      BY <2>1, <3>1, <3>2, FiniStep
  <2>3. CASE r # outstanding
    <3>1. crash' = "assert" /\ qstate' = qs
          /\ UNCHANGED <<queue, outstanding, client, listening, qclient, answer, errored, nextId>>
      BY <1>1, <2>3 DEF QueryEnd
    <3>2. QED
      BY <2>1, <3>1, StutterKeeps
  <2>4. QED
    BY <2>2, <2>3
<1>2. ASSUME NEW r \in Requests, QueryError(r)
      PROVE  TypeOK' /\ KickedWhenIdle' /\ (ReplyStep \/ StutterStep)
  <2> DEFINE qs == [qstate EXCEPT ![r] = "settled"]
  <2>1. qs \in [Requests -> {"none", "running", "settled"}]
    OBVIOUS
  <2>2. CASE r = outstanding
    <3>1. Fini(FALSE, client, listening, qs) /\ UNCHANGED <<errored, nextId, crash>>
      BY <1>2, <2>2 DEF QueryError
    <3>2. outstanding # Nil
      BY <2>2, SerializerAssumption DEF Requests
    <3>3. QED
      BY <2>1, <3>1, <3>2, FiniStep
  <2>3. CASE r # outstanding
    <3>1. qstate' = qs
          /\ UNCHANGED <<queue, outstanding, client, listening, qclient, answer, errored, nextId, crash>>
      BY <1>2, <2>3 DEF QueryError
    <3>2. QED
      BY <2>1, <3>1, StutterKeeps
  <2>4. QED
    BY <2>2, <2>3
<1>3. ASSUME NEW c \in Requests, ClientError(c)
      PROVE  TypeOK' /\ KickedWhenIdle' /\ (ReplyStep \/ StutterStep)
  <2>1. errored' \subseteq Requests /\ UNCHANGED nextId
    BY <1>3 DEF ClientError
  <2>2. CASE c \notin listening
    <3>1. crash' = "unhandledError"
          /\ UNCHANGED <<queue, outstanding, client, listening, qclient, qstate, answer>>
      BY <1>3, <2>2 DEF ClientError
    <3>2. QED
      BY <2>1, <3>1, StutterKeeps
  <2>3. CASE c \in listening /\ client = Nil
    <3>1. crash' = "nullClient"
          /\ UNCHANGED <<queue, outstanding, client, listening, qclient, qstate, answer>>
      BY <1>3, <2>3 DEF ClientError
    <3>2. QED
      BY <2>1, <3>1, StutterKeeps
  <2>4. CASE c \in listening /\ client # Nil /\ outstanding # Nil
    <3>1. Fini(FALSE, client, listening \ {c, client}, qstate) /\ UNCHANGED crash
      BY <1>3, <2>4 DEF ClientError
    <3>2. QED
      BY <2>1, <2>4, <3>1, FiniStep
  <2>5. CASE c \in listening /\ client # Nil /\ outstanding = Nil
    <3>1. client' = Nil /\ listening' = listening \ {c, client}
          /\ UNCHANGED <<queue, outstanding, qclient, qstate, answer, crash>>
      BY <1>3, <2>5 DEF ClientError
    <3>2. QED
      BY <2>1, <3>1 DEF KickedWhenIdle, StutterStep, Pending
  <2>6. QED
    BY <2>2, <2>3, <2>4, <2>5
<1>4. QED
  BY <1>1, <1>2, <1>3
LEMMA PendingTyped ==
    ASSUME TypeOK PROVE Pending \in Seq(Requests)
BY DEF TypeOK, Pending

(* Appending a request issued after all the pending ones, or answering    *)
(* the oldest, keeps the pending requests ordered, issued and unanswered.  *)
LEMMA FreshKept ==
    ASSUME QIInv, TypeOK', SubmitStep \/ ReplyStep \/ StutterStep
    PROVE  PendingFresh'
<1>1. Pending \in Seq(Requests) /\ Pending' \in Seq(Requests)
  <2>1. Pending \in Seq(Requests)
    BY PendingTyped DEF QIInv
  <2>2. Pending' \in Seq(Requests)
    BY DEF TypeOK, Pending
  <2>3. QED
    BY <2>1, <2>2
<1>2. nextId \in Nat /\ MaxRequests \in Nat
  BY SerializerAssumption DEF QIInv, TypeOK
<1>3. CASE SubmitStep
  <2>1. \A r \in Requests : r >= nextId => answer[r] = "none"
    BY DEF QIInv, PendingFresh
  <2>2. nextId \in Requests
    BY <1>2, <1>3 DEF SubmitStep, QIInv, TypeOK, Requests
  <2>3. QED
    BY <1>1, <1>2, <1>3, <2>1, <2>2
       DEF SubmitStep, QIInv, PendingFresh, Ordered, Requests
<1>4. CASE ReplyStep
  <2>1. PICK res \in {"ok", "err"} : answer' = [answer EXCEPT ![Head(Pending)] = res]
    BY <1>4 DEF ReplyStep
  <2>2. /\ Len(Pending') = Len(Pending) - 1
        /\ \A i \in 1 .. Len(Pending') : Pending'[i] = Pending[i + 1]
    BY <1>1, <1>4, HeadTailProperties DEF ReplyStep
  <2>6. Len(Pending) >= 1 /\ Head(Pending) = Pending[1]
    BY <1>1, <1>4, EmptySeq DEF ReplyStep
  <2>3. \A i \in 1 .. Len(Pending') : Pending'[i] # Head(Pending)
    <3>1. SUFFICES ASSUME NEW i \in 1 .. Len(Pending') PROVE Pending'[i] # Head(Pending)
      OBVIOUS
    <3>2. i + 1 \in 1 .. Len(Pending) /\ 1 < i + 1
      BY <1>1, <2>2, <2>6
    <3>3. Pending[1] < Pending[i + 1]
      BY <2>6, <3>2 DEF QIInv, PendingFresh, Ordered
    <3>4. Pending'[i] = Pending[i + 1] /\ Pending[i + 1] \in Nat /\ Pending[1] \in Nat
      BY <1>1, <2>2, <3>2 DEF Requests
    <3>5. QED
      BY <2>6, <3>3, <3>4
  <2>4. Head(Pending) < nextId
    BY <1>1, <2>6 DEF QIInv, PendingFresh
  <2>7. Ordered(Pending')
    <3>1. SUFFICES ASSUME NEW i \in 1 .. Len(Pending'), NEW j \in 1 .. Len(Pending'), i < j
                   PROVE  Pending'[i] < Pending'[j]
      BY DEF Ordered
    <3>2. Pending'[i] = Pending[i + 1] /\ Pending'[j] = Pending[j + 1]
          /\ i + 1 \in 1 .. Len(Pending) /\ j + 1 \in 1 .. Len(Pending)
      BY <1>1, <2>2
    <3>3. QED
      BY <3>1, <3>2 DEF QIInv, PendingFresh, Ordered
  <2>8. \A i \in 1 .. Len(Pending') : Pending'[i] < nextId' /\ answer'[Pending'[i]] = "none"
    <3>1. SUFFICES ASSUME NEW i \in 1 .. Len(Pending')
                   PROVE  Pending'[i] < nextId' /\ answer'[Pending'[i]] = "none"
      OBVIOUS
    <3>2. Pending'[i] = Pending[i + 1] /\ i + 1 \in 1 .. Len(Pending)
      BY <1>1, <2>2
    <3>3. Pending[i + 1] < nextId /\ answer[Pending[i + 1]] = "none"
      BY <3>2 DEF QIInv, PendingFresh
    <3>4. Pending'[i] \in Requests /\ Pending'[i] # Head(Pending)
      BY <1>1, <2>3
    <3>5. QED
      BY <1>4, <2>1, <3>2, <3>3, <3>4 DEF ReplyStep, QIInv, TypeOK
  <2>9. \A r \in Requests : r >= nextId' => answer'[r] = "none"
    <3>1. SUFFICES ASSUME NEW r \in Requests, r >= nextId' PROVE answer'[r] = "none"
      OBVIOUS
    <3>2. r # Head(Pending) /\ r >= nextId
      BY <1>2, <1>4, <2>4, <2>6, <3>1 DEF ReplyStep, Requests
    <3>3. QED
      BY <2>1, <3>2 DEF QIInv, TypeOK, PendingFresh
  <2>5. QED
    BY <2>7, <2>8, <2>9 DEF PendingFresh
<1>5. CASE StutterStep
  BY <1>5 DEF StutterStep, QIInv, PendingFresh, Ordered
<1>6. QED
  BY <1>3, <1>4, <1>5
LEMMA InitQIInv == Init => QIInv
BY SerializerAssumption DEF Init, QIInv, TypeOK, KickedWhenIdle, PendingFresh, Ordered,
   Pending, Requests

(* Every step of the serializer is, to its callers, a new request, the     *)
(* answer to the oldest pending one, or nothing.                           *)
LEMMA StepShape ==
    ASSUME QIInv, [Next]_vars
    PROVE  TypeOK' /\ KickedWhenIdle' /\ (SubmitStep \/ ReplyStep \/ StutterStep)
<1>1. CASE QueryDb
  BY <1>1, QueryDbShape
<1>2. CASE \/ \E r \in Requests : QueryEnd(r) \/ QueryError(r)
           \/ \E c \in Requests : ClientError(c)
  BY <1>2, EventShape
<1>3. CASE UNCHANGED vars
  BY <1>3 DEF vars, QIInv, TypeOK, KickedWhenIdle, StutterStep, Pending
<1>4. QED
  BY <1>1, <1>2, <1>3 DEF Next

LEMMA NextQIInv == QIInv /\ [Next]_vars => QIInv'
BY StepShape, FreshKept DEF QIInv

(* The serializer's queue is never left non-empty with nothing            *)
(* outstanding, the requests it holds are in issue order, and none of      *)
(* them has an answer yet: the invariant behind the refinement below.      *)
THEOREM SerializerInvariant == Spec => []QIInv
BY InitQIInv, NextQIInv, PTL DEF Spec

(* Refinement: the serializer of _queryDb(), _pgQueryKick() and           *)
(* _pgQueryFini() implements QueryQueue for every bound on the requests:   *)
(* each request is answered once, and in the order it was queued,         *)
(* whatever node-postgres emits -- including the stale client errors and   *)
(* the crashes that other properties show to be wrong in other ways.       *)
THEOREM Refinement == Spec => QueueSpec
<1>1. Init => Q!Init
  BY DEF Init, Q!Init, Pending, Requests, Q!Requests
<1>2. QIInv /\ [Next]_vars => [Q!Next]_<<Pending, answer, nextId>>
  <2> SUFFICES ASSUME QIInv, [Next]_vars
               PROVE  [Q!Next]_<<Pending, answer, nextId>>
    OBVIOUS
  <2>1. SubmitStep \/ ReplyStep \/ StutterStep
    BY StepShape
  <2>2. CASE SubmitStep
    BY <2>2 DEF SubmitStep, Q!Next, Q!Submit
  <2>3. CASE ReplyStep
    <3>1. Pending \in Seq(Requests) /\ Len(Pending) >= 1 /\ Head(Pending) = Pending[1]
      BY <2>3, PendingTyped, EmptySeq DEF QIInv, ReplyStep
    <3>2. answer[Head(Pending)] = "none"
      BY <3>1 DEF QIInv, PendingFresh
    <3>3. QED
      BY <2>3, <3>2 DEF ReplyStep, Q!Next, Q!Reply
  <2>4. CASE StutterStep
    BY <2>4 DEF StutterStep
  <2>5. QED
    BY <2>1, <2>2, <2>3, <2>4
<1>3. QED
  BY <1>1, <1>2, SerializerInvariant, PTL DEF Spec, QueueSpec, Q!Spec
=============================================================================
