\* Three requests: a health tick or another caller, a poll before and a
\* poll after _opsTimeout, or a query behind a stale client.
CONSTANTS
    MaxRequests = 3
    Nil = Nil
SPECIFICATION RuntimeSpec
INVARIANT RuntimeTypeOK QIInv StartOkMeansUp
PROPERTY QueueSpec TimeoutDisarmedByOwnAnswer StartTerminates
CHECK_DEADLOCK FALSE
