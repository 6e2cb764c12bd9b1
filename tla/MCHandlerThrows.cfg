\* A client dropped after a query error fails later, with no client set.
CONSTANTS
    MaxRequests = 3
    Nil = Nil
SPECIFICATION Spec
INVARIANT NoHandlerThrow
CHECK_DEADLOCK FALSE
