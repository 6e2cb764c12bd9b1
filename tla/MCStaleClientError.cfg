\* A client replaced after a query error fails while the new one is busy.
CONSTANTS
    MaxRequests = 3
    Nil = Nil
SPECIFICATION Spec
INVARIANT OneQueryInFlight
CHECK_DEADLOCK FALSE
