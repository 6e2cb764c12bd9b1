\* Two polls queued by the interval: the first reports the start ok, the
\* second fails past _opsTimeout and stops the running postgres, replacing
\* _start's 'exit' listener.
CONSTANTS
    MaxRequests = 3
    Nil = Nil
SPECIFICATION RuntimeSpec
INVARIANT ExitAfterStartIsFatal
CHECK_DEADLOCK FALSE
