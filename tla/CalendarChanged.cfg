\* One loop and no failure are enough.
CONSTANTS
    Workers = {w1}
    Callers = {r1}
    Conns = {c1}
    Times = {t1, t2}
    First = {t1, t2}
    None = None
    NoJob = NoJob
    MaxAttempts = 1
    MaxRevs = 2
    MaxWatches = 1
    MaxRequests = 2
    MaxFaults = 0
SPECIFICATION Spec
INVARIANT ChangedEventMoves
CHECK_DEADLOCK FALSE
