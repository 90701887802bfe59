\* Two loops and two concurrent requests among two addresses; nothing fails.
CONSTANTS
    Workers = {w1, w2}
    Callers = {c1, c2}
    Recipients = {r1, r2}
    NoJob = NoJob
    MaxAttempts = 2
    MaxShares = 2
    MaxFaults = 0
SPECIFICATION Safety
INVARIANT SharesActuallySend
\* When every share is done the loops only poll.
CHECK_DEADLOCK FALSE
