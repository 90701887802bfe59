\* Two loops, two concurrent requests among two addresses, one fault anywhere.
CONSTANTS
    Workers = {w1, w2}
    Callers = {c1, c2}
    Recipients = {r1, r2}
    NoJob = NoJob
    MaxAttempts = 2
    MaxShares = 2
    MaxFaults = 1
SPECIFICATION Spec
INVARIANTS TypeOK RecordedNotRepeated SharesAreKept
PROPERTY SharesSettle
\* When every share is done the loops only poll.
CHECK_DEADLOCK FALSE
