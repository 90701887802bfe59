\* Two concurrent requests, no fault.
CONSTANTS
    Workers = {w1, w2}
    Callers = {c1, c2}
    Bots = {b1, b2}
    NoBot = NoBot
    NoJob = NoJob
    MaxAttempts = 1
    MaxRequests = 2
    MaxFaults = 0
SPECIFICATION Safety
INVARIANT OneBot
CHECK_DEADLOCK FALSE
