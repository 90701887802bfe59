\* Two loops, two concurrent requests, two bots and one fault anywhere; MaxAttempts is 1 so that the
\* fault can already leave a dead row.  A manual meeting whose requests are over may stop: deadlock is
\* not checked.
CONSTANTS
    Workers = {w1, w2}
    Callers = {c1, c2}
    Bots = {b1, b2}
    NoBot = NoBot
    NoJob = NoJob
    MaxAttempts = 1
    MaxRequests = 2
    MaxFaults = 1
SPECIFICATION Spec
INVARIANTS TypeOK OneBotUndisturbed DeletedStaysBotless CancelStopsBots
PROPERTY DueGetsBot
CHECK_DEADLOCK FALSE
