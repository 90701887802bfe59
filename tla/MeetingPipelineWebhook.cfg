\* One fault between the INSERT and the enqueue of the webhook handler.
CONSTANTS
    Workers = {w1}
    NoJob = NoJob
    MaxAttempts = 2
    MaxScripts = 2
    MaxFaults = 1
SPECIFICATION Safety
INVARIANT AckedIsQueued
\* When every job is finished the loops only poll.
CHECK_DEADLOCK FALSE
