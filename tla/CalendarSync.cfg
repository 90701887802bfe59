\* One connection, two loops, a request at a time, two of them in all, one change of the event and one
\* failure anywhere.  MaxAttempts is 1: a job that fails is dead, one that is taken over runs again.
\* Everything may be done: deadlock is not checked.
CONSTANTS
    Workers = {w1, w2}
    Callers = {r1}
    Conns = {c1}
    Times = {t1, t2}
    First = {t1, t2}
    None = None
    NoJob = NoJob
    MaxAttempts = 1
    MaxRevs = 2
    MaxWatches = 2
    MaxRequests = 2
    MaxFaults = 1
SPECIFICATION Spec
SYMMETRY Symmetry
INVARIANTS TypeOK CursorHonest DisconnectIsFinal
PROPERTY CancelBeforeDrop
CHECK_DEADLOCK FALSE
