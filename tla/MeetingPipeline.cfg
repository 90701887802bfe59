\* Two loops, two faults anywhere, two attempts per job row.
CONSTANTS
    Workers = {w1, w2}
    NoJob = NoJob
    MaxAttempts = 2
    MaxScripts = 3
    MaxFaults = 2
SPECIFICATION Spec
INVARIANTS TypeOK DerivedFromWholeTranscript ChainUnbroken
PROPERTIES ImplementsChain EventuallyNoted
\* When every job is finished the loops only poll.
CHECK_DEADLOCK FALSE
