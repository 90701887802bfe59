\* Two rows competing for one dedupe key, two processes, a configured limit of two attempts below the row limit of three.
CONSTANTS
    Jobs = {j1, j2}
    Workers = {w1, w2}
    key = key
    KeyOf <- SharedKey
    NoKey = NoKey
    NoJob = NoJob
    NoWorker = NoWorker
    RowMaxAttempts = 3
    ConfigMaxAttempts = 2
    Role = "all"
    Poison <- NoPoison
SPECIFICATION ViewSpec
INVARIANTS TypeOK ActiveHasBudget DeadIsExhausted LeaseIsHeld OverrunBounded
PROPERTIES ImplementsDurableQueue ImplementsHandlerQueue EveryJobSettles
