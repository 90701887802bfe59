\* One job, two processes: who runs it?
CONSTANTS
    Jobs = {j1}
    Workers = {w1, w2}
    key = key
    KeyOf <- SharedKey
    NoKey = NoKey
    NoJob = NoJob
    NoWorker = NoWorker
    RowMaxAttempts = 3
    ConfigMaxAttempts = 2
    Role = "all"
    Poison <- NoPoison
SPECIFICATION ViewSafety
INVARIANT OneWorkerPerJob
