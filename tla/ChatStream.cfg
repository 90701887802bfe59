\* Three things happen: requests that chat, read, rename or delete, failed statements, restarts.
\* Every request is made once, so the system stops when all were made.
CONSTANTS
    Streams = {s1, s2}
    Readers = {r1}
    Callers = {c1}
    Threads = {t1}
    NoThread = NoThread
    NoPage = NoPage
    PageSizes = {3}
    Limits = {50}
    KnownLimits = {50}
    HistoryLimit = 2
    MaxChunks = 1
    MaxEvents = 3
SPECIFICATION Spec
INVARIANTS TypeOK PagesHonest ListsHonest StoredIsStreamed TitleThenDone PromptIsTheConversation
PROPERTY StreamEnds
CHECK_DEADLOCK FALSE
