------------------------------ MODULE ChatStream ------------------------------
(***************************************************************************)
(* The chat of one user: the chat_stream handler (routes/chat.rs) with the *)
(* task that streams the answer and the task that names a new thread, the  *)
(* requests that list, read, rename and delete threads, the chat tables    *)
(* and the two Redis caches in front of them.  Every await of a handler is *)
(* a point where the others run.                                           *)
(*                                                                         *)
(* A message row is its role, the request that wrote it and its length in  *)
(* chunks.  Left out: what is asked and found, the order of the thread     *)
(* list, pages before a cursor, the run of the vectorize_chat_qa job, and  *)
(* the channel's capacity (a client reads its events or disconnects).      *)
(***************************************************************************)
EXTENDS Naturals, Sequences, FiniteSets

CONSTANTS
    Streams,      \* POST /chat requests, each made once
    Readers,      \* GET requests, each made once
    Callers,      \* PATCH and DELETE requests, each made once
    Threads,      \* ids of chat_threads
    NoThread,
    NoPage,       \* a key Redis does not hold
    PageSizes,    \* the limit of a GET of messages
    Limits,       \* the limit of a GET of threads
    KnownLimits,  \* the limits whose key invalidate_chat_threads deletes (3 and 50)
    HistoryLimit, \* rows of history a prompt is given (20)
    MaxChunks,    \* bound: chunks of an answer
    MaxEvents     \* bound: requests made, statements and deletes that fail, restarts

ASSUME ChatAssumption ==
    /\ IsFiniteSet(Streams) /\ IsFiniteSet(Readers) /\ IsFiniteSet(Callers)
    /\ PageSizes \subseteq Nat /\ KnownLimits \subseteq Limits
    /\ HistoryLimit \in Nat /\ MaxChunks \in Nat \ {0} /\ MaxEvents \in Nat
    /\ NoThread \notin Threads /\ Threads \cap Limits = {}
    /\ NoPage \notin UNION {[S -> {"none", "generated", "edited"}] : S \in SUBSET Threads}

VARIABLES
    thread, title, \* chat_threads: absent, open or deleted; its title
    messages,      \* chat_messages of a thread, oldest first
    page,          \* Redis: the cached messages of a thread (limit they were read with, rows)
    list,          \* Redis: the cached thread list of a limit (thread -> title)
    vectors,       \* exchanges handed to the vectorize_chat_qa job
    step,          \* a chat request: the next step of its handler, then of its answer task
    target,        \* its thread
    fresh,         \* whether it created it
    bare,          \* whether the search found nothing
    prompt,        \* the history it gave to the model
    answer,        \* chunks of the answer so far
    sent,          \* events put on its stream
    naming,        \* its title task: none, asking, clearing, ready
    reading,       \* a reader: the step it is at, what it asks for and what it read
    calling,       \* a caller: the step it is at and its thread
    faults,
    doubtful       \* ghost: keys that may stay stale, with no delete to come

tables  == <<thread, title, messages>>
redis   == <<page, list, doubtful>>
request == <<target, fresh, bare, prompt>>
vars    == <<thread, title, messages, page, list, doubtful, vectors, step, target, fresh, bare,
             prompt, answer, sent, naming, reading, calling, faults>>

Titles  == {"none", "generated", "edited"}
Rows    == [role : {"user", "assistant"}, of : Streams, size : 0..MaxChunks]
Ended   == {"failed", "answered", "error"}
Handler == {"insert", "clear question", "recall", "rerank"}
Task    == {"stream", "save", "clear answer", "wait"}
Idle    == [at |-> "idle"]
Over    == [at |-> "over"]

Init ==
    /\ thread = [t \in Threads |-> "absent"] /\ title = [t \in Threads |-> "none"]
    /\ messages = [t \in Threads |-> <<>>]
    /\ page = [t \in Threads |-> NoPage] /\ list = [l \in Limits |-> NoPage]
    /\ vectors = {}
    /\ step = [s \in Streams |-> "idle"] /\ target = [s \in Streams |-> NoThread]
    /\ fresh = [s \in Streams |-> FALSE] /\ bare = [s \in Streams |-> FALSE]
    /\ prompt = [s \in Streams |-> <<>>] /\ answer = [s \in Streams |-> 0]
    /\ sent = [s \in Streams |-> <<>>] /\ naming = [s \in Streams |-> "none"]
    /\ reading = [r \in Readers |-> Idle] /\ calling = [c \in Callers |-> Idle]
    /\ faults = 0 /\ doubtful = {}

GoTo(s, next) == step' = [step EXCEPT ![s] = next]

MayHappen ==
    Cardinality({s \in Streams : step[s] # "idle"}) + Cardinality({r \in Readers : reading[r] # Idle})
        + Cardinality({c \in Callers : calling[c] # Idle}) + faults < MaxEvents

Fault == MayHappen /\ faults' = faults + 1

Send(s, event) == sent' = [sent EXCEPT ![s] = Append(@, event)]

--------------------------------------------------------------------------------
(* The tables and the caches. *)

\* ORDER BY created_at DESC LIMIT n, reversed
NewestRows(rows, n) == SubSeq(rows, IF Len(rows) > n THEN Len(rows) - n + 1 ELSE 1, Len(rows))

\* get_chat_messages: the rows of a thread that is not deleted.
MessagesOf(t, n) == IF thread[t] = "open" THEN NewestRows(messages[t], n) ELSE <<>>

\* list_chat_threads
ThreadList == [t \in {u \in Threads : thread[u] = "open"} |-> title[t]]

\* insert_chat_message, into a thread deleted meanwhile as well
InsertMessage(t, row) == messages' = [messages EXCEPT ![t] = Append(@, row)]

\* update_chat_thread_title
SetTitle(t, name) ==
    title' = IF thread[t] = "open" THEN [title EXCEPT ![t] = name] ELSE title

\* Seeded fault: the page is forgotten.
DropListsOnly(t) ==
    /\ list' = [l \in Limits |-> IF l \in KnownLimits THEN NoPage ELSE list[l]]
    /\ doubtful' = doubtful \ ({t} \cup KnownLimits)
    /\ UNCHANGED <<page, faults>>

\* The deletes of a page and of the known lists (one step), or a failure, which is ignored.
DropPageAndLists(t) ==
    \/ /\ page' = [page EXCEPT ![t] = NoPage]
       /\ list' = [l \in Limits |-> IF l \in KnownLimits THEN NoPage ELSE list[l]]
       /\ doubtful' = doubtful \ ({t} \cup KnownLimits)
       /\ UNCHANGED faults
    \/ Fault /\ doubtful' = doubtful \cup {t} \cup KnownLimits /\ UNCHANGED <<page, list>>

\* invalidate_chat_threads
DropLists ==
    \/ /\ list' = [l \in Limits |-> IF l \in KnownLimits THEN NoPage ELSE list[l]]
       /\ doubtful' = doubtful \ KnownLimits
       /\ UNCHANGED <<page, faults>>
    \/ Fault /\ doubtful' = doubtful \cup KnownLimits /\ UNCHANGED <<page, list>>

--------------------------------------------------------------------------------
(* The handler, until it returns the stream. *)

\* get_chat_thread finds the thread named by the request, or the request gets a 404.
OpenThread(s, t) ==
    /\ step[s] = "idle" /\ MayHappen /\ thread[t] # "absent"
    /\ GoTo(s, IF thread[t] = "open" THEN "insert" ELSE "failed")
    /\ target' = [target EXCEPT ![s] = t]
    /\ UNCHANGED <<tables, redis, vectors, fresh, bare, prompt, answer, sent, naming, reading,
                   calling, faults>>

\* Seeded fault: the id of the new thread is lost.
CreateUnnamed(s, t) ==
    /\ step[s] = "idle" /\ MayHappen /\ thread[t] = "absent"
    /\ GoTo(s, "insert")
    /\ thread' = [thread EXCEPT ![t] = "open"] /\ fresh' = [fresh EXCEPT ![s] = TRUE]
    /\ UNCHANGED <<title, messages, redis, vectors, target, bare, prompt, answer, sent, naming,
                   reading, calling, faults>>

\* create_chat_thread
CreateThread(s, t) ==
    /\ step[s] = "idle" /\ MayHappen /\ thread[t] = "absent"
    /\ GoTo(s, "insert")
    /\ thread' = [thread EXCEPT ![t] = "open"]
    /\ target' = [target EXCEPT ![s] = t] /\ fresh' = [fresh EXCEPT ![s] = TRUE]
    /\ UNCHANGED <<title, messages, redis, vectors, bare, prompt, answer, sent, naming, reading,
                   calling, faults>>

SaveQuestion(s) ==
    /\ step[s] = "insert"
    /\ InsertMessage(target[s], [role |-> "user", of |-> s, size |-> 0])
    /\ GoTo(s, "clear question")
    /\ UNCHANGED <<thread, title, redis, vectors, request, answer, sent, naming, reading, calling,
                   faults>>

ClearAfterQuestion(s) ==
    /\ step[s] = "clear question"
    /\ DropPageAndLists(target[s])
    /\ GoTo(s, "recall")
    /\ UNCHANGED <<tables, vectors, request, answer, sent, naming, reading, calling>>

\* Seeded fault: the question is left in the history.
KeepAll(rows) == rows

\* The newest row is left out if a user wrote it: it should be the question just saved.
DropQuestion(rows) ==
    IF rows # <<>> /\ rows[Len(rows)].role = "user" THEN SubSeq(rows, 1, Len(rows) - 1) ELSE rows

\* The history is read, the question is embedded and both collections are searched.  A new thread is
\* announced and its title task starts.  Without results the answer says so; no model is asked.
RecallAndSearch(s, found) ==
    /\ step[s] = "recall"
    /\ prompt' = [prompt EXCEPT ![s] = DropQuestion(NewestRows(messages[target[s]], HistoryLimit))]
    /\ naming' = [naming EXCEPT ![s] = IF fresh[s] THEN "asking" ELSE @]
    /\ bare' = [bare EXCEPT ![s] = ~found]
    /\ answer' = [answer EXCEPT ![s] = IF found THEN 0 ELSE 1]
    /\ sent' = [sent EXCEPT ![s] = (IF fresh[s] THEN <<"created">> ELSE <<>>)
                                   \o (IF found THEN <<>> ELSE <<"chunk">>)]
    /\ GoTo(s, IF found THEN "rerank" ELSE "wait")
    /\ UNCHANGED <<tables, redis, vectors, target, fresh, reading, calling, faults>>

\* A statement or a provider fails and the request gets a 500, or its client leaves and the handler
\* is dropped, or the process stops.  Whatever it wrote stays, and nobody deletes the keys it had
\* still to delete.
FailRequest(s) ==
    /\ step[s] \in Handler /\ Fault
    /\ GoTo(s, "failed")
    /\ doubtful' = doubtful
           \cup {t \in {target[s]} : step[s] = "clear question"}
           \cup {l \in KnownLimits : step[s] \in {"insert", "clear question"} /\ fresh[s]}
    /\ sent' = [sent EXCEPT ![s] = <<>>]
    /\ UNCHANGED <<tables, page, list, vectors, request, answer, naming, reading, calling>>

--------------------------------------------------------------------------------
(* The task that streams the answer. *)

\* The results are reranked and the model is called; if that fails the stream is closed after an
\* error event.
CallModel(s) ==
    /\ step[s] = "rerank"
    /\ \/ GoTo(s, "stream") /\ UNCHANGED sent
       \/ GoTo(s, "error") /\ Send(s, "error")
    /\ UNCHANGED <<tables, redis, vectors, request, answer, naming, reading, calling, faults>>

Chunk(s) ==
    /\ step[s] = "stream" /\ answer[s] < MaxChunks
    /\ answer' = [answer EXCEPT ![s] = @ + 1]
    /\ Send(s, "chunk")
    /\ UNCHANGED <<tables, redis, vectors, step, request, naming, reading, calling, faults>>

\* The answer is saved and its exchange handed to the vectorize_chat_qa job; a failed insert is
\* logged and the task goes on, so the exchange may be handed over without its answer being there.
SaveExchange(s) ==
    /\ \/ /\ InsertMessage(target[s], [role |-> "assistant", of |-> s, size |-> answer[s]])
          /\ UNCHANGED faults
       \/ Fault /\ UNCHANGED messages
    /\ vectors' = vectors \cup {s}
    /\ GoTo(s, "clear answer")

\* Seeded fault: done is passed on as soon as it is read.
PassDoneOn(s) ==
    /\ step[s] = "stream"
    /\ SaveExchange(s)
    /\ Send(s, "done")
    /\ UNCHANGED <<thread, title, redis, request, answer, naming, reading, calling>>

\* data: [DONE]; an answer without a chunk is saved too.
ReadDone(s) ==
    /\ step[s] = "stream"
    /\ SaveExchange(s)
    /\ UNCHANGED <<thread, title, redis, request, answer, sent, naming, reading, calling>>

\* The stream breaks off or the 600 s are over; a reply that is no stream at all ends here too.
StreamBreaks(s) ==
    /\ step[s] = "stream"
    /\ IF answer[s] > 0
       THEN SaveExchange(s)
       ELSE GoTo(s, "wait") /\ UNCHANGED <<messages, vectors, faults>>
    /\ UNCHANGED <<thread, title, redis, request, answer, sent, naming, reading, calling>>

\* The answer of a search without results is saved after done.
SaveNothingFound(s) ==
    /\ step[s] = "save"
    /\ \/ /\ InsertMessage(target[s], [role |-> "assistant", of |-> s, size |-> answer[s]])
          /\ UNCHANGED faults
       \/ Fault /\ UNCHANGED messages
    /\ GoTo(s, "clear answer")
    /\ UNCHANGED <<thread, title, redis, vectors, request, answer, sent, naming, reading, calling>>

ClearAfterAnswer(s) ==
    /\ step[s] = "clear answer"
    /\ DropPageAndLists(target[s])
    /\ GoTo(s, IF bare[s] THEN "answered" ELSE "wait")
    /\ UNCHANGED <<tables, vectors, request, answer, sent, naming, reading, calling>>

\* The title goes before done.
Closing(s) == IF naming[s] = "ready" THEN <<"title", "done">> ELSE <<"done">>

\* Seeded fault: an answer without results is not saved.
CloseAtOnce(s) ==
    /\ step[s] = "wait"
    /\ sent' = [sent EXCEPT ![s] = @ \o Closing(s)]
    /\ GoTo(s, "answered")
    /\ UNCHANGED <<tables, redis, vectors, request, answer, naming, reading, calling, faults>>

\* Seeded fault: the wait for the title has no timeout.
CloseWithTitle(s) ==
    /\ step[s] = "wait" /\ naming[s] \in {"none", "ready"}
    /\ sent' = [sent EXCEPT ![s] = @ \o Closing(s)]
    /\ GoTo(s, IF bare[s] THEN "save" ELSE "answered")
    /\ UNCHANGED <<tables, redis, vectors, request, answer, naming, reading, calling, faults>>

\* The title if it is there, done in any case: no title is due, or the wait for it times out (10 s,
\* after a broken stream 5 s).
Close(s) ==
    /\ step[s] = "wait"
    /\ sent' = [sent EXCEPT ![s] = @ \o Closing(s)]
    /\ GoTo(s, IF bare[s] THEN "save" ELSE "answered")
    /\ UNCHANGED <<tables, redis, vectors, request, answer, naming, reading, calling, faults>>

--------------------------------------------------------------------------------
(* The task that names a new thread. *)

\* generate_title: the model's title or the beginning of the question; a failed update is logged.
NameThread(s) ==
    /\ naming[s] = "asking"
    /\ \/ SetTitle(target[s], "generated") /\ UNCHANGED faults
       \/ Fault /\ UNCHANGED title
    /\ naming' = [naming EXCEPT ![s] = "clearing"]
    /\ UNCHANGED <<thread, messages, redis, vectors, step, request, answer, sent, reading, calling>>

\* Seeded fault: the thread lists are forgotten.
ReadyAtOnce(s) ==
    /\ naming[s] = "clearing"
    /\ naming' = [naming EXCEPT ![s] = "ready"]
    /\ UNCHANGED <<tables, redis, vectors, step, request, answer, sent, reading, calling, faults>>

ClearAfterTitle(s) ==
    /\ naming[s] = "clearing"
    /\ DropLists
    /\ naming' = [naming EXCEPT ![s] = "ready"]
    /\ UNCHANGED <<tables, vectors, step, request, answer, sent, reading, calling>>

--------------------------------------------------------------------------------
(* The process stops. *)

Restart ==
    /\ Fault
    /\ step' = [s \in Streams |-> IF step[s] \in Ended \cup {"idle"} THEN step[s] ELSE "failed"]
    /\ naming' = [s \in Streams |-> "none"]
    /\ reading' = [r \in Readers |-> IF reading[r] = Idle THEN Idle ELSE Over]
    /\ calling' = [c \in Callers |-> IF calling[c] = Idle THEN Idle ELSE Over]
    /\ doubtful' = Threads \cup KnownLimits
    /\ UNCHANGED <<tables, page, list, vectors, request, answer, sent>>

--------------------------------------------------------------------------------
(* The other requests. *)

\* get_thread_messages without a cursor, on a miss; a hit answers with the page and changes nothing.
MissPage(r, t, n) ==
    /\ reading[r] = Idle /\ MayHappen /\ thread[t] # "absent" /\ page[t] = NoPage
    /\ reading' = [reading EXCEPT ![r] = [at |-> "query page", key |-> t, limit |-> n]]
    /\ UNCHANGED <<tables, redis, vectors, step, request, answer, sent, naming, calling, faults>>

QueryPage(r) ==
    /\ reading[r].at = "query page"
    /\ reading' = [reading EXCEPT ![r] =
                      [at |-> "fill page", key |-> @.key, limit |-> @.limit,
                       rows |-> MessagesOf(@.key, @.limit)]]
    /\ UNCHANGED <<tables, redis, vectors, step, request, answer, sent, naming, calling, faults>>

\* The key holds the thread only, whatever limit the rows were read with.  A page that was
\* overtaken since it was read stays until it is deleted or expires.
FillPage(r) ==
    LET key == reading[r].key IN
    /\ reading[r].at = "fill page"
    /\ page' = [page EXCEPT ![key] = [limit |-> reading[r].limit, rows |-> reading[r].rows]]
    /\ doubtful' = IF reading[r].rows = MessagesOf(key, reading[r].limit)
                   THEN doubtful \ {key} ELSE doubtful \cup {key}
    /\ reading' = [reading EXCEPT ![r] = Over]
    /\ UNCHANGED <<tables, list, vectors, step, request, answer, sent, naming, calling, faults>>

\* list_threads
MissList(r, l) ==
    /\ reading[r] = Idle /\ MayHappen /\ list[l] = NoPage
    /\ reading' = [reading EXCEPT ![r] = [at |-> "query list", key |-> l]]
    /\ UNCHANGED <<tables, redis, vectors, step, request, answer, sent, naming, calling, faults>>

QueryList(r) ==
    /\ reading[r].at = "query list"
    /\ reading' = [reading EXCEPT ![r] =
                      [at |-> "fill list", key |-> @.key, threads |-> ThreadList]]
    /\ UNCHANGED <<tables, redis, vectors, step, request, answer, sent, naming, calling, faults>>

FillList(r) ==
    LET key == reading[r].key IN
    /\ reading[r].at = "fill list"
    /\ list' = [list EXCEPT ![key] = reading[r].threads]
    /\ doubtful' = IF reading[r].threads = ThreadList THEN doubtful \ {key}
                   ELSE doubtful \cup {key}
    /\ reading' = [reading EXCEPT ![r] = Over]
    /\ UNCHANGED <<tables, page, vectors, step, request, answer, sent, naming, calling, faults>>

\* The five minutes of a key are over.
Expire(t) ==
    /\ page[t] # NoPage
    /\ page' = [page EXCEPT ![t] = NoPage] /\ doubtful' = doubtful \ {t}
    /\ UNCHANGED <<tables, list, vectors, step, request, answer, sent, naming, reading, calling, faults>>

ExpireList(l) ==
    /\ list[l] # NoPage
    /\ list' = [list EXCEPT ![l] = NoPage] /\ doubtful' = doubtful \ {l}
    /\ UNCHANGED <<tables, page, vectors, step, request, answer, sent, naming, reading, calling, faults>>

\* update_thread
RenameThread(c, t) ==
    /\ calling[c] = Idle /\ MayHappen /\ thread[t] = "open"
    /\ SetTitle(t, "edited")
    /\ calling' = [calling EXCEPT ![c] = [at |-> "renamed", key |-> t]]
    /\ UNCHANGED <<thread, messages, redis, vectors, step, request, answer, sent, naming, reading, faults>>

ClearAfterRename(c) ==
    /\ calling[c].at = "renamed"
    /\ DropLists
    /\ calling' = [calling EXCEPT ![c] = Over]
    /\ UNCHANGED <<tables, vectors, step, request, answer, sent, naming, reading>>

\* delete_thread: soft_delete_chat_thread
DeleteThread(c, t) ==
    /\ calling[c] = Idle /\ MayHappen /\ thread[t] = "open"
    /\ thread' = [thread EXCEPT ![t] = "deleted"]
    /\ calling' = [calling EXCEPT ![c] = [at |-> "deleted", key |-> t]]
    /\ UNCHANGED <<title, messages, redis, vectors, step, request, answer, sent, naming, reading, faults>>

ClearAfterDelete(c) ==
    /\ calling[c].at = "deleted"
    /\ DropPageAndLists(calling[c].key)
    /\ calling' = [calling EXCEPT ![c] = Over]
    /\ UNCHANGED <<tables, vectors, step, request, answer, sent, naming, reading>>

--------------------------------------------------------------------------------
(* The system. *)

HandlerStep(s) ==
    \/ SaveQuestion(s) \/ ClearAfterQuestion(s)
    \/ \E found \in BOOLEAN : RecallAndSearch(s, found)
    \/ CallModel(s)

TaskStep(s) == StreamBreaks(s) \/ SaveNothingFound(s) \/ ClearAfterAnswer(s) \/ Close(s)

ModelStep(s) == Chunk(s) \/ ReadDone(s)

TitleStep(s) == NameThread(s) \/ ClearAfterTitle(s)

Start(s) == \E t \in Threads : OpenThread(s, t) \/ CreateThread(s, t)

ReaderStep(r) ==
    \/ \E t \in Threads, n \in PageSizes : MissPage(r, t, n)
    \/ \E l \in Limits : MissList(r, l)
    \/ QueryPage(r) \/ FillPage(r) \/ QueryList(r) \/ FillList(r)

CallerStep(c) ==
    \/ \E t \in Threads : RenameThread(c, t) \/ DeleteThread(c, t)
    \/ ClearAfterRename(c) \/ ClearAfterDelete(c)

Next ==
    \/ \E s \in Streams : \/ Start(s) \/ HandlerStep(s) \/ FailRequest(s)
                          \/ ModelStep(s) \/ TaskStep(s) \/ TitleStep(s)
    \/ \E r \in Readers : ReaderStep(r)
    \/ \E c \in Callers : CallerStep(c)
    \/ \E t \in Threads : Expire(t)
    \/ \E l \in Limits : ExpireList(l)
    \/ Restart

\* The handler and the answer task run while the process does, and a stream that stalls is cut by
\* its timeout.  Nothing is assumed of the model's chunks, nor of the title task.
Fairness == \A s \in Streams : WF_vars(HandlerStep(s)) /\ WF_vars(TaskStep(s))

Spec == Init /\ [][Next]_vars /\ Fairness

--------------------------------------------------------------------------------
(* Properties. *)

\* Every variable keeps to its domain (routes/chat.rs, read_operations/chat.rs).
TypeOK ==
    /\ thread \in [Threads -> {"absent", "open", "deleted"}]
    /\ title \in [Threads -> Titles]
    /\ \A t \in Threads : messages[t] \in Seq(Rows)
    /\ \A t \in Threads : page[t] # NoPage => page[t].limit \in PageSizes /\ page[t].rows \in Seq(Rows)
    /\ \A l \in Limits : list[l] # NoPage => DOMAIN list[l] \subseteq Threads
    /\ vectors \subseteq Streams
    /\ step \in [Streams -> Handler \cup Task \cup Ended \cup {"idle"}]
    /\ target \in [Streams -> Threads \cup {NoThread}]
    /\ \A s \in Streams : step[s] # "idle" => target[s] # NoThread
    /\ fresh \in [Streams -> BOOLEAN] /\ bare \in [Streams -> BOOLEAN]
    /\ answer \in [Streams -> 0..MaxChunks]
    /\ \A s \in Streams : sent[s] \in Seq({"created", "chunk", "title", "done", "error"})
    /\ naming \in [Streams -> {"none", "asking", "clearing", "ready"}]
    /\ \A c \in Callers : calling[c].at \in {"idle", "renamed", "deleted", "over"}
    /\ faults \in 0..MaxEvents /\ doubtful \subseteq Threads \cup Limits

\* Somebody who changed the messages of a thread has its page still to delete.
PageDeleteDue(t) ==
    \/ \E s \in Streams : target[s] = t /\ step[s] \in {"clear question", "clear answer"}
    \/ \E c \in Callers : calling[c] = [at |-> "deleted", key |-> t]

ListDeleteDue ==
    \/ \E s \in Streams : \/ fresh[s] /\ step[s] \in {"insert", "clear question"}
                          \/ naming[s] = "clearing"
    \/ \E c \in Callers : calling[c].at \in {"deleted", "renamed"}

\* A cached page shows what the tables hold, unless a delete of it is on its way or it is one that
\* nobody will delete: a reader filled it after it was overtaken, or a delete was lost
\* (routes/chat.rs:255, :412, :657, :734, :165).
PagesHonest ==
    \A t \in Threads \ doubtful :
        page[t] = NoPage \/ page[t].rows = MessagesOf(t, page[t].limit) \/ PageDeleteDue(t)

\* The same of the thread lists whose keys are deleted at all (redis/cache.rs:152).
ListsHonest ==
    \A l \in KnownLimits \ doubtful : list[l] = NoPage \/ list[l] = ThreadList \/ ListDeleteDue

IsAnswerOf(s, row) == row.role = "assistant" /\ row.of = s

\* What was streamed is what is stored: at most one answer for a question, below it in its thread,
\* of the chunks the client was sent; and without a fault a finished answer is there, also the one
\* that is saved only after done (routes/chat.rs:403, :627, :707).
StoredIsStreamed ==
    \A s \in Streams : LET rows == IF target[s] = NoThread THEN <<>> ELSE messages[target[s]]
                           At == {i \in 1..Len(rows) : IsAnswerOf(s, rows[i])} IN
        /\ \A i, j \in At : i = j
        /\ \A i \in At : /\ rows[i].size = Cardinality({k \in 1..Len(sent[s]) : sent[s][k] = "chunk"})
                         /\ \E q \in 1..i : rows[q].role = "user" /\ rows[q].of = s
        /\ step[s] = "answered" /\ answer[s] > 0 /\ faults = 0 => At # {}

\* done closes a stream, at most once, after everything else; the title of a thread comes right
\* before it, once, and only for a thread the request created (routes/chat.rs:321).
TitleThenDone ==
    \A s \in Streams : LET events == sent[s] IN \A i \in 1..Len(events) :
        /\ events[i] \in {"done", "error"} => i = Len(events)
        /\ events[i] = "title" => /\ fresh[s] /\ step[s] \in {"save", "clear answer", "answered", "failed"}
                                 /\ (i = Len(events) \/ events[i + 1] = "done")

\* The model is given the rows before the question and not the question itself, if no other request
\* wrote to the thread between the question and the reading of the history (routes/chat.rs:520).
PromptIsTheConversation ==
    \A s \in Streams : step[s] \in {"rerank", "answered", "error"} \cup Task =>
        LET rows == messages[target[s]] IN
        \A own \in 1..Len(rows) :
            (/\ rows[own].role = "user" /\ rows[own].of = s
             /\ own = Len(rows) \/ rows[own + 1].of = s)
            => prompt[s] = NewestRows(SubSeq(rows, 1, own - 1), HistoryLimit - 1)

\* A request that was accepted ends, whatever becomes of the model's stream and of the title: "the
\* client is never left hanging" (routes/chat.rs:705).
StreamEnds == \A s \in Streams : step[s] # "idle" ~> step[s] \in Ended

================================================================================
