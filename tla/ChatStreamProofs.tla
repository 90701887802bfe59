--------------------------- MODULE ChatStreamProofs ---------------------------
(***************************************************************************)
(* Proofs about ChatStream for any requests, threads and limits, and any   *)
(* number of chunks and faults.                                            *)
(***************************************************************************)
EXTENDS ChatStream, FiniteSetTheorems, SequenceTheorems, TLAPS

-------------------------------------------------------------------------------
(* Types. *)

Events == {"created", "chunk", "title", "done", "error"}
Steps  == Handler \cup Task \cup Ended \cup {"idle"}
Pages  == [limit : PageSizes, rows : Seq(Rows)]
Lists  == UNION {[S -> Titles] : S \in SUBSET Threads}

Reads ==
    {Idle, Over} \cup [at : {"query page"}, key : Threads, limit : PageSizes]
        \cup [at : {"fill page"}, key : Threads, limit : PageSizes, rows : Seq(Rows)]
        \cup [at : {"query list"}, key : Limits]
        \cup [at : {"fill list"}, key : Limits, threads : Lists]

Calls == {Idle, Over} \cup [at : {"renamed", "deleted"}, key : Threads]

TablesTyped ==
    /\ thread \in [Threads -> {"absent", "open", "deleted"}]
    /\ title \in [Threads -> Titles]
    /\ messages \in [Threads -> Seq(Rows)]

CachesTyped ==
    /\ page \in [Threads -> Pages \cup {NoPage}]
    /\ list \in [Limits -> Lists \cup {NoPage}]
    /\ doubtful \subseteq Threads \cup Limits

StreamsTyped ==
    /\ step \in [Streams -> Steps]
    /\ target \in [Streams -> Threads \cup {NoThread}]
    /\ \A s \in Streams : step[s] # "idle" => target[s] \in Threads
    /\ fresh \in [Streams -> BOOLEAN] /\ bare \in [Streams -> BOOLEAN]
    /\ naming \in [Streams -> {"none", "asking", "clearing", "ready"}]
    /\ \A s \in Streams : (fresh[s] => step[s] # "idle") /\ (naming[s] # "none" => fresh[s])

OutputTyped ==
    /\ prompt \in [Streams -> Seq(Rows)]
    /\ answer \in [Streams -> 0..MaxChunks]
    /\ sent \in [Streams -> Seq(Events)]
    /\ vectors \subseteq Streams

GuestsTyped == reading \in [Readers -> Reads] /\ calling \in [Callers -> Calls]

Typed ==
    TablesTyped /\ CachesTyped /\ StreamsTyped /\ OutputTyped /\ GuestsTyped /\ faults \in 0..MaxEvents

LEMMA ListDomain ==
  ASSUME NEW f \in Lists
  PROVE  DOMAIN f \subseteq Threads
  BY DEF Lists

LEMMA TypedIsTypeOK ==
  ASSUME Typed
  PROVE  TypeOK
<1>1. \A t \in Threads : page[t] # NoPage => page[t].limit \in PageSizes /\ page[t].rows \in Seq(Rows)
  BY DEF Typed, CachesTyped, Pages
<1>2. \A l \in Limits : list[l] # NoPage => DOMAIN list[l] \subseteq Threads
  BY ListDomain DEF Typed, CachesTyped
<1>3. \A s \in Streams : step[s] # "idle" => target[s] # NoThread
  BY ChatAssumption DEF Typed, StreamsTyped
<1>4. \A c \in Callers : calling[c].at \in {"idle", "renamed", "deleted", "over"}
  BY DEF Typed, GuestsTyped, Calls, Idle, Over
<1>5. QED
  BY <1>1, <1>2, <1>3, <1>4
     DEF TypeOK, Typed, TablesTyped, CachesTyped, StreamsTyped, OutputTyped, Steps, Events

LEMMA FaultTyped ==
  ASSUME faults \in 0..MaxEvents, Fault
  PROVE  faults' \in 0..MaxEvents
<1>1. /\ Cardinality({s \in Streams : step[s] # "idle"}) \in Nat
      /\ Cardinality({r \in Readers : reading[r] # Idle}) \in Nat
      /\ Cardinality({c \in Callers : calling[c] # Idle}) \in Nat
  <2>1. /\ IsFiniteSet({s \in Streams : step[s] # "idle"})
        /\ IsFiniteSet({r \in Readers : reading[r] # Idle})
        /\ IsFiniteSet({c \in Callers : calling[c] # Idle})
    BY ChatAssumption, FS_Subset
  <2>2. QED
    BY <2>1, FS_CardinalityType
<1> DEFINE a == Cardinality({s \in Streams : step[s] # "idle"})
           b == Cardinality({r \in Readers : reading[r] # Idle})
           d == Cardinality({c \in Callers : calling[c] # Idle})
<1>2. a + b + d + faults < MaxEvents /\ faults' = faults + 1
  BY DEF Fault, MayHappen
<1>3. QED
  <2> HIDE DEF a, b, d
  <2>1. a \in Nat /\ b \in Nat /\ d \in Nat
    BY <1>1 DEF a, b, d
  <2>2. QED
    BY <1>2, <2>1, ChatAssumption

LEMMA NewestTyped ==
  ASSUME NEW S, NEW rows \in Seq(S), NEW n \in Nat
  PROVE  NewestRows(rows, n) \in Seq(S)
  BY DEF NewestRows

\* The deletes keep the types.
LEMMA DropsTyped ==
  ASSUME CachesTyped, faults \in 0..MaxEvents,
         DropLists \/ \E t \in Threads : DropPageAndLists(t)
  PROVE  CachesTyped' /\ faults' \in 0..MaxEvents
<1>1. KnownLimits \subseteq Limits
  BY ChatAssumption
<1>2. CASE DropLists
  BY <1>1, <1>2, FaultTyped DEF DropLists, CachesTyped
<1>3. ASSUME NEW t \in Threads, DropPageAndLists(t) PROVE CachesTyped' /\ faults' \in 0..MaxEvents
  BY <1>1, <1>3, FaultTyped DEF DropPageAndLists, CachesTyped
<1>4. QED
  BY <1>2, <1>3

\* A row of a stream is a row.
LEMMA RowTyped ==
  ASSUME NEW role \in {"user", "assistant"}, NEW s \in Streams, NEW n \in 0..MaxChunks
  PROVE  [role |-> role, of |-> s, size |-> n] \in Rows
  BY DEF Rows

LEMMA InsertTyped ==
  ASSUME TablesTyped, NEW t \in Threads, NEW r \in Rows, InsertMessage(t, r)
  PROVE  messages' \in [Threads -> Seq(Rows)]
  BY DEF TablesTyped, InsertMessage

LEMMA OpenTyped ==
  ASSUME Typed, NEW s \in Streams, NEW t \in Threads, OpenThread(s, t)
  PROVE  Typed'
<1>1. StreamsTyped'
  BY DEF OpenThread, GoTo, Typed, StreamsTyped, Steps, Handler, Ended, request, tables, redis
<1>2. QED
  BY <1>1 DEF OpenThread, tables, redis, Typed, TablesTyped, CachesTyped, OutputTyped, GuestsTyped

LEMMA CreateTyped ==
  ASSUME Typed, NEW s \in Streams, NEW t \in Threads, CreateThread(s, t)
  PROVE  Typed'
<1>1. StreamsTyped'
  BY DEF CreateThread, GoTo, Typed, StreamsTyped, Steps, Handler
<1>2. TablesTyped'
  BY DEF CreateThread, Typed, TablesTyped
<1>3. QED
  BY <1>1, <1>2 DEF CreateThread, redis, Typed, CachesTyped, OutputTyped, GuestsTyped

LEMMA SaveQuestionTyped ==
  ASSUME Typed, NEW s \in Streams, SaveQuestion(s)
  PROVE  Typed'
<1>1. StreamsTyped'
  BY DEF SaveQuestion, GoTo, Typed, StreamsTyped, Steps, Handler, request
<1>2. TablesTyped'
  <2>1. target[s] \in Threads
    BY DEF SaveQuestion, Typed, StreamsTyped
  <2>2. [role |-> "user", of |-> s, size |-> 0] \in Rows
    BY RowTyped, ChatAssumption
  <2>3. messages' \in [Threads -> Seq(Rows)]
    BY <2>1, <2>2, InsertTyped DEF SaveQuestion, Typed
  <2>4. QED
    BY <2>3 DEF SaveQuestion, Typed, TablesTyped
<1>3. QED
  BY <1>1, <1>2 DEF SaveQuestion, redis, request, Typed, CachesTyped, OutputTyped, GuestsTyped

LEMMA ClearAfterQuestionTyped ==
  ASSUME Typed, NEW s \in Streams, ClearAfterQuestion(s)
  PROVE  Typed'
<1>1. StreamsTyped'
  BY DEF ClearAfterQuestion, GoTo, Typed, StreamsTyped, Steps, Handler, request
<1>2. CachesTyped' /\ faults' \in 0..MaxEvents
  <2>1. target[s] \in Threads
    BY DEF ClearAfterQuestion, Typed, StreamsTyped
  <2>2. QED
    BY <2>1, DropsTyped DEF ClearAfterQuestion, Typed
<1>3. QED
  BY <1>1, <1>2 DEF ClearAfterQuestion, tables, request, Typed, TablesTyped, OutputTyped, GuestsTyped

LEMMA DropQuestionTyped ==
  ASSUME NEW rows \in Seq(Rows)
  PROVE  DropQuestion(rows) \in Seq(Rows)
  BY DEF DropQuestion

LEMMA RecallTyped ==
  ASSUME Typed, NEW s \in Streams, NEW found \in BOOLEAN, RecallAndSearch(s, found)
  PROVE  Typed'
<1>1. StreamsTyped'
  BY DEF RecallAndSearch, GoTo, Typed, StreamsTyped, Steps, Handler, Task
<1>2. OutputTyped'
  <2>1. target[s] \in Threads
    BY DEF RecallAndSearch, Typed, StreamsTyped
  <2>2. NewestRows(messages[target[s]], HistoryLimit) \in Seq(Rows)
    BY <2>1, NewestTyped, ChatAssumption DEF Typed, TablesTyped
  <2>3. prompt' \in [Streams -> Seq(Rows)]
    BY <2>2, DropQuestionTyped DEF RecallAndSearch, Typed, OutputTyped
  <2>4. (IF fresh[s] THEN <<"created">> ELSE <<>>) \o (IF found THEN <<>> ELSE <<"chunk">>) \in Seq(Events)
    <3>1. "created" \in Events /\ "chunk" \in Events
      BY DEF Events
    <3>2. <<"created">> \in Seq(Events) /\ <<"chunk">> \in Seq(Events) /\ <<>> \in Seq(Events)
      BY <3>1
    <3>3. QED
      BY <3>2
  <2>5. sent' \in [Streams -> Seq(Events)]
    BY <2>4 DEF RecallAndSearch, Typed, OutputTyped
  <2>6. answer' \in [Streams -> 0..MaxChunks]
    BY ChatAssumption DEF RecallAndSearch, Typed, OutputTyped
  <2>7. QED
    BY <2>3, <2>5, <2>6 DEF RecallAndSearch, Typed, OutputTyped
<1>3. QED
  BY <1>1, <1>2 DEF RecallAndSearch, tables, redis, Typed, TablesTyped, CachesTyped, GuestsTyped

LEMMA FailTyped ==
  ASSUME Typed, NEW s \in Streams, FailRequest(s)
  PROVE  Typed'
<1>1. StreamsTyped'
  BY DEF FailRequest, GoTo, Typed, StreamsTyped, Steps, Ended, Handler, request
<1>2. OutputTyped'
  <2>1. <<>> \in Seq(Events)
    OBVIOUS
  <2>2. QED
    BY <2>1 DEF FailRequest, request, Typed, OutputTyped
<1>3. CachesTyped'
  <2>1. target[s] \in Threads /\ KnownLimits \subseteq Limits
    BY ChatAssumption DEF FailRequest, Typed, StreamsTyped, Handler
  <2>2. doubtful' \subseteq Threads \cup Limits
    BY <2>1 DEF FailRequest, Typed, CachesTyped
  <2>3. QED
    BY <2>2 DEF FailRequest, Typed, CachesTyped
<1>4. faults' \in 0..MaxEvents
  BY FaultTyped DEF FailRequest, Typed
<1>5. QED
  BY <1>1, <1>2, <1>3, <1>4 DEF FailRequest, tables, Typed, TablesTyped, GuestsTyped

LEMMA SendTyped ==
  ASSUME OutputTyped, NEW s \in Streams, NEW e \in Events, Send(s, e)
  PROVE  sent' \in [Streams -> Seq(Events)]
  BY DEF Send, OutputTyped

LEMMA CallModelTyped ==
  ASSUME Typed, NEW s \in Streams, CallModel(s)
  PROVE  Typed'
<1>1. StreamsTyped'
  BY DEF CallModel, GoTo, Typed, StreamsTyped, Steps, Task, Ended, request
<1>2. OutputTyped'
  <2>1. sent' \in [Streams -> Seq(Events)]
    BY SendTyped DEF CallModel, Typed, OutputTyped, Events
  <2>2. QED
    BY <2>1 DEF CallModel, request, Typed, OutputTyped
<1>3. QED
  BY <1>1, <1>2 DEF CallModel, tables, redis, Typed, TablesTyped, CachesTyped, GuestsTyped

LEMMA ChunkTyped ==
  ASSUME Typed, NEW s \in Streams, Chunk(s)
  PROVE  Typed'
<1>1. OutputTyped'
  <2>1. sent' \in [Streams -> Seq(Events)]
    BY SendTyped DEF Chunk, Typed, Events
  <2>2. answer' \in [Streams -> 0..MaxChunks]
    BY ChatAssumption DEF Chunk, Typed, OutputTyped
  <2>3. QED
    BY <2>1, <2>2 DEF Chunk, request, Typed, OutputTyped
<1>2. QED
  BY <1>1 DEF Chunk, tables, redis, request, Typed, TablesTyped, CachesTyped, StreamsTyped, GuestsTyped

\* The answer is saved or not.
LEMMA AnswerTyped ==
  ASSUME Typed, NEW s \in Streams, step[s] # "idle",
         \/ /\ InsertMessage(target[s], [role |-> "assistant", of |-> s, size |-> answer[s]])
            /\ UNCHANGED faults
         \/ Fault /\ UNCHANGED messages
  PROVE  messages' \in [Threads -> Seq(Rows)] /\ faults' \in 0..MaxEvents
<1>1. target[s] \in Threads
  BY DEF Typed, StreamsTyped
<1>2. [role |-> "assistant", of |-> s, size |-> answer[s]] \in Rows
  BY RowTyped DEF Typed, OutputTyped
<1>3. CASE Fault /\ UNCHANGED messages
  BY <1>3, FaultTyped DEF Typed, TablesTyped
<1>4. CASE /\ InsertMessage(target[s], [role |-> "assistant", of |-> s, size |-> answer[s]])
           /\ UNCHANGED faults
  BY <1>1, <1>2, <1>4, InsertTyped DEF Typed
<1>5. QED
  BY <1>3, <1>4

LEMMA SaveExchangeTyped ==
  ASSUME Typed, NEW s \in Streams, step[s] # "idle", SaveExchange(s)
  PROVE  /\ messages' \in [Threads -> Seq(Rows)] /\ faults' \in 0..MaxEvents
         /\ vectors' \subseteq Streams /\ step' = [step EXCEPT ![s] = "clear answer"]
  BY AnswerTyped DEF SaveExchange, GoTo, Typed, OutputTyped

LEMMA ReadDoneTyped ==
  ASSUME Typed, NEW s \in Streams, ReadDone(s)
  PROVE  Typed'
<1>1. /\ messages' \in [Threads -> Seq(Rows)] /\ faults' \in 0..MaxEvents
      /\ vectors' \subseteq Streams /\ step' = [step EXCEPT ![s] = "clear answer"]
  BY SaveExchangeTyped DEF ReadDone
<1>2. StreamsTyped'
  BY <1>1 DEF ReadDone, Typed, StreamsTyped, Steps, Task, request
<1>3. QED
  BY <1>1, <1>2 DEF ReadDone, redis, request, Typed, TablesTyped, CachesTyped, OutputTyped, GuestsTyped

LEMMA BreaksTyped ==
  ASSUME Typed, NEW s \in Streams, StreamBreaks(s)
  PROVE  Typed'
<1>1. /\ messages' \in [Threads -> Seq(Rows)] /\ faults' \in 0..MaxEvents
      /\ vectors' \subseteq Streams
      /\ \E next \in Task : step' = [step EXCEPT ![s] = next]
  <2>1. CASE SaveExchange(s)
    BY <2>1, SaveExchangeTyped DEF StreamBreaks, Task
  <2>2. CASE GoTo(s, "wait") /\ UNCHANGED <<messages, vectors, faults>>
    BY <2>2 DEF GoTo, Task, Typed, TablesTyped, OutputTyped
  <2>3. QED
    BY <2>1, <2>2 DEF StreamBreaks
<1>2. StreamsTyped'
  BY <1>1 DEF StreamBreaks, Typed, StreamsTyped, Steps, Task, request
<1>3. QED
  BY <1>1, <1>2 DEF StreamBreaks, redis, request, Typed, TablesTyped, CachesTyped, OutputTyped, GuestsTyped

LEMMA NothingFoundTyped ==
  ASSUME Typed, NEW s \in Streams, SaveNothingFound(s)
  PROVE  Typed'
<1>1. messages' \in [Threads -> Seq(Rows)] /\ faults' \in 0..MaxEvents
  BY AnswerTyped DEF SaveNothingFound
<1>2. StreamsTyped'
  BY DEF SaveNothingFound, GoTo, Typed, StreamsTyped, Steps, Task, request
<1>3. QED
  BY <1>1, <1>2 DEF SaveNothingFound, redis, request, Typed, TablesTyped, CachesTyped, OutputTyped, GuestsTyped

LEMMA ClearAfterAnswerTyped ==
  ASSUME Typed, NEW s \in Streams, ClearAfterAnswer(s)
  PROVE  Typed'
<1>1. StreamsTyped'
  BY DEF ClearAfterAnswer, GoTo, Typed, StreamsTyped, Steps, Task, Ended, request
<1>2. CachesTyped' /\ faults' \in 0..MaxEvents
  <2>1. target[s] \in Threads
    BY DEF ClearAfterAnswer, Typed, StreamsTyped
  <2>2. QED
    BY <2>1, DropsTyped DEF ClearAfterAnswer, Typed
<1>3. QED
  BY <1>1, <1>2 DEF ClearAfterAnswer, tables, request, Typed, TablesTyped, OutputTyped, GuestsTyped

LEMMA CloseTyped ==
  ASSUME Typed, NEW s \in Streams, Close(s)
  PROVE  Typed'
<1>1. StreamsTyped'
  BY DEF Close, GoTo, Typed, StreamsTyped, Steps, Task, Ended, request
<1>2. sent' \in [Streams -> Seq(Events)]
  <2>1. "title" \in Events /\ "done" \in Events
    BY DEF Events
  <2>2. Closing(s) \in Seq(Events)
    BY <2>1 DEF Closing
  <2>3. QED
    BY <2>2 DEF Close, Typed, OutputTyped
<1>3. QED
  BY <1>1, <1>2 DEF Close, tables, redis, request, Typed, TablesTyped, CachesTyped, OutputTyped, GuestsTyped

LEMMA NameTyped ==
  ASSUME Typed, NEW s \in Streams, NameThread(s)
  PROVE  Typed'
<1>1. StreamsTyped'
  BY DEF NameThread, Typed, StreamsTyped, request
<1>2. TablesTyped'
  BY DEF NameThread, SetTitle, Titles, Typed, TablesTyped
<1>3. faults' \in 0..MaxEvents
  BY FaultTyped DEF NameThread, Typed
<1>4. QED
  BY <1>1, <1>2, <1>3 DEF NameThread, redis, request, Typed, CachesTyped, OutputTyped, GuestsTyped

LEMMA ClearAfterTitleTyped ==
  ASSUME Typed, NEW s \in Streams, ClearAfterTitle(s)
  PROVE  Typed'
<1>1. StreamsTyped'
  BY DEF ClearAfterTitle, Typed, StreamsTyped, request
<1>2. CachesTyped' /\ faults' \in 0..MaxEvents
  BY DropsTyped DEF ClearAfterTitle, Typed
<1>3. QED
  BY <1>1, <1>2 DEF ClearAfterTitle, tables, request, Typed, TablesTyped, OutputTyped, GuestsTyped

LEMMA RestartTyped ==
  ASSUME Typed, Restart
  PROVE  Typed'
<1>1. StreamsTyped'
  BY DEF Restart, Typed, StreamsTyped, Steps, Ended, request
<1>2. CachesTyped'
  BY ChatAssumption DEF Restart, Typed, CachesTyped
<1>3. GuestsTyped'
  BY DEF Restart, Typed, GuestsTyped, Reads, Calls
<1>4. faults' \in 0..MaxEvents
  BY FaultTyped DEF Restart, Typed
<1>5. QED
  BY <1>1, <1>2, <1>3, <1>4 DEF Restart, tables, request, Typed, TablesTyped, OutputTyped

\* What a reader read, it read of a thread or of a limit.
LEMMA ReadFits ==
  ASSUME NEW r \in Reads
  PROVE  /\ r.at \in {"query page", "fill page"} => r.key \in Threads /\ r.limit \in PageSizes
         /\ r.at = "fill page" => r.rows \in Seq(Rows)
         /\ r.at \in {"query list", "fill list"} => r.key \in Limits
         /\ r.at = "fill list" => r.threads \in Lists
<1>1. CASE r = Idle \/ r = Over
  <2>1. r.at = "idle" \/ r.at = "over"
    BY <1>1 DEF Idle, Over
  <2>2. QED
    BY <2>1
<1>2. CASE r \in [at : {"query page"}, key : Threads, limit : PageSizes]
  BY <1>2
<1>3. CASE r \in [at : {"fill page"}, key : Threads, limit : PageSizes, rows : Seq(Rows)]
  BY <1>3
<1>4. CASE r \in [at : {"query list"}, key : Limits]
  BY <1>4
<1>5. CASE r \in [at : {"fill list"}, key : Limits, threads : Lists]
  BY <1>5
<1>6. QED
  BY <1>1, <1>2, <1>3, <1>4, <1>5 DEF Reads

LEMMA MissTyped ==
  ASSUME Typed, NEW r \in Readers,
         \/ \E t \in Threads, n \in PageSizes : MissPage(r, t, n)
         \/ \E l \in Limits : MissList(r, l)
  PROVE  Typed'
<1>1. ASSUME NEW t \in Threads, NEW n \in PageSizes, MissPage(r, t, n) PROVE Typed'
  <2>1. [at |-> "query page", key |-> t, limit |-> n] \in Reads
    BY DEF Reads
  <2>2. reading' \in [Readers -> Reads]
    BY <1>1, <2>1 DEF MissPage, Typed, GuestsTyped
  <2>3. QED
    BY <1>1, <2>2 DEF MissPage, tables, redis, request, Typed, TablesTyped, CachesTyped, StreamsTyped,
                      OutputTyped, GuestsTyped
<1>2. ASSUME NEW l \in Limits, MissList(r, l) PROVE Typed'
  <2>1. [at |-> "query list", key |-> l] \in Reads
    BY DEF Reads
  <2>2. reading' \in [Readers -> Reads]
    BY <1>2, <2>1 DEF MissList, Typed, GuestsTyped
  <2>3. QED
    BY <1>2, <2>2 DEF MissList, tables, redis, request, Typed, TablesTyped, CachesTyped, StreamsTyped,
                      OutputTyped, GuestsTyped
<1>3. QED
  BY <1>1, <1>2

LEMMA QueryPageTyped ==
  ASSUME Typed, NEW r \in Readers, QueryPage(r)
  PROVE  Typed'
<1>1. reading[r].key \in Threads /\ reading[r].limit \in PageSizes
  BY ReadFits DEF QueryPage, Typed, GuestsTyped
<1>2. MessagesOf(reading[r].key, reading[r].limit) \in Seq(Rows)
  <2>1. NewestRows(messages[reading[r].key], reading[r].limit) \in Seq(Rows)
    BY <1>1, NewestTyped, ChatAssumption DEF Typed, TablesTyped
  <2>2. QED
    BY <2>1 DEF MessagesOf
<1>3. [at |-> "fill page", key |-> reading[r].key, limit |-> reading[r].limit,
       rows |-> MessagesOf(reading[r].key, reading[r].limit)] \in Reads
  BY <1>1, <1>2 DEF Reads
<1>4. reading' \in [Readers -> Reads]
  BY <1>3 DEF QueryPage, Typed, GuestsTyped
<1>5. QED
  BY <1>4 DEF QueryPage, tables, redis, request, Typed, TablesTyped, CachesTyped, StreamsTyped,
              OutputTyped, GuestsTyped

LEMMA FillPageTyped ==
  ASSUME Typed, NEW r \in Readers, FillPage(r)
  PROVE  Typed'
<1>1. reading[r].key \in Threads /\ reading[r].limit \in PageSizes /\ reading[r].rows \in Seq(Rows)
  BY ReadFits DEF FillPage, Typed, GuestsTyped
<1>2. [limit |-> reading[r].limit, rows |-> reading[r].rows] \in Pages
  BY <1>1 DEF Pages
<1>3. CachesTyped'
  BY <1>1, <1>2 DEF FillPage, Typed, CachesTyped
<1>4. reading' \in [Readers -> Reads]
  BY DEF FillPage, Typed, GuestsTyped, Reads
<1>5. QED
  BY <1>3, <1>4 DEF FillPage, tables, request, Typed, TablesTyped, StreamsTyped, OutputTyped, GuestsTyped

LEMMA ThreadListTyped ==
  ASSUME TablesTyped
  PROVE  ThreadList \in Lists
<1> DEFINE S == {u \in Threads : thread[u] = "open"}
<1>1. [t \in S |-> title[t]] \in [S -> Titles] /\ S \in SUBSET Threads
  BY DEF TablesTyped
<1>2. QED
  BY <1>1 DEF ThreadList, Lists

LEMMA QueryListTyped ==
  ASSUME Typed, NEW r \in Readers, QueryList(r)
  PROVE  Typed'
<1>1. reading[r].key \in Limits
  BY ReadFits DEF QueryList, Typed, GuestsTyped
<1>2. [at |-> "fill list", key |-> reading[r].key, threads |-> ThreadList] \in Reads
  BY <1>1, ThreadListTyped DEF Reads, Typed
<1>3. reading' \in [Readers -> Reads]
  BY <1>2 DEF QueryList, Typed, GuestsTyped
<1>4. QED
  BY <1>3 DEF QueryList, tables, redis, request, Typed, TablesTyped, CachesTyped, StreamsTyped,
              OutputTyped, GuestsTyped

LEMMA FillListTyped ==
  ASSUME Typed, NEW r \in Readers, FillList(r)
  PROVE  Typed'
<1>1. reading[r].key \in Limits /\ reading[r].threads \in Lists
  BY ReadFits DEF FillList, Typed, GuestsTyped
<1>2. CachesTyped'
  BY <1>1 DEF FillList, Typed, CachesTyped
<1>3. reading' \in [Readers -> Reads]
  BY DEF FillList, Typed, GuestsTyped, Reads
<1>4. QED
  BY <1>2, <1>3 DEF FillList, tables, request, Typed, TablesTyped, StreamsTyped, OutputTyped, GuestsTyped

LEMMA ExpireTyped ==
  ASSUME Typed, (\E t \in Threads : Expire(t)) \/ (\E l \in Limits : ExpireList(l))
  PROVE  Typed'
<1>1. CachesTyped'
  BY DEF Expire, ExpireList, Typed, CachesTyped
<1>2. QED
  BY <1>1 DEF Expire, ExpireList, tables, request, Typed, TablesTyped, StreamsTyped, OutputTyped, GuestsTyped

LEMMA RenameTyped ==
  ASSUME Typed, NEW c \in Callers, NEW t \in Threads, RenameThread(c, t)
  PROVE  Typed'
<1>1. TablesTyped'
  BY DEF RenameThread, SetTitle, Titles, Typed, TablesTyped
<1>2. calling' \in [Callers -> Calls]
  BY DEF RenameThread, Typed, GuestsTyped, Calls
<1>3. QED
  BY <1>1, <1>2 DEF RenameThread, redis, request, Typed, CachesTyped, StreamsTyped, OutputTyped, GuestsTyped

LEMMA DeleteTyped ==
  ASSUME Typed, NEW c \in Callers, NEW t \in Threads, DeleteThread(c, t)
  PROVE  Typed'
<1>1. TablesTyped'
  BY DEF DeleteThread, Typed, TablesTyped
<1>2. calling' \in [Callers -> Calls]
  BY DEF DeleteThread, Typed, GuestsTyped, Calls
<1>3. QED
  BY <1>1, <1>2 DEF DeleteThread, redis, request, Typed, CachesTyped, StreamsTyped, OutputTyped, GuestsTyped

LEMMA ClearCallTyped ==
  ASSUME Typed, NEW c \in Callers, ClearAfterRename(c) \/ ClearAfterDelete(c)
  PROVE  Typed'
<1>1. calling' \in [Callers -> Calls]
  BY DEF ClearAfterRename, ClearAfterDelete, Typed, GuestsTyped, Calls
<1>2. calling[c].at = "deleted" => calling[c].key \in Threads
  BY DEF Typed, GuestsTyped, Calls, Idle, Over
<1>3. CachesTyped' /\ faults' \in 0..MaxEvents
  BY <1>2, DropsTyped DEF ClearAfterRename, ClearAfterDelete, Typed
<1>4. QED
  BY <1>1, <1>3 DEF ClearAfterRename, ClearAfterDelete, tables, request, Typed, TablesTyped, StreamsTyped,
                    OutputTyped, GuestsTyped

LEMMA InitTyped == Init => Typed
<1> SUFFICES ASSUME Init PROVE Typed
  OBVIOUS
<1>1. TablesTyped /\ CachesTyped /\ StreamsTyped /\ OutputTyped
  <2>1. <<>> \in Seq(Rows) /\ <<>> \in Seq(Events)
    OBVIOUS
  <2>2. TablesTyped
    BY <2>1 DEF Init, TablesTyped, Titles
  <2>3. CachesTyped /\ StreamsTyped
    BY DEF Init, CachesTyped, StreamsTyped, Steps
  <2>4. OutputTyped
    BY <2>1, ChatAssumption DEF Init, OutputTyped
  <2>5. QED
    BY <2>2, <2>3, <2>4
<1>2. GuestsTyped /\ faults \in 0..MaxEvents
  BY ChatAssumption DEF Init, GuestsTyped, Reads, Calls
<1>3. QED
  BY <1>1, <1>2 DEF Typed

LEMMA NextTyped ==
  ASSUME Typed, [Next]_vars
  PROVE  Typed'
<1>1. ASSUME NEW s \in Streams,
             Start(s) \/ HandlerStep(s) \/ FailRequest(s) \/ ModelStep(s) \/ TaskStep(s) \/ TitleStep(s)
      PROVE  Typed'
  <2>1. CASE Start(s) BY <2>1, OpenTyped, CreateTyped DEF Start
  <2>2. CASE HandlerStep(s)
    BY <2>2, SaveQuestionTyped, ClearAfterQuestionTyped, RecallTyped, CallModelTyped DEF HandlerStep
  <2>3. CASE FailRequest(s) BY <2>3, FailTyped
  <2>4. CASE ModelStep(s) BY <2>4, ChunkTyped, ReadDoneTyped DEF ModelStep
  <2>5. CASE TaskStep(s)
    BY <2>5, BreaksTyped, NothingFoundTyped, ClearAfterAnswerTyped, CloseTyped DEF TaskStep
  <2>6. CASE TitleStep(s) BY <2>6, NameTyped, ClearAfterTitleTyped DEF TitleStep
  <2>7. QED
    BY <1>1, <2>1, <2>2, <2>3, <2>4, <2>5, <2>6
<1>2. ASSUME NEW r \in Readers, ReaderStep(r) PROVE Typed'
  BY <1>2, MissTyped, QueryPageTyped, FillPageTyped, QueryListTyped, FillListTyped DEF ReaderStep
<1>3. ASSUME NEW c \in Callers, CallerStep(c) PROVE Typed'
  BY <1>3, RenameTyped, DeleteTyped, ClearCallTyped DEF CallerStep
<1>4. CASE UNCHANGED vars
  BY <1>4 DEF vars, tables, redis, request, Typed, TablesTyped, CachesTyped, StreamsTyped, OutputTyped, GuestsTyped
<1>5. QED
  BY <1>1, <1>2, <1>3, <1>4, ExpireTyped, RestartTyped DEF Next

\* For any requests, threads and limits every variable keeps to its domain, and a request at work has
\* a thread (routes/chat.rs).
THEOREM ChatTyped == Spec => []TypeOK
<1>1. Spec => []Typed
  BY InitTyped, NextTyped, PTL DEF Spec
<1>2. QED
  BY <1>1, TypedIsTypeOK, PTL

-------------------------------------------------------------------------------
(* The end of a stream. *)

\* Nothing has been sent that ends a stream or belongs to its end.
Open(s) == \A i \in 1..Len(sent[s]) : sent[s][i] \notin {"title", "done", "error"}

EndsRight(s) == \A i \in 1..Len(sent[s]) :
    /\ sent[s][i] \in {"done", "error"} => i = Len(sent[s])
    /\ sent[s][i] = "title" => /\ fresh[s] /\ step[s] \in {"save", "clear answer", "answered", "failed"}
                               /\ (i = Len(sent[s]) \/ sent[s][i + 1] = "done")

Shape(s) ==
    /\ step[s] \in {"idle", "stream", "wait"} \cup Handler => Open(s)
    /\ step[s] = "clear answer" /\ ~bare[s] => Open(s)
    /\ step[s] = "save" => bare[s]
    /\ EndsRight(s)

ShapeInv == \A s \in Streams : Shape(s)

LEMMA RestShape ==
  ASSUME NEW s, Shape(s), step'[s] = step[s], bare'[s] = bare[s], fresh'[s] = fresh[s], sent'[s] = sent[s]
  PROVE  Shape(s)'
  BY DEF Shape, Open, EndsRight

\* A stream that is open after the step is in shape.
LEMMA OpenShape ==
  ASSUME NEW s, Open(s)', step'[s] # "save"
  PROVE  Shape(s)'
  BY DEF Shape, Open, EndsRight

\* The steps of stream s leave the other ones alone.
LEMMA AloneShape ==
  ASSUME Typed, ShapeInv, NEW s \in Streams, Shape(s)',
         \A q \in Streams \ {s} : /\ step'[q] = step[q] /\ bare'[q] = bare[q]
                                  /\ fresh'[q] = fresh[q] /\ sent'[q] = sent[q]
  PROVE  ShapeInv'
<1>1. \A q \in Streams \ {s} : Shape(q)'
  BY RestShape DEF ShapeInv
<1>2. QED
  BY <1>1 DEF ShapeInv

LEMMA HandlerShape ==
  ASSUME Typed, ShapeInv, NEW s \in Streams, Start(s) \/ HandlerStep(s) \/ FailRequest(s)
  PROVE  ShapeInv'
<1>1. CASE Start(s) \/ SaveQuestion(s) \/ ClearAfterQuestion(s)
  <2>1. /\ Open(s) /\ sent' = sent /\ step'[s] # "save"
        /\ \A q \in Streams \ {s} : step'[q] = step[q] /\ bare'[q] = bare[q] /\ fresh'[q] = fresh[q]
    BY <1>1 DEF Start, OpenThread, CreateThread, SaveQuestion, ClearAfterQuestion, GoTo, request,
                ShapeInv, Shape, Handler, Typed, StreamsTyped
  <2>2. QED
    BY <2>1, OpenShape, AloneShape DEF Open
<1>2. ASSUME NEW found \in BOOLEAN, RecallAndSearch(s, found) PROVE ShapeInv'
  <2>1. sent'[s] = (IF fresh[s] THEN <<"created">> ELSE <<>>) \o (IF found THEN <<>> ELSE <<"chunk">>)
    BY <1>2 DEF RecallAndSearch, Typed, OutputTyped
  <2>2. Open(s)'
    <3>1. CASE fresh[s] /\ found
      BY <2>1, <3>1 DEF Open
    <3>2. CASE fresh[s] /\ ~found
      BY <2>1, <3>2 DEF Open
    <3>3. CASE ~fresh[s] /\ found
      BY <2>1, <3>3 DEF Open
    <3>4. CASE ~fresh[s] /\ ~found
      BY <2>1, <3>4 DEF Open
    <3>5. QED
      BY <3>1, <3>2, <3>3, <3>4
  <2>3. /\ step'[s] # "save"
        /\ \A q \in Streams \ {s} : /\ step'[q] = step[q] /\ bare'[q] = bare[q]
                                    /\ fresh'[q] = fresh[q] /\ sent'[q] = sent[q]
    BY <1>2 DEF RecallAndSearch, GoTo, Typed, StreamsTyped, OutputTyped
  <2>4. QED
    BY <2>2, <2>3, OpenShape, AloneShape
<1>3. CASE CallModel(s)
  <2>1. /\ Open(s) /\ bare' = bare /\ fresh' = fresh
        /\ \A q \in Streams \ {s} : step'[q] = step[q] /\ sent'[q] = sent[q]
    BY <1>3 DEF CallModel, Send, GoTo, request, ShapeInv, Shape, Handler, Typed, StreamsTyped, OutputTyped
  <2>2. CASE GoTo(s, "stream") /\ UNCHANGED sent
    <3>1. step'[s] # "save" /\ Open(s)'
      BY <2>1, <2>2 DEF GoTo, Open, Typed, StreamsTyped
    <3>2. QED
      BY <2>1, <3>1, OpenShape, AloneShape
  <2>3. CASE GoTo(s, "error") /\ Send(s, "error")
    <3>1. sent[s] \in Seq(Events) /\ sent'[s] = Append(sent[s], "error") /\ step'[s] = "error"
      BY <2>3 DEF GoTo, Send, Typed, StreamsTyped, OutputTyped
    <3>2. EndsRight(s)'
      BY <2>1, <3>1 DEF EndsRight, Open
    <3>3. Shape(s)'
      BY <3>1, <3>2 DEF Shape, Handler
    <3>4. QED
      BY <2>1, <3>3, AloneShape
  <2>4. QED
    BY <1>3, <2>2, <2>3 DEF CallModel
<1>4. CASE FailRequest(s)
  <2>1. /\ sent'[s] = <<>> /\ step'[s] # "save"
        /\ \A q \in Streams \ {s} : /\ step'[q] = step[q] /\ bare'[q] = bare[q]
                                    /\ fresh'[q] = fresh[q] /\ sent'[q] = sent[q]
    BY <1>4 DEF FailRequest, GoTo, request, Typed, StreamsTyped, OutputTyped
  <2>2. Open(s)'
    BY <2>1 DEF Open
  <2>3. QED
    BY <2>1, <2>2, OpenShape, AloneShape
<1>5. QED
  BY <1>1, <1>2, <1>3, <1>4 DEF HandlerStep

LEMMA TaskShape ==
  ASSUME Typed, ShapeInv, NEW s \in Streams, ModelStep(s) \/ TaskStep(s)
  PROVE  ShapeInv'
<1>1. CASE Chunk(s)
  <2>1. /\ Open(s) /\ sent[s] \in Seq(Events) /\ sent'[s] = Append(sent[s], "chunk")
        /\ step' = step /\ step[s] = "stream" /\ bare' = bare /\ fresh' = fresh
        /\ \A q \in Streams \ {s} : sent'[q] = sent[q]
    BY <1>1 DEF Chunk, Send, request, ShapeInv, Shape, Typed, OutputTyped
  <2>2. Open(s)'
    BY <2>1 DEF Open
  <2>3. QED
    BY <2>1, <2>2, OpenShape, AloneShape
<1>2. CASE ReadDone(s) \/ StreamBreaks(s)
  <2>1. /\ Open(s) /\ sent' = sent /\ step'[s] # "save" /\ bare' = bare /\ fresh' = fresh
        /\ \A q \in Streams \ {s} : step'[q] = step[q]
    BY <1>2 DEF ReadDone, StreamBreaks, SaveExchange, GoTo, request, ShapeInv, Shape, Typed, StreamsTyped
  <2>2. QED
    BY <2>1, OpenShape, AloneShape DEF Open
<1>3. CASE SaveNothingFound(s) \/ ClearAfterAnswer(s)
  <2>1. /\ sent' = sent /\ bare' = bare /\ fresh' = fresh /\ Shape(s)
        /\ \A q \in Streams \ {s} : step'[q] = step[q]
        /\ \/ step[s] = "save" /\ step'[s] = "clear answer"
           \/ step[s] = "clear answer" /\ step'[s] = IF bare[s] THEN "answered" ELSE "wait"
    BY <1>3 DEF SaveNothingFound, ClearAfterAnswer, GoTo, request, ShapeInv, Typed, StreamsTyped
  <2>2. EndsRight(s)'
    BY <2>1 DEF Shape, EndsRight, Open
  <2>3. Shape(s)'
    BY <2>1, <2>2 DEF Shape, Open, Handler
  <2>4. QED
    BY <2>1, <2>3, AloneShape
<1>4. CASE Close(s)
  <2>1. /\ Open(s) /\ sent[s] \in Seq(Events) /\ sent'[s] = sent[s] \o Closing(s)
        /\ bare' = bare /\ fresh' = fresh /\ step'[s] = IF bare[s] THEN "save" ELSE "answered"
        /\ \A q \in Streams \ {s} : step'[q] = step[q] /\ sent'[q] = sent[q]
    BY <1>4 DEF Close, GoTo, request, ShapeInv, Shape, Typed, StreamsTyped, OutputTyped
  <2>2. EndsRight(s)'
    <3>1. CASE naming[s] = "ready"
      <4>1. fresh[s] /\ Closing(s) = <<"title", "done">>
        BY <3>1 DEF Closing, Typed, StreamsTyped
      <4>2. /\ Len(sent'[s]) = Len(sent[s]) + 2 /\ Len(sent[s]) \in Nat
            /\ sent'[s][Len(sent[s]) + 1] = "title" /\ sent'[s][Len(sent[s]) + 2] = "done"
            /\ \A i \in 1..Len(sent[s]) : sent'[s][i] = sent[s][i]
        BY <2>1, <4>1
      <4>3. ASSUME NEW i \in 1..Len(sent'[s])
            PROVE  /\ sent'[s][i] \in {"done", "error"} => i = Len(sent[s]) + 2
                   /\ sent'[s][i] = "title" => i = Len(sent[s]) + 1
        <5>1. CASE i \in 1..Len(sent[s])
          BY <2>1, <4>2, <5>1 DEF Open
        <5>2. CASE i = Len(sent[s]) + 1 \/ i = Len(sent[s]) + 2
          BY <4>2, <5>2
        <5>3. QED
          BY <4>2, <5>1, <5>2
      <4>4. ASSUME NEW i \in 1..Len(sent'[s]), sent'[s][i] = "title" PROVE sent'[s][i + 1] = "done"
        <5>1. i = Len(sent[s]) + 1 /\ i + 1 = Len(sent[s]) + 2
          BY <4>2, <4>3, <4>4
        <5>2. QED
          BY <4>2, <5>1
      <4>5. step'[s] \in {"save", "clear answer", "answered", "failed"} /\ fresh'[s]
        BY <2>1, <4>1
      <4>6. QED
        BY <4>2, <4>3, <4>4, <4>5 DEF EndsRight
    <3>2. CASE naming[s] # "ready"
      <4>1. Closing(s) = <<"done">>
        BY <3>2 DEF Closing
      <4>2. /\ Len(sent'[s]) = Len(sent[s]) + 1 /\ Len(sent[s]) \in Nat
            /\ sent'[s][Len(sent[s]) + 1] = "done"
            /\ \A i \in 1..Len(sent[s]) : sent'[s][i] = sent[s][i]
        BY <2>1, <4>1
      <4>3. ASSUME NEW i \in 1..Len(sent'[s])
            PROVE  i = Len(sent'[s]) \/ sent'[s][i] \notin {"title", "done", "error"}
        <5>1. CASE i \in 1..Len(sent[s])
          BY <2>1, <4>2, <5>1 DEF Open
        <5>2. QED
          BY <4>2, <5>1
      <4>4. QED
        BY <4>2, <4>3 DEF EndsRight
    <3>3. QED
      BY <3>1, <3>2
  <2>3. Shape(s)'
    BY <2>1, <2>2 DEF Shape, Handler
  <2>4. QED
    BY <2>1, <2>3, AloneShape
<1>5. QED
  BY <1>1, <1>2, <1>3, <1>4 DEF ModelStep, TaskStep

\* The process stops: a stream breaks off where it was.
LEMMA RestartShape ==
  ASSUME Typed, ShapeInv, Restart
  PROVE  ShapeInv'
<1> SUFFICES ASSUME NEW s \in Streams PROVE Shape(s)'
  BY DEF ShapeInv
<1>1. /\ Shape(s) /\ sent' = sent /\ bare' = bare /\ fresh' = fresh
      /\ step'[s] = step[s] \/ step'[s] = "failed"
  BY DEF Restart, request, ShapeInv
<1>2. CASE step'[s] = step[s]
  BY <1>1, <1>2, RestShape
<1>3. CASE step'[s] = "failed"
  <2>1. EndsRight(s)'
    BY <1>1, <1>3 DEF Shape, EndsRight
  <2>2. QED
    BY <1>3, <2>1 DEF Shape, Handler
<1>4. QED
  BY <1>1, <1>2, <1>3

LEMMA NextShape ==
  ASSUME Typed, ShapeInv, [Next]_vars
  PROVE  ShapeInv'
<1>1. CASE \/ \E s \in Streams : TitleStep(s)
           \/ \E r \in Readers : ReaderStep(r)
           \/ \E c \in Callers : CallerStep(c)
           \/ \E t \in Threads : Expire(t)
           \/ \E l \in Limits : ExpireList(l)
           \/ UNCHANGED vars
  <2>1. step' = step /\ sent' = sent /\ bare' = bare /\ fresh' = fresh
    BY <1>1 DEF TitleStep, NameThread, ClearAfterTitle, ReaderStep, MissPage, QueryPage, FillPage, MissList,
                QueryList, FillList, CallerStep, RenameThread, DeleteThread, ClearAfterRename,
                ClearAfterDelete, Expire, ExpireList, vars, request
  <2>2. QED
    BY <2>1, RestShape DEF ShapeInv
<1>2. QED
  BY <1>1, HandlerShape, TaskShape, RestartShape DEF Next

\* However the requests, the title tasks and restarts interleave, done or an error ends a stream, and
\* a title comes right before done and only for a thread the request created (routes/chat.rs:321).
THEOREM StreamsEndRight == Spec => []TitleThenDone
<1>1. Init => ShapeInv
  BY DEF Init, ShapeInv, Shape, Open, EndsRight, Handler
<1>2. Spec => [](Typed /\ ShapeInv)
  BY <1>1, InitTyped, NextTyped, NextShape, PTL DEF Spec
<1>3. ShapeInv => TitleThenDone
  BY DEF ShapeInv, Shape, EndsRight, TitleThenDone
<1>4. QED
  BY <1>2, <1>3, PTL

-------------------------------------------------------------------------------
(* The cached pages. *)

\* The page of thread t is in doubt, true or about to be deleted.
PageFine(t) ==
    t \in doubtful \/ page[t] = NoPage \/ page[t].rows = MessagesOf(t, page[t].limit) \/ PageDeleteDue(t)

\* A thread that is not there has no rows, and a request is at work in one that is there.
Placed ==
    /\ \A t \in Threads : thread[t] = "absent" => messages[t] = <<>>
    /\ \A s \in Streams : step[s] # "idle" => thread[target[s]] # "absent"

PagesInv == Placed /\ \A t \in Threads : PageFine(t)

\* A step that leaves the rows and the page of a thread alone, and loses no delete of it.
LEMMA PageRests ==
  ASSUME NEW t \in Threads, PageFine(t), thread'[t] = thread[t], messages'[t] = messages[t],
         page'[t] = page[t], t \in doubtful => t \in doubtful',
         PageDeleteDue(t) => t \in doubtful' \/ PageDeleteDue(t)'
  PROVE  PageFine(t)'
  BY DEF PageFine, MessagesOf

\* The deletes of a page leave the other pages alone and lose no doubt about them.
LEMMA OtherPagesRest ==
  ASSUME Typed, NEW k \in Threads, NEW t \in Threads, t # k, DropPageAndLists(k)
  PROVE  page'[t] = page[t] /\ (t \in doubtful => t \in doubtful')
  BY ChatAssumption DEF DropPageAndLists, Typed, CachesTyped

LEMMA PageIsDropped ==
  ASSUME Typed, NEW k \in Threads, DropPageAndLists(k)
  PROVE  PageFine(k)'
  BY DEF DropPageAndLists, PageFine, Typed, CachesTyped

LEMMA DropListsKeepsDoubt ==
  ASSUME Typed, NEW t \in Threads, DropLists
  PROVE  page' = page /\ (t \in doubtful => t \in doubtful')
  BY ChatAssumption DEF DropLists

\* The steps that change no row and no page.
LEMMA QuietPages ==
  ASSUME Typed, PagesInv, UNCHANGED <<thread, messages, page>>,
         \A t \in Threads : /\ t \in doubtful => t \in doubtful'
                            /\ PageDeleteDue(t) => t \in doubtful' \/ PageDeleteDue(t)',
         \A s \in Streams : step'[s] # "idle" => thread[target'[s]] # "absent"
  PROVE  PagesInv'
<1>1. \A t \in Threads : PageFine(t)'
  BY PageRests DEF PagesInv
<1>2. Placed'
  BY DEF PagesInv, Placed
<1>3. QED
  BY <1>1, <1>2 DEF PagesInv

LEMMA HandlerPages ==
  ASSUME Typed, PagesInv, NEW s \in Streams,
         \/ \E t \in Threads : OpenThread(s, t)
         \/ \E found \in BOOLEAN : RecallAndSearch(s, found)
         \/ CallModel(s) \/ Chunk(s) \/ Close(s) \/ FailRequest(s)
  PROVE  PagesInv'
<1>1. UNCHANGED <<thread, messages, page>> /\ calling' = calling
  BY DEF OpenThread, RecallAndSearch, CallModel, Chunk, Close, FailRequest, tables, redis
<1>2. /\ \A q \in Streams \ {s} : step'[q] = step[q] /\ target'[q] = target[q]
      /\ step'[s] # "idle" => thread[target'[s]] # "absent"
      /\ doubtful \subseteq doubtful'
      /\ \A t \in Threads : target[s] = t /\ step[s] = "clear question" => t \in doubtful'
      /\ step[s] # "clear answer"
  <2>1. ASSUME NEW t \in Threads, OpenThread(s, t) PROVE <1>2!:
    BY <2>1 DEF OpenThread, GoTo, redis, Typed, StreamsTyped
  <2>2. CASE (\E found \in BOOLEAN : RecallAndSearch(s, found)) \/ CallModel(s) \/ Chunk(s) \/ Close(s)
    BY <2>2 DEF RecallAndSearch, CallModel, Chunk, Close, GoTo, redis, request, Typed, StreamsTyped, PagesInv, Placed
  <2>3. CASE FailRequest(s)
    BY <2>3 DEF FailRequest, GoTo, request, Typed, StreamsTyped, PagesInv, Placed, Handler
  <2>4. QED
    BY <2>1, <2>2, <2>3
<1>3. \A q \in Streams : step'[q] # "idle" => thread[target'[q]] # "absent"
  BY <1>2 DEF PagesInv, Placed
<1>4. ASSUME NEW t \in Threads, PageDeleteDue(t) PROVE t \in doubtful' \/ PageDeleteDue(t)'
  BY <1>1, <1>2, <1>4 DEF PageDeleteDue
<1>5. QED
  BY <1>1, <1>2, <1>3, <1>4, QuietPages

LEMMA CreatePages ==
  ASSUME Typed, PagesInv, NEW s \in Streams, NEW k \in Threads, CreateThread(s, k)
  PROVE  PagesInv'
<1>1. /\ thread[k] = "absent" /\ thread'[k] = "open" /\ \A t \in Threads \ {k} : thread'[t] = thread[t]
      /\ step[s] = "idle" /\ target'[s] = k
      /\ \A q \in Streams \ {s} : step'[q] = step[q] /\ target'[q] = target[q]
      /\ UNCHANGED <<messages, page, doubtful, calling>>
  BY DEF CreateThread, GoTo, redis, Typed, TablesTyped, StreamsTyped
<1>2. ASSUME NEW t \in Threads PROVE PageFine(t)'
  <2>1. PageDeleteDue(t) => PageDeleteDue(t)'
    BY <1>1 DEF PageDeleteDue
  <2>2. CASE t # k
    BY <1>1, <2>1, <2>2, PageRests DEF PagesInv
  <2>3. CASE t = k /\ page[k] # NoPage
    <3>1. page[k].limit \in Nat /\ messages[k] = <<>>
      BY <1>1, <2>3, ChatAssumption DEF Typed, CachesTyped, Pages, PagesInv, Placed
    <3>2. NewestRows(messages[k], page[k].limit) = <<>>
      BY <3>1 DEF NewestRows
    <3>3. MessagesOf(k, page[k].limit)' = <<>> /\ MessagesOf(k, page[k].limit) = <<>>
      BY <1>1, <3>2 DEF MessagesOf
    <3>4. QED
      BY <1>1, <2>1, <2>3, <3>3 DEF PagesInv, PageFine
  <2>4. CASE t = k /\ page[k] = NoPage
    BY <1>1, <2>4 DEF PageFine
  <2>5. QED
    BY <2>2, <2>3, <2>4
<1>3. Placed'
  <2>1. \A q \in Streams : step'[q] # "idle" => thread'[target'[q]] # "absent"
    <3> SUFFICES ASSUME NEW q \in Streams, step'[q] # "idle" PROVE thread'[target'[q]] # "absent"
      OBVIOUS
    <3>1. CASE q = s
      BY <1>1, <3>1
    <3>2. CASE q # s
      BY <1>1, <3>2 DEF PagesInv, Placed, Typed, StreamsTyped
    <3>3. QED
      BY <3>1, <3>2
  <2>2. QED
    BY <1>1, <2>1 DEF PagesInv, Placed
<1>4. QED
  BY <1>2, <1>3 DEF PagesInv

\* A row is added to a thread whose page will be deleted, or the statement failed.
LEMMA InsertPages ==
  ASSUME Typed, PagesInv, NEW s \in Streams, NEW r \in Rows, step[s] # "idle",
         step[s] \notin {"clear question", "clear answer"},
         step'[s] \in {"clear question", "clear answer"},
         \A q \in Streams \ {s} : step'[q] = step[q],
         InsertMessage(target[s], r) \/ messages' = messages,
         UNCHANGED <<thread, page, doubtful, calling, target>>
  PROVE  PagesInv'
<1>1. target[s] \in Threads /\ thread[target[s]] # "absent"
  BY DEF PagesInv, Placed, Typed, StreamsTyped
<1>2. \A t \in Threads \ {target[s]} : messages'[t] = messages[t]
  BY <1>1 DEF InsertMessage, Typed, TablesTyped
<1>3. ASSUME NEW t \in Threads PROVE PageFine(t)'
  <2>1. CASE t = target[s]
    BY <2>1 DEF PageFine, PageDeleteDue
  <2>2. CASE t # target[s]
    <3>1. PageDeleteDue(t) => PageDeleteDue(t)'
      BY <2>2 DEF PageDeleteDue
    <3>2. QED
      BY <1>2, <2>2, <3>1, PageRests DEF PagesInv
  <2>3. QED
    BY <2>1, <2>2
<1>4. Placed'
  BY <1>1, <1>2 DEF PagesInv, Placed
<1>5. QED
  BY <1>3, <1>4 DEF PagesInv

LEMMA SavePages ==
  ASSUME Typed, PagesInv, NEW s \in Streams,
         SaveQuestion(s) \/ ReadDone(s) \/ StreamBreaks(s) \/ SaveNothingFound(s)
  PROVE  PagesInv'
<1> DEFINE asked == [role |-> "user", of |-> s, size |-> 0]
           answered == [role |-> "assistant", of |-> s, size |-> answer[s]]
<1>1. asked \in Rows /\ answered \in Rows
  <2>1. 0 \in 0..MaxChunks /\ answer[s] \in 0..MaxChunks
    BY ChatAssumption DEF Typed, OutputTyped
  <2>2. QED
    BY <2>1 DEF Rows
<1>2. CASE SaveQuestion(s)
  <2>1. /\ step[s] = "insert" /\ step'[s] = "clear question" /\ InsertMessage(target[s], asked)
        /\ \A q \in Streams \ {s} : step'[q] = step[q]
        /\ UNCHANGED <<thread, page, doubtful, calling, target>>
    BY <1>2 DEF SaveQuestion, GoTo, redis, request, Typed, StreamsTyped
  <2>2. QED
    <3> HIDE DEF asked
    <3>1. QED
      BY <1>1, <2>1, InsertPages
<1>3. CASE ReadDone(s) \/ SaveNothingFound(s) \/ (StreamBreaks(s) /\ SaveExchange(s))
  <2>1. /\ step[s] \in {"stream", "save"} /\ step'[s] = "clear answer"
        /\ InsertMessage(target[s], answered) \/ messages' = messages
        /\ \A q \in Streams \ {s} : step'[q] = step[q]
        /\ UNCHANGED <<thread, page, doubtful, calling, target>>
    BY <1>3 DEF ReadDone, StreamBreaks, SaveNothingFound, SaveExchange, GoTo, redis, request, Typed, StreamsTyped
  <2>2. QED
    <3> HIDE DEF answered
    <3>1. QED
      BY <1>1, <2>1, InsertPages
<1>4. CASE StreamBreaks(s) /\ GoTo(s, "wait") /\ messages' = messages
  <2>1. /\ step[s] = "stream" /\ UNCHANGED <<thread, messages, page, doubtful, calling, target>>
        /\ \A q \in Streams \ {s} : step'[q] = step[q]
    BY <1>4 DEF StreamBreaks, GoTo, redis, request, Typed, StreamsTyped
  <2>2. \A t \in Threads : PageDeleteDue(t) => PageDeleteDue(t)'
    BY <2>1 DEF PageDeleteDue
  <2>3. \A q \in Streams : step'[q] # "idle" => thread[target'[q]] # "absent"
    BY <2>1 DEF PagesInv, Placed
  <2>4. QED
    BY <2>1, <2>2, <2>3, QuietPages
<1>5. QED
  BY <1>2, <1>3, <1>4 DEF StreamBreaks

LEMMA ClearPages ==
  ASSUME Typed, PagesInv, NEW s \in Streams, ClearAfterQuestion(s) \/ ClearAfterAnswer(s)
  PROVE  PagesInv'
<1> DEFINE k == target[s]
<1>1. /\ step[s] # "idle" /\ DropPageAndLists(k)
      /\ \A q \in Streams \ {s} : step'[q] = step[q]
      /\ UNCHANGED <<thread, messages, calling, target>>
  BY DEF ClearAfterQuestion, ClearAfterAnswer, GoTo, tables, request, Typed, StreamsTyped
<1>2. k \in Threads
  BY <1>1 DEF Typed, StreamsTyped
<1>3. ASSUME NEW t \in Threads PROVE PageFine(t)'
  <2>1. CASE t = k
    BY <1>1, <2>1, PageIsDropped
  <2>2. CASE t # k
    <3>1. page'[t] = page[t] /\ (t \in doubtful => t \in doubtful')
      BY <1>1, <1>2, <2>2, OtherPagesRest
    <3>2. PageDeleteDue(t) => PageDeleteDue(t)'
      BY <1>1, <2>2 DEF PageDeleteDue
    <3>3. QED
      BY <1>1, <3>1, <3>2, PageRests DEF PagesInv
  <2>3. QED
    BY <2>1, <2>2
<1>4. Placed'
  BY <1>1 DEF PagesInv, Placed
<1>5. QED
  BY <1>3, <1>4 DEF PagesInv

LEMMA TitlePages ==
  ASSUME Typed, PagesInv, NEW s \in Streams, TitleStep(s)
  PROVE  PagesInv'
<1>1. UNCHANGED <<thread, messages, page, step, target, calling>>
  BY DropListsKeepsDoubt DEF TitleStep, NameThread, ClearAfterTitle, DropLists, tables, redis, request
<1>2. \A t \in Threads : t \in doubtful => t \in doubtful'
  BY DropListsKeepsDoubt DEF TitleStep, NameThread, ClearAfterTitle, redis
<1>3. \A t \in Threads : PageDeleteDue(t) => PageDeleteDue(t)'
  BY <1>1 DEF PageDeleteDue
<1>4. QED
  BY <1>1, <1>2, <1>3, QuietPages DEF PagesInv, Placed

LEMMA RestartPages ==
  ASSUME Typed, PagesInv, Restart
  PROVE  PagesInv'
<1>1. UNCHANGED <<thread, messages, page, target>> /\ Threads \subseteq doubtful'
  BY DEF Restart, tables, request
<1>2. \A s \in Streams : step'[s] # "idle" => step[s] # "idle"
  BY DEF Restart
<1>3. QED
  BY <1>1, <1>2, QuietPages DEF PagesInv, Placed

LEMMA ReaderPages ==
  ASSUME Typed, PagesInv, NEW r \in Readers, ReaderStep(r)
  PROVE  PagesInv'
<1>1. UNCHANGED <<thread, messages, step, target, calling>>
  BY DEF ReaderStep, MissPage, QueryPage, FillPage, MissList, QueryList, FillList, tables, request
<1>2. \A t \in Threads : PageDeleteDue(t) => PageDeleteDue(t)'
  BY <1>1 DEF PageDeleteDue
<1>3. CASE FillPage(r)
  <2>1. PICK key \in Threads : key = reading[r].key
    BY <1>3, ReadFits DEF FillPage, Typed, GuestsTyped
  <2>2. PageFine(key)'
    <3>1. /\ page'[key].limit = reading[r].limit /\ page'[key].rows = reading[r].rows
          /\ reading[r].rows = MessagesOf(key, reading[r].limit) \/ key \in doubtful'
      BY <1>3, <2>1 DEF FillPage, Typed, CachesTyped
    <3>2. QED
      <4>1. CASE key \in doubtful'
        BY <4>1 DEF PageFine
      <4>2. CASE reading[r].rows = MessagesOf(key, reading[r].limit)
        <5>1. page'[key].rows = MessagesOf(key, page'[key].limit)
          BY <3>1, <4>2
        <5>2. MessagesOf(key, page[key].limit)' = MessagesOf(key, page'[key].limit)
          BY <1>1 DEF MessagesOf
        <5>3. QED
          BY <5>1, <5>2 DEF PageFine
      <4>3. QED
        BY <3>1, <4>1, <4>2
  <2>3. ASSUME NEW t \in Threads \ {key} PROVE PageFine(t)'
    <3>1. page'[t] = page[t] /\ (t \in doubtful => t \in doubtful')
      BY <1>3, <2>1, <2>3 DEF FillPage, Typed, CachesTyped
    <3>2. QED
      BY <1>1, <1>2, <3>1, PageRests DEF PagesInv
  <2>4. QED
    BY <1>1, <2>2, <2>3 DEF PagesInv, Placed
<1>4. CASE ~FillPage(r)
  <2>1. page' = page
    BY <1>4 DEF ReaderStep, MissPage, QueryPage, MissList, QueryList, FillList, redis
  <2>2. \A t \in Threads : t \in doubtful => t \in doubtful'
    <3>1. CASE FillList(r)
      <4>1. reading[r].key \in Limits
        BY <3>1, ReadFits DEF FillList, Typed, GuestsTyped
      <4>2. QED
        BY <3>1, <4>1, ChatAssumption DEF FillList
    <3>2. CASE ~FillList(r)
      BY <1>4, <3>2 DEF ReaderStep, MissPage, QueryPage, MissList, QueryList, redis
    <3>3. QED
      BY <3>1, <3>2
  <2>3. QED
    BY <1>1, <1>2, <2>1, <2>2, QuietPages DEF PagesInv, Placed
<1>5. QED
  BY <1>3, <1>4

LEMMA CallerPages ==
  ASSUME Typed, PagesInv, NEW c \in Callers, CallerStep(c)
  PROVE  PagesInv'
<1>1. ASSUME NEW t \in Threads, RenameThread(c, t) PROVE PagesInv'
  <2>1. UNCHANGED <<thread, messages, page, doubtful, step, target>>
    BY <1>1 DEF RenameThread, redis, request
  <2>2. /\ calling[c] = Idle /\ \A d \in Callers \ {c} : calling'[d] = calling[d]
        /\ \A u \in Threads : calling[c] # [at |-> "deleted", key |-> u]
    BY <1>1 DEF RenameThread, Idle, Typed, GuestsTyped
  <2>3. \A u \in Threads : PageDeleteDue(u) => PageDeleteDue(u)'
    BY <2>1, <2>2 DEF PageDeleteDue
  <2>4. QED
    BY <2>1, <2>3, QuietPages DEF PagesInv, Placed
<1>2. ASSUME NEW t \in Threads, DeleteThread(c, t) PROVE PagesInv'
  <2>1. UNCHANGED <<messages, page, doubtful, step, target>>
    BY <1>2 DEF DeleteThread, redis, request
  <2>2. /\ thread[t] = "open" /\ thread'[t] = "deleted" /\ \A u \in Threads \ {t} : thread'[u] = thread[u]
        /\ calling'[c] = [at |-> "deleted", key |-> t]
        /\ \A d \in Callers \ {c} : calling'[d] = calling[d]
        /\ \A u \in Threads : calling[c] # [at |-> "deleted", key |-> u]
    BY <1>2 DEF DeleteThread, Idle, Typed, GuestsTyped, TablesTyped
  <2>3. PageFine(t)'
    BY <2>2 DEF PageFine, PageDeleteDue
  <2>4. ASSUME NEW u \in Threads \ {t} PROVE PageFine(u)'
    <3>1. PageDeleteDue(u) => PageDeleteDue(u)'
      BY <2>1, <2>2 DEF PageDeleteDue
    <3>2. QED
      BY <2>1, <2>2, <3>1, PageRests DEF PagesInv
  <2>5. Placed'
    BY <2>1, <2>2 DEF PagesInv, Placed, Typed, StreamsTyped
  <2>6. QED
    BY <2>3, <2>4, <2>5 DEF PagesInv
<1>3. CASE ClearAfterRename(c)
  <2>1. UNCHANGED <<thread, messages, page, step, target>>
    BY <1>3 DEF ClearAfterRename, DropLists, tables, request
  <2>2. \A t \in Threads : t \in doubtful => t \in doubtful'
    BY <1>3, DropListsKeepsDoubt DEF ClearAfterRename
  <2>3. /\ \A d \in Callers \ {c} : calling'[d] = calling[d]
        /\ \A u \in Threads : calling[c] # [at |-> "deleted", key |-> u]
    BY <1>3 DEF ClearAfterRename, Typed, GuestsTyped
  <2>4. \A t \in Threads : PageDeleteDue(t) => PageDeleteDue(t)'
    BY <2>1, <2>3 DEF PageDeleteDue
  <2>5. QED
    BY <2>1, <2>2, <2>4, QuietPages DEF PagesInv, Placed
<1>4. CASE ClearAfterDelete(c)
  <2>1. PICK k \in Threads : k = calling[c].key /\ calling[c] = [at |-> "deleted", key |-> k]
    BY <1>4 DEF ClearAfterDelete, Typed, GuestsTyped, Calls, Idle, Over
  <2>2. /\ DropPageAndLists(k) /\ UNCHANGED <<thread, messages, step, target>>
        /\ \A d \in Callers \ {c} : calling'[d] = calling[d]
    BY <1>4, <2>1 DEF ClearAfterDelete, tables, request, Typed, GuestsTyped
  <2>3. ASSUME NEW t \in Threads, t # k PROVE PageFine(t)'
    <3>1. page'[t] = page[t] /\ (t \in doubtful => t \in doubtful')
      BY <2>1, <2>2, <2>3, OtherPagesRest
    <3>2. calling[c] # [at |-> "deleted", key |-> t]
      BY <2>1, <2>3
    <3>3. PageDeleteDue(t) => PageDeleteDue(t)'
      BY <2>2, <3>2 DEF PageDeleteDue
    <3>4. QED
      BY <2>2, <3>1, <3>3, PageRests DEF PagesInv
  <2>4. PageFine(k)'
    BY <2>1, <2>2, PageIsDropped
  <2>5. QED
    BY <2>2, <2>3, <2>4 DEF PagesInv, Placed
<1>5. QED
  BY <1>1, <1>2, <1>3, <1>4 DEF CallerStep

LEMMA ExpirePages ==
  ASSUME Typed, PagesInv, (\E t \in Threads : Expire(t)) \/ (\E l \in Limits : ExpireList(l))
  PROVE  PagesInv'
<1>1. UNCHANGED <<thread, messages, step, target, calling>>
  BY DEF Expire, ExpireList, tables, request
<1>2. \A t \in Threads : PageDeleteDue(t) => PageDeleteDue(t)'
  BY <1>1 DEF PageDeleteDue
<1>3. ASSUME NEW k \in Threads, Expire(k) PROVE PagesInv'
  <2>1. page'[k] = NoPage /\ \A t \in Threads \ {k} : page'[t] = page[t] /\ (t \in doubtful => t \in doubtful')
    BY <1>3 DEF Expire, Typed, CachesTyped
  <2>2. ASSUME NEW t \in Threads PROVE PageFine(t)'
    <3>1. CASE t = k
      BY <2>1, <3>1 DEF PageFine
    <3>2. CASE t # k
      BY <1>1, <1>2, <2>1, <3>2, PageRests DEF PagesInv
    <3>3. QED
      BY <3>1, <3>2
  <2>3. QED
    BY <1>1, <2>2 DEF PagesInv, Placed
<1>4. ASSUME NEW l \in Limits, ExpireList(l) PROVE PagesInv'
  <2>1. page' = page /\ \A t \in Threads : t \in doubtful => t \in doubtful'
    BY <1>4, ChatAssumption DEF ExpireList
  <2>2. QED
    BY <1>1, <1>2, <2>1, QuietPages DEF PagesInv, Placed
<1>5. QED
  BY <1>3, <1>4

LEMMA NextPages ==
  ASSUME Typed, PagesInv, [Next]_vars
  PROVE  PagesInv'
<1>1. ASSUME NEW s \in Streams,
             Start(s) \/ HandlerStep(s) \/ FailRequest(s) \/ ModelStep(s) \/ TaskStep(s) \/ TitleStep(s)
      PROVE  PagesInv'
  BY <1>1, HandlerPages, CreatePages, SavePages, ClearPages, TitlePages
     DEF Start, HandlerStep, ModelStep, TaskStep
<1>2. CASE UNCHANGED vars
  <2>1. /\ UNCHANGED <<thread, messages, page, doubtful, step, target, calling>>
    BY <1>2 DEF vars, tables, redis, request
  <2>2. \A t \in Threads : PageDeleteDue(t) => PageDeleteDue(t)'
    BY <2>1 DEF PageDeleteDue
  <2>3. QED
    BY <2>1, <2>2, QuietPages DEF PagesInv, Placed
<1>3. QED
  BY <1>1, <1>2, ReaderPages, CallerPages, ExpirePages, RestartPages DEF Next

\* However readers, requests, deletes and restarts interleave, a cached page shows what the tables
\* hold, or its delete is on its way, or it is one of those nobody will delete (routes/chat.rs:255,
\* :412, :657, :734, :165).
THEOREM PagesAreHonest == Spec => []PagesHonest
<1>1. Init => PagesInv
  BY DEF Init, PagesInv, Placed, PageFine
<1>2. Spec => [](Typed /\ PagesInv)
  BY <1>1, InitTyped, NextTyped, NextPages, PTL DEF Spec
<1>3. PagesInv => PagesHonest
  BY DEF PagesInv, PageFine, PagesHonest
<1>4. QED
  BY <1>2, <1>3, PTL

-------------------------------------------------------------------------------
(* The cached lists. *)

\* The list of limit l is in doubt, true or about to be deleted.
ListFine(l) == l \in doubtful \/ list[l] = NoPage \/ list[l] = ThreadList \/ ListDeleteDue

\* A thread is named only after its request has read the history.
NamedLate == \A s \in Streams : step[s] \in {"idle", "insert", "clear question", "recall"} => naming[s] = "none"

ListsInv == NamedLate /\ \A l \in KnownLimits : ListFine(l)

\* A step that leaves the threads and the lists alone, and loses no delete of them.
LEMMA QuietLists ==
  ASSUME Typed, ListsInv, UNCHANGED <<thread, title, list>>,
         \A l \in KnownLimits : l \in doubtful => l \in doubtful',
         ListDeleteDue => KnownLimits \subseteq doubtful' \/ ListDeleteDue',
         NamedLate'
  PROVE  ListsInv'
<1>1. ThreadList' = ThreadList
  BY DEF ThreadList
<1>2. ASSUME NEW l \in KnownLimits PROVE ListFine(l)'
  BY <1>1 DEF ListsInv, ListFine
<1>3. QED
  BY <1>2 DEF ListsInv

\* After the deletes of the lists, or their failure, every list is gone or in doubt.
LEMMA ListsAreDropped ==
  ASSUME Typed, DropLists \/ \E t \in Threads : DropPageAndLists(t), NEW l \in KnownLimits
  PROVE  ListFine(l)'
  BY ChatAssumption DEF DropLists, DropPageAndLists, ListFine

\* The steps of a request that has no list to delete before it, or still has after it.
LEMMA StreamLists ==
  ASSUME Typed, ListsInv, NEW s \in Streams,
         \/ \E t \in Threads : OpenThread(s, t)
         \/ SaveQuestion(s) \/ CallModel(s) \/ Chunk(s) \/ ReadDone(s) \/ StreamBreaks(s)
         \/ SaveNothingFound(s) \/ Close(s)
         \/ \E found \in BOOLEAN : RecallAndSearch(s, found)
  PROVE  ListsInv'
<1>1. /\ UNCHANGED <<thread, title, list, doubtful, calling, fresh>>
      /\ \A q \in Streams \ {s} : step'[q] = step[q] /\ naming'[q] = naming[q]
  BY DEF OpenThread, SaveQuestion, CallModel, Chunk, ReadDone, StreamBreaks, SaveNothingFound, Close,
         RecallAndSearch, SaveExchange, GoTo, tables, redis, request, Typed, StreamsTyped
<1>2. CASE \E found \in BOOLEAN : RecallAndSearch(s, found)
  <2>1. step[s] = "recall" /\ naming[s] = "none" /\ step'[s] \in {"rerank", "wait"}
    BY <1>2 DEF RecallAndSearch, GoTo, ListsInv, NamedLate, Typed, StreamsTyped
  <2>2. ListDeleteDue => ListDeleteDue'
    BY <1>1, <2>1 DEF ListDeleteDue
  <2>3. NamedLate'
    BY <1>1, <2>1 DEF ListsInv, NamedLate
  <2>4. QED
    BY <1>1, <2>2, <2>3, QuietLists
<1>3. CASE ~\E found \in BOOLEAN : RecallAndSearch(s, found)
  <2>1. /\ naming' = naming
        /\ step[s] \in {"insert", "clear question"} => step'[s] \in {"insert", "clear question"}
        /\ step'[s] \in {"idle", "insert", "clear question", "recall"}
              => step[s] \in {"idle", "insert", "clear question", "recall"}
    BY <1>3 DEF OpenThread, SaveQuestion, CallModel, Chunk, ReadDone, StreamBreaks, SaveNothingFound, Close,
                SaveExchange, GoTo, Typed, StreamsTyped
  <2>2. ListDeleteDue => ListDeleteDue'
    BY <1>1, <2>1 DEF ListDeleteDue
  <2>3. NamedLate'
    BY <1>1, <2>1 DEF ListsInv, NamedLate
  <2>4. QED
    BY <1>1, <2>2, <2>3, QuietLists
<1>4. QED
  BY <1>2, <1>3

LEMMA FailLists ==
  ASSUME Typed, ListsInv, (\E s \in Streams : FailRequest(s)) \/ Restart
  PROVE  ListsInv'
<1>1. CASE Restart
  <2>1. UNCHANGED <<thread, title, list>> /\ KnownLimits \subseteq doubtful' /\ NamedLate'
    BY <1>1 DEF Restart, tables, NamedLate
  <2>2. QED
    BY <2>1, QuietLists
<1>2. ASSUME NEW s \in Streams, FailRequest(s) PROVE ListsInv'
  <2>1. /\ UNCHANGED <<thread, title, list, calling, fresh, naming>> /\ doubtful \subseteq doubtful'
        /\ \A q \in Streams \ {s} : step'[q] = step[q]
        /\ step'[s] = "failed"
        /\ fresh[s] /\ step[s] \in {"insert", "clear question"} => KnownLimits \subseteq doubtful'
    BY <1>2 DEF FailRequest, GoTo, tables, request, Typed, StreamsTyped
  <2>2. ListDeleteDue => KnownLimits \subseteq doubtful' \/ ListDeleteDue'
    BY <2>1 DEF ListDeleteDue
  <2>3. NamedLate'
    BY <2>1 DEF ListsInv, NamedLate
  <2>4. QED
    BY <2>1, <2>2, <2>3, QuietLists
<1>3. QED
  BY <1>1, <1>2

\* Whoever changes a thread or its title has the lists to delete.
LEMMA ChangeLists ==
  ASSUME Typed, ListsInv,
         \/ \E s \in Streams : NameThread(s) \/ \E t \in Threads : CreateThread(s, t)
         \/ \E c \in Callers, t \in Threads : RenameThread(c, t) \/ DeleteThread(c, t)
  PROVE  ListsInv'
<1>1. ASSUME NEW s \in Streams, NameThread(s) PROVE ListsInv'
  <2>1. naming[s] = "asking" /\ naming'[s] = "clearing" /\ step' = step
        /\ \A q \in Streams \ {s} : naming'[q] = naming[q]
    BY <1>1 DEF NameThread, Typed, StreamsTyped
  <2>2. ListDeleteDue' /\ NamedLate'
    BY <2>1 DEF ListDeleteDue, ListsInv, NamedLate
  <2>3. QED
    BY <2>2 DEF ListsInv, ListFine
<1>2. ASSUME NEW s \in Streams, NEW t \in Threads, CreateThread(s, t) PROVE ListsInv'
  <2>1. step[s] = "idle" /\ step'[s] = "insert" /\ fresh'[s] /\ naming' = naming
        /\ \A q \in Streams \ {s} : step'[q] = step[q]
    BY <1>2 DEF CreateThread, GoTo, Typed, StreamsTyped
  <2>2. ListDeleteDue' /\ NamedLate'
    BY <2>1 DEF ListDeleteDue, ListsInv, NamedLate
  <2>3. QED
    BY <2>2 DEF ListsInv, ListFine
<1>3. ASSUME NEW c \in Callers, NEW t \in Threads, RenameThread(c, t) \/ DeleteThread(c, t) PROVE ListsInv'
  <2>1. calling'[c].at \in {"deleted", "renamed"} /\ step' = step /\ naming' = naming
    BY <1>3 DEF RenameThread, DeleteThread, Typed, GuestsTyped
  <2>2. ListDeleteDue' /\ NamedLate'
    BY <2>1 DEF ListDeleteDue, ListsInv, NamedLate
  <2>3. QED
    BY <2>2 DEF ListsInv, ListFine
<1>4. QED
  BY <1>1, <1>2, <1>3

LEMMA ClearLists ==
  ASSUME Typed, ListsInv,
         \/ \E s \in Streams : ClearAfterQuestion(s) \/ ClearAfterAnswer(s) \/ ClearAfterTitle(s)
         \/ \E c \in Callers : ClearAfterRename(c) \/ ClearAfterDelete(c)
  PROVE  ListsInv'
<1>1. ASSUME NEW s \in Streams, ClearAfterQuestion(s) \/ ClearAfterAnswer(s) \/ ClearAfterTitle(s)
      PROVE  ListsInv'
  <2>1. (ClearAfterQuestion(s) \/ ClearAfterAnswer(s)) => target[s] \in Threads
    BY DEF ClearAfterQuestion, ClearAfterAnswer, Typed, StreamsTyped
  <2>2. DropLists \/ \E t \in Threads : DropPageAndLists(t)
    BY <1>1, <2>1 DEF ClearAfterQuestion, ClearAfterAnswer, ClearAfterTitle
  <2>3. CASE ClearAfterTitle(s)
    <3>1. /\ step' = step /\ naming[s] = "clearing"
          /\ \A q \in Streams \ {s} : naming'[q] = naming[q]
      BY <2>3 DEF ClearAfterTitle, Typed, StreamsTyped
    <3>2. NamedLate'
      BY <3>1 DEF ListsInv, NamedLate
    <3>3. QED
      BY <2>2, <3>2, ListsAreDropped DEF ListsInv
  <2>4. CASE ClearAfterQuestion(s) \/ ClearAfterAnswer(s)
    <3>1. /\ naming' = naming /\ \A q \in Streams \ {s} : step'[q] = step[q]
          /\ step[s] = "clear question" \/ step'[s] \in {"answered", "wait"}
      BY <2>4 DEF ClearAfterQuestion, ClearAfterAnswer, GoTo, Typed, StreamsTyped
    <3>2. NamedLate'
      BY <3>1 DEF ListsInv, NamedLate
    <3>3. QED
      BY <2>2, <3>2, ListsAreDropped DEF ListsInv
  <2>5. QED
    BY <1>1, <2>3, <2>4
<1>2. ASSUME NEW c \in Callers, ClearAfterRename(c) \/ ClearAfterDelete(c) PROVE ListsInv'
  <2>1. calling[c].at = "deleted" => calling[c].key \in Threads
    BY DEF Typed, GuestsTyped, Calls, Idle, Over
  <2>2. DropLists \/ \E t \in Threads : DropPageAndLists(t)
    BY <1>2, <2>1 DEF ClearAfterRename, ClearAfterDelete
  <2>3. step' = step /\ naming' = naming
    BY <1>2 DEF ClearAfterRename, ClearAfterDelete
  <2>4. QED
    BY <2>2, <2>3, ListsAreDropped DEF ListsInv, NamedLate
<1>3. QED
  BY <1>1, <1>2

LEMMA ReaderLists ==
  ASSUME Typed, ListsInv, NEW r \in Readers, ReaderStep(r)
  PROVE  ListsInv'
<1>1. UNCHANGED <<thread, title, step, naming, calling, fresh>>
  BY DEF ReaderStep, MissPage, QueryPage, FillPage, MissList, QueryList, FillList, tables, request
<1>2. (ListDeleteDue => ListDeleteDue') /\ NamedLate' /\ ThreadList' = ThreadList
  BY <1>1 DEF ListDeleteDue, ListsInv, NamedLate, ThreadList
<1>3. CASE FillList(r)
  <2>1. PICK key \in Limits : key = reading[r].key
    BY <1>3, ReadFits DEF FillList, Typed, GuestsTyped
  <2>2. /\ list'[key] = ThreadList \/ key \in doubtful'
        /\ \A l \in Limits \ {key} : list'[l] = list[l] /\ (l \in doubtful => l \in doubtful')
    BY <1>3, <2>1 DEF FillList, Typed, CachesTyped
  <2>3. ASSUME NEW l \in KnownLimits PROVE ListFine(l)'
    <3>1. CASE l = key
      BY <1>2, <2>2, <3>1 DEF ListFine
    <3>2. CASE l # key
      BY <1>2, <2>2, <3>2, ChatAssumption DEF ListsInv, ListFine
    <3>3. QED
      BY <3>1, <3>2
  <2>4. QED
    BY <1>2, <2>3 DEF ListsInv
<1>4. CASE ~FillList(r)
  <2>1. list' = list
    BY <1>4 DEF ReaderStep, MissPage, QueryPage, FillPage, MissList, QueryList, redis
  <2>2. \A l \in KnownLimits : l \in doubtful => l \in doubtful'
    <3>1. CASE FillPage(r)
      <4>1. reading[r].key \in Threads
        BY <3>1, ReadFits DEF FillPage, Typed, GuestsTyped
      <4>2. QED
        BY <3>1, <4>1, ChatAssumption DEF FillPage
    <3>2. CASE ~FillPage(r)
      BY <1>4, <3>2 DEF ReaderStep, MissPage, QueryPage, MissList, QueryList, redis
    <3>3. QED
      BY <3>1, <3>2
  <2>3. QED
    BY <1>1, <1>2, <2>1, <2>2, QuietLists
<1>5. QED
  BY <1>3, <1>4

LEMMA ExpireLists ==
  ASSUME Typed, ListsInv, (\E t \in Threads : Expire(t)) \/ (\E l \in Limits : ExpireList(l))
  PROVE  ListsInv'
<1>1. UNCHANGED <<thread, title, step, naming, calling, fresh>>
  BY DEF Expire, ExpireList, tables, request
<1>2. (ListDeleteDue => ListDeleteDue') /\ NamedLate' /\ ThreadList' = ThreadList
  BY <1>1 DEF ListDeleteDue, ListsInv, NamedLate, ThreadList
<1>3. ASSUME NEW l \in KnownLimits
      PROVE  list'[l] = NoPage \/ (list'[l] = list[l] /\ (l \in doubtful => l \in doubtful'))
  BY ChatAssumption DEF Expire, ExpireList, Typed, CachesTyped
<1>4. \A l \in KnownLimits : ListFine(l)'
  BY <1>2, <1>3 DEF ListsInv, ListFine
<1>5. QED
  BY <1>2, <1>4 DEF ListsInv

LEMMA NextLists ==
  ASSUME Typed, ListsInv, [Next]_vars
  PROVE  ListsInv'
<1>1. ASSUME NEW s \in Streams,
             Start(s) \/ HandlerStep(s) \/ FailRequest(s) \/ ModelStep(s) \/ TaskStep(s) \/ TitleStep(s)
      PROVE  ListsInv'
  BY <1>1, StreamLists, FailLists, ChangeLists, ClearLists DEF Start, HandlerStep, ModelStep, TaskStep, TitleStep
<1>2. ASSUME NEW c \in Callers, CallerStep(c) PROVE ListsInv'
  BY <1>2, ChangeLists, ClearLists DEF CallerStep
<1>3. CASE UNCHANGED vars
  <2>1. UNCHANGED <<thread, title, list, doubtful, step, naming, calling, fresh>>
    BY <1>3 DEF vars, tables, redis, request
  <2>2. (ListDeleteDue => ListDeleteDue') /\ NamedLate'
    BY <2>1 DEF ListDeleteDue, ListsInv, NamedLate
  <2>3. QED
    BY <2>1, <2>2, QuietLists
<1>4. QED
  BY <1>1, <1>2, <1>3, ReaderLists, ExpireLists, FailLists DEF Next

\* The same of the thread lists: a list whose key is deleted at all shows the threads and their titles,
\* or its delete is on its way, or nobody will delete it (redis/cache.rs:152).
THEOREM ListsAreHonest == Spec => []ListsHonest
<1>1. Init => ListsInv
  BY ChatAssumption DEF Init, ListsInv, NamedLate, ListFine
<1>2. Spec => [](Typed /\ ListsInv)
  BY <1>1, InitTyped, NextTyped, NextLists, PTL DEF Spec
<1>3. ListsInv => ListsHonest
  BY DEF ListsInv, ListFine, ListsHonest
<1>4. QED
  BY <1>2, <1>3, PTL

-------------------------------------------------------------------------------
(* What is stored is what was streamed, and what the model was given. *)

\* The questions and the answers of request s in thread t, and the chunks sent to its client.
Asks(s, t) == {i \in 1..Len(messages[t]) : messages[t][i].role = "user" /\ messages[t][i].of = s}
Answers(s, t) == {i \in 1..Len(messages[t]) : IsAnswerOf(s, messages[t][i])}
Chunks(s) == Cardinality({k \in 1..Len(sent[s]) : sent[s][k] = "chunk"})

\* Request s has stored no answer yet.
Unanswered(s) ==
    \/ step[s] \in {"idle", "insert", "clear question", "recall", "rerank", "stream", "save"}
    \/ step[s] = "wait" /\ bare[s]

\* It has stored one, if there was something to store and nothing failed.
Stored(s) == step[s] \in {"clear answer", "answered"} \/ (step[s] = "wait" /\ ~bare[s])

\* The model has been given a prompt for it.
Prompted(s) == step[s] \in {"rerank", "answered", "error"} \cup Task

\* The question at i is the newest row of thread t, or followed by a row of its own request.
Undisturbed(s, t, i) == i = Len(messages[t]) \/ messages[t][i + 1].of = s

WroteWhere(s, t) ==
    t # target[s] \/ step[s] \in {"idle", "insert"} => Asks(s, t) = {} /\ Answers(s, t) = {}

WroteOnce(s, t) ==
    /\ \A i, j \in Asks(s, t) : i = j
    /\ \A i, j \in Answers(s, t) : i = j
    /\ \A i \in Answers(s, t) : messages[t][i].size = Chunks(s) /\ \E q \in Asks(s, t) : q <= i
    /\ Unanswered(s) => Answers(s, t) = {}

WroteAll(s, t) ==
    t = target[s] =>
        /\ step[s] \notin {"idle", "insert", "failed"} => Asks(s, t) # {}
        /\ Stored(s) /\ answer[s] > 0 /\ faults = 0 => Answers(s, t) # {}

GotBefore(s, t) ==
    t = target[s] /\ Prompted(s) => \A i \in Asks(s, t) : Undisturbed(s, t, i) =>
        prompt[s] = NewestRows(SubSeq(messages[t], 1, i - 1), HistoryLimit - 1)

Counted(s) ==
    /\ step[s] \in {"rerank", "stream"} => ~bare[s]
    /\ step[s] \in {"rerank", "stream", "wait", "save", "clear answer"} => Chunks(s) = answer[s]

Story(s) ==
    /\ Counted(s)
    /\ \A t \in Threads : WroteWhere(s, t) /\ WroteOnce(s, t) /\ WroteAll(s, t) /\ GotBefore(s, t)

StoryInv == \A s \in Streams : Story(s)

LEMMA PrefixKept ==
  ASSUME NEW R \in Seq(Rows), NEW Q \in Seq(Rows), Len(R) <= Len(Q), \A i \in 1..Len(R) : Q[i] = R[i],
         NEW k \in Int, k <= Len(R)
  PROVE  SubSeq(Q, 1, k) = SubSeq(R, 1, k)
<1>1. CASE k < 1
  BY <1>1, SubSeqEmpty
<1>2. CASE k >= 1
  <2>1. \A i \in 1..k : R[i] \in Rows /\ Q[i] \in Rows /\ Q[i] = R[i]
    BY <1>2, ElementOfSeq
  <2>2. /\ SubSeq(R, 1, k) \in Seq(Rows) /\ Len(SubSeq(R, 1, k)) = k
        /\ \A i \in 1..k : SubSeq(R, 1, k)[i] = R[i]
    BY <1>2, <2>1
  <2>3. /\ SubSeq(Q, 1, k) \in Seq(Rows) /\ Len(SubSeq(Q, 1, k)) = k
        /\ \A i \in 1..k : SubSeq(Q, 1, k)[i] = Q[i]
    BY <1>2, <2>1
  <2>4. QED
    BY <2>1, <2>2, <2>3, SeqEqual
<1>3. QED
  BY <1>1, <1>2

LEMMA Slice ==
  ASSUME NEW R \in Seq(Rows), NEW m \in Int, NEW n \in Int, 1 <= m, m <= n + 1, n <= Len(R)
  PROVE  /\ SubSeq(R, m, n) \in Seq(Rows) /\ Len(SubSeq(R, m, n)) = n - m + 1
         /\ \A i \in 1..(n - m + 1) : SubSeq(R, m, n)[i] = R[m + i - 1]
<1>1. \A i \in m..n : R[i] \in Rows
  BY ElementOfSeq
<1>2. QED
  BY <1>1, SubSeqProperties

\* The history that is read right after the question was saved, without it.
LEMMA PromptOfLast ==
  ASSUME NEW R \in Seq(Rows), R # <<>>, R[Len(R)].role = "user"
  PROVE  DropQuestion(NewestRows(R, HistoryLimit)) = NewestRows(SubSeq(R, 1, Len(R) - 1), HistoryLimit - 1)
<1>1. PICK L \in Nat \ {0} : L = Len(R)
  OBVIOUS
<1>2. PICK m \in 1..(L + 1) : m = (IF L > HistoryLimit THEN L - HistoryLimit + 1 ELSE 1)
  <2>1. HistoryLimit \in Nat
    BY ChatAssumption
  <2>2. CASE L > HistoryLimit
    <3>1. L - HistoryLimit + 1 \in 1..(L + 1)
      BY <2>1, <2>2
    <3>2. QED
      BY <2>2, <3>1
  <2>3. CASE ~(L > HistoryLimit)
    BY <2>3
  <2>4. QED
    BY <2>2, <2>3
<1>3. PICK K \in Int : K = L - 1
  BY <1>1
<1>4. PICK before \in Seq(Rows) : before = SubSeq(R, 1, K)
  <2>1. SubSeq(R, 1, K) \in Seq(Rows)
    BY <1>1, <1>3, Slice
  <2>2. QED
    BY <2>1
<1>5. Len(before) = K /\ \A i \in 1..K : before[i] = R[i]
  <2>1. Len(SubSeq(R, 1, K)) = K - 1 + 1 /\ \A i \in 1..(K - 1 + 1) : SubSeq(R, 1, K)[i] = R[1 + i - 1]
    BY <1>1, <1>3, Slice
  <2>2. QED
    BY <1>4, <2>1
<1>6. PICK kept \in Seq(Rows) : kept = SubSeq(R, m, L)
  <2>1. SubSeq(R, m, L) \in Seq(Rows)
    BY <1>1, Slice
  <2>2. QED
    BY <2>1
<1>7. Len(kept) = L - m + 1 /\ \A i \in 1..(L - m + 1) : kept[i] = R[m + i - 1]
  BY <1>1, <1>6, Slice
<1>8. NewestRows(R, HistoryLimit) = kept
  BY <1>1, <1>2, <1>6 DEF NewestRows
<1>9. NewestRows(before, HistoryLimit - 1) = SubSeq(before, m, K)
  BY <1>2, <1>3, <1>5, ChatAssumption DEF NewestRows
<1>10. CASE m = L + 1
  <2>1. kept = <<>>
    BY <1>6, <1>10, SubSeqEmpty
  <2>2. SubSeq(before, m, K) = <<>>
    <3>1. K < m /\ m \in Int
      BY <1>3, <1>10
    <3>2. QED
      BY <3>1, SubSeqEmpty
  <2>3. QED
    BY <1>1, <1>3, <1>4, <1>8, <1>9, <2>1, <2>2 DEF DropQuestion
<1>11. CASE m <= L
  <2>1. PICK d \in Int : d = L - m
    BY <1>1
  <2>2. kept # <<>> /\ kept[Len(kept)] = R[L] /\ Len(kept) - 1 = d
    <3>1. PICK e \in 1..(L - m + 1) : e = L - m + 1
      BY <1>11
    <3>2. m + e - 1 = L /\ Len(kept) = e /\ kept[e] = R[m + e - 1]
      BY <1>7, <3>1
    <3>3. kept # <<>> /\ Len(kept) - 1 = d
      BY <1>7, <1>11, <2>1
    <3>4. QED
      BY <3>2, <3>3
  <2>3. DropQuestion(kept) = SubSeq(kept, 1, d)
    <3>1. DropQuestion(kept) = SubSeq(kept, 1, Len(kept) - 1)
      BY <1>1, <2>2 DEF DropQuestion
    <3>2. QED
      BY <2>2, <3>1
  <2>4. /\ SubSeq(kept, 1, d) \in Seq(Rows) /\ Len(SubSeq(kept, 1, d)) = d
        /\ \A i \in 1..d : SubSeq(kept, 1, d)[i] = R[m + i - 1]
    <3>1. /\ SubSeq(kept, 1, d) \in Seq(Rows) /\ Len(SubSeq(kept, 1, d)) = d - 1 + 1
          /\ \A i \in 1..(d - 1 + 1) : SubSeq(kept, 1, d)[i] = kept[1 + i - 1]
      BY <1>7, <1>11, <2>1, Slice
    <3>2. QED
      BY <1>7, <2>1, <3>1
  <2>5. /\ SubSeq(before, m, K) \in Seq(Rows) /\ Len(SubSeq(before, m, K)) = d
        /\ \A i \in 1..d : SubSeq(before, m, K)[i] = R[m + i - 1]
    <3>1. /\ SubSeq(before, m, K) \in Seq(Rows) /\ Len(SubSeq(before, m, K)) = K - m + 1
          /\ \A i \in 1..(K - m + 1) : SubSeq(before, m, K)[i] = before[m + i - 1]
      BY <1>3, <1>5, <1>11, Slice
    <3>2. QED
      BY <1>3, <1>5, <2>1, <3>1
  <2>6. SubSeq(kept, 1, d) = SubSeq(before, m, K)
    BY <2>4, <2>5, SeqEqual
  <2>7. QED
    BY <1>1, <1>3, <1>4, <1>8, <1>9, <2>3, <2>6
<1>12. QED
  BY <1>10, <1>11

\* The chunks are counted one by one, and nothing else is.
LEMMA ChunkSent ==
  ASSUME Typed, NEW s \in Streams, Send(s, "chunk")
  PROVE  Chunks(s)' = Chunks(s) + 1
<1> DEFINE at == {k \in 1..Len(sent[s]) : sent[s][k] = "chunk"}
<1>1. sent[s] \in Seq(Events) /\ sent'[s] = Append(sent[s], "chunk")
  BY DEF Send, Typed, OutputTyped
<1>2. {k \in 1..Len(sent'[s]) : sent'[s][k] = "chunk"} = at \cup {Len(sent[s]) + 1} /\ Len(sent[s]) + 1 \notin at
  BY <1>1
<1>3. IsFiniteSet(at)
  <2>1. IsFiniteSet(1..Len(sent[s]))
    BY <1>1, FS_Interval
  <2>2. at \subseteq 1..Len(sent[s])
    OBVIOUS
  <2>3. QED
    BY <2>1, <2>2, FS_Subset
<1>4. QED
  BY <1>2, <1>3, FS_AddElement DEF Chunks

LEMMA NoChunkSent ==
  ASSUME NEW s, Len(sent[s]) \in Nat, Len(sent'[s]) \in Nat, Len(sent[s]) <= Len(sent'[s]),
         \A k \in 1..Len(sent[s]) : sent'[s][k] = sent[s][k],
         \A k \in 1..Len(sent'[s]) : k > Len(sent[s]) => sent'[s][k] # "chunk"
  PROVE  Chunks(s)' = Chunks(s)
<1>1. {k \in 1..Len(sent'[s]) : sent'[s][k] = "chunk"} = {k \in 1..Len(sent[s]) : sent[s][k] = "chunk"}
  OBVIOUS
<1>2. QED
  BY <1>1 DEF Chunks

\* The rows that are there stay, and none of request s is added.
RowsKept(s) ==
    \A t \in Threads :
        /\ Len(messages[t]) <= Len(messages'[t])
        /\ \A i \in 1..Len(messages[t]) : messages'[t][i] = messages[t][i]
        /\ \A i \in 1..Len(messages'[t]) : i > Len(messages[t]) => messages'[t][i].of # s

LEMMA RowsRest ==
  ASSUME Typed, NEW s, messages' = messages
  PROVE  RowsKept(s)
  BY DEF RowsKept, Typed, TablesTyped

LEMMA RowsOfOthers ==
  ASSUME Typed, NEW s \in Streams, NEW q \in Streams, s # q, NEW t \in Threads, NEW r \in Rows, r.of = q,
         InsertMessage(t, r)
  PROVE  RowsKept(s)
<1>1. ASSUME NEW u \in Threads
      PROVE  /\ Len(messages[u]) <= Len(messages'[u])
             /\ \A i \in 1..Len(messages[u]) : messages'[u][i] = messages[u][i]
             /\ \A i \in 1..Len(messages'[u]) : i > Len(messages[u]) => messages'[u][i].of # s
  <2>1. CASE u = t
    <3>1. messages[t] \in Seq(Rows) /\ messages'[t] = Append(messages[t], r)
      BY DEF InsertMessage, Typed, TablesTyped
    <3>2. Len(messages'[t]) = Len(messages[t]) + 1 /\ messages'[t][Len(messages[t]) + 1] = r
          /\ \A i \in 1..Len(messages[t]) : messages'[t][i] = messages[t][i]
      BY <3>1
    <3>3. \A i \in 1..Len(messages'[t]) : i > Len(messages[t]) => i = Len(messages[t]) + 1
      BY <3>1, <3>2
    <3>4. QED
      BY <2>1, <3>1, <3>2, <3>3
  <2>2. CASE u # t
    <3>1. messages[u] \in Seq(Rows) /\ messages'[u] = messages[u]
      BY <2>2 DEF InsertMessage, Typed, TablesTyped
    <3>2. QED
      BY <3>1
  <2>3. QED
    BY <2>1, <2>2
<1>2. QED
  BY <1>1 DEF RowsKept

LEMMA SameRows ==
  ASSUME Typed, Typed', NEW s \in Streams, RowsKept(s), NEW t \in Threads
  PROVE  /\ Asks(s, t)' = Asks(s, t) /\ Answers(s, t)' = Answers(s, t)
         /\ \A i \in Answers(s, t) : messages'[t][i] = messages[t][i]
         /\ \A i \in Asks(s, t) : Undisturbed(s, t, i)' => Undisturbed(s, t, i)
<1>1. messages[t] \in Seq(Rows) /\ messages'[t] \in Seq(Rows)
  BY DEF Typed, TablesTyped
<1>2. \A i \in 1..Len(messages'[t]) : messages'[t][i].of = s => i \in 1..Len(messages[t])
  BY <1>1 DEF RowsKept
<1>3. \A i \in 1..Len(messages[t]) : i \in 1..Len(messages'[t]) /\ messages'[t][i] = messages[t][i]
  BY <1>1 DEF RowsKept
<1>4. Asks(s, t)' = Asks(s, t)
  BY <1>2, <1>3 DEF Asks
<1>5. Answers(s, t)' = Answers(s, t)
  BY <1>2, <1>3 DEF Answers, IsAnswerOf
<1>6. \A i \in Answers(s, t) : messages'[t][i] = messages[t][i]
  BY <1>3 DEF Answers
<1>7. ASSUME NEW i \in Asks(s, t), Undisturbed(s, t, i)' PROVE Undisturbed(s, t, i)
  <2>1. i \in 1..Len(messages[t]) /\ Len(messages[t]) <= Len(messages'[t])
    BY DEF Asks, RowsKept
  <2>2. CASE i = Len(messages'[t])
    BY <1>1, <2>1, <2>2 DEF Undisturbed
  <2>3. CASE i # Len(messages'[t]) /\ messages'[t][i + 1].of = s
    <3>1. i + 1 \in 1..Len(messages'[t])
      BY <1>1, <2>1, <2>3
    <3>2. i + 1 \in 1..Len(messages[t]) /\ messages[t][i + 1].of = s
      BY <1>2, <1>3, <2>3, <3>1
    <3>3. QED
      BY <3>2 DEF Undisturbed
  <2>4. QED
    BY <1>7, <2>2, <2>3 DEF Undisturbed
<1>8. QED
  BY <1>4, <1>5, <1>6, <1>7

\* What was before a row stays before it.
LEMMA SameBefore ==
  ASSUME Typed, Typed', NEW s, RowsKept(s), NEW t \in Threads, NEW i \in 1..Len(messages[t])
  PROVE  SubSeq(messages'[t], 1, i - 1) = SubSeq(messages[t], 1, i - 1)
<1>1. messages[t] \in Seq(Rows) /\ messages'[t] \in Seq(Rows)
  BY DEF Typed, TablesTyped
<1>2. PICK k \in Int : k = i - 1
  BY <1>1
<1>3. k <= Len(messages[t])
  BY <1>1, <1>2
<1>4. SubSeq(messages'[t], 1, k) = SubSeq(messages[t], 1, k)
  BY <1>1, <1>3, PrefixKept DEF RowsKept
<1>5. QED
  BY <1>2, <1>4

LEMMA GotRests ==
  ASSUME Typed, Typed', NEW s \in Streams, RowsKept(s), NEW t \in Threads, GotBefore(s, t),
         target'[s] = target[s], Prompted(s)' => Prompted(s) /\ prompt'[s] = prompt[s]
  PROVE  GotBefore(s, t)'
<1>1. ASSUME t = target'[s], Prompted(s)', NEW i \in Asks(s, t)', Undisturbed(s, t, i)'
      PROVE  prompt'[s] = NewestRows(SubSeq(messages'[t], 1, i - 1), HistoryLimit - 1)
  <2>1. i \in Asks(s, t) /\ Undisturbed(s, t, i)
    BY <1>1, SameRows
  <2>2. prompt[s] = NewestRows(SubSeq(messages[t], 1, i - 1), HistoryLimit - 1)
    BY <1>1, <2>1 DEF GotBefore
  <2>3. SubSeq(messages'[t], 1, i - 1) = SubSeq(messages[t], 1, i - 1)
    BY <2>1, SameBefore DEF Asks
  <2>4. QED
    BY <1>1, <2>2, <2>3
<1>2. QED
  BY <1>1 DEF GotBefore

\* A step that adds no row of request s.
LEMMA StoryGoesOn ==
  ASSUME Typed, Typed', NEW s \in Streams, Story(s), RowsKept(s), target'[s] = target[s], faults <= faults',
         step'[s] \in {"idle", "insert"} <=> step[s] \in {"idle", "insert"},
         step'[s] = "failed" \/ step[s] # "failed",
         Counted(s)', Chunks(s)' = Chunks(s) \/ Unanswered(s), Unanswered(s)' => Unanswered(s),
         Stored(s)' /\ answer'[s] > 0 /\ faults' = 0 => Stored(s) /\ answer[s] > 0,
         (Prompted(s)' => Prompted(s) /\ prompt'[s] = prompt[s]) \/ \A t \in Threads : GotBefore(s, t)'
  PROVE  Story(s)'
<1>1. ASSUME NEW t \in Threads PROVE WroteWhere(s, t)' /\ WroteOnce(s, t)' /\ WroteAll(s, t)' /\ GotBefore(s, t)'
  <2>1. WroteWhere(s, t) /\ WroteOnce(s, t) /\ WroteAll(s, t) /\ GotBefore(s, t)
    BY DEF Story
  <2>2. /\ Asks(s, t)' = Asks(s, t) /\ Answers(s, t)' = Answers(s, t)
        /\ \A i \in Answers(s, t) : messages'[t][i] = messages[t][i]
    BY SameRows
  <2>3. WroteWhere(s, t)'
    BY <2>1, <2>2 DEF WroteWhere
  <2>4. WroteOnce(s, t)'
    BY <2>1, <2>2 DEF WroteOnce
  <2>5. WroteAll(s, t)'
    <3>1. faults' = 0 => faults = 0
      BY DEF Typed
    <3>2. QED
      BY <2>1, <2>2, <3>1 DEF WroteAll
  <2>6. GotBefore(s, t)'
    BY <2>1, GotRests
  <2>7. QED
    BY <2>3, <2>4, <2>5, <2>6
<1>2. QED
  BY <1>1 DEF Story

LEMMA StoryRests ==
  ASSUME Typed, Typed', NEW s \in Streams, Story(s), RowsKept(s), target'[s] = target[s], faults <= faults',
         step'[s] = step[s], bare'[s] = bare[s], answer'[s] = answer[s], sent'[s] = sent[s], prompt'[s] = prompt[s]
  PROVE  Story(s)'
<1>1. Chunks(s)' = Chunks(s)
  BY DEF Chunks
<1>2. Counted(s)' /\ (Unanswered(s)' => Unanswered(s)) /\ (Stored(s)' => Stored(s)) /\ (Prompted(s)' => Prompted(s))
  BY <1>1 DEF Story, Counted, Unanswered, Stored, Prompted
<1>3. QED
  BY <1>1, <1>2, StoryGoesOn

\* The steps of request s leave the others alone.
LEMMA StoryAlone ==
  ASSUME Typed, Typed', StoryInv, NEW s \in Streams, Story(s)', faults <= faults',
         \A q \in Streams \ {s} : RowsKept(q),
         \A q \in Streams \ {s} : /\ target'[q] = target[q] /\ step'[q] = step[q] /\ bare'[q] = bare[q]
                                  /\ answer'[q] = answer[q] /\ sent'[q] = sent[q] /\ prompt'[q] = prompt[q]
  PROVE  StoryInv'
<1>1. ASSUME NEW q \in Streams \ {s} PROVE Story(q)'
  <2>1. Story(q)
    BY DEF StoryInv
  <2>2. QED
    BY <2>1, StoryRests
<1>2. QED
  BY <1>1 DEF StoryInv

\* A request that has written nothing, and writes nothing.
LEMMA BlankStory ==
  ASSUME Typed, Typed', NEW s \in Streams, Story(s), step[s] \in {"idle", "insert"}, RowsKept(s),
         step'[s] \in {"insert", "failed"}
  PROVE  Story(s)'
<1>1. ASSUME NEW t \in Threads PROVE Asks(s, t)' = {} /\ Answers(s, t)' = {}
  <2>1. Asks(s, t) = {} /\ Answers(s, t) = {}
    BY DEF Story, WroteWhere
  <2>2. QED
    BY <2>1, SameRows
<1>2. QED
  BY <1>1 DEF Story, Counted, WroteWhere, WroteOnce, WroteAll, GotBefore, Stored, Prompted, Task

\* A row of request s is the newest one of its thread.
LEMMA OwnRow ==
  ASSUME Typed, NEW s \in Streams, target[s] \in Threads, NEW r \in Rows, r.of = s, InsertMessage(target[s], r)
  PROVE  /\ \A t \in Threads \ {target[s]} : messages'[t] = messages[t]
         /\ Len(messages[target[s]]) \in Nat /\ Len(messages'[target[s]]) = Len(messages[target[s]]) + 1
         /\ \A i \in 1..Len(messages[target[s]]) : messages'[target[s]][i] = messages[target[s]][i]
         /\ messages'[target[s]][Len(messages[target[s]]) + 1] = r
<1>1. messages[target[s]] \in Seq(Rows) /\ messages'[target[s]] = Append(messages[target[s]], r)
  BY DEF InsertMessage, Typed, TablesTyped
<1>2. QED
  BY <1>1 DEF InsertMessage, Typed, TablesTyped

LEMMA QuestionStory ==
  ASSUME Typed, Typed', StoryInv, NEW s \in Streams, SaveQuestion(s)
  PROVE  StoryInv'
<1>1. PICK u \in Threads : u = target[s]
  BY DEF SaveQuestion, Typed, StreamsTyped
<1>2. PICK r \in Rows : r = [role |-> "user", of |-> s, size |-> 0]
  <2>1. 0 \in 0..MaxChunks
    BY ChatAssumption
  <2>2. QED
    BY <2>1, RowTyped
<1>3. /\ step[s] = "insert" /\ InsertMessage(u, r) /\ r.of = s /\ r.role = "user"
      /\ UNCHANGED <<target, bare, prompt, answer, sent, faults>>
  BY <1>1, <1>2 DEF SaveQuestion, request
<1>4. step'[s] = "clear question" /\ \A q \in Streams \ {s} : step'[q] = step[q]
  BY DEF SaveQuestion, GoTo, Typed, StreamsTyped
<1>5. \A t \in Threads : Asks(s, t) = {} /\ Answers(s, t) = {}
  BY <1>3 DEF StoryInv, Story, WroteWhere
<1>6. ASSUME NEW t \in Threads, t # u PROVE Asks(s, t)' = {} /\ Answers(s, t)' = {}
  <2>1. messages'[t] = messages[t]
    BY <1>1, <1>3, <1>6, OwnRow
  <2>2. QED
    BY <1>5, <2>1 DEF Asks, Answers
<1>7. PICK n \in Nat : n = Len(messages[u])
  BY <1>1, <1>3, OwnRow
<1>8. /\ Len(messages'[u]) = n + 1 /\ messages'[u][n + 1] = r
      /\ \A i \in 1..n : messages'[u][i] = messages[u][i]
  BY <1>1, <1>3, <1>7, OwnRow
<1>9. ASSUME NEW i \in 1..(n + 1), i # n + 1
      PROVE  ~(messages'[u][i].role = "user" /\ messages'[u][i].of = s) /\ ~IsAnswerOf(s, messages'[u][i])
  <2>1. i \in 1..n
    BY <1>9
  <2>2. QED
    BY <1>5, <1>7, <1>8, <2>1 DEF Asks, Answers
<1>10. ~IsAnswerOf(s, r)
  BY <1>3 DEF IsAnswerOf
<1>11. Asks(s, u)' = {n + 1} /\ Answers(s, u)' = {}
  BY <1>3, <1>8, <1>9, <1>10 DEF Asks, Answers
<1>12. Story(s)'
  <2>1. ASSUME NEW t \in Threads PROVE WroteWhere(s, t)' /\ WroteOnce(s, t)' /\ WroteAll(s, t)' /\ GotBefore(s, t)'
    <3>1. CASE t = u
      BY <1>1, <1>3, <1>4, <1>11, <3>1 DEF WroteWhere, WroteOnce, WroteAll, GotBefore, Stored, Prompted, Task
    <3>2. CASE t # u
      BY <1>1, <1>3, <1>6, <3>2 DEF WroteWhere, WroteOnce, WroteAll, GotBefore
    <3>3. QED
      BY <3>1, <3>2
  <2>2. QED
    BY <1>4, <2>1 DEF Story, Counted
<1>13. \A q \in Streams \ {s} : RowsKept(q)
  BY <1>3, RowsOfOthers
<1>14. QED
  <2>1. faults <= faults'
    BY <1>3, ChatAssumption DEF Typed
  <2>2. QED
    BY <1>3, <1>4, <1>12, <1>13, <2>1, StoryAlone

\* The answer is stored, with the chunks that were sent.
KeepAnswer(s) ==
    /\ step[s] \in {"stream", "save"}
    /\ InsertMessage(target[s], [role |-> "assistant", of |-> s, size |-> answer[s]])
    /\ GoTo(s, "clear answer")
    /\ UNCHANGED <<target, bare, prompt, answer, sent, faults>>

LEMMA AnswerStory ==
  ASSUME Typed, Typed', StoryInv, NEW s \in Streams, KeepAnswer(s)
  PROVE  StoryInv'
<1>1. PICK u \in Threads : u = target[s]
  BY DEF KeepAnswer, Typed, StreamsTyped
<1>2. PICK r \in Rows : r = [role |-> "assistant", of |-> s, size |-> answer[s]]
  <2>1. answer[s] \in 0..MaxChunks
    BY DEF Typed, OutputTyped
  <2>2. QED
    BY <2>1, RowTyped
<1>3. /\ step[s] \in {"stream", "save"} /\ InsertMessage(u, r) /\ r.of = s /\ r.role = "assistant" /\ r.size = answer[s]
      /\ UNCHANGED <<target, bare, prompt, answer, sent, faults>>
  BY <1>1, <1>2 DEF KeepAnswer
<1>4. step'[s] = "clear answer" /\ \A q \in Streams \ {s} : step'[q] = step[q]
  BY DEF KeepAnswer, GoTo, Typed, StreamsTyped
<1>5. Story(s) /\ Chunks(s) = answer[s] /\ Chunks(s)' = answer[s] /\ \A t \in Threads : Answers(s, t) = {}
  <2>1. Story(s)
    BY DEF StoryInv
  <2>2. Chunks(s) = answer[s]
    BY <1>3, <2>1 DEF Story, Counted
  <2>3. Chunks(s)' = Chunks(s)
    BY <1>3 DEF Chunks
  <2>4. Unanswered(s)
    BY <1>3 DEF Unanswered
  <2>5. \A t \in Threads : Answers(s, t) = {}
    BY <2>1, <2>4 DEF Story, WroteOnce
  <2>6. QED
    BY <2>1, <2>2, <2>3, <2>5
<1>6. PICK n \in Nat : n = Len(messages[u])
  BY <1>1, <1>3, OwnRow
<1>7. /\ Len(messages'[u]) = n + 1 /\ messages'[u][n + 1] = r
      /\ \A i \in 1..n : messages'[u][i] = messages[u][i]
  BY <1>1, <1>3, <1>6, OwnRow
<1>8. r.role # "user" /\ IsAnswerOf(s, r)
  BY <1>3 DEF IsAnswerOf
<1>9. Asks(s, u)' = Asks(s, u) /\ Asks(s, u) \subseteq 1..n
  BY <1>6, <1>7, <1>8 DEF Asks
<1>10. Answers(s, u)' = {n + 1}
  <2>1. \A i \in 1..n : ~IsAnswerOf(s, messages'[u][i])
    BY <1>5, <1>6, <1>7 DEF Answers
  <2>2. QED
    BY <1>7, <1>8, <2>1 DEF Answers
<1>11. ASSUME NEW t \in Threads PROVE WroteWhere(s, t)' /\ WroteOnce(s, t)' /\ WroteAll(s, t)' /\ GotBefore(s, t)'
  <2>0. WroteWhere(s, t) /\ WroteOnce(s, t) /\ WroteAll(s, t) /\ GotBefore(s, t)
    BY <1>5 DEF Story
  <2>1. CASE t = u
    <3>1. Asks(s, u) # {} /\ \A i \in Asks(s, u) : i <= n + 1
      BY <1>1, <1>3, <1>9, <2>0, <2>1 DEF WroteAll
    <3>2. WroteWhere(s, t)' /\ WroteAll(s, t)'
      BY <1>1, <1>3, <1>4, <1>9, <1>10, <2>1, <3>1 DEF WroteWhere, WroteAll
    <3>3. WroteOnce(s, t)'
      <4>1. ~Unanswered(s)'
        BY <1>4 DEF Unanswered
      <4>2. \A i, j \in Asks(s, u)' : i = j
        BY <1>9, <2>0, <2>1 DEF WroteOnce
      <4>3. messages'[u][n + 1].size = Chunks(s)' /\ \E q \in Asks(s, u)' : q <= n + 1
        BY <1>3, <1>5, <1>7, <1>9, <3>1
      <4>4. QED
        BY <1>10, <2>1, <4>1, <4>2, <4>3 DEF WroteOnce
    <3>4. ASSUME NEW i \in Asks(s, u), Undisturbed(s, u, i)'
          PROVE  prompt'[s] = NewestRows(SubSeq(messages'[u], 1, i - 1), HistoryLimit - 1)
      <4>1. i \in 1..n
        BY <1>9
      <4>2. Undisturbed(s, u, i)
        <5>1. CASE i = n
          BY <1>6, <5>1 DEF Undisturbed
        <5>2. CASE i # n
          <6>1. i + 1 \in 1..n /\ i # n + 1
            BY <4>1, <5>2
          <6>2. messages'[u][i + 1] = messages[u][i + 1]
            BY <1>7, <6>1
          <6>3. QED
            BY <1>7, <3>4, <6>1, <6>2 DEF Undisturbed
        <5>3. QED
          BY <5>1, <5>2
      <4>3. prompt[s] = NewestRows(SubSeq(messages[u], 1, i - 1), HistoryLimit - 1)
        BY <1>1, <1>3, <2>0, <2>1, <3>4, <4>2 DEF GotBefore, Prompted, Task
      <4>4. SubSeq(messages'[u], 1, i - 1) = SubSeq(messages[u], 1, i - 1)
        <5>1. messages[u] \in Seq(Rows) /\ messages'[u] \in Seq(Rows)
          BY DEF Typed, TablesTyped
        <5>2. PICK k \in Int : k = i - 1
          BY <4>1
        <5>3. SubSeq(messages'[u], 1, k) = SubSeq(messages[u], 1, k)
          BY <1>6, <1>7, <4>1, <5>1, <5>2, PrefixKept
        <5>4. QED
          BY <5>2, <5>3
      <4>5. QED
        BY <1>3, <4>3, <4>4
    <3>5. GotBefore(s, t)'
      BY <1>1, <1>3, <1>9, <2>1, <3>4 DEF GotBefore
    <3>6. QED
      BY <3>2, <3>3, <3>5
  <2>2. CASE t # u
    <3>1. messages'[t] = messages[t]
      BY <1>1, <1>3, <2>2, OwnRow
    <3>2. Asks(s, t)' = {} /\ Answers(s, t)' = {}
      BY <1>1, <2>0, <2>2, <3>1 DEF WroteWhere, Asks, Answers
    <3>3. QED
      BY <1>1, <1>3, <2>2, <3>2 DEF WroteWhere, WroteOnce, WroteAll, GotBefore
  <2>3. QED
    BY <2>1, <2>2
<1>12. Story(s)'
  BY <1>3, <1>4, <1>5, <1>11 DEF Story, Counted
<1>13. \A q \in Streams \ {s} : RowsKept(q)
  BY <1>3, RowsOfOthers
<1>14. QED
  <2>1. faults <= faults'
    BY <1>3, ChatAssumption DEF Typed
  <2>2. QED
    BY <1>3, <1>4, <1>12, <1>13, <2>1, StoryAlone

LEMMA FaultGrows ==
  ASSUME Typed, Fault \/ UNCHANGED faults
  PROVE  faults <= faults' /\ (Fault => faults' # 0)
  BY ChatAssumption DEF Typed, Fault

\* A step of request s that adds no row.
LEMMA OwnStep ==
  ASSUME Typed, Typed', StoryInv, NEW s \in Streams, Story(s)', messages' = messages, faults <= faults',
         \A q \in Streams \ {s} : /\ target'[q] = target[q] /\ step'[q] = step[q] /\ bare'[q] = bare[q]
                                  /\ answer'[q] = answer[q] /\ sent'[q] = sent[q] /\ prompt'[q] = prompt[q]
  PROVE  StoryInv'
<1>1. \A q \in Streams \ {s} : RowsKept(q)
  BY RowsRest
<1>2. QED
  BY <1>1, StoryAlone

\* A step of something that is not a request.
LEMMA QuietStory ==
  ASSUME Typed, Typed', StoryInv, UNCHANGED <<messages, target, step, bare, answer, sent, prompt>>, faults <= faults'
  PROVE  StoryInv'
<1>1. ASSUME NEW s \in Streams PROVE Story(s)'
  <2>1. Story(s) /\ RowsKept(s)
    BY RowsRest DEF StoryInv
  <2>2. QED
    BY <2>1, StoryRests
<1>2. QED
  BY <1>1 DEF StoryInv

LEMMA StartStory ==
  ASSUME Typed, Typed', StoryInv, NEW s \in Streams, Start(s)
  PROVE  StoryInv'
<1>1. PICK t \in Threads : OpenThread(s, t) \/ CreateThread(s, t)
  BY DEF Start
<1>2. /\ step[s] = "idle" /\ step'[s] \in {"insert", "failed"} /\ UNCHANGED <<messages, bare, prompt, answer, sent, faults>>
      /\ \A q \in Streams \ {s} : step'[q] = step[q] /\ target'[q] = target[q]
  BY <1>1 DEF OpenThread, CreateThread, GoTo, tables, Typed, StreamsTyped
<1>3. Story(s)'
  <2>1. Story(s) /\ RowsKept(s)
    BY <1>2, RowsRest DEF StoryInv
  <2>2. QED
    BY <1>2, <2>1, BlankStory
<1>4. faults <= faults'
  BY <1>2, FaultGrows
<1>5. QED
  BY <1>2, <1>3, <1>4, OwnStep

LEMMA ClearQuestionStory ==
  ASSUME Typed, Typed', StoryInv, NEW s \in Streams, ClearAfterQuestion(s)
  PROVE  StoryInv'
<1>1. /\ step[s] = "clear question" /\ step'[s] = "recall" /\ UNCHANGED <<messages, target, bare, prompt, answer, sent>>
      /\ \A q \in Streams \ {s} : step'[q] = step[q]
  BY DEF ClearAfterQuestion, GoTo, tables, request, Typed, StreamsTyped
<1>2. faults <= faults'
  BY FaultGrows DEF ClearAfterQuestion, DropPageAndLists
<1>3. Story(s)'
  <2>1. Story(s) /\ RowsKept(s)
    BY <1>1, RowsRest DEF StoryInv
  <2>2. Counted(s)' /\ Unanswered(s) /\ ~Stored(s)' /\ ~Prompted(s)'
    BY <1>1 DEF Counted, Unanswered, Stored, Prompted, Task
  <2>3. QED
    BY <1>1, <1>2, <2>1, <2>2, StoryGoesOn
<1>4. QED
  BY <1>1, <1>2, <1>3, OwnStep

\* The search without results is the first chunk.
LEMMA FirstChunk ==
  ASSUME NEW s, NEW a, a = <<>> \/ a = <<"created">>, NEW c, c = <<>> \/ c = <<"chunk">>, sent'[s] = a \o c
  PROVE  Chunks(s)' = IF c = <<>> THEN 0 ELSE 1
<1>1. CASE c = <<>>
  <2>1. {k \in 1..Len(sent'[s]) : sent'[s][k] = "chunk"} = {}
    <3>1. CASE a = <<>>
      BY <1>1, <3>1
    <3>2. CASE a = <<"created">>
      BY <1>1, <3>2
    <3>3. QED
      BY <3>1, <3>2
  <2>2. QED
    BY <1>1, <2>1, FS_EmptySet DEF Chunks
<1>2. CASE c = <<"chunk">>
  <2>1. \E k \in 1..2 : {i \in 1..Len(sent'[s]) : sent'[s][i] = "chunk"} = {k}
    <3>1. CASE a = <<>>
      BY <1>2, <3>1
    <3>2. CASE a = <<"created">>
      <4>1. Len(sent'[s]) = 2 /\ sent'[s][1] = "created" /\ sent'[s][2] = "chunk"
        BY <1>2, <3>2
      <4>2. QED
        BY <4>1
    <3>3. QED
      BY <3>1, <3>2
  <2>2. c # <<>>
    BY <1>2
  <2>3. QED
    BY <2>1, <2>2, FS_Singleton DEF Chunks
<1>3. QED
  BY <1>1, <1>2

\* The prompt that is read is the history before the question.
LEMMA RecallPrompt ==
  ASSUME Typed, Typed', NEW s \in Streams, Story(s), step[s] = "recall", messages' = messages, target' = target,
         prompt'[s] = DropQuestion(NewestRows(messages[target[s]], HistoryLimit)), NEW t \in Threads
  PROVE  GotBefore(s, t)'
<1>1. ASSUME t = target[s], NEW i \in Asks(s, t), Undisturbed(s, t, i)
      PROVE  prompt'[s] = NewestRows(SubSeq(messages[t], 1, i - 1), HistoryLimit - 1)
  <2>1. PICK R \in Seq(Rows) : R = messages[t]
    BY DEF Typed, TablesTyped
  <2>2. i \in 1..Len(R) /\ R[i].role = "user" /\ R[i].of = s
    BY <2>1 DEF Asks
  <2>3. i = Len(R)
    <3>1. SUFFICES ASSUME i # Len(R) PROVE FALSE
      OBVIOUS
    <3>2. i + 1 \in 1..Len(R) /\ R[i + 1].of = s
      BY <1>1, <2>1, <2>2, <3>1 DEF Undisturbed
    <3>3. R[i + 1] \in Rows
      BY <3>2, ElementOfSeq
    <3>4. R[i + 1].role = "user" \/ R[i + 1].role = "assistant"
      BY <3>3 DEF Rows
    <3>5. i + 1 \in Asks(s, t) \/ i + 1 \in Answers(s, t)
      BY <2>1, <3>2, <3>4 DEF Asks, Answers, IsAnswerOf
    <3>6. Answers(s, t) = {} /\ \A j \in Asks(s, t) : i = j
      BY DEF Story, WroteOnce, Unanswered
    <3>7. i + 1 # i
      BY <2>2
    <3>8. QED
      BY <3>5, <3>6, <3>7
  <2>4. R # <<>>
    BY <2>2
  <2>5. DropQuestion(NewestRows(R, HistoryLimit)) = NewestRows(SubSeq(R, 1, Len(R) - 1), HistoryLimit - 1)
    BY <2>2, <2>3, <2>4, PromptOfLast
  <2>6. QED
    BY <1>1, <2>1, <2>3, <2>5
<1>2. Asks(s, t)' = Asks(s, t) /\ \A i \in Asks(s, t) : Undisturbed(s, t, i)' => Undisturbed(s, t, i)
  BY RowsRest, SameRows
<1>3. QED
  BY <1>1, <1>2 DEF GotBefore

LEMMA RecallStory ==
  ASSUME Typed, Typed', StoryInv, NEW s \in Streams, NEW found \in BOOLEAN, RecallAndSearch(s, found)
  PROVE  StoryInv'
<1>1. /\ step[s] = "recall" /\ step'[s] = (IF found THEN "rerank" ELSE "wait")
      /\ messages' = messages /\ target' = target /\ faults' = faults
      /\ \A q \in Streams \ {s} : step'[q] = step[q]
  BY DEF RecallAndSearch, GoTo, tables, Typed, StreamsTyped
<1>2. /\ prompt'[s] = DropQuestion(NewestRows(messages[target[s]], HistoryLimit))
      /\ answer'[s] = (IF found THEN 0 ELSE 1)
      /\ \A q \in Streams \ {s} : answer'[q] = answer[q] /\ prompt'[q] = prompt[q]
  BY DEF RecallAndSearch, Typed, OutputTyped
<1>3. bare'[s] = ~found /\ \A q \in Streams \ {s} : bare'[q] = bare[q]
  BY DEF RecallAndSearch, Typed, StreamsTyped
<1>4. /\ sent'[s] = (IF fresh[s] THEN <<"created">> ELSE <<>>) \o (IF found THEN <<>> ELSE <<"chunk">>)
      /\ \A q \in Streams \ {s} : sent'[q] = sent[q]
  BY DEF RecallAndSearch, Typed, OutputTyped
<1>5. Chunks(s)' = answer'[s]
  <2>1. PICK a : a = (IF fresh[s] THEN <<"created">> ELSE <<>>)
    OBVIOUS
  <2>2. PICK c : c = (IF found THEN <<>> ELSE <<"chunk">>)
    OBVIOUS
  <2>3. Chunks(s)' = IF c = <<>> THEN 0 ELSE 1
    BY <1>4, <2>1, <2>2, FirstChunk
  <2>4. <<"chunk">> # <<>>
    OBVIOUS
  <2>5. QED
    BY <1>2, <2>2, <2>3, <2>4
<1>6. Story(s)'
  <2>1. Story(s) /\ RowsKept(s)
    BY <1>1, RowsRest DEF StoryInv
  <2>2. Counted(s)' /\ Unanswered(s) /\ ~Stored(s)'
    BY <1>1, <1>3, <1>5 DEF Counted, Unanswered, Stored
  <2>3. \A t \in Threads : GotBefore(s, t)'
    BY <1>1, <1>2, <2>1, RecallPrompt
  <2>4. faults <= faults'
    BY <1>1, FaultGrows
  <2>5. QED
    BY <1>1, <2>1, <2>2, <2>3, <2>4, StoryGoesOn
<1>7. faults <= faults'
  BY <1>1, FaultGrows
<1>8. QED
  BY <1>1, <1>2, <1>3, <1>4, <1>6, <1>7, OwnStep

LEMMA FailStory ==
  ASSUME Typed, Typed', StoryInv, NEW s \in Streams, FailRequest(s)
  PROVE  StoryInv'
<1>1. /\ step[s] \in Handler /\ step'[s] = "failed" /\ UNCHANGED <<messages, target, bare, prompt, answer>>
      /\ \A q \in Streams \ {s} : step'[q] = step[q]
  BY DEF FailRequest, GoTo, tables, request, Typed, StreamsTyped
<1>2. \A q \in Streams \ {s} : sent'[q] = sent[q]
  BY DEF FailRequest, Typed, OutputTyped
<1>3. faults <= faults'
  BY FaultGrows DEF FailRequest
<1>4. Story(s) /\ RowsKept(s)
  BY <1>1, RowsRest DEF StoryInv
<1>5. Story(s)'
  <2>1. CASE step[s] = "insert"
    BY <1>1, <1>4, <2>1, BlankStory
  <2>2. CASE step[s] # "insert"
    <3>1. Counted(s)' /\ Unanswered(s) /\ ~Unanswered(s)' /\ ~Stored(s)' /\ ~Prompted(s)'
      BY <1>1 DEF Counted, Unanswered, Stored, Prompted, Task, Handler
    <3>2. step[s] \notin {"idle", "insert"}
      BY <1>1, <2>2 DEF Handler
    <3>3. QED
      BY <1>1, <1>3, <1>4, <3>1, <3>2, StoryGoesOn
  <2>3. QED
    BY <2>1, <2>2
<1>6. QED
  BY <1>1, <1>2, <1>3, <1>5, OwnStep

LEMMA CallStory ==
  ASSUME Typed, Typed', StoryInv, NEW s \in Streams, CallModel(s)
  PROVE  StoryInv'
<1>1. /\ step[s] = "rerank" /\ step'[s] \in {"stream", "error"}
      /\ UNCHANGED <<messages, target, bare, prompt, answer, faults>>
      /\ \A q \in Streams \ {s} : step'[q] = step[q]
  BY DEF CallModel, GoTo, tables, request, Typed, StreamsTyped
<1>2. (step'[s] = "error" \/ sent' = sent) /\ \A q \in Streams \ {s} : sent'[q] = sent[q]
  BY DEF CallModel, GoTo, Send, Typed, StreamsTyped, OutputTyped
<1>3. faults <= faults'
  BY <1>1, FaultGrows
<1>4. Story(s) /\ RowsKept(s)
  BY <1>1, RowsRest DEF StoryInv
<1>5. Counted(s)'
  <2>1. CASE step'[s] = "error"
    BY <2>1 DEF Counted
  <2>2. CASE sent' = sent
    <3>1. Chunks(s)' = Chunks(s)
      BY <2>2 DEF Chunks
    <3>2. QED
      BY <1>1, <1>4, <3>1 DEF Story, Counted
  <2>3. QED
    BY <1>2, <2>1, <2>2
<1>6. Unanswered(s) /\ ~Stored(s)' /\ Prompted(s)
  BY <1>1 DEF Unanswered, Stored, Prompted
<1>7. Story(s)'
  BY <1>1, <1>3, <1>4, <1>5, <1>6, StoryGoesOn
<1>8. QED
  BY <1>1, <1>2, <1>3, <1>7, OwnStep

LEMMA ChunkStory ==
  ASSUME Typed, Typed', StoryInv, NEW s \in Streams, Chunk(s)
  PROVE  StoryInv'
<1>1. /\ step[s] = "stream" /\ UNCHANGED <<messages, step, target, bare, prompt, faults>>
      /\ Send(s, "chunk")
  BY DEF Chunk, tables, request
<1>2. /\ answer[s] \in Nat /\ answer'[s] = answer[s] + 1
      /\ \A q \in Streams \ {s} : answer'[q] = answer[q] /\ sent'[q] = sent[q]
  BY DEF Chunk, Send, Typed, OutputTyped
<1>3. faults <= faults'
  BY <1>1, FaultGrows
<1>4. Story(s) /\ RowsKept(s)
  BY <1>1, RowsRest DEF StoryInv
<1>5. Chunks(s)' = answer'[s]
  BY <1>1, <1>2, <1>4, ChunkSent DEF Story, Counted
<1>6. Counted(s)' /\ Unanswered(s) /\ ~Stored(s)' /\ Prompted(s)
  BY <1>1, <1>4, <1>5 DEF Story, Counted, Unanswered, Stored, Prompted, Task
<1>7. Story(s)'
  BY <1>1, <1>3, <1>4, <1>6, StoryGoesOn
<1>8. QED
  BY <1>1, <1>2, <1>3, <1>7, OwnStep

\* The answer is not stored: its insert failed, or the stream broke off before a chunk.
LEMMA NoAnswerStory ==
  ASSUME Typed, Typed', StoryInv, NEW s \in Streams, step[s] \in {"stream", "save"},
         UNCHANGED <<messages, target, bare, prompt, answer, sent>>,
         \/ GoTo(s, "clear answer") /\ Fault
         \/ GoTo(s, "wait") /\ step[s] = "stream" /\ ~(answer[s] > 0) /\ faults' = faults
  PROVE  StoryInv'
<1>1. /\ \/ step'[s] = "clear answer" /\ Fault
         \/ step'[s] = "wait" /\ step[s] = "stream" /\ ~(answer[s] > 0) /\ faults' = faults
      /\ \A q \in Streams \ {s} : step'[q] = step[q]
  BY DEF GoTo, Typed, StreamsTyped
<1>2. faults <= faults' /\ (step'[s] = "clear answer" => faults' # 0)
  <2>1. CASE Fault
    BY <2>1, FaultGrows
  <2>2. CASE faults' = faults /\ step'[s] = "wait"
    BY <2>2, FaultGrows
  <2>3. QED
    BY <1>1, <2>1, <2>2
<1>3. Story(s) /\ RowsKept(s)
  BY RowsRest DEF StoryInv
<1>4. Chunks(s)' = Chunks(s)
  BY DEF Chunks
<1>5. Counted(s)' /\ Unanswered(s) /\ Prompted(s)
  BY <1>1, <1>3, <1>4 DEF Story, Counted, Unanswered, Prompted, Task
<1>6. Story(s)'
  BY <1>1, <1>2, <1>3, <1>4, <1>5, StoryGoesOn
<1>7. QED
  BY <1>1, <1>2, <1>6, OwnStep

LEMMA SaveStory ==
  ASSUME Typed, Typed', StoryInv, NEW s \in Streams, ReadDone(s) \/ StreamBreaks(s) \/ SaveNothingFound(s)
  PROVE  StoryInv'
<1>1. step[s] \in {"stream", "save"} /\ UNCHANGED <<target, bare, prompt, answer, sent>>
  BY DEF ReadDone, StreamBreaks, SaveNothingFound, request
<1>2. \/ KeepAnswer(s)
      \/ messages' = messages /\ GoTo(s, "clear answer") /\ Fault
      \/ messages' = messages /\ GoTo(s, "wait") /\ step[s] = "stream" /\ ~(answer[s] > 0) /\ UNCHANGED faults
  BY <1>1 DEF ReadDone, StreamBreaks, SaveNothingFound, SaveExchange, KeepAnswer
<1>3. QED
  BY <1>1, <1>2, AnswerStory, NoAnswerStory

LEMMA ClearAnswerStory ==
  ASSUME Typed, Typed', StoryInv, NEW s \in Streams, ClearAfterAnswer(s)
  PROVE  StoryInv'
<1>1. /\ step[s] = "clear answer" /\ step'[s] = (IF bare[s] THEN "answered" ELSE "wait")
      /\ UNCHANGED <<messages, target, bare, prompt, answer, sent>>
      /\ \A q \in Streams \ {s} : step'[q] = step[q]
  BY DEF ClearAfterAnswer, GoTo, tables, request, Typed, StreamsTyped
<1>2. faults <= faults'
  BY FaultGrows DEF ClearAfterAnswer, DropPageAndLists
<1>3. Story(s) /\ RowsKept(s)
  BY <1>1, RowsRest DEF StoryInv
<1>4. Chunks(s)' = Chunks(s)
  BY <1>1 DEF Chunks
<1>5. Counted(s)' /\ ~Unanswered(s)' /\ Stored(s) /\ Prompted(s)
  BY <1>1, <1>3, <1>4 DEF Story, Counted, Unanswered, Stored, Prompted, Task
<1>6. Story(s)'
  BY <1>1, <1>2, <1>3, <1>4, <1>5, StoryGoesOn
<1>7. QED
  BY <1>1, <1>2, <1>6, OwnStep

LEMMA CloseStory ==
  ASSUME Typed, Typed', StoryInv, NEW s \in Streams, Close(s)
  PROVE  StoryInv'
<1>1. /\ step[s] = "wait" /\ step'[s] = (IF bare[s] THEN "save" ELSE "answered")
      /\ UNCHANGED <<messages, target, bare, prompt, answer, faults>>
      /\ \A q \in Streams \ {s} : step'[q] = step[q]
  BY DEF Close, GoTo, tables, request, Typed, StreamsTyped
<1>2. /\ sent[s] \in Seq(Events) /\ sent'[s] = sent[s] \o Closing(s)
      /\ \A q \in Streams \ {s} : sent'[q] = sent[q]
  BY DEF Close, Typed, OutputTyped
<1>3. faults <= faults'
  BY <1>1, FaultGrows
<1>4. Story(s) /\ RowsKept(s)
  BY <1>1, RowsRest DEF StoryInv
<1>5. Chunks(s)' = Chunks(s)
  <2>1. CASE Closing(s) = <<"done">>
    <3>1. /\ Len(sent'[s]) = Len(sent[s]) + 1 /\ sent'[s][Len(sent[s]) + 1] = "done"
          /\ \A k \in 1..Len(sent[s]) : sent'[s][k] = sent[s][k]
      BY <1>2, <2>1
    <3>2. \A k \in 1..Len(sent'[s]) : k > Len(sent[s]) => k = Len(sent[s]) + 1
      BY <1>2, <3>1
    <3>3. QED
      BY <1>2, <3>1, <3>2, NoChunkSent
  <2>2. CASE Closing(s) = <<"title", "done">>
    <3>1. /\ Len(sent'[s]) = Len(sent[s]) + 2
          /\ sent'[s][Len(sent[s]) + 1] = "title" /\ sent'[s][Len(sent[s]) + 2] = "done"
          /\ \A k \in 1..Len(sent[s]) : sent'[s][k] = sent[s][k]
      BY <1>2, <2>2
    <3>2. \A k \in 1..Len(sent'[s]) : k > Len(sent[s]) => k = Len(sent[s]) + 1 \/ k = Len(sent[s]) + 2
      BY <1>2, <3>1
    <3>3. \A k \in 1..Len(sent'[s]) : k > Len(sent[s]) => sent'[s][k] # "chunk"
      <4>1. "title" # "chunk" /\ "done" # "chunk"
        OBVIOUS
      <4>2. QED
        BY <3>1, <3>2, <4>1
    <3>4. Len(sent[s]) \in Nat /\ Len(sent'[s]) \in Nat /\ Len(sent[s]) <= Len(sent'[s])
      BY <1>2, <3>1
    <3>5. QED
      BY <3>1, <3>3, <3>4, NoChunkSent
  <2>3. QED
    BY <2>1, <2>2 DEF Closing
<1>6. /\ Counted(s)' /\ (Unanswered(s)' => Unanswered(s)) /\ Prompted(s)
      /\ (Stored(s)' => Stored(s))
  BY <1>1, <1>4, <1>5 DEF Story, Counted, Unanswered, Stored, Prompted, Task
<1>7. Story(s)'
  BY <1>1, <1>3, <1>4, <1>5, <1>6, StoryGoesOn
<1>8. QED
  BY <1>1, <1>2, <1>3, <1>7, OwnStep

LEMMA RestartStory ==
  ASSUME Typed, Typed', StoryInv, Restart
  PROVE  StoryInv'
<1>1. UNCHANGED <<messages, target, bare, prompt, answer, sent>>
  BY DEF Restart, tables, request
<1>2. faults <= faults'
  BY FaultGrows DEF Restart
<1>3. ASSUME NEW s \in Streams PROVE Story(s)'
  <2>1. Story(s) /\ RowsKept(s)
    BY <1>1, RowsRest DEF StoryInv
  <2>2. step'[s] = IF step[s] \in Ended \cup {"idle"} THEN step[s] ELSE "failed"
    BY DEF Restart
  <2>3. CASE step'[s] = step[s]
    BY <1>1, <1>2, <2>1, <2>3, StoryRests
  <2>4. CASE step'[s] # step[s] /\ step[s] = "insert"
    BY <2>1, <2>2, <2>4, BlankStory
  <2>5. CASE step'[s] # step[s] /\ step[s] # "insert"
    <3>1. step'[s] = "failed" /\ step[s] \notin {"idle", "insert"}
      BY <2>2, <2>5
    <3>2. Counted(s)' /\ ~Unanswered(s)' /\ ~Stored(s)' /\ ~Prompted(s)'
      BY <3>1 DEF Counted, Unanswered, Stored, Prompted, Task
    <3>3. Chunks(s)' = Chunks(s)
      BY <1>1 DEF Chunks
    <3>4. QED
      BY <1>1, <1>2, <2>1, <3>1, <3>2, <3>3, StoryGoesOn
  <2>6. QED
    BY <2>3, <2>4, <2>5
<1>4. QED
  BY <1>3 DEF StoryInv

LEMMA InitStory == Init => StoryInv
<1>1. SUFFICES ASSUME Init, NEW s \in Streams PROVE Story(s)
  BY DEF StoryInv
<1>2. step[s] = "idle" /\ \A t \in Threads : messages[t] = <<>>
  BY <1>1 DEF Init
<1>3. \A t \in Threads : Asks(s, t) = {} /\ Answers(s, t) = {}
  BY <1>2 DEF Asks, Answers
<1>4. QED
  BY <1>2, <1>3 DEF Story, Counted, WroteWhere, WroteOnce, WroteAll, GotBefore, Stored, Prompted, Task

LEMMA NextStory ==
  ASSUME Typed, Typed', StoryInv, [Next]_vars
  PROVE  StoryInv'
<1>1. ASSUME NEW s \in Streams, Start(s) \/ HandlerStep(s) \/ FailRequest(s) \/ ModelStep(s) \/ TaskStep(s)
      PROVE  StoryInv'
  BY <1>1, StartStory, QuestionStory, ClearQuestionStory, RecallStory, CallStory, FailStory, ChunkStory,
     SaveStory, ClearAnswerStory, CloseStory DEF HandlerStep, ModelStep, TaskStep
<1>2. CASE \/ \E s \in Streams : TitleStep(s)
           \/ \E r \in Readers : ReaderStep(r)
           \/ \E c \in Callers : CallerStep(c)
           \/ \E t \in Threads : Expire(t)
           \/ \E l \in Limits : ExpireList(l)
           \/ UNCHANGED vars
  <2>1. UNCHANGED <<messages, target, step, bare, answer, sent, prompt>> /\ (Fault \/ UNCHANGED faults)
    BY <1>2 DEF TitleStep, NameThread, ClearAfterTitle, ReaderStep, MissPage, QueryPage, FillPage, MissList,
                QueryList, FillList, CallerStep, RenameThread, DeleteThread, ClearAfterRename,
                ClearAfterDelete, DropLists, DropPageAndLists, Expire, ExpireList, vars, tables, request
  <2>2. QED
    BY <2>1, FaultGrows, QuietStory
<1>3. QED
  BY <1>1, <1>2, RestartStory DEF Next

\* What StoredIsStreamed says of a request, of the rows of its thread and of its answers among them.
Kept(s, rows, At) ==
    /\ \A i, j \in At : i = j
    /\ \A i \in At : /\ rows[i].size = Cardinality({k \in 1..Len(sent[s]) : sent[s][k] = "chunk"})
                     /\ \E q \in 1..i : rows[q].role = "user" /\ rows[q].of = s
    /\ step[s] = "answered" /\ answer[s] > 0 /\ faults = 0 => At # {}

\* However the requests, failed inserts and restarts interleave, a question has at most one answer
\* stored, below it in its thread and as long as what was streamed; and without a fault a finished
\* answer is there (routes/chat.rs:403, :627, :707).
THEOREM AnswersAreStored == Spec => []StoredIsStreamed
<1>1. Spec => [](Typed /\ StoryInv)
  BY InitTyped, NextTyped, InitStory, NextStory, PTL DEF Spec
<1>2. ASSUME Typed, StoryInv PROVE StoredIsStreamed
  <2>1. ASSUME NEW s \in Streams
        PROVE  LET rows == IF target[s] = NoThread THEN <<>> ELSE messages[target[s]] IN
               Kept(s, rows, {i \in 1..Len(rows) : IsAnswerOf(s, rows[i])})
    <3>1. CASE target[s] = NoThread
      <4>1. step[s] = "idle"
        BY <1>2, <3>1, ChatAssumption DEF Typed, StreamsTyped
      <4>2. QED
        BY <3>1, <4>1 DEF Kept
    <3>2. CASE target[s] # NoThread
      <4>1. PICK t \in Threads : t = target[s]
        BY <1>2, <3>2 DEF Typed, StreamsTyped
      <4>2. WroteOnce(s, t) /\ WroteAll(s, t)
        BY <1>2 DEF StoryInv, Story
      <4>3. ASSUME NEW i \in Answers(s, t)
            PROVE  /\ messages[t][i].size = Cardinality({k \in 1..Len(sent[s]) : sent[s][k] = "chunk"})
                   /\ \E q \in 1..i : messages[t][q].role = "user" /\ messages[t][q].of = s
        <5>1. messages[t][i].size = Chunks(s)
          BY <4>2 DEF WroteOnce
        <5>2. PICK q \in Asks(s, t) : q <= i
          BY <4>2 DEF WroteOnce
        <5>3. q \in 1..i
          <6>1. PICK n \in Nat : n = Len(messages[t])
            BY <1>2 DEF Typed, TablesTyped
          <6>2. q \in 1..n /\ i \in 1..n
            BY <6>1 DEF Asks, Answers
          <6>3. QED
            BY <5>2, <6>2
        <5>4. QED
          BY <5>1, <5>2, <5>3 DEF Chunks, Asks
      <4>4. \A i, j \in Answers(s, t) : i = j
        BY <4>2 DEF WroteOnce
      <4>5. step[s] = "answered" /\ answer[s] > 0 /\ faults = 0 => Answers(s, t) # {}
        BY <4>1, <4>2 DEF WroteAll, Stored
      <4>6. Kept(s, messages[t], Answers(s, t))
        BY <4>3, <4>4, <4>5 DEF Kept
      <4>7. QED
        BY <3>2, <4>1, <4>6 DEF Answers
    <3>3. QED
      BY <3>1, <3>2
  <2>2. QED
    BY <2>1 DEF StoredIsStreamed, Kept
<1>3. QED
  BY <1>1, <1>2, PTL

\* However other requests write to the same thread, the model is given the rows before the question,
\* and not the question itself, whenever nobody wrote between the question and the reading of the
\* history (routes/chat.rs:520).
THEOREM PromptsAreTheConversation == Spec => []PromptIsTheConversation
<1>1. Spec => [](Typed /\ StoryInv)
  BY InitTyped, NextTyped, InitStory, NextStory, PTL DEF Spec
<1>2. ASSUME Typed, StoryInv PROVE PromptIsTheConversation
  <2>1. ASSUME NEW s \in Streams, step[s] \in {"rerank", "answered", "error"} \cup Task
        PROVE  \A own \in 1..Len(messages[target[s]]) :
                 (/\ messages[target[s]][own].role = "user" /\ messages[target[s]][own].of = s
                  /\ own = Len(messages[target[s]]) \/ messages[target[s]][own + 1].of = s)
                 => prompt[s] = NewestRows(SubSeq(messages[target[s]], 1, own - 1), HistoryLimit - 1)
    <3>1. PICK t \in Threads : t = target[s]
      BY <1>2, <2>1 DEF Typed, StreamsTyped, Task
    <3>2. GotBefore(s, t) /\ Prompted(s)
      BY <1>2, <2>1 DEF StoryInv, Story, Prompted
    <3>3. QED
      BY <3>1, <3>2 DEF GotBefore, Asks, Undisturbed
  <2>2. QED
    BY <2>1 DEF PromptIsTheConversation
<1>3. QED
  BY <1>1, <1>2, PTL

===============================================================================
