------------------------- MODULE MeetingLifecycleProofs -------------------------
(***************************************************************************)
(* Proofs about MeetingLifecycle for any number of requests, loops, bots,  *)
(* attempts and faults.                                                    *)
(***************************************************************************)
EXTENDS MeetingLifecycle, FiniteSetTheorems, TLAPS

-------------------------------------------------------------------------------
(* Sequences of bots. *)

LEMMA LastStored ==
  ASSUME NEW S, NEW s \in Seq(S), s # <<>>
  PROVE  Last(s) \in S /\ Last(s) \in Range(s)
<1>1. Len(s) \in 1..Len(s)
  OBVIOUS
<1>2. QED
  BY <1>1 DEF Last, Range

LEMMA RangeOfAppend ==
  ASSUME NEW S, NEW s \in Seq(S), NEW e \in S
  PROVE  Append(s, e) \in Seq(S) /\ Range(Append(s, e)) = Range(s) \cup {e}
<1>1. /\ DOMAIN Append(s, e) = 1..(Len(s) + 1) /\ DOMAIN s = 1..Len(s)
      /\ Append(s, e)[Len(s) + 1] = e
      /\ \A i \in 1..Len(s) : Append(s, e)[i] = s[i]
  OBVIOUS
<1>2. 1..(Len(s) + 1) = 1..Len(s) \cup {Len(s) + 1}
  OBVIOUS
<1>3. Range(Append(s, e)) = {s[i] : i \in 1..Len(s)} \cup {e}
  BY <1>1, <1>2 DEF Range
<1>4. QED
  BY <1>1, <1>3 DEF Range

LEMMA RangeTyped ==
  ASSUME NEW S, NEW s \in Seq(S)
  PROVE  Range(s) \subseteq S /\ (s = <<>> => Range(s) = {})
  BY DEF Range

-------------------------------------------------------------------------------
(* Types. *)

Claim == {"none", "held", "lost", "gone"}

QueueTyped == row \in [Keys -> {"none", "active", "dead"}] /\ attempts \in [Keys -> Nat]

\* Between the provider's answer and the end of store_recall_bot a creator knows its bot.
BotKnown == \A a \in Creators : At(a) \in {"store", "mark"} => bot[a] \in Bots

Typed == TypeOK /\ BotKnown

LEMMA ChargeTyped ==
  ASSUME QueueTyped, NEW k \in Keys, Charge(k)
  PROVE  QueueTyped'
  BY DEF QueueTyped, Charge

LEMMA BusyRunsJob ==
  ASSUME LoopsTyped, NEW w \in Workers, pc[w] # "idle"
  PROVE  job[w] \in Keys
  BY DEF LoopsTyped

\* A loop becomes idle.
LEMMA IdleTyped ==
  ASSUME LoopsTyped, QueueTyped', NEW w \in Workers, Leave(w), lease' \in [Workers -> Claim], lease'[w] = "none",
         \A v \in Workers \ {w} : pc[v] = "idle" => lease'[v] = "none"
  PROVE  LoopsTyped'
<1>1. /\ pc' \in [Workers -> {"idle", "select", "create", "store", "mark", "done"}]
      /\ job' \in [Workers -> Keys \cup {NoJob}]
  BY DEF Leave, LoopsTyped
<1>2. /\ pc'[w] = "idle" /\ job'[w] = NoJob
      /\ \A v \in Workers \ {w} : pc'[v] = pc[v] /\ job'[v] = job[v]
  BY DEF Leave, LoopsTyped
<1>3. QED
  BY <1>1, <1>2 DEF LoopsTyped, Claim, QueueTyped

LEMMA FailTyped ==
  ASSUME LoopsTyped, NEW w \in Workers, pc[w] # "idle", FailRow(w), Leave(w)
  PROVE  LoopsTyped'
<1>1. job[w] \in Keys /\ QueueTyped
  BY BusyRunsJob DEF LoopsTyped, QueueTyped
<1>2. QueueTyped'
  BY <1>1, ChargeTyped DEF FailRow, queueVars, QueueTyped
<1>3. /\ lease' \in [Workers -> Claim] /\ lease'[w] = "none"
      /\ \A v \in Workers \ {w} : pc[v] = "idle" => lease'[v] = "none"
  BY DEF FailRow, LoopsTyped, Claim
<1>4. QED
  BY <1>2, <1>3, IdleTyped

LEMMA DeleteTyped ==
  ASSUME LoopsTyped, NEW w \in Workers, pc[w] # "idle", DeleteRow(w), Leave(w)
  PROVE  LoopsTyped'
<1>1. job[w] \in Keys /\ QueueTyped
  BY BusyRunsJob DEF LoopsTyped, QueueTyped
<1>2. QueueTyped'
  BY <1>1 DEF DeleteRow, queueVars, QueueTyped
<1>3. lease' \in [Workers -> Claim] /\ lease'[w] = "none"
  BY DEF DeleteRow, LoopsTyped, Claim
<1>4. \A v \in Workers \ {w} : pc[v] = "idle" => lease'[v] = "none"
  BY <1>1, LifecycleAssumption DEF DeleteRow, LoopsTyped
<1>5. QED
  BY <1>2, <1>3, <1>4, IdleTyped

LEMMA GoToTyped ==
  ASSUME LoopsTyped, NEW w \in Workers, pc[w] # "idle", NEW s \in {"create", "store", "mark", "done"}, GoTo(w, s),
         UNCHANGED <<queueVars, job, lease>>
  PROVE  LoopsTyped' /\ pc'[w] = s /\ \A v \in Workers \ {w} : pc'[v] = pc[v]
<1>1. /\ pc' \in [Workers -> {"idle", "select", "create", "store", "mark", "done"}]
      /\ pc'[w] = s /\ \A v \in Workers \ {w} : pc'[v] = pc[v]
  BY DEF GoTo, LoopsTyped
<1>2. QED
  BY <1>1 DEF LoopsTyped, queueVars

-------------------------------------------------------------------------------
(* What the helpers do to the steps of creators and to their bots. *)

LocalsTyped ==
    /\ step \in [Callers -> {"none", "find", "insert", "attach", "check", "create", "store", "mark", "drop",
                             "leave", "cancel"}]
    /\ bot \in [Creators -> Bots \cup {NoBot}]

\* Creator a is at step s now, the others are where they were.
Turns(a, s) == At(a)' = s /\ \A d \in Creators \ {a} : At(d)' = At(d)

\* The same, and its bot is forgotten.
Ends(a, s) ==
    /\ Turns(a, s)
    /\ bot'[a] = NoBot /\ \A d \in Creators \ {a} : bot'[d] = bot[d]

LEMMA CallersApart == ASSUME NEW c \in Callers PROVE c \notin Workers /\ c \in Creators /\ At(c) = step[c] /\ At(c)' = step'[c]
  BY LifecycleAssumption DEF At, Creators

LEMMA WorkersApart == ASSUME NEW w \in Workers PROVE w \notin Callers /\ w \in Creators /\ At(w) = pc[w] /\ At(w)' = pc'[w]
  BY LifecycleAssumption DEF At, Creators

LEMMA StepTurns ==
  ASSUME LocalsTyped, NEW c \in Callers, NEW s, step' = [step EXCEPT ![c] = s], UNCHANGED pc
  PROVE  Turns(c, s)
  BY CallersApart DEF LocalsTyped, Turns, At, Creators

LEMMA GoOnTurns ==
  ASSUME LocalsTyped, NEW c \in Callers,
         NEW s \in {"find", "insert", "attach", "check", "create", "store", "mark", "drop", "leave", "cancel"},
         GoOn(c, s), UNCHANGED pc
  PROVE  LocalsTyped' /\ Turns(c, s)
  BY StepTurns DEF GoOn, LocalsTyped

LEMMA RespondEnds ==
  ASSUME LocalsTyped, NEW c \in Callers, Respond(c), UNCHANGED pc
  PROVE  LocalsTyped' /\ Ends(c, "none") /\ late' \subseteq late
<1>1. LocalsTyped' /\ late' \subseteq late
  BY DEF Respond, LocalsTyped
<1>2. Turns(c, "none")
  BY StepTurns DEF Respond
<1>3. bot'[c] = NoBot /\ \A d \in Creators \ {c} : bot'[d] = bot[d]
  BY CallersApart DEF Respond, LocalsTyped
<1>4. QED
  BY <1>1, <1>2, <1>3 DEF Ends

\* A request or a run of the job moves on.
LEMMA MovesTurns ==
  ASSUME LocalsTyped, LoopsTyped, NEW a \in Creators, At(a) \notin {"none", "idle"},
         NEW s \in {"create", "store", "mark"}, Moves(a, s), UNCHANGED <<queueVars, job, lease>>
  PROVE  LoopsTyped' /\ Turns(a, s) /\ (bot' \in [Creators -> Bots \cup {NoBot}] => LocalsTyped')
<1>1. CASE a \in Workers
  <2>1. GoTo(a, s) /\ UNCHANGED step /\ pc[a] # "idle"
    BY <1>1 DEF Moves, At
  <2>2. LoopsTyped' /\ pc'[a] = s /\ \A v \in Workers \ {a} : pc'[v] = pc[v]
    BY <1>1, <2>1, GoToTyped
  <2>3. QED
    BY <1>1, <2>1, <2>2 DEF LocalsTyped, Turns, At
<1>2. CASE a \notin Workers
  <2>1. a \in Callers /\ step' = [step EXCEPT ![a] = s] /\ UNCHANGED pc
    BY <1>2 DEF Moves, Creators
  <2>2. QED
    BY <2>1, StepTurns DEF LocalsTyped, LoopsTyped, queueVars
<1>3. QED
  BY <1>1, <1>2

LEMMA CreatedEnds ==
  ASSUME LocalsTyped, LoopsTyped, NEW a \in Creators, At(a) \in {"create", "mark"}, Created(a),
         UNCHANGED <<queueVars, job, lease>>
  PROVE  LoopsTyped' /\ LocalsTyped' /\ late' \subseteq late /\ \E s \in {"none", "done"} : Ends(a, s)
<1>1. CASE a \in Workers
  <2>1. GoTo(a, "done") /\ bot' = [bot EXCEPT ![a] = NoBot] /\ UNCHANGED <<step, late>> /\ pc[a] # "idle"
    BY <1>1 DEF Created, At
  <2>2. LoopsTyped' /\ pc'[a] = "done" /\ \A v \in Workers \ {a} : pc'[v] = pc[v]
    BY <1>1, <2>1, GoToTyped
  <2>3. Turns(a, "done")
    BY <1>1, <2>1, <2>2 DEF Turns, At
  <2>4. LocalsTyped' /\ bot'[a] = NoBot /\ \A d \in Creators \ {a} : bot'[d] = bot[d]
    BY <2>1 DEF LocalsTyped
  <2>5. QED
    BY <2>1, <2>2, <2>3, <2>4 DEF Ends
<1>2. CASE a \notin Workers
  <2>1. a \in Callers /\ Respond(a) /\ UNCHANGED pc
    BY <1>2 DEF Created, Creators
  <2>2. QED
    BY <2>1, RespondEnds DEF LoopsTyped, queueVars
<1>3. QED
  BY <1>1, <1>2

LEMMA IdleEnds ==
  ASSUME LocalsTyped, LoopsTyped, NEW w \in Workers, Idle(w), UNCHANGED step
  PROVE  LocalsTyped' /\ Ends(w, "idle") /\ late' \subseteq late
<1>1. pc'[w] = "idle" /\ \A v \in Workers \ {w} : pc'[v] = pc[v]
  BY DEF Idle, Leave, LoopsTyped
<1>2. Turns(w, "idle")
  BY <1>1 DEF Turns, At
<1>3. LocalsTyped' /\ bot'[w] = NoBot /\ \A d \in Creators \ {w} : bot'[d] = bot[d]
  BY WorkersApart DEF Idle, LocalsTyped
<1>4. QED
  BY <1>2, <1>3 DEF Ends, Idle

LEMMA AbandonTyped ==
  ASSUME Typed, NEW a \in Creators, Abandon(a)
  PROVE  unfinished' \subseteq Bots
  BY DEF Abandon, Typed, BotKnown, TypeOK, CallersTyped

-------------------------------------------------------------------------------
(* Every step keeps the types. *)

LEMMA InitTyped == Init => Typed
<1> SUFFICES ASSUME Init PROVE Typed
  OBVIOUS
<1>1. MeetingTyped /\ BotsTyped
  <2>1. requests \in 0..MaxRequests /\ faults \in 0..MaxFaults
    BY LifecycleAssumption DEF Init
  <2>2. MeetingTyped
    BY <2>1 DEF Init, MeetingTyped
  <2>3. QED
    BY <2>2 DEF Init, BotsTyped
<1>2. CallersTyped /\ LoopsTyped
  BY DEF Init, CallersTyped, LoopsTyped
<1>3. BotKnown
  BY DEF Init, BotKnown, At, Creators
<1>4. QED
  BY <1>1, <1>2, <1>3 DEF Typed, TypeOK

LEMMA FaultTyped ==
  ASSUME faults \in 0..MaxFaults, Fault
  PROVE  faults' \in 0..MaxFaults
  BY LifecycleAssumption DEF Fault

LEMMA BeginTyped ==
  ASSUME Typed, NEW c \in Callers, NEW s \in {"find", "drop", "leave"}, Begin(c, s), UNCHANGED pc
  PROVE  /\ requests' \in 0..MaxRequests
         /\ step' \in [Callers -> {"none", "find", "insert", "attach", "check", "create", "store", "mark", "drop",
                                   "leave", "cancel"}]
         /\ late' \subseteq Creators
         /\ Turns(c, s)
<1>1. step' = [step EXCEPT ![c] = s]
  BY DEF Begin
<1>2. Turns(c, s)
  BY <1>1, StepTurns DEF Typed, TypeOK, CallersTyped, LocalsTyped
<1>3. QED
  BY <1>1, <1>2, LifecycleAssumption DEF Begin, Typed, TypeOK, MeetingTyped, CallersTyped, Creators

LEMMA KnownAfterTurn ==
  ASSUME BotKnown, NEW a \in Creators, NEW s, Turns(a, s), \A d \in Creators \ {a} : bot'[d] = bot[d],
         s \in {"store", "mark"} => bot'[a] \in Bots
  PROVE  BotKnown'
<1>1. ASSUME NEW d \in Creators, At(d)' \in {"store", "mark"} PROVE bot'[d] \in Bots
  BY <1>1 DEF BotKnown, Turns
<1>2. QED
  BY <1>1 DEF BotKnown

LEMMA KnownAfterEnd ==
  ASSUME BotKnown, NEW a \in Creators, NEW s \in {"none", "idle", "done"}, Ends(a, s)
  PROVE  BotKnown'
  BY KnownAfterTurn DEF Ends

LEMMA EnqueueTyped ==
  ASSUME LoopsTyped, Enqueue(Schedule), UNCHANGED <<pc, job>>
  PROVE  LoopsTyped'
<1>1. QueueTyped'
  BY DEF Enqueue, QueueTyped, LoopsTyped, Keys
<1>2. lease' \in [Workers -> Claim] /\ \A v \in Workers : pc[v] = "idle" => lease'[v] = "none"
  BY LifecycleAssumption DEF Enqueue, LoopsTyped, Claim, Keys
<1>3. QED
  BY <1>1, <1>2 DEF LoopsTyped, QueueTyped, Claim

\* Steps of a request that touch neither the queue nor the loops.
LEMMA CreateRequestTyped ==
  ASSUME Typed, NEW c \in Callers,
         PostMeeting(c) \/ FindMeeting(c) \/ InsertMeeting(c) \/ AttachAccess(c) \/ CheckBot(c)
  PROVE  Typed'
<1> USE DEF Typed, TypeOK
<1>1. LocalsTyped
  BY DEF CallersTyped, LocalsTyped
<1>2. CASE PostMeeting(c)
  <2>1. Turns(c, "find") /\ UNCHANGED bot
    BY <1>2, BeginTyped DEF PostMeeting
  <2>2. BotKnown'
    BY <2>1, KnownAfterTurn, CallersApart
  <2>3. MeetingTyped' /\ BotsTyped' /\ LoopsTyped'
    BY <1>2, BeginTyped DEF PostMeeting, meetingVars, botVars, queueVars, MeetingTyped, BotsTyped, LoopsTyped
  <2>4. CallersTyped'
    BY <1>2, BeginTyped DEF PostMeeting, signVars, CallersTyped
  <2>5. QED
    BY <2>2, <2>3, <2>4
<1>3. CASE FindMeeting(c)
  <2>1. PICK s \in {"attach", "insert"} : GoOn(c, s)
    BY <1>3 DEF FindMeeting
  <2>2. LocalsTyped' /\ Turns(c, s)
    BY <1>1, <1>3, <2>1, GoOnTurns DEF FindMeeting
  <2>3. BotKnown'
    BY <2>1, <2>2, KnownAfterTurn, CallersApart DEF GoOn
  <2>4. MeetingTyped' /\ BotsTyped' /\ LoopsTyped'
    BY <1>3 DEF FindMeeting, meetingVars, botVars, queueVars, MeetingTyped, BotsTyped, LoopsTyped
  <2>5. CallersTyped'
    BY <1>3, <2>1, <2>2 DEF FindMeeting, GoOn, signVars, CallersTyped, LocalsTyped
  <2>6. QED
    BY <2>3, <2>4, <2>5
<1>4. CASE InsertMeeting(c)
  <2>1. MeetingTyped' /\ BotsTyped' /\ LoopsTyped'
    BY <1>4 DEF InsertMeeting, botVars, queueVars, MeetingTyped, BotsTyped, LoopsTyped
  <2>2. CASE GoOn(c, "attach")
    <3>1. LocalsTyped' /\ Turns(c, "attach")
      BY <1>1, <1>4, <2>2, GoOnTurns DEF InsertMeeting
    <3>2. BotKnown'
      BY <2>2, <3>1, KnownAfterTurn, CallersApart DEF GoOn
    <3>3. CallersTyped'
      BY <1>4, <2>2, <3>1 DEF InsertMeeting, GoOn, signVars, CallersTyped, LocalsTyped
    <3>4. QED
      BY <2>1, <3>2, <3>3
  <2>3. CASE Respond(c)
    <3>1. LocalsTyped' /\ Ends(c, "none") /\ late' \subseteq late
      BY <1>1, <1>4, <2>3, RespondEnds DEF InsertMeeting
    <3>2. BotKnown'
      BY <3>1, KnownAfterEnd, CallersApart
    <3>3. CallersTyped'
      BY <1>4, <3>1 DEF InsertMeeting, signVars, CallersTyped, LocalsTyped
    <3>4. QED
      BY <2>1, <3>2, <3>3
  <2>4. QED
    BY <1>4, <2>2, <2>3 DEF InsertMeeting
<1>5. CASE AttachAccess(c)
  <2>1. MeetingTyped' /\ BotsTyped' /\ LoopsTyped'
    BY <1>5 DEF AttachAccess, botVars, queueVars, MeetingTyped, BotsTyped, LoopsTyped
  <2>2. CASE GoOn(c, "check")
    <3>1. LocalsTyped' /\ Turns(c, "check")
      BY <1>1, <1>5, <2>2, GoOnTurns DEF AttachAccess
    <3>2. BotKnown'
      BY <2>2, <3>1, KnownAfterTurn, CallersApart DEF GoOn
    <3>3. CallersTyped'
      BY <1>5, <2>2, <3>1 DEF AttachAccess, GoOn, signVars, CallersTyped, LocalsTyped
    <3>4. QED
      BY <2>1, <3>2, <3>3
  <2>3. CASE Respond(c)
    <3>1. LocalsTyped' /\ Ends(c, "none") /\ late' \subseteq late
      BY <1>1, <1>5, <2>3, RespondEnds DEF AttachAccess
    <3>2. BotKnown'
      BY <3>1, KnownAfterEnd, CallersApart
    <3>3. CallersTyped'
      BY <1>5, <3>1 DEF AttachAccess, signVars, CallersTyped, LocalsTyped
    <3>4. QED
      BY <2>1, <3>2, <3>3
  <2>4. QED
    BY <1>5, <2>2, <2>3 DEF AttachAccess
<1>6. CASE CheckBot(c)
  <2>1. MeetingTyped' /\ BotsTyped'
    BY <1>6 DEF CheckBot, meetingVars, botVars, MeetingTyped, BotsTyped
  <2>2. CASE Decide(c)
    <3>1. LocalsTyped' /\ Turns(c, "create") /\ LoopsTyped'
      BY <1>1, <1>6, <2>2, MovesTurns, CallersApart DEF CheckBot, Decide, LocalsTyped
    <3>2. BotKnown'
      BY <2>2, <3>1, KnownAfterTurn, CallersApart DEF Decide
    <3>3. CallersTyped'
      BY <1>6, <2>2, <3>1 DEF CheckBot, Decide, CallersTyped, LocalsTyped
    <3>4. QED
      BY <2>1, <3>1, <3>2, <3>3
  <2>3. CASE Respond(c) /\ UNCHANGED <<pc, overlapped>>
    <3>1. LocalsTyped' /\ Ends(c, "none") /\ late' \subseteq late
      BY <1>1, <2>3, RespondEnds
    <3>2. BotKnown'
      BY <3>1, KnownAfterEnd, CallersApart
    <3>3. CallersTyped' /\ LoopsTyped'
      BY <1>6, <2>3, <3>1 DEF CheckBot, queueVars, CallersTyped, LocalsTyped, LoopsTyped
    <3>4. QED
      BY <2>1, <3>2, <3>3
  <2>4. QED
    BY <1>6, <2>2, <2>3 DEF CheckBot
<1>7. QED
  BY <1>2, <1>3, <1>4, <1>5, <1>6

LEMMA CreatorStepTyped ==
  ASSUME Typed, NEW a \in Creators, CreateBot(a) \/ CreateBotFails(a) \/ StoreBot(a) \/ MarkScheduled(a)
  PROVE  Typed'
<1> USE DEF Typed, TypeOK
<1>1. LocalsTyped
  BY DEF CallersTyped, LocalsTyped
<1>2. CASE CreateBot(a)
  <2>1. PICK b \in Bots \ Made : phase' = [phase EXCEPT ![b] = "ready"] /\ bot' = [bot EXCEPT ![a] = b]
    BY <1>2 DEF CreateBot
  <2>2. bot' \in [Creators -> Bots \cup {NoBot}] /\ bot'[a] = b /\ \A d \in Creators \ {a} : bot'[d] = bot[d]
    BY <2>1 DEF CallersTyped
  <2>3. LocalsTyped' /\ LoopsTyped' /\ Turns(a, "store")
    BY <1>1, <1>2, <2>2, MovesTurns DEF CreateBot
  <2>4. BotKnown'
    BY <2>2, <2>3, KnownAfterTurn
  <2>5. MeetingTyped' /\ BotsTyped' /\ CallersTyped'
    BY <1>2, <2>1, <2>3 DEF CreateBot, meetingVars, botVars, signVars, MeetingTyped, BotsTyped, CallersTyped, LocalsTyped
  <2>6. QED
    BY <2>3, <2>4, <2>5
<1>3. CASE CreateBotFails(a)
  <2>1. /\ phase' \in [Bots -> {"none", "ready", "call", "left", "deleted"}]
        /\ unfinished' \subseteq Bots
    BY <1>3 DEF CreateBotFails, BotsTyped, CallersTyped
  <2>2. PICK s \in {"none", "done"} : Ends(a, s)
    BY <1>1, <1>3, CreatedEnds DEF CreateBotFails
  <2>3. LoopsTyped' /\ LocalsTyped' /\ late' \subseteq late
    BY <1>1, <1>3, CreatedEnds DEF CreateBotFails
  <2>4. BotKnown'
    BY <2>2, KnownAfterEnd
  <2>5. MeetingTyped' /\ BotsTyped' /\ CallersTyped'
    BY <1>3, <2>1, <2>3, FaultTyped
       DEF CreateBotFails, meetingVars, botVars, MeetingTyped, BotsTyped, CallersTyped, LocalsTyped
  <2>6. QED
    BY <2>3, <2>4, <2>5
<1>4. CASE StoreBot(a)
  <2>1. bot[a] \in Bots
    BY <1>4 DEF StoreBot, BotKnown
  <2>2. bots' \in Seq(Bots)
    BY <1>4, <2>1, RangeOfAppend DEF StoreBot, BotsTyped
  <2>3. LocalsTyped' /\ LoopsTyped' /\ Turns(a, "mark")
    BY <1>1, <1>4, MovesTurns DEF StoreBot, LocalsTyped
  <2>4. BotKnown'
    BY <1>4, <2>1, <2>3, KnownAfterTurn DEF StoreBot
  <2>5. MeetingTyped' /\ BotsTyped' /\ CallersTyped'
    BY <1>4, <2>2, <2>3 DEF StoreBot, meetingVars, signVars, MeetingTyped, BotsTyped, CallersTyped, LocalsTyped
  <2>6. QED
    BY <2>3, <2>4, <2>5
<1>5. CASE MarkScheduled(a)
  <2>1. PICK s \in {"none", "done"} : Ends(a, s)
    BY <1>1, <1>5, CreatedEnds DEF MarkScheduled
  <2>2. LoopsTyped' /\ LocalsTyped' /\ late' \subseteq late
    BY <1>1, <1>5, CreatedEnds DEF MarkScheduled
  <2>3. BotKnown'
    BY <2>1, KnownAfterEnd
  <2>4. MeetingTyped' /\ BotsTyped' /\ CallersTyped'
    BY <1>5, <2>2 DEF MarkScheduled, botVars, signVars, MeetingTyped, BotsTyped, CallersTyped, LocalsTyped
  <2>5. QED
    BY <2>2, <2>3, <2>4
<1>6. QED
  BY <1>2, <1>3, <1>4, <1>5

LEMMA CancelRequestTyped ==
  ASSUME Typed, NEW c \in Callers,
         AskCancel(c) \/ DropBot(c) \/ LeaveCall(c) \/ SetCancelled(c) \/ RequestStops(c)
  PROVE  Typed'
<1> USE DEF Typed, TypeOK
<1>1. LocalsTyped /\ c \in Creators
  BY CallersApart DEF CallersTyped, LocalsTyped
<1>2. CASE AskCancel(c)
  <2>1. PICK s \in {"drop", "leave"} : Begin(c, s)
    BY <1>2 DEF AskCancel
  <2>2. Last(bots) \in Bots
    BY <1>2, LastStored DEF AskCancel, BotsTyped
  <2>3. bot' \in [Creators -> Bots \cup {NoBot}] /\ \A d \in Creators \ {c} : bot'[d] = bot[d]
    BY <1>2, <2>2 DEF AskCancel, CallersTyped
  <2>4. BotKnown'
    BY <1>1, <1>2, <2>1, <2>3, BeginTyped, KnownAfterTurn DEF AskCancel
  <2>5. MeetingTyped' /\ BotsTyped' /\ LoopsTyped'
    BY <1>2, <2>1, BeginTyped DEF AskCancel, meetingVars, botVars, queueVars, MeetingTyped, BotsTyped, LoopsTyped
  <2>6. CallersTyped'
    BY <1>2, <2>1, <2>3, BeginTyped DEF AskCancel, signVars, CallersTyped
  <2>7. QED
    BY <2>4, <2>5, <2>6
<1>3. ASSUME NEW from \in {"ready", "call"}, NEW to \in {"deleted", "left"}, EndBot(c, from, to),
             UNCHANGED <<meetingVars, botVars, queueVars, pc, job, lease, signVars, requests, faults>>
      PROVE  Typed'
  <2>1. MeetingTyped' /\ BotsTyped' /\ LoopsTyped'
    BY <1>3 DEF EndBot, meetingVars, botVars, queueVars, MeetingTyped, BotsTyped, LoopsTyped
  <2>2. CASE GoOn(c, "cancel")
    <3>1. LocalsTyped' /\ Turns(c, "cancel")
      BY <1>1, <1>3, <2>2, GoOnTurns
    <3>2. BotKnown'
      BY <1>1, <2>2, <3>1, KnownAfterTurn DEF GoOn
    <3>3. CallersTyped'
      BY <1>3, <2>2, <3>1 DEF GoOn, signVars, CallersTyped, LocalsTyped
    <3>4. QED
      BY <2>1, <3>2, <3>3
  <2>3. CASE Respond(c)
    <3>1. LocalsTyped' /\ Ends(c, "none") /\ late' \subseteq late
      BY <1>1, <1>3, <2>3, RespondEnds
    <3>2. BotKnown'
      BY <1>1, <3>1, KnownAfterEnd
    <3>3. CallersTyped'
      BY <1>3, <3>1 DEF signVars, CallersTyped, LocalsTyped
    <3>4. QED
      BY <2>1, <3>2, <3>3
  <2>4. QED
    BY <1>3, <2>2, <2>3 DEF EndBot
<1>4. CASE SetCancelled(c)
  <2>1. LocalsTyped' /\ Ends(c, "none") /\ late' \subseteq late
    BY <1>1, <1>4, RespondEnds DEF SetCancelled
  <2>2. BotKnown'
    BY <1>1, <2>1, KnownAfterEnd
  <2>3. MeetingTyped' /\ BotsTyped' /\ LoopsTyped' /\ CallersTyped'
    BY <1>4, <2>1
       DEF SetCancelled, botVars, queueVars, MeetingTyped, BotsTyped, LoopsTyped, CallersTyped, LocalsTyped
  <2>4. QED
    BY <2>2, <2>3
<1>5. CASE RequestStops(c)
  <2>1. LocalsTyped' /\ Ends(c, "none") /\ late' \subseteq late
    BY <1>1, <1>5, RespondEnds DEF RequestStops
  <2>2. BotKnown'
    BY <1>1, <2>1, KnownAfterEnd
  <2>3. CallersTyped'
    BY <1>1, <1>5, <2>1, AbandonTyped DEF RequestStops, CallersTyped, LocalsTyped
  <2>4. MeetingTyped' /\ BotsTyped' /\ LoopsTyped'
    BY <1>5, FaultTyped DEF RequestStops, meetingVars, botVars, queueVars, MeetingTyped, BotsTyped, LoopsTyped
  <2>5. QED
    BY <2>2, <2>3, <2>4
<1>6. QED
  BY <1>2, <1>3, <1>4, <1>5 DEF DropBot, LeaveCall

\* Steps of nobody's: the bots, the users, time and the ticker.
LEMMA OutsideStepTyped ==
  ASSUME Typed, BotMoves \/ ApplyBotEvent \/ Delete \/ Reschedule \/ CalendarMoves \/ Tick
  PROVE  Typed'
<1> USE DEF Typed, TypeOK
<1>1. UNCHANGED <<localVars, pc>> => BotKnown'
  BY DEF localVars, BotKnown, At
<1>2. UNCHANGED <<localVars, late, signVars>> => CallersTyped'
  BY DEF localVars, signVars, CallersTyped
<1>3. UNCHANGED <<queueVars, pc, job, lease>> => LoopsTyped'
  BY DEF queueVars, LoopsTyped
<1>4. CASE BotMoves
  <2>1. BotsTyped' /\ MeetingTyped'
    BY <1>4 DEF BotMoves, meetingVars, botVars, BotsTyped, MeetingTyped
  <2>2. QED
    BY <1>1, <1>2, <1>3, <1>4, <2>1 DEF BotMoves
<1>5. CASE ApplyBotEvent
  <2>1. BotsTyped' /\ MeetingTyped'
    BY <1>5 DEF ApplyBotEvent, BotsTyped, MeetingTyped
  <2>2. QED
    BY <1>1, <1>2, <1>3, <1>5, <2>1 DEF ApplyBotEvent
<1>6. CASE Delete \/ Reschedule \/ CalendarMoves
  <2>1. BotsTyped'
    BY <1>6 DEF Delete, Reschedule, CalendarMoves, botVars, BotsTyped
  <2>2. MeetingTyped'
    BY <1>6 DEF Delete, Reschedule, CalendarMoves, MeetingTyped
  <2>3. QED
    BY <1>1, <1>2, <1>3, <1>6, <2>1, <2>2 DEF Delete, Reschedule, CalendarMoves
<1>7. CASE Tick
  <2>1. LoopsTyped'
    BY <1>7, EnqueueTyped DEF Tick
  <2>2. BotsTyped' /\ MeetingTyped'
    BY <1>7 DEF Tick, meetingVars, botVars, BotsTyped, MeetingTyped
  <2>3. QED
    BY <1>1, <1>2, <1>7, <2>1, <2>2 DEF Tick
<1>8. QED
  BY <1>4, <1>5, <1>6, <1>7

LEMMA LoopStepTyped ==
  ASSUME Typed, NEW w \in Workers,
         Take(w) \/ SelectDraft(w) \/ Complete(w) \/ HandlerFails(w) \/ Crash(w) \/ LoseLease(w)
  PROVE  Typed'
<1> USE DEF Typed, TypeOK
<1>1. LocalsTyped /\ w \in Creators /\ w \notin Callers
  BY WorkersApart DEF CallersTyped, LocalsTyped
<1>2. CASE Take(w)
  <2>1. /\ pc' = [pc EXCEPT ![w] = "select"] /\ job' = [job EXCEPT ![w] = Schedule]
        /\ lease' = [lease EXCEPT ![w] = "held"] /\ UNCHANGED queueVars
    BY <1>2 DEF Take, LeaseRow
  <2>2. LoopsTyped'
    BY <2>1, LifecycleAssumption DEF LoopsTyped, queueVars, Keys
  <2>3. BotKnown'
    <3>1. \A d \in Creators : At(d)' \in {"store", "mark"} => At(d)' = At(d)
      BY <1>2, <2>1 DEF Take, localVars, At, LoopsTyped
    <3>2. QED
      BY <1>2, <3>1 DEF Take, localVars, BotKnown
  <2>4. MeetingTyped' /\ BotsTyped' /\ CallersTyped'
    BY <1>1, <1>2 DEF Take, meetingVars, botVars, localVars, signVars, MeetingTyped, BotsTyped, CallersTyped
  <2>5. QED
    BY <2>2, <2>3, <2>4
<1>3. CASE SelectDraft(w)
  <2>1. MeetingTyped' /\ BotsTyped'
    BY <1>3 DEF SelectDraft, meetingVars, botVars, MeetingTyped, BotsTyped
  <2>2. CASE Decide(w)
    <3>1. LocalsTyped' /\ Turns(w, "create") /\ LoopsTyped'
      BY <1>1, <1>3, <2>2, MovesTurns, WorkersApart DEF SelectDraft, Decide, LocalsTyped
    <3>2. BotKnown'
      BY <1>1, <2>2, <3>1, KnownAfterTurn DEF Decide
    <3>3. CallersTyped'
      BY <1>3, <2>2, <3>1 DEF SelectDraft, Decide, CallersTyped, LocalsTyped
    <3>4. QED
      BY <2>1, <3>1, <3>2, <3>3
  <2>3. CASE GoTo(w, "done") /\ UNCHANGED <<localVars, late, overlapped>>
    <3>1. LoopsTyped' /\ pc'[w] = "done" /\ \A v \in Workers \ {w} : pc'[v] = pc[v]
      BY <1>3, <2>3, GoToTyped DEF SelectDraft
    <3>2. Turns(w, "done")
      BY <1>1, <2>3, <3>1 DEF localVars, Turns, At
    <3>3. BotKnown'
      BY <1>1, <2>3, <3>2, KnownAfterTurn DEF localVars
    <3>4. CallersTyped'
      BY <1>3, <2>3 DEF SelectDraft, localVars, CallersTyped
    <3>5. QED
      BY <2>1, <3>1, <3>3, <3>4
  <2>4. QED
    BY <1>3, <2>2, <2>3 DEF SelectDraft
<1>4. ASSUME Idle(w), LoopsTyped', UNCHANGED <<meetingVars, botVars, phase, step, overlapped, stopped, requests>>,
             faults' \in 0..MaxFaults, unfinished' \subseteq Bots
      PROVE  Typed'
  <2>1. LocalsTyped' /\ Ends(w, "idle") /\ late' \subseteq late
    BY <1>1, <1>4, IdleEnds
  <2>2. BotKnown'
    BY <1>1, <2>1, KnownAfterEnd
  <2>3. MeetingTyped' /\ BotsTyped' /\ CallersTyped'
    BY <1>4, <2>1 DEF meetingVars, botVars, MeetingTyped, BotsTyped, CallersTyped, LocalsTyped
  <2>4. QED
    BY <1>4, <2>2, <2>3
<1>5. CASE Complete(w)
  <2>1. LoopsTyped'
    BY <1>5, DeleteTyped DEF Complete, Idle
  <2>2. QED
    BY <1>4, <1>5, <2>1 DEF Complete, signVars, MeetingTyped, CallersTyped
<1>6. CASE HandlerFails(w)
  <2>1. LoopsTyped'
    BY <1>6, FailTyped DEF HandlerFails, Idle
  <2>2. unfinished' \subseteq Bots
    BY <1>1, <1>6, AbandonTyped DEF HandlerFails
  <2>3. QED
    BY <1>4, <1>6, <2>1, <2>2, FaultTyped DEF HandlerFails, MeetingTyped
<1>7. CASE Crash(w)
  <2>1. LoopsTyped'
    BY <1>7, IdleTyped DEF Crash, Idle, LoopsTyped, QueueTyped, queueVars, Claim
  <2>2. unfinished' \subseteq Bots
    BY <1>1, <1>7, AbandonTyped DEF Crash
  <2>3. QED
    BY <1>4, <1>7, <2>1, <2>2, FaultTyped DEF Crash, MeetingTyped
<1>8. CASE LoseLease(w)
  <2>1. job[w] \in Keys
    BY <1>8 DEF LoseLease, LoseRow, LoopsTyped
  <2>2. QueueTyped'
    BY <1>8, <2>1, ChargeTyped DEF LoseLease, LoseRow, queueVars, LoopsTyped, QueueTyped
  <2>3. LoopsTyped'
    BY <1>8, <2>2 DEF LoseLease, LoseRow, LoopsTyped, QueueTyped
  <2>4. BotKnown' /\ CallersTyped'
    BY <1>8 DEF LoseLease, localVars, signVars, BotKnown, At, CallersTyped
  <2>5. MeetingTyped' /\ BotsTyped'
    BY <1>8, FaultTyped DEF LoseLease, meetingVars, botVars, MeetingTyped, BotsTyped
  <2>6. QED
    BY <2>3, <2>4, <2>5
<1>9. QED
  BY <1>2, <1>3, <1>5, <1>6, <1>7, <1>8

LEMMA NextTyped == Typed /\ [Next]_vars => Typed'
<1> SUFFICES ASSUME Typed, [Next]_vars PROVE Typed'
  OBVIOUS
<1>1. CASE UNCHANGED vars
  BY <1>1 DEF vars, meetingVars, botVars, localVars, queueVars, signVars, Typed, TypeOK, BotKnown, At,
              MeetingTyped, BotsTyped, CallersTyped, LoopsTyped
<1>2. ASSUME NEW c \in Callers, Request(c) PROVE Typed'
  BY <1>2, CreateRequestTyped, CreatorStepTyped, CancelRequestTyped, CallersApart DEF Request
<1>3. ASSUME NEW w \in Workers, Take(w) \/ Step(w) \/ CreateBotFails(w) \/ HandlerFails(w) \/ Crash(w) \/ LoseLease(w)
      PROVE  Typed'
  BY <1>3, LoopStepTyped, CreatorStepTyped, WorkersApart DEF Step
<1>4. QED
  BY <1>1, <1>2, <1>3, OutsideStepTyped DEF Next

LEMMA AlwaysTyped == Safety => []Typed
  BY InitTyped, NextTyped, PTL DEF Safety

\* The rows, the requests and the loops always have their types, and a loop has a job exactly while
\* its handler runs.
THEOREM LifecycleTyped == Safety => []TypeOK
<1>1. Typed => TypeOK
  BY DEF Typed
<1>2. QED
  BY <1>1, AlwaysTyped, PTL

-------------------------------------------------------------------------------
(* Bots: the invariant. *)

Deciding == {"attach", "check", "create", "store", "mark"}
Using == {"create", "store", "mark"}

\* Who began when the meeting was deleted does not get as far as to decide about a bot.
NoLateDeciders ==
    /\ late # {} => deleted
    /\ deleted => access
    /\ access => status # "absent"
    /\ \A c \in Callers : At(c) \in Deciding => status # "absent"
    /\ \A a \in late : At(a) \notin Deciding

\* A bot that was not left behind is in the hands of its creator, recorded (manual), or has moved its
\* meeting on (calendar).
Accounted ==
    /\ \A c \in Callers : At(c) = "check" => source = Manual
    /\ \A a \in Creators : /\ At(a) \in {"store", "mark"} => bot[a] \in Made
                           /\ At(a) = "mark" => bot[a] \in Stored
    /\ Stored \subseteq Made
    /\ \A b \in Made \ unfinished :
         \/ \E a \in Creators : At(a) \in {"store", "mark"} /\ bot[a] = b
         \/ source = Manual /\ b \in Stored
         \/ source = Calendar /\ status = "moved"

OneCreator ==
    ~overlapped =>
      /\ \A a, d \in Creating : a = d
      /\ \A a \in Creating : At(a) = "create" => Made \subseteq unfinished
      /\ \A b, d \in Made \ unfinished : b = d

CancelEnds ==
    /\ \A c \in Callers : /\ At(c) \in {"drop", "leave", "cancel"} => bot[c] \in Stored
                          /\ At(c) = "cancel" => phase[bot[c]] \in Ended
    /\ stopped => \E b \in Stored : phase[b] \in Ended

Orderly == NoLateDeciders /\ Accounted /\ OneCreator /\ CancelEnds

\* Steps after which nobody new decides, creates or cancels.
LEMMA LateKept ==
  ASSUME Typed, NoLateDeciders, late' \subseteq late, deleted => deleted', deleted' => access',
         access' => status' # "absent", status # "absent" => status' # "absent",
         \A d \in Creators : At(d)' \in Deciding => At(d) \in Deciding \/ (late = {} /\ status' # "absent")
  PROVE  NoLateDeciders'
<1>1. late \subseteq Creators /\ Callers \subseteq Creators
  BY DEF Typed, TypeOK, CallersTyped, Creators
<1>2. late' # {} => deleted'
  BY DEF NoLateDeciders
<1>3. \A c \in Callers : At(c)' \in Deciding => status' # "absent"
  BY <1>1 DEF NoLateDeciders
<1>4. \A a \in late' : At(a)' \notin Deciding
  BY <1>1 DEF NoLateDeciders
<1>5. QED
  BY <1>2, <1>3, <1>4 DEF NoLateDeciders, Deciding

LEMMA BotsKept ==
  ASSUME Typed, Accounted, OneCreator, source' = source, Made' = Made, Stored' = Stored, overlapped' = overlapped,
         unfinished \subseteq unfinished', status = "moved" => status' = "moved",
         \A c \in Callers : At(c)' = "check" => source = Manual,
         \A d \in Creators : At(d)' \in Using => At(d)' = At(d) /\ bot'[d] = bot[d],
         \A d \in Creators : At(d) \in {"store", "mark"} /\ At(d)' # At(d) =>
            \/ bot[d] \in unfinished'
            \/ source = Manual /\ bot[d] \in Stored
            \/ source = Calendar /\ status' = "moved"
  PROVE  Accounted' /\ OneCreator'
<1>1. \A a \in Creators : /\ At(a)' \in {"store", "mark"} => bot'[a] \in Made'
                          /\ At(a)' = "mark" => bot'[a] \in Stored'
  BY DEF Accounted, Using
<1>2. ASSUME NEW b \in Made' \ unfinished'
      PROVE  \/ \E a \in Creators : At(a)' \in {"store", "mark"} /\ bot'[a] = b
             \/ source' = Manual /\ b \in Stored'
             \/ source' = Calendar /\ status' = "moved"
  <2>1. b \in Made \ unfinished
    BY <1>2
  <2>2. CASE \E a \in Creators : At(a) \in {"store", "mark"} /\ bot[a] = b
    <3>1. PICK a \in Creators : At(a) \in {"store", "mark"} /\ bot[a] = b
      BY <2>2
    <3>2. CASE At(a)' = At(a)
      BY <3>1, <3>2 DEF Using
    <3>3. CASE At(a)' # At(a)
      BY <1>2, <3>1, <3>3
    <3>4. QED
      BY <3>2, <3>3
  <2>3. QED
    BY <2>1, <2>2 DEF Accounted
<1>3. Accounted'
  BY <1>1, <1>2 DEF Accounted
<1>4. Creating' \subseteq Creating
  BY DEF Creating, Using
<1>5. OneCreator'
  <2>1. SUFFICES ASSUME ~overlapped
                 PROVE  /\ \A a, d \in Creating' : a = d
                        /\ \A a \in Creating' : At(a)' = "create" => Made' \subseteq unfinished'
                        /\ \A b, d \in Made' \ unfinished' : b = d
    BY DEF OneCreator
  <2>2. \A a \in Creating' : At(a)' = At(a)
    BY DEF Creating, Using
  <2>3. QED
    BY <1>4, <2>1, <2>2 DEF OneCreator
<1>6. QED
  BY <1>3, <1>5

LEMMA CancelKept ==
  ASSUME CancelEnds, Stored \subseteq Stored', stopped' = stopped,
         \A b \in Stored : phase[b] \in Ended => phase'[b] \in Ended,
         \A c \in Callers : At(c)' \in {"drop", "leave", "cancel"} => At(c)' = At(c) /\ bot'[c] = bot[c]
  PROVE  CancelEnds'
<1>1. \A c \in Callers : /\ At(c)' \in {"drop", "leave", "cancel"} => bot'[c] \in Stored'
                         /\ At(c)' = "cancel" => phase'[bot'[c]] \in Ended
  BY DEF CancelEnds
<1>2. stopped' => \E b \in Stored' : phase'[b] \in Ended
  BY DEF CancelEnds
<1>3. QED
  BY <1>1, <1>2 DEF CancelEnds, Ended

\* A creator decides: unless it overlaps another, no bot is left but those left behind.
LEMMA DecideKept ==
  ASSUME Typed, Accounted, OneCreator, NEW a \in Creators, Turns(a, "create"), At(a) \notin Using,
         UNCHANGED <<source, status, Made, Stored, unfinished, bot>>,
         overlapped' = (overlapped \/ Creating # {}),
         Creating = {} => Made \subseteq unfinished
  PROVE  Accounted' /\ OneCreator'
<1>1. \A d \in Creators \ {a} : At(d)' = At(d)
  BY DEF Turns
<1>2. At(a)' = "create"
  BY DEF Turns
<1>3. Accounted'
  <2>1. \A c \in Callers : At(c)' = "check" => source' = Manual
    BY <1>1, <1>2 DEF Accounted, Creators
  <2>2. \A d \in Creators : /\ At(d)' \in {"store", "mark"} => bot'[d] \in Made'
                            /\ At(d)' = "mark" => bot'[d] \in Stored'
    BY <1>1, <1>2 DEF Accounted
  <2>3. \A d \in Creators : At(d) \in {"store", "mark"} => At(d)' = At(d)
    BY <1>1 DEF Using
  <2>4. QED
    BY <2>1, <2>2, <2>3 DEF Accounted
<1>4. OneCreator'
  <2>1. SUFFICES ASSUME ~overlapped'
                 PROVE  /\ \A d, e \in Creating' : d = e
                        /\ \A d \in Creating' : At(d)' = "create" => Made' \subseteq unfinished'
                        /\ \A b, d \in Made' \ unfinished' : b = d
    BY DEF OneCreator
  <2>2. Creating = {} /\ Made \subseteq unfinished
    BY <2>1
  <2>3. Creating' \subseteq {a}
    BY <1>1, <2>2 DEF Creating
  <2>4. QED
    BY <2>2, <2>3
<1>5. QED
  BY <1>3, <1>4

LEMMA InitOrderly == Init => Orderly
<1> SUFFICES ASSUME Init PROVE Orderly
  OBVIOUS
<1>1. /\ \A a \in Creators : At(a) \in {"none", "idle"}
      /\ Made = {} /\ Stored = {} /\ late = {}
  BY DEF Init, At, Creators, Made, Stored, Range
<1>2. Creating = {}
  BY <1>1 DEF Creating
<1>3. NoLateDeciders /\ CancelEnds
  BY <1>1 DEF Init, NoLateDeciders, CancelEnds, Deciding, Creators
<1>4. Accounted /\ OneCreator
  BY <1>1, <1>2 DEF Accounted, OneCreator, Creators
<1>5. QED
  BY <1>3, <1>4 DEF Orderly

\* One creator or request turns to a step that neither creates nor cancels; no bot changes.
LEMMA QuietTurn ==
  ASSUME Typed, Orderly, UNCHANGED <<source, deleted, bots, phase, overlapped>>, stopped' = stopped, late' \subseteq late,
         status # "absent" => status' # "absent", status = "moved" => status' = "moved",
         access => access', access' => status' # "absent", unfinished \subseteq unfinished',
         NEW a \in Creators, NEW s, s \notin Using \cup {"drop", "leave", "cancel"}, Turns(a, s),
         \A d \in Creators \ {a} : bot'[d] = bot[d],
         s \in Deciding => At(a) \in Deciding \/ (late = {} /\ status' # "absent"),
         s = "check" => source = Manual,
         At(a) \in {"store", "mark"} => \/ bot[a] \in unfinished'
                                        \/ source = Manual /\ bot[a] \in Stored
                                        \/ source = Calendar /\ status' = "moved"
  PROVE  Orderly'
<1>1. At(a)' = s /\ \A d \in Creators \ {a} : At(d)' = At(d)
  BY DEF Turns
<1>2. Made' = Made /\ Stored' = Stored
  BY DEF Made, Stored
<1>3. NoLateDeciders'
  BY <1>1, LateKept DEF Orderly, NoLateDeciders
<1>4. \A d \in Creators : At(d)' \in Using => At(d)' = At(d) /\ bot'[d] = bot[d]
  BY <1>1
<1>5. \A c \in Callers : At(c)' = "check" => source = Manual
  BY <1>1 DEF Orderly, Accounted, Creators
<1>6. Accounted' /\ OneCreator'
  BY <1>1, <1>2, <1>4, <1>5, BotsKept DEF Orderly
<1>7. CancelEnds'
  BY <1>1, <1>2, CancelKept DEF Orderly, Creators
<1>8. QED
  BY <1>3, <1>6, <1>7 DEF Orderly

\* Nobody turns and no bot is made or stored.
LEMMA NobodyTurns ==
  ASSUME Typed, Orderly, UNCHANGED <<source, bots, overlapped, unfinished, stopped, late>>,
         \A d \in Creators : At(d)' = At(d) /\ bot'[d] = bot[d],
         Made' = Made, \A b \in Stored : phase[b] \in Ended => phase'[b] \in Ended,
         deleted => deleted', deleted' => access', access' => status' # "absent",
         status # "absent" => status' # "absent", status = "moved" => status' = "moved"
  PROVE  Orderly'
<1>1. Stored' = Stored
  BY DEF Stored
<1>2. NoLateDeciders'
  BY LateKept DEF Orderly
<1>3. \A c \in Callers : At(c)' = "check" => source = Manual
  BY DEF Orderly, Accounted, Creators
<1>4. Accounted' /\ OneCreator'
  BY <1>1, <1>3, BotsKept DEF Orderly
<1>5. CancelEnds'
  BY <1>1, CancelKept DEF Orderly, Creators
<1>6. QED
  BY <1>2, <1>4, <1>5 DEF Orderly

\* Requests and runs begin.
LEMMA BeginOrderly ==
  ASSUME Typed, Orderly, NEW a \in Creators, NEW s \in {"find", "drop", "leave", "select"}, Turns(a, s),
         UNCHANGED <<meetingVars, botVars, phase, signVars>>, At(a) \in {"none", "idle"},
         late' = IF deleted THEN late \cup {a} ELSE late,
         \A d \in Creators \ {a} : bot'[d] = bot[d],
         s \in {"drop", "leave"} => bot'[a] \in Stored
  PROVE  Orderly'
<1>1. At(a)' = s /\ \A d \in Creators \ {a} : At(d)' = At(d)
  BY DEF Turns
<1>2. Made' = Made /\ Stored' = Stored
  BY DEF Made, Stored, botVars
<1>3. Callers \subseteq Creators /\ late \subseteq Creators
  BY DEF Creators, Typed, TypeOK, CallersTyped
<1>4. NoLateDeciders'
  <2>1. \A d \in Creators : At(d)' \in Deciding => At(d)' = At(d)
    BY <1>1 DEF Deciding
  <2>2. \A d \in late' : At(d)' \notin Deciding
    BY <1>1, <1>3 DEF Orderly, NoLateDeciders, Deciding
  <2>3. QED
    BY <1>3, <2>1, <2>2 DEF Orderly, NoLateDeciders, meetingVars, Deciding
<1>5. \A d \in Creators : At(d)' \in Using => At(d)' = At(d) /\ bot'[d] = bot[d]
  BY <1>1 DEF Using
<1>6. \A c \in Callers : At(c)' = "check" => source = Manual
  BY <1>1, <1>3 DEF Orderly, Accounted
<1>7. Accounted' /\ OneCreator'
  BY <1>1, <1>2, <1>5, <1>6, BotsKept DEF Orderly, meetingVars, signVars
<1>8. CancelEnds'
  <2>1. \A c \in Callers : /\ At(c)' \in {"drop", "leave", "cancel"} => bot'[c] \in Stored'
                           /\ At(c)' = "cancel" => phase'[bot'[c]] \in Ended'
    BY <1>1, <1>2, <1>3 DEF Orderly, CancelEnds, Ended
  <2>2. stopped' => \E b \in Stored' : phase'[b] \in Ended'
    BY <1>2 DEF Orderly, CancelEnds, Ended, signVars
  <2>3. QED
    BY <2>1, <2>2 DEF CancelEnds
<1>9. QED
  BY <1>4, <1>7, <1>8 DEF Orderly

LEMMA CreateRequestOrderly ==
  ASSUME Typed, Orderly, NEW c \in Callers,
         PostMeeting(c) \/ FindMeeting(c) \/ InsertMeeting(c) \/ AttachAccess(c) \/ CheckBot(c)
  PROVE  Orderly'
<1>1. LocalsTyped /\ LoopsTyped /\ c \in Creators /\ At(c) = step[c] /\ At(c)' = step'[c]
  BY CallersApart DEF Typed, TypeOK, CallersTyped, LocalsTyped
<1>2. CASE PostMeeting(c)
  <2>1. Turns(c, "find") /\ late' = IF deleted THEN late \cup {c} ELSE late
    BY <1>2, BeginTyped DEF PostMeeting, Begin
  <2>2. QED
    BY <1>1, <1>2, <2>1, BeginOrderly DEF PostMeeting, Begin
<1>3. CASE FindMeeting(c)
  <2>1. PICK s \in {"attach", "insert"} : GoOn(c, s) /\ (s = "attach" => status # "absent" /\ ~deleted)
    BY <1>3 DEF FindMeeting
  <2>2. Turns(c, s)
    BY <1>1, <1>3, <2>1, GoOnTurns DEF FindMeeting
  <2>3. s = "attach" => late = {} /\ status' # "absent"
    BY <1>3, <2>1 DEF FindMeeting, meetingVars, Orderly, NoLateDeciders
  <2>4. At(c) \notin {"store", "mark"}
    BY <1>1, <1>3 DEF FindMeeting
  <2>5. s \notin Using \cup {"drop", "leave", "cancel"} /\ s # "check" /\ (s \in Deciding => s = "attach")
    BY <2>1 DEF Using, Deciding
  <2>6. /\ UNCHANGED <<source, deleted, bots, phase, overlapped, stopped, status, access, unfinished, bot, late>>
        /\ access => status # "absent"
    BY <1>3, <2>1 DEF FindMeeting, GoOn, meetingVars, botVars, signVars, Orderly, NoLateDeciders
  <2>7. QED
    BY <1>1, <2>2, <2>3, <2>4, <2>5, <2>6, QuietTurn
<1>4. CASE InsertMeeting(c)
  <2>1. /\ UNCHANGED <<source, deleted, bots, phase, overlapped, stopped, access, unfinished>>
        /\ access => status # "absent"
        /\ At(c) \notin {"store", "mark"}
    BY <1>1, <1>4 DEF InsertMeeting, botVars, signVars, Orderly, NoLateDeciders
  <2>2. CASE status = "absent" /\ status' = "draft" /\ GoOn(c, "attach")
    <3>1. Turns(c, "attach") /\ UNCHANGED <<bot, late>>
      BY <1>1, <1>4, <2>2, GoOnTurns DEF InsertMeeting, GoOn
    <3>2. late = {} /\ status' # "absent"
      BY <2>2 DEF Orderly, NoLateDeciders
    <3>3. QED
      BY <1>1, <2>1, <2>2, <3>1, <3>2, QuietTurn DEF Using
  <2>3. CASE UNCHANGED status /\ Respond(c)
    <3>1. Ends(c, "none") /\ late' \subseteq late
      BY <1>1, <1>4, <2>3, RespondEnds DEF InsertMeeting
    <3>2. QED
      BY <1>1, <2>1, <2>3, <3>1, QuietTurn DEF Using, Deciding, Ends
  <2>4. QED
    BY <1>4, <2>2, <2>3 DEF InsertMeeting
<1>5. CASE AttachAccess(c)
  <2>1. /\ UNCHANGED <<source, status, deleted, bots, phase, overlapped, stopped, unfinished>>
        /\ At(c) = "attach" /\ access' = TRUE /\ status # "absent" /\ source \in {Manual, Calendar}
    BY <1>1, <1>5 DEF AttachAccess, botVars, signVars, Orderly, NoLateDeciders, Deciding, Typed, TypeOK, MeetingTyped
  <2>2. CASE source = Manual /\ GoOn(c, "check")
    <3>1. Turns(c, "check") /\ UNCHANGED <<bot, late>>
      BY <1>1, <1>5, <2>2, GoOnTurns DEF AttachAccess, GoOn
    <3>2. At(c) \in Deciding /\ At(c) \notin {"store", "mark"}
      BY <2>1 DEF Deciding
    <3>3. QED
      BY <1>1, <2>1, <2>2, <3>1, <3>2, QuietTurn DEF Using
  <2>3. CASE Respond(c)
    <3>1. Ends(c, "none") /\ late' \subseteq late
      BY <1>1, <1>5, <2>3, RespondEnds DEF AttachAccess
    <3>2. QED
      BY <1>1, <2>1, <2>3, <3>1, QuietTurn DEF Using, Deciding, Ends
  <2>4. QED
    BY <1>5, <2>2, <2>3 DEF AttachAccess
<1>6. CASE CheckBot(c)
  <2>1. /\ UNCHANGED <<source, status, deleted, access, bots, phase, stopped, unfinished>>
        /\ At(c) = "check" /\ source = Manual
        /\ access => status # "absent"
    BY <1>1, <1>6 DEF CheckBot, meetingVars, botVars, Orderly, NoLateDeciders, Accounted
  <2>2. CASE bots = <<>> /\ Decide(c)
    <3>1. Turns(c, "create") /\ UNCHANGED <<bot, late>> /\ overlapped' = (overlapped \/ Creating # {})
      BY <1>1, <1>6, <2>2, MovesTurns DEF CheckBot, Decide, queueVars
    <3>2. Made' = Made /\ Stored' = Stored /\ Stored = {}
      BY <2>1, <2>2, RangeTyped DEF Made, Stored, Typed, TypeOK, BotsTyped
    <3>3. Creating = {} => Made \subseteq unfinished
      BY <2>1, <3>2 DEF Orderly, Accounted, Creating, Manual, Calendar
    <3>4. Accounted' /\ OneCreator'
      BY <1>1, <2>1, <3>1, <3>2, <3>3, DecideKept DEF Orderly, Using
    <3>5. \A d \in Creators : At(d)' \in Deciding => At(d) \in Deciding
      BY <2>1, <3>1 DEF Turns, Deciding
    <3>6. NoLateDeciders'
      BY <2>1, <3>1, <3>5, LateKept DEF Orderly, NoLateDeciders
    <3>7. CancelEnds'
      BY <2>1, <3>1, <3>2, CancelKept DEF Orderly, Turns, Creators
    <3>8. QED
      BY <3>4, <3>6, <3>7 DEF Orderly
  <2>3. CASE Respond(c) /\ UNCHANGED <<pc, overlapped>>
    <3>1. Ends(c, "none") /\ late' \subseteq late
      BY <1>1, <2>3, RespondEnds
    <3>2. QED
      BY <1>1, <2>1, <2>3, <3>1, QuietTurn DEF Using, Deciding, Ends
  <2>4. QED
    BY <1>6, <2>2, <2>3 DEF CheckBot
<1>7. QED
  BY <1>2, <1>3, <1>4, <1>5, <1>6

LEMMA CreatorStepOrderly ==
  ASSUME Typed, Orderly, NEW a \in Creators, CreateBot(a) \/ CreateBotFails(a) \/ StoreBot(a) \/ MarkScheduled(a)
  PROVE  Orderly'
<1>1. LocalsTyped /\ LoopsTyped
  BY DEF Typed, TypeOK, CallersTyped, LocalsTyped
<1>2. CASE CreateBot(a)
  <2>1. PICK b \in Bots \ Made : phase' = [phase EXCEPT ![b] = "ready"] /\ bot' = [bot EXCEPT ![a] = b]
    BY <1>2 DEF CreateBot
  <2>2. /\ bot' \in [Creators -> Bots \cup {NoBot}] /\ bot'[a] = b
        /\ \A d \in Creators \ {a} : bot'[d] = bot[d]
    BY <2>1 DEF Typed, TypeOK, CallersTyped
  <2>3. Turns(a, "store")
    BY <1>1, <1>2, <2>2, MovesTurns DEF CreateBot
  <2>4. At(a) = "create" /\ At(a)' = "store" /\ \A d \in Creators \ {a} : At(d)' = At(d)
    BY <1>2, <2>3 DEF CreateBot, Turns
  <2>5. /\ UNCHANGED <<source, status, access, deleted, bots, overlapped, unfinished, stopped, late>>
        /\ Stored' = Stored /\ Made' = Made \cup {b}
        /\ \A d \in Made : phase'[d] = phase[d]
    BY <1>2, <2>1 DEF CreateBot, meetingVars, botVars, signVars, Stored, Made, Typed, TypeOK, BotsTyped
  <2>6. NoLateDeciders'
    BY <2>4, <2>5, LateKept DEF Orderly, NoLateDeciders, Deciding
  <2>7. Accounted'
    <3>1. \A c \in Callers : At(c)' = "check" => source' = Manual
      BY <2>4, <2>5 DEF Orderly, Accounted, Creators
    <3>2. \A d \in Creators : /\ At(d)' \in {"store", "mark"} => bot'[d] \in Made'
                              /\ At(d)' = "mark" => bot'[d] \in Stored'
      BY <2>2, <2>4, <2>5 DEF Orderly, Accounted
    <3>3. \A d \in Creators : At(d) \in {"store", "mark"} => At(d)' = At(d) /\ bot'[d] = bot[d]
      BY <2>2, <2>4
    <3>4. ASSUME NEW d \in Made' \ unfinished'
          PROVE  \/ \E e \in Creators : At(e)' \in {"store", "mark"} /\ bot'[e] = d
                 \/ source' = Manual /\ d \in Stored'
                 \/ source' = Calendar /\ status' = "moved"
      BY <2>2, <2>4, <2>5, <3>3, <3>4 DEF Orderly, Accounted
    <3>5. QED
      BY <2>5, <3>1, <3>2, <3>4 DEF Orderly, Accounted
  <2>8. OneCreator'
    <3>1. SUFFICES ASSUME ~overlapped
                   PROVE  /\ \A d, e \in Creating' : d = e
                          /\ \A d \in Creating' : At(d)' = "create" => Made' \subseteq unfinished'
                          /\ \A d, e \in Made' \ unfinished' : d = e
      BY <2>5 DEF OneCreator
    <3>2. a \in Creating /\ Made \subseteq unfinished
      BY <2>4, <3>1 DEF Orderly, OneCreator, Creating
    <3>3. Creating' \subseteq {a}
      BY <2>4, <3>1, <3>2 DEF Orderly, OneCreator, Creating
    <3>4. QED
      BY <2>4, <2>5, <3>2, <3>3
  <2>9. CancelEnds'
    <3>1. Stored \subseteq Made
      BY DEF Orderly, Accounted
    <3>2. QED
      BY <2>2, <2>4, <2>5, <3>1, CancelKept DEF Orderly, Creators
  <2>10. QED
    BY <2>6, <2>7, <2>8, <2>9 DEF Orderly
<1>3. CASE CreateBotFails(a)
  <2>1. PICK s \in {"none", "done"} : Ends(a, s)
    BY <1>1, <1>3, CreatedEnds DEF CreateBotFails
  <2>2. late' \subseteq late
    BY <1>1, <1>3, CreatedEnds DEF CreateBotFails
  <2>3. /\ At(a) = "create" /\ At(a)' = s
        /\ \A d \in Creators \ {a} : At(d)' = At(d) /\ bot'[d] = bot[d]
    BY <1>3, <2>1 DEF CreateBotFails, Ends, Turns
  <2>4. UNCHANGED <<source, status, access, deleted, bots, overlapped, stopped>> /\ Stored' = Stored
    BY <1>3 DEF CreateBotFails, meetingVars, botVars, Stored
  <2>5. CASE UNCHANGED <<phase, unfinished>>
    <3>1. access => status # "absent"
      BY DEF Orderly, NoLateDeciders
    <3>2. s \notin Using \cup {"drop", "leave", "cancel"} /\ s # "check" /\ s \notin Deciding
      BY DEF Using, Deciding
    <3>3. QED
      BY <2>1, <2>2, <2>3, <2>4, <2>5, <3>1, <3>2, QuietTurn DEF Ends
  <2>6. CASE \E b \in Bots \ Made : /\ phase' = [phase EXCEPT ![b] = "ready"]
                                    /\ unfinished' = unfinished \cup {b}
    <3>1. PICK b \in Bots \ Made : /\ phase' = [phase EXCEPT ![b] = "ready"]
                                   /\ unfinished' = unfinished \cup {b}
      BY <2>6
    <3>2. Made' = Made \cup {b} /\ \A d \in Made : phase'[d] = phase[d]
      BY <3>1 DEF Made, Typed, TypeOK, BotsTyped
    <3>3. NoLateDeciders'
      BY <2>2, <2>3, <2>4, LateKept DEF Orderly, NoLateDeciders, Deciding
    <3>4. \A d \in Creators : At(d)' \in Using => At(d)' = At(d) /\ bot'[d] = bot[d]
      BY <2>3 DEF Using
    <3>5. \A d \in Creators : At(d) \in {"store", "mark"} => At(d)' = At(d) /\ bot'[d] = bot[d]
      BY <2>3
    <3>6. Accounted'
      <4>1. \A c \in Callers : At(c)' = "check" => source' = Manual
        BY <2>3, <2>4 DEF Orderly, Accounted, Creators
      <4>2. \A d \in Creators : /\ At(d)' \in {"store", "mark"} => bot'[d] \in Made'
                                /\ At(d)' = "mark" => bot'[d] \in Stored'
        BY <2>4, <3>2, <3>4 DEF Orderly, Accounted, Using
      <4>3. Made' \ unfinished' \subseteq Made \ unfinished
        BY <3>1, <3>2
      <4>4. ASSUME NEW d \in Made' \ unfinished'
            PROVE  \/ \E e \in Creators : At(e)' \in {"store", "mark"} /\ bot'[e] = d
                   \/ source' = Manual /\ d \in Stored'
                   \/ source' = Calendar /\ status' = "moved"
        BY <2>4, <3>5, <4>3, <4>4 DEF Orderly, Accounted
      <4>5. QED
        BY <2>4, <3>2, <4>1, <4>2, <4>4 DEF Orderly, Accounted
    <3>7. OneCreator'
      <4>1. Creating' \subseteq Creating /\ \A d \in Creating' : At(d)' = At(d)
        BY <2>3 DEF Creating
      <4>2. Made' \ unfinished' \subseteq Made \ unfinished /\ (Made \subseteq unfinished => Made' \subseteq unfinished')
        BY <3>1, <3>2
      <4>3. SUFFICES ASSUME ~overlapped
                     PROVE  /\ \A d, e \in Creating' : d = e
                            /\ \A d \in Creating' : At(d)' = "create" => Made' \subseteq unfinished'
                            /\ \A d, e \in Made' \ unfinished' : d = e
        BY <2>4 DEF OneCreator
      <4>4. QED
        BY <4>1, <4>2, <4>3 DEF Orderly, OneCreator
    <3>8. CancelEnds'
      <4>1. Stored \subseteq Made
        BY DEF Orderly, Accounted
      <4>2. QED
        BY <2>3, <2>4, <3>2, <4>1, CancelKept DEF Orderly, Creators
    <3>9. QED
      BY <3>3, <3>6, <3>7, <3>8 DEF Orderly
  <2>7. QED
    BY <1>3, <2>5, <2>6 DEF CreateBotFails
<1>4. CASE StoreBot(a)
  <2>1. bot[a] \in Bots /\ bot[a] \in Made
    BY <1>4 DEF StoreBot, Typed, BotKnown, Orderly, Accounted
  <2>2. Stored' = Stored \cup {bot[a]}
    BY <1>4, <2>1, RangeOfAppend DEF StoreBot, Stored, Typed, TypeOK, BotsTyped
  <2>3. Turns(a, "mark")
    BY <1>1, <1>4, MovesTurns DEF StoreBot, LocalsTyped
  <2>4. At(a) = "store" /\ At(a)' = "mark" /\ \A d \in Creators \ {a} : At(d)' = At(d)
    BY <1>4, <2>3 DEF StoreBot, Turns
  <2>5. /\ UNCHANGED <<source, status, access, deleted, phase, bot, overlapped, unfinished, stopped, late>>
        /\ Made' = Made
    BY <1>4 DEF StoreBot, meetingVars, signVars, Made
  <2>6. NoLateDeciders'
    BY <2>4, <2>5, LateKept DEF Orderly, NoLateDeciders, Deciding
  <2>7. Accounted'
    <3>1. \A c \in Callers : At(c)' = "check" => source' = Manual
      BY <2>4, <2>5 DEF Orderly, Accounted, Creators
    <3>2. \A d \in Creators : /\ At(d)' \in {"store", "mark"} => bot'[d] \in Made'
                              /\ At(d)' = "mark" => bot'[d] \in Stored'
      BY <2>1, <2>2, <2>4, <2>5 DEF Orderly, Accounted
    <3>3. \A d \in Creators : At(d) \in {"store", "mark"} => At(d)' \in {"store", "mark"}
      BY <2>4
    <3>4. QED
      BY <2>1, <2>2, <2>5, <3>1, <3>2, <3>3 DEF Orderly, Accounted
  <2>8. OneCreator'
    <3>1. Creating' = Creating /\ \A d \in Creating' : At(d)' = "create" => At(d) = "create"
      BY <2>4 DEF Creating
    <3>2. QED
      BY <2>5, <3>1 DEF Orderly, OneCreator
  <2>9. CancelEnds'
    BY <2>2, <2>4, <2>5, CancelKept DEF Orderly, Creators
  <2>10. QED
    BY <2>6, <2>7, <2>8, <2>9 DEF Orderly
<1>5. CASE MarkScheduled(a)
  <2>1. PICK s \in {"none", "done"} : Ends(a, s)
    BY <1>1, <1>5, CreatedEnds DEF MarkScheduled
  <2>2. late' \subseteq late
    BY <1>1, <1>5, CreatedEnds DEF MarkScheduled
  <2>3. /\ UNCHANGED <<source, deleted, access, bots, phase, overlapped, unfinished, stopped>>
        /\ status' = "moved" /\ At(a) = "mark"
    BY <1>5 DEF MarkScheduled, botVars, signVars
  <2>4. bot[a] \in Stored /\ source \in {Manual, Calendar}
    BY <2>3 DEF Orderly, Accounted, Typed, TypeOK, MeetingTyped
  <2>5. s \notin Using \cup {"drop", "leave", "cancel"} /\ s # "check" /\ s \notin Deciding
    BY DEF Using, Deciding
  <2>6. QED
    BY <2>1, <2>2, <2>3, <2>4, <2>5, QuietTurn DEF Ends
<1>6. QED
  BY <1>2, <1>3, <1>4, <1>5

\* What an interrupted creator leaves behind.
LEMMA AbandonLeaves ==
  ASSUME Orderly, NEW a \in Creators, Abandon(a)
  PROVE  /\ unfinished \subseteq unfinished'
         /\ At(a) \in {"store", "mark"} => bot[a] \in unfinished' \/ (source # Calendar /\ bot[a] \in Stored)
  BY DEF Abandon, Orderly, Accounted

LEMMA CancelRequestOrderly ==
  ASSUME Typed, Orderly, NEW c \in Callers,
         AskCancel(c) \/ DropBot(c) \/ LeaveCall(c) \/ SetCancelled(c) \/ RequestStops(c)
  PROVE  Orderly'
<1>1. LocalsTyped /\ LoopsTyped /\ c \in Creators /\ At(c) = step[c] /\ At(c)' = step'[c]
  BY CallersApart DEF Typed, TypeOK, CallersTyped, LocalsTyped
<1>2. access => status # "absent"
  BY DEF Orderly, NoLateDeciders
<1>3. "none" \notin Using \cup {"drop", "leave", "cancel"} /\ "none" # "check" /\ "none" \notin Deciding
  BY DEF Using, Deciding
<1>4. CASE AskCancel(c)
  <2>1. PICK s \in {"drop", "leave"} : Begin(c, s)
    BY <1>4 DEF AskCancel
  <2>2. Last(bots) \in Stored
    BY <1>4, LastStored DEF AskCancel, Stored, Typed, TypeOK, BotsTyped
  <2>3. bot'[c] \in Stored /\ \A d \in Creators \ {c} : bot'[d] = bot[d]
    BY <1>1, <1>4, <2>2 DEF AskCancel, LocalsTyped
  <2>4. Turns(c, s)
    BY <1>4, <2>1, BeginTyped DEF AskCancel
  <2>5. QED
    BY <1>1, <1>4, <2>1, <2>3, <2>4, BeginOrderly DEF AskCancel, Begin
<1>5. ASSUME NEW from \in {"ready", "call"}, NEW to \in Ended, EndBot(c, from, to), step[c] \in {"drop", "leave"},
             UNCHANGED <<meetingVars, botVars, queueVars, pc, job, lease, signVars, requests, faults>>
      PROVE  Orderly'
  <2>1. bot[c] \in Stored /\ Stored \subseteq Made /\ Made \subseteq Bots
    BY <1>1, <1>5 DEF Orderly, Accounted, CancelEnds, Made
  <2>2. CASE phase[bot[c]] = from /\ phase' = [phase EXCEPT ![bot[c]] = to] /\ GoOn(c, "cancel")
    <3>1. Turns(c, "cancel") /\ UNCHANGED <<bot, late>>
      BY <1>1, <1>5, <2>2, GoOnTurns DEF GoOn
    <3>2. At(c)' = "cancel" /\ \A d \in Creators \ {c} : At(d)' = At(d)
      BY <3>1 DEF Turns
    <3>3. /\ phase'[bot[c]] = to /\ \A b \in Bots \ {bot[c]} : phase'[b] = phase[b]
          /\ Made' = Made /\ Stored' = Stored
      BY <1>5, <2>1, <2>2 DEF Made, Stored, botVars, Ended, Typed, TypeOK, BotsTyped
    <3>4. NoLateDeciders'
      BY <1>2, <1>5, <3>1, <3>2, LateKept DEF meetingVars, Orderly, NoLateDeciders, Deciding
    <3>5. Accounted' /\ OneCreator'
      <4>1. \A d \in Creators : At(d)' \in Using => At(d)' = At(d) /\ bot'[d] = bot[d]
        BY <3>1, <3>2 DEF Using
      <4>2. \A d \in Creators : At(d) \in {"store", "mark"} => At(d)' = At(d)
        BY <1>1, <1>5, <3>2
      <4>3. \A d \in Callers : At(d)' = "check" => source = Manual
        BY <3>2 DEF Orderly, Accounted, Creators
      <4>4. QED
        BY <1>5, <3>3, <4>1, <4>2, <4>3, BotsKept DEF Orderly, meetingVars, signVars
    <3>6. CancelEnds'
      <4>1. \A b \in Stored : phase[b] \in Ended => phase'[b] \in Ended
        BY <1>5, <2>1, <3>3
      <4>2. \A d \in Callers : /\ At(d)' \in {"drop", "leave", "cancel"} => bot'[d] \in Stored'
                               /\ At(d)' = "cancel" => phase'[bot'[d]] \in Ended
        BY <1>5, <2>1, <3>1, <3>2, <3>3, <4>1 DEF Orderly, CancelEnds, Creators
      <4>3. stopped' => \E b \in Stored' : phase'[b] \in Ended
        BY <1>5, <3>3, <4>1 DEF Orderly, CancelEnds, signVars
      <4>4. QED
        BY <4>2, <4>3 DEF CancelEnds, Ended
    <3>7. QED
      BY <3>4, <3>5, <3>6 DEF Orderly
  <2>3. CASE UNCHANGED phase /\ Respond(c)
    <3>1. Ends(c, "none") /\ late' \subseteq late
      BY <1>1, <1>5, <2>3, RespondEnds
    <3>2. UNCHANGED <<source, status, deleted, access, bots, overlapped, unfinished, stopped>>
      BY <1>5 DEF meetingVars, botVars, signVars
    <3>3. QED
      BY <1>1, <1>2, <1>3, <1>5, <2>3, <3>1, <3>2, QuietTurn DEF Ends
  <2>4. QED
    BY <1>5, <2>2, <2>3 DEF EndBot
<1>6. CASE SetCancelled(c)
  <2>1. Ends(c, "none") /\ late' \subseteq late
    BY <1>1, <1>6, RespondEnds DEF SetCancelled
  <2>2. /\ UNCHANGED <<source, deleted, access, bots, phase, overlapped, unfinished>>
        /\ status' = "moved" /\ stopped' = TRUE /\ At(c) = "cancel" /\ Made' = Made /\ Stored' = Stored
    BY <1>1, <1>6 DEF SetCancelled, botVars, Made, Stored
  <2>3. At(c)' = "none" /\ \A d \in Creators \ {c} : At(d)' = At(d) /\ bot'[d] = bot[d]
    BY <2>1 DEF Ends, Turns
  <2>4. NoLateDeciders'
    BY <2>1, <2>2, <2>3, LateKept DEF Orderly, NoLateDeciders, Deciding
  <2>5. Accounted' /\ OneCreator'
    <3>1. \A d \in Callers : At(d)' = "check" => source = Manual
      BY <2>3 DEF Orderly, Accounted, Creators
    <3>2. \A d \in Creators : At(d)' \in Using => At(d)' = At(d) /\ bot'[d] = bot[d]
      BY <2>3 DEF Using
    <3>3. \A d \in Creators : At(d) \in {"store", "mark"} => At(d)' = At(d)
      BY <2>2, <2>3
    <3>4. QED
      BY <2>2, <3>1, <3>2, <3>3, BotsKept DEF Orderly
  <2>6. CancelEnds'
    <3>1. bot[c] \in Stored /\ phase[bot[c]] \in Ended
      BY <2>2 DEF Orderly, CancelEnds
    <3>2. \A d \in Callers : /\ At(d)' \in {"drop", "leave", "cancel"} => bot'[d] \in Stored'
                             /\ At(d)' = "cancel" => phase'[bot'[d]] \in Ended
      BY <2>2, <2>3 DEF Orderly, CancelEnds, Creators
    <3>3. QED
      BY <2>2, <3>1, <3>2 DEF CancelEnds, Ended
  <2>7. QED
    BY <2>4, <2>5, <2>6 DEF Orderly
<1>7. CASE RequestStops(c)
  <2>1. Ends(c, "none") /\ late' \subseteq late
    BY <1>1, <1>7, RespondEnds DEF RequestStops
  <2>2. UNCHANGED <<source, status, deleted, access, bots, phase, overlapped, stopped>>
    BY <1>7 DEF RequestStops, meetingVars, botVars
  <2>3. /\ unfinished \subseteq unfinished'
        /\ At(c) \in {"store", "mark"} => bot[c] \in unfinished' \/ (source # Calendar /\ bot[c] \in Stored)
    BY <1>1, <1>7, AbandonLeaves DEF RequestStops
  <2>4. source \in {Manual, Calendar}
    BY DEF Typed, TypeOK, MeetingTyped
  <2>5. QED
    BY <1>1, <1>2, <1>3, <2>1, <2>2, <2>3, <2>4, QuietTurn DEF Ends
<1>8. QED
  BY <1>4, <1>5, <1>6, <1>7 DEF DropBot, LeaveCall, Ended

LEMMA OutsideStepOrderly ==
  ASSUME Typed, Orderly, BotMoves \/ ApplyBotEvent \/ Delete \/ Reschedule \/ CalendarMoves \/ Tick
  PROVE  Orderly'
<1>1. UNCHANGED <<localVars, pc>> => \A d \in Creators : At(d)' = At(d) /\ bot'[d] = bot[d]
  BY DEF localVars, At
<1>2. /\ deleted => access
      /\ access => status # "absent"
  BY DEF Orderly, NoLateDeciders
<1>3. Made = Made' \/ phase # phase'
  BY DEF Made
<1>4. CASE BotMoves
  <2>1. PICK b \in Bots, to \in {"call", "left"} :
            phase[b] \in {"ready", "call"} /\ phase' = [phase EXCEPT ![b] = to]
    BY <1>4 DEF BotMoves
  <2>2. Made' = Made /\ \A d \in Bots : phase[d] \in Ended => phase'[d] \in Ended
    BY <2>1 DEF Made, Ended, Typed, TypeOK, BotsTyped
  <2>3. Stored \subseteq Bots
    BY DEF Orderly, Accounted, Made
  <2>4. QED
    BY <1>1, <1>2, <1>4, <2>2, <2>3, NobodyTurns DEF BotMoves, meetingVars, botVars, signVars
<1>5. CASE ApplyBotEvent
  <2>1. \E b \in Stored : phase[b] \in {"call", "left"}
    BY <1>5 DEF ApplyBotEvent
  <2>2. QED
    BY <1>1, <1>2, <1>3, <1>5, NobodyTurns DEF ApplyBotEvent, signVars
<1>6. CASE Delete
  BY <1>1, <1>2, <1>3, <1>6, NobodyTurns DEF Delete, botVars, signVars
<1>7. CASE Reschedule
  BY <1>1, <1>2, <1>3, <1>7, NobodyTurns DEF Reschedule, botVars, signVars
<1>8. CASE CalendarMoves
  BY <1>1, <1>2, <1>3, <1>8, NobodyTurns DEF CalendarMoves, botVars, signVars
<1>9. CASE Tick
  BY <1>1, <1>2, <1>3, <1>9, NobodyTurns DEF Tick, meetingVars, botVars, signVars
<1>10. QED
  BY <1>4, <1>5, <1>6, <1>7, <1>8, <1>9

LEMMA LoopStepOrderly ==
  ASSUME Typed, Orderly, NEW w \in Workers,
         Take(w) \/ SelectDraft(w) \/ Complete(w) \/ HandlerFails(w) \/ Crash(w) \/ LoseLease(w)
  PROVE  Orderly'
<1>1. LocalsTyped /\ LoopsTyped /\ w \in Creators /\ At(w) = pc[w] /\ At(w)' = pc'[w] /\ w \notin Callers
  BY WorkersApart DEF Typed, TypeOK, CallersTyped, LocalsTyped
<1>2. access => status # "absent"
  BY DEF Orderly, NoLateDeciders
<1>3. \A s \in {"idle", "done"} : s \notin Using \cup {"drop", "leave", "cancel"} /\ s # "check" /\ s \notin Deciding
  BY DEF Using, Deciding
<1>4. source \in {Manual, Calendar}
  BY DEF Typed, TypeOK, MeetingTyped
<1>5. CASE Take(w)
  <2>1. pc[w] = "idle" /\ pc' = [pc EXCEPT ![w] = "select"] /\ UNCHANGED localVars
    BY <1>5 DEF Take, LeaseRow
  <2>2. Turns(w, "select")
    BY <1>1, <2>1 DEF LoopsTyped, localVars, Turns, At
  <2>3. QED
    BY <1>1, <1>5, <2>1, <2>2, BeginOrderly DEF Take, localVars
<1>6. CASE SelectDraft(w)
  <2>1. /\ UNCHANGED <<source, status, deleted, access, bots, phase, unfinished, stopped>>
        /\ At(w) = "select" /\ UNCHANGED <<queueVars, job, lease>>
    BY <1>1, <1>6 DEF SelectDraft, meetingVars, botVars
  <2>2. CASE Waiting /\ Decide(w)
    <3>1. Turns(w, "create") /\ UNCHANGED <<bot, late>> /\ overlapped' = (overlapped \/ Creating # {})
      BY <1>1, <2>1, <2>2, MovesTurns DEF Decide
    <3>2. Made' = Made /\ Stored' = Stored
      BY <2>1 DEF Made, Stored
    <3>3. Creating = {} => Made \subseteq unfinished
      BY <2>2 DEF Waiting, Orderly, Accounted, Creating, Manual, Calendar
    <3>4. Accounted' /\ OneCreator'
      BY <1>1, <2>1, <3>1, <3>2, <3>3, DecideKept DEF Orderly, Using
    <3>5. late = {} /\ status # "absent"
      BY <2>2 DEF Waiting, Orderly, NoLateDeciders
    <3>6. \A d \in Creators : At(d)' \in Deciding => At(d) \in Deciding \/ (late = {} /\ status' # "absent")
      BY <2>1, <3>5
    <3>7. NoLateDeciders'
      BY <1>2, <2>1, <3>1, <3>6, LateKept DEF Orderly, NoLateDeciders
    <3>8. CancelEnds'
      BY <1>1, <2>1, <3>1, <3>2, CancelKept DEF Orderly, Turns, Creators
    <3>9. QED
      BY <3>4, <3>7, <3>8 DEF Orderly
  <2>3. CASE GoTo(w, "done") /\ UNCHANGED <<localVars, late, overlapped>>
    <3>1. pc'[w] = "done" /\ \A v \in Workers \ {w} : pc'[v] = pc[v]
      BY <2>3 DEF GoTo, LoopsTyped, Typed, TypeOK
    <3>2. Turns(w, "done")
      BY <1>1, <2>3, <3>1 DEF localVars, Turns, At
    <3>3. QED
      <4>1. UNCHANGED <<bot, late, overlapped>>
        BY <2>3 DEF localVars
      <4>2. At(w) \notin {"store", "mark"} /\ late' \subseteq late /\ unfinished \subseteq unfinished'
        BY <2>1, <4>1
      <4>3. QED
        BY <1>1, <1>2, <1>3, <2>1, <3>2, <4>1, <4>2, QuietTurn
  <2>4. QED
    BY <1>6, <2>2, <2>3 DEF SelectDraft
<1>7. ASSUME Idle(w), UNCHANGED <<meetingVars, botVars, phase, step, overlapped, stopped>>,
             unfinished \subseteq unfinished',
             At(w) \in {"store", "mark"} => bot[w] \in unfinished' \/ (source # Calendar /\ bot[w] \in Stored)
      PROVE  Orderly'
  <2>1. Ends(w, "idle") /\ late' \subseteq late
    BY <1>1, <1>7, IdleEnds
  <2>2. UNCHANGED <<source, status, deleted, access, bots, phase, overlapped, stopped>>
    BY <1>7 DEF meetingVars, botVars
  <2>3. QED
    BY <1>1, <1>2, <1>3, <1>4, <1>7, <2>1, <2>2, QuietTurn DEF Ends
<1>8. CASE Complete(w)
  BY <1>1, <1>7, <1>8 DEF Complete, signVars
<1>9. CASE HandlerFails(w)
  BY <1>1, <1>7, <1>9, AbandonLeaves DEF HandlerFails
<1>10. CASE Crash(w)
  BY <1>1, <1>7, <1>10, AbandonLeaves DEF Crash
<1>11. CASE LoseLease(w)
  <2>1. UNCHANGED <<source, status, deleted, access, bots, phase, overlapped, unfinished, stopped, late>>
    BY <1>11 DEF LoseLease, meetingVars, botVars, signVars
  <2>2. \A d \in Creators : At(d)' = At(d) /\ bot'[d] = bot[d]
    BY <1>11 DEF LoseLease, localVars, At
  <2>3. Made' = Made
    BY <2>1 DEF Made
  <2>4. QED
    BY <1>2, <2>1, <2>2, <2>3, NobodyTurns DEF Orderly, NoLateDeciders
<1>12. QED
  BY <1>5, <1>6, <1>8, <1>9, <1>10, <1>11

LEMMA NextOrderly == Typed /\ Orderly /\ [Next]_vars => Orderly'
<1> SUFFICES ASSUME Typed, Orderly, [Next]_vars PROVE Orderly'
  OBVIOUS
<1>1. CASE UNCHANGED vars
  <2>1. UNCHANGED <<source, status, deleted, access, bots, phase, overlapped, unfinished, stopped, late, pc, step, bot>>
    BY <1>1 DEF vars, meetingVars, botVars, localVars, signVars
  <2>2. \A d \in Creators : At(d)' = At(d) /\ bot'[d] = bot[d]
    BY <2>1 DEF At
  <2>3. Made' = Made
    BY <2>1 DEF Made
  <2>4. QED
    BY <2>1, <2>2, <2>3, NobodyTurns DEF Orderly, NoLateDeciders
<1>2. ASSUME NEW c \in Callers, Request(c) PROVE Orderly'
  BY <1>2, CreateRequestOrderly, CreatorStepOrderly, CancelRequestOrderly, CallersApart DEF Request
<1>3. ASSUME NEW w \in Workers, Take(w) \/ Step(w) \/ CreateBotFails(w) \/ HandlerFails(w) \/ Crash(w) \/ LoseLease(w)
      PROVE  Orderly'
  BY <1>3, LoopStepOrderly, CreatorStepOrderly, WorkersApart DEF Step
<1>4. QED
  BY <1>1, <1>2, <1>3, OutsideStepOrderly DEF Next

LEMMA AlwaysOrderly == Safety => [](Typed /\ Orderly)
  BY InitTyped, InitOrderly, NextTyped, NextOrderly, PTL DEF Safety

\* README, meeting discovery, as far as the code goes: as long as no creator decides while another is
\* creating, all bots of a meeting but one were left behind by a creator that was interrupted, for
\* any number of requests, loops, failures, crashes and lost leases.
THEOREM OneBotPerMeeting == Safety => []OneBotUndisturbed
<1>1. Typed /\ Orderly => OneBotUndisturbed
  <2> SUFFICES ASSUME Typed, Orderly, ~overlapped PROVE Cardinality(Made \ unfinished) <= 1
    BY DEF OneBotUndisturbed
  <2>1. \A b, d \in Made \ unfinished : b = d
    BY DEF Orderly, OneCreator
  <2>2. CASE Made \ unfinished = {}
    BY <2>2, FS_EmptySet
  <2>3. CASE Made \ unfinished # {}
    <3>1. PICK b : b \in Made \ unfinished
      BY <2>3
    <3>2. Made \ unfinished = {b}
      BY <2>1, <3>1
    <3>3. QED
      BY <3>2, FS_Singleton
  <2>4. QED
    BY <2>2, <2>3
<1>2. QED
  BY <1>1, AlwaysOrderly, PTL

\* create_or_get_meeting and schedule_meeting_bots: whoever begins after a meeting was deleted never
\* gets to create a bot for it.
THEOREM DeletedGetsNoBot == Safety => []DeletedStaysBotless
<1>1. Typed /\ Orderly => DeletedStaysBotless
  BY DEF Typed, TypeOK, CallersTyped, Orderly, NoLateDeciders, DeletedStaysBotless, Creating, Deciding
<1>2. QED
  BY <1>1, AlwaysOrderly, PTL

\* cancel_meeting: once a cancel is answered ok, every bot of the meeting has ended, also those created
\* since, unless creators overlapped or were interrupted.
THEOREM CancelEndsBots == Safety => []CancelStopsBots
<1>1. Typed /\ Orderly => CancelStopsBots
  <2> SUFFICES ASSUME Typed, Orderly, stopped, ~overlapped, unfinished = {}, NEW b \in Made
               PROVE  phase[b] \in Ended
    BY DEF CancelStopsBots
  <2>1. PICK d \in Stored : phase[d] \in Ended
    BY DEF Orderly, CancelEnds
  <2>2. d \in Made \ unfinished /\ b \in Made \ unfinished
    BY DEF Orderly, Accounted
  <2>3. QED
    BY <2>1, <2>2 DEF Orderly, OneCreator
<1>2. QED
  BY <1>1, AlwaysOrderly, PTL

================================================================================
