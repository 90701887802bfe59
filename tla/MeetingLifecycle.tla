-------------------------- MODULE MeetingLifecycle --------------------------
(***************************************************************************)
(* One meeting (one dedupe key of one workspace) and its Recall bots, from *)
(* the request or calendar sync that inserts it to the end of its call:    *)
(* create_meeting, the scheduler's job for calendar meetings, cancel,      *)
(* delete and update.                                                      *)
(*                                                                         *)
(* Every SQL statement and provider call that matters is a step; requests, *)
(* jobs and the bots at Recall interleave, and a request or job may fail   *)
(* or die at any step (HandlerQueue).  Of the meeting's status only absent,*)
(* draft and anything later ("moved") are told apart: what the status      *)
(* events of a bot write is left out, when they may is not.                *)
(* Manual and calendar meetings never share a row: their keys hash         *)
(* differently formatted times.                                            *)
(***************************************************************************)
EXTENDS HandlerQueue, FiniteSets, SequencesExt

CONSTANTS
    Callers,      \* concurrent requests (or calendar syncs) about the meeting
    Bots, NoBot,  \* ids Recall can give to a bot: a bound on the bots created
    MaxRequests,  \* bound: create and cancel requests in a behaviour
    MaxFaults     \* bound: failures, crashes and lost leases in a behaviour

Manual == "manual"
Calendar == "google_calendar"

\* The dedupe key of the scheduler's job.
Schedule == "periodic-schedule-bots"
Keys == {Schedule}

Creators == Callers \cup Workers

ASSUME LifecycleAssumption ==
    /\ IsFiniteSet(Bots) /\ NoBot \notin Bots
    /\ Callers \cap Workers = {}
    /\ NoJob \notin Keys
    /\ MaxAttempts \in Nat \ {0} /\ MaxRequests \in Nat /\ MaxFaults \in Nat

VARIABLES
    source, status, access, due, deleted, \* the meetings row; access: meeting_access; due: scheduled_start_at is near
    bots, requested, \* recall_bots in order of insertion; those whose status is still "requested"
    phase,        \* phase[b]: where bot b is, at Recall
    step,         \* a request: its step
    bot,          \* local of a creator or a cancel: the bot it is about
    overlapped,   \* history: a creator decided to create while another was creating
    unfinished,   \* history: bots whose creator stopped before it was done with them
    late,         \* history: the requests and runs that began when the meeting was deleted
    stopped,      \* history: a cancel request was answered
    requests, faults

meetingVars == <<source, status, access, due, deleted>>
botVars == <<bots, requested>>
signVars == <<overlapped, unfinished, stopped>>
localVars == <<step, bot>>
vars == <<meetingVars, botVars, phase, localVars, queueVars, pc, job, lease, late, signVars, requests, faults>>

Init ==
    /\ source \in {Manual, Calendar}
    /\ status = "absent" /\ access = FALSE /\ due = FALSE /\ deleted = FALSE
    /\ bots = <<>>
    /\ requested = [b \in Bots |-> TRUE]
    /\ phase = [b \in Bots |-> "none"]
    /\ step = [c \in Callers |-> "none"]
    /\ bot = [a \in Creators |-> NoBot]
    /\ row = [k \in Keys |-> "none"]
    /\ attempts = [k \in Keys |-> 0]
    /\ pc = [w \in Workers |-> "idle"]
    /\ job = [w \in Workers |-> NoJob]
    /\ lease = [w \in Workers |-> "none"]
    /\ overlapped = FALSE /\ unfinished = {} /\ stopped = FALSE
    /\ late = {}
    /\ requests = 0 /\ faults = 0

Stored == Range(bots)
Made == {b \in Bots : phase[b] # "none"}

At(a) == IF a \in Workers THEN pc[a] ELSE step[a]

Creating == {a \in Creators : At(a) \in {"create", "store", "mark"}}

Fault == faults < MaxFaults /\ faults' = faults + 1

\* A request arrives, goes on, ends.
Begin(c, first) ==
    /\ step[c] = "none" /\ requests < MaxRequests
    /\ step' = [step EXCEPT ![c] = first]
    /\ late' = IF deleted THEN late \cup {c} ELSE late
    /\ requests' = requests + 1

GoOn(c, next) == step' = [step EXCEPT ![c] = next] /\ UNCHANGED <<bot, late>>

Respond(c) ==
    /\ step' = [step EXCEPT ![c] = "none"]
    /\ bot' = [bot EXCEPT ![c] = NoBot]
    /\ late' = late \ {c}

\* Creator a, a request or a run of the job, goes on, is done creating.
Moves(a, next) ==
    IF a \in Workers THEN GoTo(a, next) /\ UNCHANGED step
    ELSE step' = [step EXCEPT ![a] = next] /\ UNCHANGED pc

Created(a) ==
    IF a \in Workers
    THEN GoTo(a, "done") /\ bot' = [bot EXCEPT ![a] = NoBot] /\ UNCHANGED <<step, late>>
    ELSE Respond(a) /\ UNCHANGED pc

\* Creator a is interrupted: the bot it has not recorded, or (scheduler) for which the meeting may
\* still be a draft, may be created again.
Abandon(a) ==
    unfinished' = IF At(a) = "store" \/ (At(a) = "mark" /\ source = Calendar)
                  THEN unfinished \cup {bot[a]} ELSE unfinished

-------------------------------------------------------------------------------
(* create_or_get_meeting, called by create_meeting and by the calendar sync *)

PostMeeting(c) ==
    /\ Begin(c, "find")
    /\ UNCHANGED <<meetingVars, botVars, phase, bot, queueVars, pc, job, lease, signVars, faults>>

\* Seeded fault: the lookup finds deleted rows too.
FindAnyMeeting(c) ==
    /\ step[c] = "find"
    /\ GoOn(c, IF status # "absent" THEN "attach" ELSE "insert")
    /\ UNCHANGED <<meetingVars, botVars, phase, queueVars, pc, job, lease, signVars, requests, faults>>

\* SELECT by dedupe key, without deleted rows.
FindMeeting(c) ==
    /\ step[c] = "find"
    /\ GoOn(c, IF status # "absent" /\ ~deleted THEN "attach" ELSE "insert")
    /\ UNCHANGED <<meetingVars, botVars, phase, queueVars, pc, job, lease, signVars, requests, faults>>

\* INSERT: the key is unique, deleted rows included.
InsertMeeting(c) ==
    /\ step[c] = "insert"
    /\ \/ status = "absent" /\ status' = "draft" /\ GoOn(c, "attach")
       \/ status # "absent" /\ UNCHANGED status /\ Respond(c)
    /\ UNCHANGED <<source, access, due, deleted, botVars, phase, queueVars, pc, job, lease, signVars, requests,
                   faults>>

AttachAccess(c) ==
    /\ step[c] = "attach"
    /\ access' = TRUE
    /\ IF source = Manual THEN GoOn(c, "check") ELSE Respond(c)
    /\ UNCHANGED <<source, status, due, deleted, botVars, phase, queueVars, pc, job, lease, signVars, requests,
                   faults>>

-------------------------------------------------------------------------------
(* create_meeting, and schedule_meeting_bots for a calendar meeting *)

\* A creator decides to create a bot.
Decide(a) ==
    /\ Moves(a, "create")
    /\ overlapped' = (overlapped \/ Creating # {})
    /\ UNCHANGED <<bot, late>>

\* Seeded fault: the request does not look whether the meeting has a bot.
CheckNothing(c) ==
    /\ step[c] = "check"
    /\ Decide(c)
    /\ UNCHANGED <<meetingVars, botVars, phase, queueVars, job, lease, unfinished, stopped, requests, faults>>

\* The meeting as read back, deleted or not, has no bot.
CheckBot(c) ==
    /\ step[c] = "check"
    /\ IF bots = <<>> THEN Decide(c) ELSE Respond(c) /\ UNCHANGED <<pc, overlapped>>
    /\ UNCHANGED <<meetingVars, botVars, phase, queueVars, job, lease, unfinished, stopped, requests, faults>>

\* The meetings the scheduler selects: drafts from the calendar that start soon and are not deleted.
Waiting == status = "draft" /\ source = Calendar /\ due /\ ~deleted /\ access

SelectDraft(w) ==
    /\ pc[w] = "select"
    /\ IF Waiting THEN Decide(w) ELSE GoTo(w, "done") /\ UNCHANGED <<localVars, late, overlapped>>
    /\ UNCHANGED <<meetingVars, botVars, phase, queueVars, job, lease, unfinished, stopped, requests, faults>>

CreateBot(a) ==
    /\ At(a) = "create"
    /\ \E b \in Bots \ Made :
        /\ phase' = [phase EXCEPT ![b] = "ready"]
        /\ bot' = [bot EXCEPT ![a] = b]
    /\ Moves(a, "store")
    /\ UNCHANGED <<meetingVars, botVars, queueVars, job, lease, late, signVars, requests, faults>>

\* create_bot returns an error, whether or not Recall created the bot.  The request fails, the
\* scheduler goes on to the next meeting.
CreateBotFails(a) ==
    /\ At(a) = "create" /\ Fault
    /\ \/ UNCHANGED <<phase, unfinished>>
       \/ \E b \in Bots \ Made : /\ phase' = [phase EXCEPT ![b] = "ready"]
                                 /\ unfinished' = unfinished \cup {b}
    /\ Created(a)
    /\ UNCHANGED <<meetingVars, botVars, queueVars, job, lease, overlapped, stopped, requests>>

\* store_recall_bot, the INSERT.
StoreBot(a) ==
    /\ At(a) = "store"
    /\ bots' = Append(bots, bot[a])
    /\ Moves(a, "mark")
    /\ UNCHANGED <<meetingVars, requested, phase, bot, queueVars, job, lease, late, signVars, requests, faults>>

\* store_recall_bot, the UPDATE of the meeting.
MarkScheduled(a) ==
    /\ At(a) = "mark"
    /\ status' = "moved"
    /\ Created(a)
    /\ UNCHANGED <<source, access, due, deleted, botVars, phase, queueVars, job, lease, signVars, requests, faults>>

\* A statement of a request fails, its process dies, or its connection is gone.
RequestStops(c) ==
    /\ step[c] # "none" /\ Fault
    /\ Abandon(c) /\ Respond(c)
    /\ UNCHANGED <<meetingVars, botVars, phase, queueVars, pc, job, lease, overlapped, stopped, requests>>

-------------------------------------------------------------------------------
(* The bots, at Recall *)

Ended == {"left", "deleted"}

\* A bot joins the call; it leaves it, or never gets in.
BotMoves ==
    /\ \E b \in Bots :
        \/ phase[b] = "ready" /\ phase' = [phase EXCEPT ![b] = "call"]
        \/ phase[b] \in {"ready", "call"} /\ phase' = [phase EXCEPT ![b] = "left"]
    /\ UNCHANGED <<meetingVars, botVars, localVars, queueVars, pc, job, lease, late, signVars, requests, faults>>

\* apply_recall_bot_event for an event of a bot that has begun to join: in any order, early or late,
\* and only if the bot has a row.
ApplyBotEvent ==
    /\ \E b \in Stored :
        /\ phase[b] \in {"call", "left"}
        /\ requested' = [requested EXCEPT ![b] = FALSE]
    /\ status' = "moved"
    /\ UNCHANGED <<source, access, due, deleted, bots, phase, localVars, queueVars, pc, job, lease, late, signVars,
                   requests, faults>>

-------------------------------------------------------------------------------
(* cancel_meeting, delete_meeting, update_meeting *)

\* The latest bot of the meeting decides how it is cancelled; without one the request is refused.
AskCancel(c) ==
    /\ access /\ bots # <<>>
    /\ Begin(c, IF requested[Last(bots)] THEN "drop" ELSE "leave")
    /\ bot' = [bot EXCEPT ![c] = Last(bots)]
    /\ UNCHANGED <<meetingVars, botVars, phase, queueVars, pc, job, lease, signVars, faults>>

\* The provider ends bot b of request c, or refuses because the bot is elsewhere.
EndBot(c, from, to) ==
    LET b == bot[c] IN
    IF phase[b] = from
    THEN phase' = [phase EXCEPT ![b] = to] /\ GoOn(c, "cancel")
    ELSE UNCHANGED phase /\ Respond(c)

\* Seeded fault: a bot that is waiting to join is not cancelled.
DropNothing(c) ==
    /\ step[c] = "drop"
    /\ GoOn(c, "cancel")
    /\ UNCHANGED <<meetingVars, botVars, phase, queueVars, pc, job, lease, signVars, requests, faults>>

\* cancel_scheduled_bot
DropBot(c) ==
    /\ step[c] = "drop"
    /\ EndBot(c, "ready", "deleted")
    /\ UNCHANGED <<meetingVars, botVars, queueVars, pc, job, lease, signVars, requests, faults>>

\* leave_call
LeaveCall(c) ==
    /\ step[c] = "leave"
    /\ EndBot(c, "call", "left")
    /\ UNCHANGED <<meetingVars, botVars, queueVars, pc, job, lease, signVars, requests, faults>>

\* update_meeting_status, and the answer.
SetCancelled(c) ==
    /\ step[c] = "cancel"
    /\ status' = "moved" /\ stopped' = TRUE
    /\ Respond(c)
    /\ UNCHANGED <<source, access, due, deleted, botVars, phase, queueVars, pc, job, lease, overlapped, unfinished,
                   requests, faults>>

\* soft_delete_meeting_for_user
Delete ==
    /\ access
    /\ status' = "moved" /\ deleted' = TRUE
    /\ UNCHANGED <<source, access, due, botVars, phase, localVars, queueVars, pc, job, lease, late, signVars,
                   requests, faults>>

\* update_meeting_fields with another start (which only the scheduler reads).
Reschedule ==
    /\ access /\ ~deleted /\ source = Calendar
    /\ due' = ~due
    /\ UNCHANGED <<source, status, access, deleted, botVars, phase, localVars, queueVars, pc, job, lease, late,
                   signVars, requests, faults>>

-------------------------------------------------------------------------------
(* A calendar meeting elsewhere: time passes, or a sync finds its event cancelled. *)

CalendarMoves ==
    /\ source = Calendar
    /\ \/ ~due /\ due' = TRUE /\ UNCHANGED status
       \/ status # "absent" /\ status' = "moved" /\ UNCHANGED due
    /\ UNCHANGED <<source, access, deleted, botVars, phase, localVars, queueVars, pc, job, lease, late, signVars,
                   requests, faults>>

-------------------------------------------------------------------------------
(* The scheduler's job *)

\* enqueue_periodic_bot_scheduler; the job finds no manual meeting (Waiting).
Tick ==
    /\ source = Calendar
    /\ Enqueue(Schedule)
    /\ UNCHANGED <<meetingVars, botVars, phase, localVars, pc, job, late, signVars, requests, faults>>

Take(w) ==
    /\ LeaseRow(w, Schedule, "select")
    /\ late' = IF deleted THEN late \cup {w} ELSE late
    /\ UNCHANGED <<meetingVars, botVars, phase, localVars, signVars, requests, faults>>

Idle(w) ==
    /\ Leave(w)
    /\ bot' = [bot EXCEPT ![w] = NoBot]
    /\ late' = late \ {w}

Complete(w) ==
    /\ pc[w] = "done"
    /\ DeleteRow(w) /\ Idle(w)
    /\ UNCHANGED <<meetingVars, botVars, phase, step, signVars, requests, faults>>

\* A statement of the handler fails (an error of create_bot is CreateBotFails).
HandlerFails(w) ==
    /\ pc[w] \in {"select", "store", "mark", "done"} /\ Fault
    /\ Abandon(w) /\ FailRow(w) /\ Idle(w)
    /\ UNCHANGED <<meetingVars, botVars, phase, step, overlapped, stopped, requests>>

\* Seeded fault: nothing ever frees the row of a process that died.
CrashWithoutRecovery(w) ==
    /\ pc[w] # "idle" /\ Fault
    /\ pc' = [pc EXCEPT ![w] = "idle"]
    /\ Abandon(w)
    /\ UNCHANGED <<meetingVars, botVars, phase, localVars, queueVars, job, lease, late, overlapped, stopped, requests>>

\* The process dies; start-up recovery frees the row.
Crash(w) ==
    /\ pc[w] # "idle" /\ Fault
    /\ lease' = [lease EXCEPT ![w] = "none"]
    /\ Abandon(w) /\ Idle(w)
    /\ UNCHANGED <<meetingVars, botVars, phase, step, queueVars, overlapped, stopped, requests>>

LoseLease(w) ==
    /\ LoseRow(w) /\ Fault
    /\ UNCHANGED <<meetingVars, botVars, phase, localVars, pc, job, late, signVars, requests>>

-------------------------------------------------------------------------------

Step(w) ==
    SelectDraft(w) \/ CreateBot(w) \/ StoreBot(w) \/ MarkScheduled(w) \/ Complete(w)

Request(c) ==
    \/ PostMeeting(c) \/ FindMeeting(c) \/ InsertMeeting(c) \/ AttachAccess(c) \/ CheckBot(c)
    \/ CreateBot(c) \/ StoreBot(c) \/ MarkScheduled(c)
    \/ AskCancel(c) \/ DropBot(c) \/ LeaveCall(c) \/ SetCancelled(c)
    \/ CreateBotFails(c) \/ RequestStops(c)

Next ==
    \/ \E c \in Callers : Request(c)
    \/ \E w \in Workers : Take(w) \/ Step(w) \/ CreateBotFails(w) \/ HandlerFails(w) \/ Crash(w) \/ LoseLease(w)
    \/ BotMoves \/ ApplyBotEvent \/ Delete \/ Reschedule \/ CalendarMoves \/ Tick

Safety == Init /\ [][Next]_vars

\* The scheduler ticks, the loops poll and their handlers advance.
Fairness == WF_vars(Tick) /\ \A w \in Workers : WF_vars(Take(w)) /\ WF_vars(Step(w))

Spec == Safety /\ Fairness

-------------------------------------------------------------------------------
(* Properties *)

MeetingTyped ==
    /\ source \in {Manual, Calendar}
    /\ status \in {"absent", "draft", "moved"}
    /\ access \in BOOLEAN /\ due \in BOOLEAN /\ deleted \in BOOLEAN
    /\ requests \in 0..MaxRequests /\ faults \in 0..MaxFaults

BotsTyped ==
    /\ bots \in Seq(Bots)
    /\ requested \in [Bots -> BOOLEAN]
    /\ phase \in [Bots -> {"none", "ready", "call", "left", "deleted"}]

CallersTyped ==
    /\ step \in [Callers -> {"none", "find", "insert", "attach", "check", "create", "store", "mark", "drop",
                             "leave", "cancel"}]
    /\ bot \in [Creators -> Bots \cup {NoBot}]
    /\ overlapped \in BOOLEAN /\ stopped \in BOOLEAN
    /\ unfinished \subseteq Bots
    /\ late \subseteq Creators

LoopsTyped ==
    /\ row \in [Keys -> {"none", "active", "dead"}]
    /\ attempts \in [Keys -> Nat]
    /\ pc \in [Workers -> {"idle", "select", "create", "store", "mark", "done"}]
    /\ job \in [Workers -> Keys \cup {NoJob}]
    /\ lease \in [Workers -> {"none", "held", "lost", "gone"}]
    /\ \A w \in Workers : (pc[w] = "idle" <=> job[w] = NoJob) /\ (pc[w] = "idle" => lease[w] = "none")

\* Types.
TypeOK == MeetingTyped /\ BotsTyped /\ CallersTyped /\ LoopsTyped

\* The code's form of README, meeting discovery ("instead of creating multiple bots"): unless two
\* creators overlapped, all bots of a meeting but one were left behind by an interrupted creator.
OneBotUndisturbed == ~overlapped => Cardinality(Made \ unfinished) <= 1

\* Nobody who starts after a meeting was deleted sends a bot to it.
DeletedStaysBotless == Creating \cap late = {}

\* A cancel that is answered ok has stopped the meeting's bot, and no bot comes later, unless
\* creators overlapped or were interrupted.
CancelStopsBots ==
    stopped /\ ~overlapped /\ unfinished = {} =>
        \A b \in Made : phase[b] \in Ended

\* README, meeting discovery: "Repeating the same request therefore resolves to the existing
\* meeting instead of creating multiple bots."
OneBot == Cardinality(Made) <= 1

-------------------------------------------------------------------------------
(* Liveness. *)

\* A calendar meeting that is about to start does not stay a draft: it gets a recorded bot, unless it is
\* deleted, moved or cancelled meanwhile.
DueGetsBot == Waiting ~> ~Waiting

===============================================================================
