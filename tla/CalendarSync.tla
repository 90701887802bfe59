---------------------------- MODULE CalendarSync ----------------------------
(***************************************************************************)
(* One user's Google Calendar: the OAuth connections the user makes, one   *)
(* calendar with one event that may carry a meeting link, and everything   *)
(* that reads or writes them: the OAuth callback, disconnect, resync, the  *)
(* push webhook, the renewal of watches and the sync job, which is run by  *)
(* the consumer loops (HandlerQueue).                                      *)
(*                                                                         *)
(* Every SQL statement and every call to Google is a step; requests, jobs  *)
(* and the renewal interleave, and each may fail or die at any step.  A    *)
(* callback makes a new connection id, so a calendar row is known by its   *)
(* connection and an event row by its calendar.  A meeting is known by the *)
(* start its dedupe key hashes.  A listing may leave the event out: without *)
(* a cursor it is limited to the next 30 days.  Left out: titles, access   *)
(* tokens (a job works with the grant behind its token), calendars without *)
(* the event and the pages of a listing after the first.                   *)
(***************************************************************************)
EXTENDS HandlerQueue, FiniteSets, Sequences

CONSTANTS
    Conns,        \* ids of oauth_connections rows: a bound on the connects
    Callers,      \* concurrent requests of the user
    Times,        \* starts the event can have
    First,        \* values the event may have when the user comes
    None,         \* no connection, no time
    MaxRevs,      \* bound: values the event has at Google
    MaxWatches,   \* bound: watch channels of one calendar
    MaxRequests,  \* bound: requests and renewals
    MaxFaults     \* bound: failures, crashes, lost leases and listings without a token

\* Keys of the sync jobs: initial-sync-<connection>, resync-<connection>, webhook-sync-<channel>.
Keys == ({"initial", "resync"} \X Conns \X {0}) \cup ({"push"} \X Conns \X (1..MaxWatches))

\* Values of the event that give nothing to store: it is cancelled, or has no meeting link.
Meetingless == {"cancelled", "linkless"}
Values == Times \cup Meetingless

ASSUME CalendarAssumption ==
    /\ IsFiniteSet(Conns) /\ None \notin Conns \cup Times \cup Meetingless /\ Times \cap Meetingless = {}
    /\ First \subseteq Values
    /\ NoJob \notin Keys
    /\ MaxAttempts \in Nat \ {0} /\ MaxRevs \in Nat /\ MaxWatches \in Nat
    /\ MaxRequests \in Nat /\ MaxFaults \in Nat

VARIABLES
    log,          \* at Google: the values the event has had (the start of one with a link; "cancelled": or not there yet)
    granted,      \* at Google: the connections whose refresh token works
    live, unsent, \* at Google: the channels that push; those that have a change to push
    status,       \* oauth_connections.status
    calendar,     \* the calendar_calendars row of a connection: is it there,
    cursor,       \* its sync_cursor (the revision it stands for, -1: NULL),
    channel,      \* its watch_channel_id (0: NULL),
    expiring,     \* its watch_expires_at: within 24 hours, or past
    issued,       \* channels asked for so far
    event, link,  \* the calendar_events row of a calendar: starts_at (None: no row), meeting_id
    missed,       \* history: calendars whose row differs from the event in a listing that left it out or
                  \* had no link for it; until an item has been applied
    meeting, start, deleted, \* meetings by dedupe key: status; scheduled_start_at; deleted_at is set
    user,         \* local of a job: the connection its token is of
    since, seen,  \* locals of a job: the cursor it listed from, the revision it was given
    holds, found, \* a job: the event row whose id it has is still there; the meeting_id it read of a cancelled event
    step, target, \* a request: its step, the connection it is about
    renewal, renews, \* the renewal of watches: its step, the connection it is at
    disturbed,    \* history: connections with two jobs syncing at a time, or whose events a disconnect
                  \* has deleted
    intact,       \* history: disconnects during which nobody else was at work and no call failed
    severed,      \* history: the connections of those that were answered
    requests, faults

googleVars == <<log, granted, live, unsent>>
connVars == <<status, calendar, cursor, channel, expiring, issued>>
eventVars == <<event, link, missed>>
meetingVars == <<meeting, start, deleted>>
jobVars == <<user, since, seen, holds, found>>
requestVars == <<step, target>>
renewalVars == <<renewal, renews>>
loopVars == <<pc, job, lease>>
signVars == <<disturbed, intact, severed>>
vars == <<googleVars, connVars, eventVars, meetingVars, jobVars, requestVars, renewalVars, queueVars, loopVars,
          signVars, requests, faults>>

Init ==
    /\ \E v \in First : log = <<v>>
    /\ granted = {} /\ live = {} /\ unsent = {}
    /\ status = [c \in Conns |-> "none"]
    /\ calendar = [c \in Conns |-> FALSE]
    /\ cursor = [c \in Conns |-> -1]
    /\ channel = [c \in Conns |-> 0]
    /\ expiring = [c \in Conns |-> FALSE]
    /\ issued = [c \in Conns |-> 0]
    /\ event = [c \in Conns |-> None]
    /\ link = [c \in Conns |-> None] /\ missed = {}
    /\ meeting = [t \in Times |-> "absent"]
    /\ start = [t \in Times |-> t]
    /\ deleted = {}
    /\ user = [w \in Workers |-> None]
    /\ since = [w \in Workers |-> -1]
    /\ seen = [w \in Workers |-> 0]
    /\ holds = [w \in Workers |-> FALSE]
    /\ found = [w \in Workers |-> None]
    /\ step = [r \in Callers |-> "none"]
    /\ target = [r \in Callers |-> None]
    /\ renewal = "idle" /\ renews = None
    /\ row = [k \in Keys |-> "none"]
    /\ attempts = [k \in Keys |-> 0]
    /\ pc = [w \in Workers |-> "idle"]
    /\ job = [w \in Workers |-> NoJob]
    /\ lease = [w \in Workers |-> "none"]
    /\ disturbed = {} /\ intact = {} /\ severed = {}
    /\ requests = 0 /\ faults = 0

Fault == faults < MaxFaults /\ faults' = faults + 1

\* Seeded fault: disconnected connections are taken too.
KnownConnections == {c \in Conns : status[c] # "none"}

\* get_oauth_connection: any of the user's connections that is not disconnected.
Usable == {c \in Conns : status[c] \in {"connected", "auth_required"}}

\* The connection whose calendar job w syncs.
Owner(w) == job[w][2]

\* Whether anybody but request r is at work.
Quiet(r) ==
    /\ \A w \in Workers : pc[w] = "idle"
    /\ \A q \in Callers \ {r} : step[q] = "none"
    /\ renewal = "idle"

-------------------------------------------------------------------------------
(* Google, and the time *)

\* The event gets another start, loses its link or is cancelled (or comes back).
EventChanges ==
    /\ Len(log) < MaxRevs
    /\ \E v \in Values :
        /\ v # log[Len(log)]
        /\ log' = Append(log, v)
    /\ unsent' = live
    /\ UNCHANGED <<granted, live, connVars, eventVars, meetingVars, jobVars, requestVars, renewalVars, queueVars,
                   loopVars, signVars, requests, faults>>

\* A watch nears its end, then ends.  The bounds stop it where it no longer shows: only a renewal reads the
\* one and only a change of the event the other.
WatchAges ==
    /\ \E c \in Conns :
        \/ /\ channel[c] > 0 /\ ~expiring[c] /\ requests < MaxRequests
           /\ expiring' = [expiring EXCEPT ![c] = TRUE]
           /\ UNCHANGED live
        \/ /\ expiring[c] /\ <<c, channel[c]>> \in live /\ Len(log) < MaxRevs
           /\ live' = live \ {<<c, channel[c]>>}
           /\ UNCHANGED expiring
    /\ UNCHANGED <<log, granted, unsent, status, calendar, cursor, channel, issued, eventVars, meetingVars, jobVars, requestVars,
                   renewalVars, queueVars, loopVars, signVars, requests, faults>>

\* google_calendar_webhook: a change is pushed; a usable connection that has the channel is synced.
Push ==
    /\ \E ch \in unsent :
        /\ unsent' = unsent \ {ch}
        /\ IF calendar[ch[1]] /\ channel[ch[1]] = ch[2] /\ ch[1] \in Usable
           THEN Enqueue(<<"push", ch[1], ch[2]>>) ELSE UNCHANGED <<queueVars, lease>>
    /\ UNCHANGED <<log, granted, live, connVars, eventVars, meetingVars, jobVars, requestVars, renewalVars, pc, job,
                   signVars, requests, faults>>

-------------------------------------------------------------------------------
(* sync_google_calendar_job and sync_user_calendar *)

Take(w) ==
    /\ \E k \in Keys : LeaseRow(w, k, "open")
    /\ intact' = {}
    /\ UNCHANGED <<googleVars, connVars, eventVars, meetingVars, jobVars, requestVars, renewalVars, disturbed,
                   severed, requests, faults>>

Idle(w) ==
    /\ Leave(w)
    /\ user' = [user EXCEPT ![w] = None]
    /\ since' = [since EXCEPT ![w] = -1]
    /\ seen' = [seen EXCEPT ![w] = 0]
    /\ holds' = [holds EXCEPT ![w] = FALSE]
    /\ found' = [found EXCEPT ![w] = None]

\* The handler returns an error.
Fail(w) == FailRow(w) /\ Idle(w)

\* The handler goes on; the queue is left alone.
Go(w, next) == GoTo(w, next) /\ UNCHANGED <<queueVars, job, lease>>

OpenConnection(w) ==
    /\ pc[w] = "open"
    /\ \/ /\ \E u \in Usable : user' = [user EXCEPT ![w] = u]
          /\ Go(w, "refresh") /\ UNCHANGED <<since, seen, holds, found>>
       \/ Usable = {} /\ Fail(w)
    /\ UNCHANGED <<googleVars, connVars, eventVars, meetingVars, requestVars, renewalVars, signVars, requests, faults>>

\* Google refuses a token that was revoked; any other error counts as a refusal.
RefreshToken(w) ==
    /\ pc[w] = "refresh"
    /\ \/ user[w] \in granted /\ Go(w, "read") /\ UNCHANGED faults
       \/ user[w] \notin granted /\ Go(w, "reject") /\ UNCHANGED faults
       \/ Fault /\ Go(w, "reject")
    /\ UNCHANGED <<googleVars, connVars, eventVars, meetingVars, jobVars, requestVars, renewalVars, signVars, requests>>

\* update_oauth_connection_status, whatever the status is by now; the job ends well.
RejectToken(w) ==
    /\ pc[w] = "reject"
    /\ status' = [status EXCEPT ![user[w]] = "auth_required"]
    /\ Go(w, "done")
    /\ UNCHANGED <<googleVars, calendar, cursor, channel, expiring, issued, eventVars, meetingVars, jobVars, requestVars,
                   renewalVars, signVars, requests, faults>>

\* The steps between the read of the calendar and the write of its cursor.
Syncing == {"list", "find", "update", "insert", "meeting", "shift", "get", "link", "look", "cancel",
            "drop", "cursor"}

Disturb(c, how) == disturbed' = IF how THEN disturbed \cup {c} ELSE disturbed

\* list_calendar_calendars
ReadCalendar(w) ==
    /\ pc[w] = "read"
    /\ IF calendar[Owner(w)]
       THEN /\ since' = [since EXCEPT ![w] = cursor[Owner(w)]]
            /\ Disturb(Owner(w), \E v \in Workers : pc[v] \in Syncing /\ Owner(v) = Owner(w))
            /\ Go(w, "list")
       ELSE Go(w, "done") /\ UNCHANGED <<since, disturbed>>
    /\ UNCHANGED <<googleVars, connVars, eventVars, meetingVars, user, seen, holds, found, requestVars, renewalVars,
                   intact, severed, requests, faults>>

\* Whether the rows of connection c say what the value v of the event does.
Agrees(c, v) == IF v \in Times THEN event[c] = v /\ link[c] # None ELSE event[c] = None

\* Job w stores nothing of the value v of the event.
PassOver(w, v) ==
    /\ Go(w, "cursor")
    /\ missed' = IF Agrees(Owner(w), v) THEN missed ELSE missed \cup {Owner(w)}

\* What job w does with the value v of the event as an item: one without a link is skipped.
Handle(w, v) ==
    \/ v \in Times /\ Go(w, "find") /\ UNCHANGED missed
    \/ v = "cancelled" /\ Go(w, "look") /\ UNCHANGED missed
    \/ v = "linkless" /\ PassOver(w, v)

\* list_events with the cursor: what changed since, cancellations included.
ListChanges(w) ==
    /\ since[w] >= 0
    /\ \/ Len(log) > since[w] /\ Handle(w, log[Len(log)])
       \/ Len(log) <= since[w] /\ Go(w, "cursor") /\ UNCHANGED missed

\* list_events without one, or after Google said that it has expired: the events of the next 30 days, as of
\* now, but the cancelled ones.  The event may be outside.
ListAll(w) ==
    LET v == log[Len(log)] IN
    \/ v # "cancelled" /\ Handle(w, v)
    \/ PassOver(w, v)

\* Seeded fault: the cursor is stored before the events are.
ListAndStore(w) ==
    /\ pc[w] = "list"
    /\ IF user[w] \in granted
       THEN /\ ListChanges(w) \/ ListAll(w)
            /\ seen' = [seen EXCEPT ![w] = Len(log)]
            /\ cursor' = [cursor EXCEPT ![Owner(w)] = Len(log)]
            /\ since' = [since EXCEPT ![w] = -1] /\ user' = [user EXCEPT ![w] = None]
            /\ UNCHANGED <<holds, found>>
       ELSE Fail(w) /\ UNCHANGED <<missed, cursor>>
    /\ UNCHANGED <<googleVars, status, calendar, channel, expiring, issued, event, link, meetingVars, requestVars,
                   renewalVars, signVars, requests, faults>>

\* The locals that are not read again are forgotten.
ListEvents(w) ==
    /\ pc[w] = "list"
    /\ IF user[w] \in granted
       THEN /\ ListChanges(w) \/ ListAll(w)
            /\ seen' = [seen EXCEPT ![w] = Len(log)]
            /\ since' = [since EXCEPT ![w] = -1] /\ user' = [user EXCEPT ![w] = None]
            /\ UNCHANGED <<holds, found>>
       ELSE Fail(w) /\ UNCHANGED missed
    /\ UNCHANGED <<googleVars, connVars, event, link, meetingVars, requestVars, renewalVars, signVars, requests, faults>>

\* The value of the event in the listing job w works on.
Item(w) == log[seen[w]]

\* The rows of job w's connection say what its item does.
Applied(w) == missed' = missed \ {Owner(w)}

\* upsert_calendar_event, the SELECT.
FindEvent(w) ==
    /\ pc[w] = "find"
    /\ holds' = [holds EXCEPT ![w] = event[Owner(w)] # None]
    /\ Go(w, IF event[Owner(w)] # None THEN "update" ELSE "insert")
    /\ UNCHANGED <<googleVars, connVars, eventVars, meetingVars, user, since, seen, found, requestVars, renewalVars,
                   signVars, requests, faults>>

\* upsert_calendar_event, the UPDATE of the row found.
UpdateEvent(w) ==
    /\ pc[w] = "update"
    /\ event' = IF holds[w] THEN [event EXCEPT ![Owner(w)] = Item(w)] ELSE event
    /\ Go(w, "meeting")
    /\ UNCHANGED <<googleVars, connVars, link, missed, meetingVars, jobVars, requestVars, renewalVars, signVars, requests,
                   faults>>

\* upsert_calendar_event, the INSERT: one row per calendar and event, of a calendar that is there.
InsertEvent(w) ==
    /\ pc[w] = "insert"
    /\ IF calendar[Owner(w)] /\ event[Owner(w)] = None
       THEN /\ event' = [event EXCEPT ![Owner(w)] = Item(w)]
            /\ holds' = [holds EXCEPT ![w] = TRUE]
            /\ Go(w, "meeting") /\ UNCHANGED <<user, since, seen, found>>
       ELSE Fail(w) /\ UNCHANGED event
    /\ UNCHANGED <<googleVars, connVars, link, missed, meetingVars, requestVars, renewalVars, signVars, requests, faults>>

\* get_meeting_for_calendar_event; the meeting is left alone if it starts when the event does.
FindMeeting(w) ==
    /\ pc[w] = "meeting"
    /\ LET m == link[Owner(w)] IN
       IF holds[w] /\ m # None
       THEN Go(w, IF start[m] # Item(w) THEN "shift" ELSE "cursor") /\ Applied(w)
       ELSE Go(w, "get") /\ UNCHANGED missed
    /\ UNCHANGED <<googleVars, connVars, event, link, meetingVars, jobVars, requestVars, renewalVars, signVars, requests,
                   faults>>

\* The ids of the rows: all rows of all tables have different ones.
EventId(c) == <<"calendar_events", c>>
MeetingId(t) == <<"meetings", t>>

\* update_meeting_fields with the id that get_meeting_for_calendar_event returns: the event row's.
ShiftMeeting(w) ==
    /\ pc[w] = "shift"
    /\ start' = [t \in Times |-> IF MeetingId(t) = EventId(Owner(w)) THEN Item(w) ELSE start[t]]
    /\ Go(w, "cursor")
    /\ UNCHANGED <<googleVars, connVars, eventVars, meeting, deleted, jobVars, requestVars, renewalVars, signVars, requests,
                   faults>>

\* create_or_get_meeting, whose statements MeetingLifecycle has: a deleted meeting is not found, but keeps
\* its key.
GetMeeting(w) ==
    /\ pc[w] = "get"
    /\ IF Item(w) \in deleted
       THEN Fail(w) /\ UNCHANGED meeting
       ELSE /\ meeting' = IF meeting[Item(w)] = "absent" THEN [meeting EXCEPT ![Item(w)] = "open"] ELSE meeting
            /\ Go(w, "link") /\ UNCHANGED jobVars
    /\ UNCHANGED <<googleVars, connVars, eventVars, start, deleted, requestVars, renewalVars, signVars, requests, faults>>

\* link_calendar_event_to_meeting
LinkEvent(w) ==
    /\ pc[w] = "link"
    /\ link' = IF holds[w] THEN [link EXCEPT ![Owner(w)] = Item(w)] ELSE link
    /\ Go(w, "cursor") /\ Applied(w)
    /\ UNCHANGED <<googleVars, connVars, event, meetingVars, jobVars, requestVars, renewalVars, signVars, requests, faults>>

\* Seeded fault: the meeting of a cancelled event is left as it is.
LookOnly(w) ==
    /\ pc[w] = "look"
    /\ holds' = [holds EXCEPT ![w] = event[Owner(w)] # None]
    /\ Go(w, IF event[Owner(w)] = None THEN "cursor" ELSE "drop")
    /\ UNCHANGED <<googleVars, connVars, eventVars, meetingVars, user, since, seen, found, requestVars, renewalVars,
                   signVars, requests, faults>>

\* A cancelled event: get_calendar_event_by_provider_id
LookEvent(w) ==
    /\ pc[w] = "look"
    /\ LET c == Owner(w) IN
       /\ holds' = [holds EXCEPT ![w] = event[c] # None]
       /\ found' = [found EXCEPT ![w] = link[c]]
       /\ IF event[c] = None
          THEN Go(w, "cursor") /\ Applied(w)
          ELSE Go(w, IF link[c] # None THEN "cancel" ELSE "drop") /\ UNCHANGED missed
    /\ UNCHANGED <<googleVars, connVars, event, link, meetingVars, user, since, seen, requestVars, renewalVars, signVars,
                   requests, faults>>

\* update_meeting_status
CancelMeeting(w) ==
    /\ pc[w] = "cancel"
    /\ meeting' = [meeting EXCEPT ![found[w]] = "cancelled"]
    /\ Go(w, "drop")
    /\ UNCHANGED <<googleVars, connVars, eventVars, start, deleted, jobVars, requestVars, renewalVars, signVars, requests,
                   faults>>

\* The event row of calendar c goes: whoever has its id has nothing.
RemoveEvent(c) ==
    /\ event' = [event EXCEPT ![c] = None]
    /\ link' = [link EXCEPT ![c] = None]
    /\ missed' = missed \ {c}
    /\ holds' = [v \in Workers |-> holds[v] /\ ~(pc[v] \in Syncing /\ Owner(v) = c)]

\* delete_calendar_event
DropEvent(w) ==
    /\ pc[w] = "drop"
    /\ IF holds[w] THEN RemoveEvent(Owner(w)) ELSE UNCHANGED <<eventVars, holds>>
    /\ Go(w, "cursor")
    /\ UNCHANGED <<googleVars, connVars, meetingVars, user, since, seen, found, requestVars, renewalVars, signVars,
                   requests, faults>>

\* update_calendar_sync_cursor, if Google has sent a token; the job is done with the event.
StoreCursor(w) ==
    /\ pc[w] = "cursor"
    /\ \/ /\ cursor' = IF calendar[Owner(w)] THEN [cursor EXCEPT ![Owner(w)] = seen[w]] ELSE cursor
          /\ UNCHANGED faults
       \/ Fault /\ UNCHANGED cursor
    /\ seen' = [seen EXCEPT ![w] = 0]
    /\ holds' = [holds EXCEPT ![w] = FALSE]
    /\ found' = [found EXCEPT ![w] = None]
    /\ Go(w, "done")
    /\ UNCHANGED <<googleVars, status, calendar, channel, expiring, issued, eventVars, meetingVars, user, since,
                   requestVars, renewalVars, signVars, requests>>

Complete(w) ==
    /\ pc[w] = "done"
    /\ DeleteRow(w) /\ Idle(w)
    /\ UNCHANGED <<googleVars, connVars, eventVars, meetingVars, requestVars, renewalVars, signVars, requests, faults>>

-------------------------------------------------------------------------------
(* Requests: google_callback, google_disconnect, google_resync *)

others == <<log, unsent, eventVars, meetingVars, jobVars, renewalVars, queueVars, loopVars>>

Begin(r, first, c) ==
    /\ step[r] = "none" /\ requests < MaxRequests
    /\ step' = [step EXCEPT ![r] = first]
    /\ target' = [target EXCEPT ![r] = c]
    /\ requests' = requests + 1

GoOn(r, next) == step' = [step EXCEPT ![r] = next] /\ UNCHANGED <<target, requests>>

Respond(r) ==
    /\ step' = [step EXCEPT ![r] = "none"]
    /\ target' = [target EXCEPT ![r] = None]
    /\ UNCHANGED requests

\* exchange_code and store_oauth_connection: every connect makes a connection of its own.
StoreConnection(r) ==
    /\ \E c \in Conns :
        /\ status[c] = "none"
        /\ Begin(r, "list", c)
        /\ status' = [status EXCEPT ![c] = "connected"]
        /\ granted' = granted \cup {c}
    /\ intact' = {}
    /\ UNCHANGED <<others, live, calendar, cursor, channel, expiring, issued, disturbed, severed, faults>>

\* list_calendars and store_calendar
StoreCalendar(r) ==
    /\ step[r] = "list"
    /\ calendar' = [calendar EXCEPT ![target[r]] = TRUE]
    /\ GoOn(r, "enqueue")
    /\ UNCHANGED <<others, granted, live, status, cursor, channel, expiring, issued, signVars, faults>>

EnqueueInitial(r) ==
    /\ step[r] = "enqueue"
    /\ Enqueue(<<"initial", target[r], 0>>)
    /\ GoOn(r, "watch")
    /\ UNCHANGED <<googleVars, connVars, eventVars, meetingVars, jobVars, renewalVars, pc, job, signVars, faults>>

\* watch_calendar makes a channel.
Watch(c) ==
    /\ issued[c] < MaxWatches
    /\ issued' = [issued EXCEPT ![c] = @ + 1]
    /\ live' = live \cup {<<c, issued[c] + 1>>}

\* update_calendar_watch with the channel made last; it lasts a week.
Record(c) ==
    IF calendar[c]
    THEN channel' = [channel EXCEPT ![c] = issued[c]] /\ expiring' = [expiring EXCEPT ![c] = FALSE]
    ELSE UNCHANGED <<channel, expiring>>

RegisterWatch(r) ==
    /\ step[r] = "watch"
    /\ \/ Watch(target[r]) /\ GoOn(r, "record") /\ UNCHANGED faults
       \/ Fault /\ Respond(r) /\ UNCHANGED <<issued, live>>
    /\ UNCHANGED <<others, log, granted, status, calendar, cursor, channel, expiring, signVars>>

RecordWatch(r) ==
    /\ step[r] = "record"
    /\ Record(target[r])
    /\ Respond(r)
    /\ UNCHANGED <<others, granted, live, status, calendar, cursor, issued, signVars, faults>>

\* The user's connection, any of them; without one the request is refused.
PostDisconnect(r) ==
    /\ \E c \in Usable : Begin(r, "stop", c)
    /\ intact' = IF Quiet(r) THEN {r} ELSE {}
    /\ UNCHANGED <<others, granted, live, connVars, disturbed, severed, faults>>

\* A call or statement of a disconnect works, or its failure is passed over.
Attempt(r, Effect, Nothing) ==
    \/ Effect /\ UNCHANGED <<faults, intact>>
    \/ Fault /\ Nothing /\ intact' = intact \ {r}

\* get_calendar_watches and stop_channel
StopWatches(r) ==
    /\ step[r] = "stop"
    /\ LET c == target[r] IN Attempt(r, live' = live \ {<<c, channel[c]>>}, UNCHANGED live)
    /\ GoOn(r, "revoke")
    /\ UNCHANGED <<others, granted, connVars, disturbed, severed>>

\* revoke_token
RevokeToken(r) ==
    /\ step[r] = "revoke"
    /\ Attempt(r, granted' = granted \ {target[r]}, UNCHANGED granted)
    /\ GoOn(r, "events")
    /\ UNCHANGED <<others, live, connVars, disturbed, severed>>

\* delete_events_for_connection
DeleteEvents(r) ==
    /\ step[r] = "events"
    /\ Attempt(r, RemoveEvent(target[r]), UNCHANGED <<eventVars, holds>>)
    /\ Disturb(target[r], TRUE)
    /\ GoOn(r, "calendars")
    /\ UNCHANGED <<googleVars, connVars, meetingVars, user, since, seen, found, renewalVars, queueVars, loopVars,
                   severed>>

\* Seeded fault: the connection does not enforce foreign keys.
RemoveAnyCalendar(c) ==
    /\ calendar' = [calendar EXCEPT ![c] = FALSE]
    /\ cursor' = [cursor EXCEPT ![c] = -1]
    /\ channel' = [channel EXCEPT ![c] = 0]
    /\ expiring' = [expiring EXCEPT ![c] = FALSE]

\* delete_calendars_for_connection: refused while an event refers to the calendar.
RemoveCalendar(c) ==
    IF event[c] = None
    THEN /\ calendar' = [calendar EXCEPT ![c] = FALSE]
         /\ cursor' = [cursor EXCEPT ![c] = -1]
         /\ channel' = [channel EXCEPT ![c] = 0]
         /\ expiring' = [expiring EXCEPT ![c] = FALSE]
    ELSE UNCHANGED <<calendar, cursor, channel, expiring>>

DeleteCalendars(r) ==
    /\ step[r] = "calendars"
    /\ Attempt(r, RemoveCalendar(target[r]), UNCHANGED <<calendar, cursor, channel, expiring>>)
    /\ GoOn(r, "close")
    /\ UNCHANGED <<others, granted, live, status, issued, disturbed, severed>>

\* delete_oauth_connection, and the answer.
CloseConnection(r) ==
    /\ step[r] = "close"
    /\ status' = [status EXCEPT ![target[r]] = "disconnected"]
    /\ severed' = IF r \in intact THEN severed \cup {target[r]} ELSE severed
    /\ intact' = intact \ {r}
    /\ Respond(r)
    /\ UNCHANGED <<others, granted, live, calendar, cursor, channel, expiring, issued, disturbed, faults>>

PostResync(r) ==
    /\ \E c \in Usable : Begin(r, "check", c)
    /\ intact' = {}
    /\ UNCHANGED <<others, granted, live, connVars, disturbed, severed, faults>>

\* refresh_token; any error counts as a refusal.
CheckToken(r) ==
    /\ step[r] = "check"
    /\ \/ target[r] \in granted /\ GoOn(r, "reopen") /\ UNCHANGED faults
       \/ target[r] \notin granted /\ GoOn(r, "refuse") /\ UNCHANGED faults
       \/ Fault /\ GoOn(r, "refuse")
    /\ UNCHANGED <<others, granted, live, connVars, signVars>>

\* update_oauth_connection_status, whatever the status is by now.
Reopen(r) ==
    /\ step[r] = "reopen"
    /\ status' = [status EXCEPT ![target[r]] = "connected"]
    /\ GoOn(r, "queue")
    /\ UNCHANGED <<others, granted, live, calendar, cursor, channel, expiring, issued, signVars, faults>>

Refuse(r) ==
    /\ step[r] = "refuse"
    /\ status' = [status EXCEPT ![target[r]] = "auth_required"]
    /\ Respond(r)
    /\ UNCHANGED <<others, granted, live, calendar, cursor, channel, expiring, issued, signVars, faults>>

EnqueueResync(r) ==
    /\ step[r] = "queue"
    /\ Enqueue(<<"resync", target[r], 0>>)
    /\ Respond(r)
    /\ UNCHANGED <<googleVars, connVars, eventVars, meetingVars, jobVars, renewalVars, pc, job, signVars, faults>>

\* A call or statement fails whose error is not passed over, or the process dies.
RequestStops(r) ==
    /\ step[r] # "none" /\ Fault
    /\ Respond(r)
    /\ intact' = intact \ {r}
    /\ UNCHANGED <<others, granted, live, connVars, disturbed, severed>>

\* soft_delete_meeting_for_user
DeleteMeeting ==
    /\ requests < MaxRequests /\ requests' = requests + 1
    /\ \E t \in Times : meeting[t] # "absent" /\ t \notin deleted /\ deleted' = deleted \cup {t}
    /\ UNCHANGED <<googleVars, connVars, eventVars, meeting, start, jobVars, requestVars, renewalVars, queueVars, loopVars,
                   signVars, faults>>

-------------------------------------------------------------------------------
(* renew_expiring_watches, for one watch after the other *)

renewing == <<log, unsent, eventVars, meetingVars, jobVars, requestVars, queueVars, loopVars, disturbed, severed>>

Proceed(next) == renewal' = next /\ UNCHANGED renews
Rest == renewal' = "idle" /\ renews' = None

\* get_expiring_watches: of connections whose status is 'connected' (and that may have another channel).
FindExpiring ==
    /\ renewal = "idle" /\ requests < MaxRequests /\ requests' = requests + 1
    /\ \E c \in Conns :
        /\ status[c] = "connected" /\ calendar[c] /\ channel[c] > 0 /\ expiring[c] /\ issued[c] < MaxWatches
        /\ renews' = c
    /\ renewal' = "refresh"
    /\ intact' = {}
    /\ UNCHANGED <<renewing, granted, live, connVars, faults>>

RenewToken ==
    /\ renewal = "refresh"
    /\ \/ renews \in granted /\ Proceed("stop") /\ UNCHANGED faults
       \/ renews \notin granted /\ Proceed("reject") /\ UNCHANGED faults
       \/ Fault /\ Proceed("reject")
    /\ UNCHANGED <<renewing, requests, granted, live, connVars, intact>>

RejectRenewal ==
    /\ renewal = "reject"
    /\ status' = [status EXCEPT ![renews] = "auth_required"]
    /\ Rest
    /\ UNCHANGED <<renewing, requests, granted, live, calendar, cursor, channel, expiring, issued, intact, faults>>

\* stop_channel for the old channel, best effort.
StopOldWatch ==
    /\ renewal = "stop"
    /\ \/ /\ live' = IF renews \in granted THEN live \ {<<renews, channel[renews]>>} ELSE live
          /\ UNCHANGED faults
       \/ Fault /\ UNCHANGED live
    /\ Proceed("watch")
    /\ UNCHANGED <<renewing, requests, granted, connVars, intact>>

NewWatch ==
    /\ renewal = "watch"
    /\ \/ renews \in granted /\ Watch(renews) /\ Proceed("record") /\ UNCHANGED faults
       \/ renews \notin granted /\ Rest /\ UNCHANGED <<issued, live, faults>>
       \/ Fault /\ Rest /\ UNCHANGED <<issued, live>>
    /\ UNCHANGED <<renewing, requests, granted, status, calendar, cursor, channel, expiring, intact>>

RecordNewWatch ==
    /\ renewal = "record"
    /\ Record(renews)
    /\ Rest
    /\ UNCHANGED <<renewing, requests, granted, live, status, calendar, cursor, issued, intact, faults>>

\* A statement fails, or the process dies.
RenewalStops ==
    /\ renewal # "idle" /\ Fault
    /\ Rest
    /\ UNCHANGED <<renewing, requests, granted, live, connVars, intact>>

-------------------------------------------------------------------------------
(* Failures of jobs *)

HandlerFails(w) ==
    /\ pc[w] # "idle" /\ Fault
    /\ Fail(w)
    /\ UNCHANGED <<googleVars, connVars, eventVars, meetingVars, requestVars, renewalVars, signVars, requests>>

\* The process dies; start-up recovery frees the row.
Crash(w) ==
    /\ pc[w] # "idle" /\ Fault
    /\ lease' = [lease EXCEPT ![w] = "none"]
    /\ Idle(w)
    /\ UNCHANGED <<googleVars, connVars, eventVars, meetingVars, requestVars, renewalVars, queueVars, signVars, requests>>

LoseLease(w) ==
    /\ LoseRow(w) /\ Fault
    /\ UNCHANGED <<googleVars, connVars, eventVars, meetingVars, jobVars, requestVars, renewalVars, pc, job, signVars,
                   requests>>

-------------------------------------------------------------------------------

Step(w) ==
    \/ OpenConnection(w) \/ RefreshToken(w) \/ RejectToken(w) \/ ReadCalendar(w) \/ ListEvents(w)
    \/ FindEvent(w) \/ UpdateEvent(w) \/ InsertEvent(w) \/ FindMeeting(w) \/ ShiftMeeting(w)
    \/ GetMeeting(w) \/ LinkEvent(w)
    \/ LookEvent(w) \/ CancelMeeting(w) \/ DropEvent(w) \/ StoreCursor(w) \/ Complete(w)

Request(r) ==
    \/ StoreConnection(r) \/ StoreCalendar(r) \/ EnqueueInitial(r) \/ RegisterWatch(r) \/ RecordWatch(r)
    \/ PostDisconnect(r) \/ StopWatches(r) \/ RevokeToken(r) \/ DeleteEvents(r) \/ DeleteCalendars(r)
    \/ CloseConnection(r)
    \/ PostResync(r) \/ CheckToken(r) \/ Reopen(r) \/ Refuse(r) \/ EnqueueResync(r)
    \/ RequestStops(r)

Renew ==
    FindExpiring \/ RenewToken \/ RejectRenewal \/ StopOldWatch \/ NewWatch \/ RecordNewWatch

Next ==
    \/ EventChanges \/ WatchAges \/ Push \/ DeleteMeeting
    \/ \E w \in Workers : Take(w) \/ Step(w) \/ HandlerFails(w) \/ Crash(w) \/ LoseLease(w)
    \/ \E r \in Callers : Request(r)
    \/ Renew \/ RenewalStops

Spec == Init /\ [][Next]_vars

-------------------------------------------------------------------------------
(* Properties *)

GoogleTyped ==
    /\ log \in Seq(Values) /\ log # <<>>
    /\ granted \subseteq Conns
    /\ live \subseteq Conns \X (1..MaxWatches) /\ unsent \subseteq Conns \X (1..MaxWatches)

ConnectionsTyped ==
    /\ status \in [Conns -> {"none", "connected", "auth_required", "disconnected"}]
    /\ calendar \in [Conns -> BOOLEAN]
    /\ cursor \in [Conns -> Nat \cup {-1}]
    /\ issued \in [Conns -> 0..MaxWatches] /\ channel \in [Conns -> 0..MaxWatches]
    /\ expiring \in [Conns -> BOOLEAN]

EventsTyped ==
    /\ event \in [Conns -> Times \cup {None}] /\ link \in [Conns -> Times \cup {None}] /\ missed \subseteq Conns
    /\ meeting \in [Times -> {"absent", "open", "cancelled"}]
    /\ start \in [Times -> Times] /\ deleted \subseteq Times
    /\ \A c \in Conns : event[c] # None => calendar[c]

\* The values an item can have at a step.
ItemFits(w) ==
    /\ pc[w] \in {"find", "update", "insert", "meeting", "shift", "get", "link"} =>
        seen[w] \in 1..Len(log) /\ log[seen[w]] \in Times
    /\ pc[w] = "cancel" => found[w] \in Times

JobsTyped ==
    /\ row \in [Keys -> {"none", "active", "dead"}]
    /\ attempts \in [Keys -> Nat]
    /\ pc \in [Workers -> {"idle", "open", "refresh", "reject", "read", "done"} \cup Syncing]
    /\ job \in [Workers -> Keys \cup {NoJob}]
    /\ lease \in [Workers -> {"none", "held", "lost", "gone"}]
    /\ user \in [Workers -> Conns \cup {None}]
    /\ since \in [Workers -> Nat \cup {-1}] /\ seen \in [Workers -> Nat]
    /\ holds \in [Workers -> BOOLEAN] /\ found \in [Workers -> Times \cup {None}]
    /\ \A w \in Workers :
        /\ (pc[w] = "idle" <=> job[w] = NoJob) /\ (pc[w] = "idle" => lease[w] = "none")
        /\ pc[w] \in {"refresh", "reject", "read", "list"} => user[w] \in Conns
        /\ ItemFits(w)

RequestsTyped ==
    /\ step \in [Callers -> {"none", "list", "enqueue", "watch", "record", "stop", "revoke", "events", "calendars",
                             "close", "check", "reopen", "queue", "refuse"}]
    /\ target \in [Callers -> Conns \cup {None}]
    /\ \A r \in Callers : step[r] # "none" => target[r] \in Conns
    /\ renewal \in {"idle", "refresh", "reject", "stop", "watch", "record"}
    /\ renews \in Conns \cup {None} /\ (renewal # "idle" => renews \in Conns)
    /\ disturbed \subseteq Conns /\ severed \subseteq Conns /\ intact \subseteq Callers
    /\ requests \in 0..MaxRequests /\ faults \in 0..MaxFaults

\* Types, and the foreign key that keeps a calendar while it has events.
TypeOK == GoogleTyped /\ ConnectionsTyped /\ EventsTyped /\ JobsTyped /\ RequestsTyped

\* The values the event has had since the cursor of connection c was stored.
Since(c) == {log[i] : i \in {j \in 1..Len(log) : j >= cursor[c]}}

\* The cursor of a connection never claims more than was stored: the stored event is what Google had
\* then or later, and at the newest revision it is linked to a meeting.  Jobs may fail or die between
\* any two statements.  Excepted are the connections that are disturbed, and those whose row a listing
\* has missed, until a later one has handed the event out and all of it was applied.
CursorHonest ==
    \A c \in Conns \ (disturbed \cup missed) : calendar[c] /\ cursor[c] > 0 =>
        IF event[c] = None THEN Since(c) \cap Meetingless # {}
        ELSE event[c] \in Since(c) /\ (cursor[c] = Len(log) => link[c] # None)

\* A disconnect that meets nobody at work and no failure is complete, and final: whatever is queued
\* or comes later stores nothing under the connection and does not reopen it.
DisconnectIsFinal ==
    \A c \in severed : status[c] = "disconnected" /\ ~calendar[c] /\ event[c] = None

\* A sync forgets no event before the meeting it is linked to has been cancelled.
CancelBeforeDrop ==
    [][\A c \in Conns \ disturbed' : event[c] # None /\ event'[c] = None =>
          link[c] = None \/ meeting[link[c]] = "cancelled"]_vars

\* README, meeting discovery: "Changed and cancelled calendar events update the linked meeting record."
\* Here the changed ones, once an undisturbed sync has got to the newest revision.
ChangedEventMoves ==
    \A c \in Conns \ (disturbed \cup missed) :
        calendar[c] /\ cursor[c] = Len(log) /\ event[c] # None => start[link[c]] = event[c]

===============================================================================
