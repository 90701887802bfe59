# MeetingOS in TLA+

This directory holds TLA+ models of the MeetingOS backend (`src/`, Rust), the TLC
configurations that check them and TLAPS proofs about them. Every action is translated from the source; the
comment above it names the function. Paths below are relative to `src/src/` unless they start with `src/`.

Contents: [inventory](#inventory) · [modules](#modules) · [the job queue](#the-job-queue) ·
[the recording pipeline](#the-recording-pipeline) · [sharing](#sharing) ·
[meeting lifecycle](#meeting-lifecycle) · [calendar](#calendar) · [chat and its caches](#chat-and-its-caches) ·
[schema migration](#schema-migration) · [what is proved](#what-is-proved) ·
[what is only model-checked](#what-is-only-model-checked) · [not modelled](#not-modelled)

To check, `tlc -config X.cfg M`:

| Passes | Ends in the violation it is about |
|---|---|
| `JobQueue.cfg MCJobQueue` | `JobQueueOwnership.cfg MCJobQueue` |
| `MeetingPipeline.cfg MeetingPipeline` | `MeetingPipelineWebhook.cfg MeetingPipeline` |
| `ShareDelivery.cfg ShareDelivery` | `ShareDeliveryLost.cfg ShareDelivery` |
| `MeetingLifecycle.cfg MeetingLifecycle` | `MeetingLifecycleDouble.cfg MeetingLifecycle` |
| `CalendarSync.cfg MCCalendarSync` | `CalendarChanged.cfg CalendarSync` |
| `ChatStream.cfg ChatStream` | |
| `SchemaMigration.cfg MCSchemaMigration` | |

To prove, `tlapm M.tla` for each `*Proofs.tla`.

## Inventory

One process (or several, `main.rs`: roles `api`, `worker`, `all`) serves an HTTP API and runs
background jobs. All durable state is in Turso (SQLite over HTTP; no statement of the code runs
in an explicit transaction, so each SQL statement is atomic and nothing else is). Components
interact through rows of that database, above all the `jobs` table; Recall.ai and Google call in
through webhooks; a broadcast channel tells browsers to refetch.

| Component | State it keeps | Operations | Interacts through | Hard behaviour | What makes it correct |
|---|---|---|---|---|---|
| Durable job queue (`read_operations/events.rs`, `jobs/runner.rs`) | `jobs` rows: status, attempts, lease owner and expiry, run_after | enqueue, lease (SELECT then UPDATE), complete, fail, recover at start, reap, purge | every producer and handler | leases that expire under live handlers, two processes, crashes between statements, late reports of stale workers | attempts accounted for, dead is final, one pending job per dedupe key, every job settles |
| Supervisor and periodic tasks (`jobs/supervisor.rs`, `runner.rs`) | restart back-off, tickers | restart, enqueue scheduler job, reap, report stuck jobs, renew watches | the queue, main | restarts spawn the maintenance tasks again | back-off stays within its bounds, each task keeps running |
| Webhook receiver (`routes/webhooks.rs`) | `provider_events` | store event, enqueue its job | Recall redelivers until acknowledged | failure between the two statements, concurrent redelivery | an acknowledged event is processed |
| Recording pipeline (`jobs/handlers.rs`, `read_operations/processing.rs`) | `recordings`, `recording_assets`, `transcriptions`, `transcript_segments`, `notes`, `meetings.processing_status`, R2 objects, Qdrant points | the chain process event → fetch media → store audio → transcribe → note and index | the queue, Recall, R2, Groq, Qdrant | a handler repeated from any point, two copies of a handler at once, partial effects | the chain never breaks silently, notes come from complete transcripts, repetition does no harm |
| Meeting lifecycle and bots (`routes/meetings.rs`, `read_operations/meetings.rs`, `events.rs`) | `meetings.status`, `recall_bots` | create, update, cancel, delete, bot events, scheduled bot creation | Recall bots and events, calendar | concurrent creates, crash between `create_bot` and `store_recall_bot`, events out of order | one bot per meeting, cancelled and completed are final |
| Sharing (`routes/sharing.rs`, `read_operations/sharing.rs`, `send_share_emails`) | share tokens, recipients, deliveries | share, send, record | Resend, the queue | crash between send and record, two jobs for one meeting | a recipient gets the mail once per share, and does get it |
| Calendar sync (`google_calendar/sync.rs`, `read_operations/calendar.rs`, `routes/calendar.rs`) | OAuth connection, watches, cursors, events, links to meetings | connect, disconnect, sync, resync, renew | Google webhooks, the queue, meetings | replay after a failure, disconnect during a sync, changed events | linked meetings follow their events, a disconnected account stays so |
| Read cache (`redis/cache.rs`) | cached lists, details, notes, transcripts | get, set, invalidate | API routes and handlers | a reader that fills the cache after the invalidation | a read after a write is not stale beyond the TTL |
| Chat (`routes/chat.rs`) | threads, messages | ask, stream, save, title, enqueue indexing | Groq, Jina, Qdrant, the queue | client disconnect, concurrent title, save failure | what was streamed is stored once, done comes last, a prompt holds the conversation |
| Chunking and search (`service/vector/`) | Qdrant points | chunk, embed, search | pipeline, chat | chunk boundaries | no text lost, overlap bounded |
| Tenancy (`read_operations/tenancy.rs`) | users, workspaces, members | ensure_user_workspace | every route | two first requests | one workspace per user |
| Realtime events (`routes/events.rs`) | broadcast channel | publish, subscribe | handlers, browsers | slow clients miss events | a missed event is followed by a refresh |
| Schema migration (`schema/logic.rs`) | schema, version row | diff, alter, rebuild | start-up of every process | crash between statements, two processes | rows survive a rebuild, a recorded version is true, every process comes up |
| Provider clients, link detection, analytics, public views, authentication, frontend | none of their own | | | | |

`PROJECT.json` lists the hazards of this code, each at its line, with the property that covers
it or the reason why none does.

## Modules

In the order in which the product depends on them:

| Module | Models | Uses | Proofs |
|---|---|---|---|
| `DurableQueue` | what the README promises of a durable queue (abstract) | | |
| `JobQueue` | the `jobs` table and its workers | implements `DurableQueue` | `JobQueueProofs` |
| `HandlerQueue` | the queue as handlers and producers see it | | within the next four |
| `HandlerQueueSpec` | `HandlerQueue` with handlers that just end (abstract) | `HandlerQueue` | |
| `JobQueueView` | `JobQueue` with the history that maps it to one row per key | `JobQueue`, implements `HandlerQueueSpec` | `JobQueueViewProofs` |
| `RecordingChain` | what the README promises of a recorded meeting (abstract) | | |
| `MeetingPipeline` | webhook to note and index | `HandlerQueue`, implements `RecordingChain` | `MeetingPipelineProofs` |
| `ShareDelivery` | sharing by email | `HandlerQueue` | `ShareDeliveryProofs` |
| `MeetingLifecycle` | a meeting's bots | `HandlerQueue` | `MeetingLifecycleProofs` |
| `CalendarSync` | Google Calendar connections, pushes, syncs | `HandlerQueue` | `CalendarSyncProofs` |
| `ChatStream` | chat requests, answer and title tasks, the two chat caches | | `ChatStreamProofs` |
| `SchemaMigration` | the migration every process runs at start | | `SchemaMigrationProofs` |

`MCJobQueue`, `MCCalendarSync` and `MCSchemaMigration` add the symmetry or the concrete schema of their runs. The
other instances need no module of their own.

The bounds are two loops or processes and two rows, recipients or bots, the smallest instances with a
race; one more of either was tried where noted.

## The job queue

`JobQueue.tla` is the `jobs` table with any number of rows (`Jobs`, a row id is a fresh UUID and
never reused) and any number of processes that run `run_worker_loop` (`Workers`).

| Model | Code |
|---|---|
| `status`, `attempts`, `owner` | columns `status`, `attempt_count`, `lease_owner`; `absent`: not inserted yet, `gone`: deleted |
| `due`, `expired` | `run_after <= now`, `lease_expires_at < now`: the clock is abstracted to the moment a row passes them (`BecomesDue`, `LeaseExpires`) |
| `pc`, `cur`, `snap` | where the consumer loop is (down, poll, between SELECT and UPDATE, running a handler), the row it holds, the `attempt_count` its SELECT returned |
| `bg` | its reaper and scheduler tasks are alive |
| `KeyOf`, `UniqueConflict` | the partial unique index over (job_type, dedupe_key) of active rows |
| `Role` | `all`: the loop is supervised inside the API process and its tasks survive it; `worker`: its error ends the process |
| `Poison` | rows whose handler panics |

| Action | Code |
|---|---|
| `Enqueue` | `enqueue_job` (INSERT OR IGNORE) |
| `SelectDue`, `Lease` | the two statements of `lease_due_job`; the UPDATE looks at the status only |
| `CompleteJob` | `complete_job`, by id whoever leases the row |
| `FailJob` | `fail_job` with the `next_run_after` computed from the snapshot; includes the unique-index error that stops the loop |
| `LoopFails` | any statement of the loop fails, or the handler panics |
| `Crash`, `Start` | the process dies; `run_worker_loop` with `recover_stale_leases` |
| `ReapExpired` | both UPDATEs of `reap_expired_leases`, or only the first when the second fails |
| `PurgeDead` | `purge_dead_jobs` |

`DurableQueue.tla` is what the README promises of the queue: a job is submitted unless an equal one
is pending, stays pending, and ends finished or dead; dead rows can only be cleaned away.
`JobQueue` implements it with `row[j]` = pending for the three active statuses.

`HandlerQueueSpec.tla` is the queue that the next four modules run their handlers on (see
[the recording pipeline](#the-recording-pipeline)), with handlers that do nothing but end. `JobQueue` implements it too,
so those modules leave out nothing that leases, crashes, recovery, the reaper, purges and late reports can do to a handler.
`JobQueueView.tla` states the mapping. The rows of one dedupe key become the newest of them; which one that is, the
table forgets when the rows are dead or gone, so `newest` remembers it. A loop that died in a handler
(`ran` remembers in which) still counts as running it, with its lease, until it comes back: nobody can tell a dead loop from
a slow one before that, and the reaper may charge the row meanwhile. `newest` and `ran` only follow the steps of
`JobQueue` (`Remember`), which they never disable.
The four modules differ from `HandlerQueueSpec` in three ways, none of which takes behaviour from a handler: a sweep over
several rows is several `LoseRow` steps, a loop that dies lets go of its row at once (`Crash`, which in `HandlerQueueSpec` is
the `Restart` that follows), and both limits are one constant (both are 8 by default). Purges of dead rows they leave out.

Runs:

- **jobqueue** (`JobQueue.cfg`): two processes, two rows with one dedupe key, both limits with
  `WORKER_MAX_ATTEMPTS` = 2 < `jobs.max_attempts` = 3. That is enough for every
  race of the code: a row and its successor with the same key, a worker that lost its lease next to the
  one that has it, and a snapshot one and two attempts old. Checked: `TypeOK`;
  `ActiveHasBudget` (what can be leased has an attempt left);
  `DeadIsExhausted` (no late report revives a dead row); `LeaseIsHeld` (a live worker
  never strands a lease); `OverrunBounded` (stale workers overrun the counter by at most one each);
  `ImplementsDurableQueue`; `ImplementsHandlerQueue`; `EveryJobSettles` (liveness). 150 thousand states; rows with keys of
  their own, or equal limits, have been tried as well.
- **jobqueue_ownership** (violation): README.md:166 promises that only one worker owns a job at a
  time. A second process that starts takes the live lease of the first.

A handler that panics is outside these promises: in a worker-only process the recovery at the next start frees its row
without a charge (`runner.rs:40`, `events.rs:245`), so such a job is retried without end and keeps the others of the
process from running. `EveryJobSettles` is checked with `Poison` empty; the invariants are proved for any
`Poison`.

Fairness: a loop that can lease does, a handler returns or panics, a stopped loop is restarted
(supervisor or container restart policy), the reaper ticks, time passes. Nothing obliges anyone to
enqueue, purge or crash. `EveryJobSettles` assumes that failures from outside (database errors,
killed processes) eventually stop, because recovery charges no attempt.
That a handler returns is an assumption: the loop puts no timeout around it.

The limits: the default `WORKER_MAX_ATTEMPTS` and the 8 written by `enqueue_job` are independent settings.
The invariants need `ConfigMaxAttempts <= RowMaxAttempts` (`LimitsOrdered` in the proofs). With the
opposite order a worker that lost its lease can bring a dead row back to `retryable`.

## The recording pipeline

`MeetingPipeline.tla` follows one meeting with one bot from the `recording.done` webhook to the note and the
search index. A handler is a sequence of steps, one per SQL statement or provider call that matters, run by a
loop (`Workers`). Between any two steps the handler may return an error (`HandlerFails`), its process may die
(`Crash`, with the recovery that frees the row), or the lease may be taken from it while it goes on
(`LoseLease`, charging an attempt as the reaper does or not as recovery does).

The jobs come from `HandlerQueue`, which this module and the next three extend. It is `JobQueue` reduced to what
handlers see of it: per dedupe key the newest row (`row`, `attempts`), and per loop its job and its claim on that
row (`lease`): `held`, `lost` (somebody else may lease the row, but the loop still reports by id and its report
counts), `gone` (the row was deleted or replaced by a newer one, so its report reaches nothing). `Enqueue` is
`enqueue_job`, `LeaseRow` `lease_due_job`, `DeleteRow` `complete_job`, `FailRow` `fail_job`, `LoseRow` the reaper or
another process's recovery. Retry delays are left out: a retry may come at any time. That `JobQueue` comes to no more
than this is `ImplementsHandlerQueue`.

| Model | Code |
|---|---|
| `hook`, `event`, `receiving` | Recall's delivery, the `provider_events` row, a webhook handler between INSERT and `enqueue_job` |
| `media`, `tiny` | what Recall returns for the bot (nothing, an id, a download url) and whether the audio is under 10,000 bytes |
| `recording`, `asset`, `object` | `recordings` row; `recording_assets.status`; its storage key is set |
| `scripts`, `notes`, `indexed` | transcriptions in order of insertion (`part` until its segments are in), those with a note, those indexed |
| `processing` | `meetings.processing_status` |
| `ended` | history variable: a handler returned Ok without passing the work on (no url yet, audio too small) |

The steps are named after the statement: `ApplyRecordingEvent`, `EnqueueFetch`, `MarkProcessed` are
`process_recall_event`; `RetrieveBot`, `UpsertAsset`, `EnqueueStore` are `fetch_recording_media`; `ReadAsset`,
`BeginUpload`, `Upload`, `EnqueueTranscribe` are `store_recording_audio`; `ReadStored`, `InsertTranscription`,
`InsertSegments`, `EnqueueNote`, `EnqueueIndex` are `transcribe_recording`; `InsertNote`, `CompleteMeeting` are
`generate_note`; `VectorizeTranscript` is `vectorize_transcript`. Statements whose intermediate states no
property can tell apart are one step: all segments of a transcription and the meeting's status,
a note and its action items, the select and the update of `upsert_recording_for_bot`.

`RecordingChain.tla` is the chain of README.md:164 without the jobs: one stage of work at a time, its result, the next
stage. `MeetingPipeline` implements it with `Stage` (the last stage that some row, note or end shows to be reached) and
with the results `recording`, `object`, the whole transcriptions, `notes` and `indexed`. So a handler that runs a second
time, beside another or after its lease is gone makes results again, but takes no work back and undoes nothing. What may be
undone is left out of the mapping on purpose: `asset`, which a repeated fetch resets to `source_available`, and
`processing`. The purge of dead rows, which would end the work of a meeting for good, is not in this model.

Runs:

- **pipeline** (`MeetingPipeline.cfg`): two loops, two faults in a behaviour, two attempts per row, three
  transcriptions. Two loops and one lost lease give two copies of any handler at once;
  the second fault hits either copy anywhere. Checked: `TypeOK`; `DerivedFromWholeTranscript`: note and index jobs, notes and
  indexed transcripts belong to transcriptions whose segments are all stored, although the row is
  `ready` before; `ChainUnbroken`: while a recorded meeting has no note some job row stands for the remaining work
  or a handler found nothing to work on; `ImplementsChain`; `EventuallyNoted`: a recorded meeting gets its note, or a job is dead,
  or a handler found nothing to work on.
- **pipeline_webhook** (violation): README.md:97, see the finding. One fault.

README.md:164 calls the jobs idempotent. A repeated transcription is not one: `replace_transcription` inserts a fresh
row at each run (`processing.rs:301`). What the pipeline needs is weaker and is checked:
`DerivedFromWholeTranscript`.

`CHECK_DEADLOCK FALSE`: when the delivery is acknowledged and every job is done, the loops only poll.

Fairness: Recall redelivers (`StoreEvent`), a webhook handler that stored the event goes on, a loop takes a row that
is free and its handler goes on. Faults are bounded by `MaxFaults`, so they stop.

What the bounds hide: `MaxScripts` = 3 stops a fourth transcription (with two faults three are reached); dead rows
are never purged (seven days). The step that ends a chain for a recording without a download url is
modelled (`ended`), and nothing in the code restarts it when the url appears. TLC also reaches
states where a stale transcription run puts a completed meeting back to `transcribed`; the
detail query derives what it shows from the note, so this is listed as a hazard and no property.

## Sharing

`ShareDelivery.tla` is one meeting shared by email: requests (`Callers`) prepare the recipients and queue a job whose
dedupe key is the meeting; the handler mails everybody without a delivery recorded as sent. Requests, handlers and
faults interleave statement by statement.

| Model | Code |
|---|---|
| `recipients`, `records` | `share_recipients` of the meeting; the statuses in `email_deliveries` per address |
| `step`, `emails`, `todo` | a request of `share_meeting`: its loop over the addresses, first the resets, then the inserts, then `enqueue_job` |
| `left`, `mail` | a run of `send_share_emails`: the recipients it read and has not done, the attempt it has not recorded yet |
| `served`, `owed`, `alone` | history: who was attempted since a request began; who was promised a mail (answer `queued`) and not attempted since; whether a request or a run overlapped a run |

| Action | Code |
|---|---|
| `Share`, `ResetDelivery`, `AddRecipient`, `EnqueueSend`, `ShareStops` | `share_meeting`, one statement at a time, and its end by an error or a dropped connection |
| `ReadNote`, `SelectPending`, `Attempt`, `RecordDelivery`, `EndRun`, `Complete` | `send_share_emails`: fails without a ready note, reads the pending recipients once, mails and records one by one, returns Ok whatever Resend said |
| `HandlerFails`, `Crash`, `LoseLease` | an error, a death, a lease taken away, at any step |

Runs:

- **share** (`ShareDelivery.cfg`): two loops, two requests among two addresses, one fault. Two requests and two
  loops give every overlap of a share with a run and of two runs; one fault puts a retry behind any step. The
  invariants also hold with two faults (two million states, too slow with liveness). Checked: `TypeOK`;
  `RecordedNotRepeated`: a run that overlaps no other never mails who is recorded as sent (README.md:148);
  `SharesAreKept`: a share that overlapped no run stands in a job row until its recipients are attempted;
  `SharesSettle`: it is attempted, or its job is dead, in the end.
- **share_lost** (violation, no fault needed): without the condition on overlaps the second fails. A share
  answered `queued` while an earlier job is mailing is ignored by the queue and mailed by nobody.

Fairness: loops poll and handlers advance (`Take`, `Step`); the callers owe nothing. `CHECK_DEADLOCK FALSE`: when
everything is mailed the loops only poll. The overlap conditions are the real boundary of the code's promise, not a
convenience: share_lost shows the one about requests, and two runs of one job (see jobqueue_ownership) both read
the same pending recipients.

## Meeting lifecycle

`MeetingLifecycle.tla` is one meeting, that is one dedupe key of one workspace, and the Recall bots created for it.
Requests (`Callers`; for a calendar meeting the syncs that insert it), the scheduler's job on its loops, the users who
delete or move the meeting and the bots at Recall interleave statement by statement.

| Model | Code |
|---|---|
| `source`, `status`, `access`, `due`, `deleted` | the `meetings` row and `meeting_access`; of the status only absent, `draft` and anything later are told apart, since the scheduler reads nothing else; `due`: `scheduled_start_at` is within five minutes |
| `bots`, `requested` | `recall_bots` of the meeting, the latest last; those still `requested` or `scheduled` |
| `phase` | what has become of each bot at Recall, whether or not a row says so |
| `step`, `bot` | a request's place in its handler; the bot a creator or a cancel is about |
| `overlapped`, `unfinished`, `late`, `stopped` | history: two creators at once; bots whose creator was interrupted; who began after the deletion; a cancel succeeded |

| Action | Code |
|---|---|
| `PostMeeting`, `FindMeeting`, `InsertMeeting`, `AttachAccess` | `create_or_get_meeting`: the lookup skips deleted rows, the UNIQUE index does not, so creating a deleted meeting again fails |
| `CheckBot`, `CreateBot`, `CreateBotFails`, `StoreBot`, `MarkScheduled` | `create_meeting` and, from `CreateBot` on, the scheduler: the call to Recall, then the two statements of `store_recall_bot` |
| `Tick`, `Take`, `SelectDraft`, `Complete` | the scheduler's ticker and `schedule_meeting_bots`, which goes on after an error of `create_bot` and fails on one of `store_recall_bot` |
| `AskCancel`, `DropBot`, `LeaveCall`, `SetCancelled` | `cancel_meeting`: drop or remove the latest bot by its stored status, fail if Recall refuses, then set the status |
| `Delete`, `Reschedule`, `CalendarMoves` | `soft_delete_meeting_for_user`, `update_meeting_fields`, time, a cancelled calendar event |
| `BotMoves`, `ApplyBotEvent` | a bot joins and leaves; an event about it is applied at any later time, in any order |
| `RequestStops`, `HandlerFails`, `Crash`, `LoseLease` | an error, a dropped connection, a death, a lease taken away, at any step |

Manual and calendar meetings do not share a row, so a behaviour is about one kind: the key hashes the start time,
which `resolve_meeting_timing` formats in UTC and the calendar sync takes as Google wrote it. The scheduler finds
no manual meeting, so `Tick` is left to calendar meetings.

Runs:

- **lifecycle** (`MeetingLifecycle.cfg`): two requests, two loops, two bots, one fault, half a million states. Two
  creators of either kind are enough for every overlap, and two bots for a second one too many; one fault puts
  an interruption behind any step, and with `MaxAttempts = 1` it can already leave a dead row that the next tick must
  replace. The invariants also hold with three requests, and with two faults (three and four million
  states, too slow with liveness). Checked: `TypeOK`;
  `OneBotUndisturbed`: unless creators overlap, all bots but one were left behind by an interrupted creator;
  `DeletedStaysBotless`: nobody who starts after a meeting was deleted sends a bot to it;
  `CancelStopsBots`: after a successful cancel every bot has ended and none follows, under the same conditions;
  `DueGetsBot`: a calendar draft that is due does not stay one, whatever single fault happens.
- **lifecycle_double** (violation, no fault needed): README.md:81 promises one bot for repeated requests; two that
  overlap create two, and a cancel ends only the newer one.

Fairness: the ticker ticks, loops poll and handlers advance; requests, bots, users and time owe nothing.
`CHECK_DEADLOCK FALSE`: a manual meeting whose requests are over is at rest. The conditions of `OneBotUndisturbed` are the
boundary of what the code promises: lifecycle_double shows the first, and the second is the window between Recall's
answer and the rows that record it, in which no key of the request would let Recall recognise a repeat.

## Calendar

`CalendarSync.tla` is one user: the connections the user makes (`Conns`), for each one calendar with one event that
may carry a meeting link, and the meetings that event has been linked to. Syncs run as jobs of `HandlerQueue` on two
loops; requests, pushes and the renewal of watches interleave with them statement by statement.

| Model | Code |
|---|---|
| `log`, `granted`, `live`, `unsent` | Google: the values of the event (a start, `linkless` or `cancelled`), the refresh tokens that work, the channels, the pushes not yet sent |
| `status`; `calendar`, `cursor`, `channel`, `expiring` | `oauth_connections.status`; the `calendar_calendars` row with its sync cursor and watch |
| `event`, `link`, `meeting`, `start`, `deleted` | the `calendar_events` row and its `meeting_id`; the meetings by dedupe key |
| `user`, `since`, `seen`, `holds`, `found` | locals of a job: whose token, the cursor it read, the listing it got, whether the event row it knows is still there, the meeting it read |
| `step`, `target`, `renewal`, `renews` | where a request or the renewal is, and for which connection |
| `missed` | history: calendars whose row differs from the event because a listing left it out or had no link for it, until an item has been applied in full |
| `disturbed`, `intact`, `severed` | history: connections with overlapping syncs or a disconnect's deletion; disconnects nobody interferes with; the connections of those that were answered |

| Action | Code |
|---|---|
| `EventChanges`, `WatchAges` | Google and time |
| `Push` | `google_calendar_webhook` |
| `Take`, `OpenConnection`, `RefreshToken`, `RejectToken` | `sync_google_calendar_job`: a connection of the user, its token; a refusal ends the job with Ok |
| `ListChanges`, `ListAll` | a listing with a cursor: what changed since, a cancellation too; one without: the events of the next 30 days that are not cancelled, so the event may be in it or not |
| `Handle`, `PassOver` | where an item leads; one without a link is skipped |
| `ReadCalendar`, `ListEvents`, `FindEvent` .. `LinkEvent`, `LookEvent`, `CancelMeeting`, `DropEvent`, `StoreCursor`, `Complete` | `sync_user_calendar`, per item of the listing, then the cursor |
| `StoreConnection`, `StoreCalendar`, `EnqueueInitial`, `RegisterWatch`, `RecordWatch` | `google_callback` |
| `PostDisconnect`, `StopWatches`, `RevokeToken`, `DeleteEvents`, `DeleteCalendars`, `CloseConnection` | `google_disconnect`, which passes over the failure of every call but the last |
| `PostResync`, `CheckToken`, `Reopen`, `Refuse`, `EnqueueResync` | `google_resync` |
| `FindExpiring` .. `RecordNewWatch` | `renew_expiring_watches` |
| `HandlerFails`, `Crash`, `LoseLease`, `RequestStops`, `RenewalStops` | an error, a death, a lease taken away, at any step |

Runs:

- **calendar** (`CalendarSync.cfg`): one connection, two loops, two requests or renewals one after the other, one change
  of the event (so two revisions, each of two starts, `linkless` or `cancelled`), two watch channels, one fault, a reply
  without a token included; 1.7 million states. The event is there at first (`First`): the properties also hold when it may
  come later (2.2 million). A watch ages only while a renewal or a change is still to come, since nothing else reads it.
  Two loops give two syncs of one calendar at once, a fault puts a retry behind any statement, and connect and disconnect
  with a sync in between already show every way a late write can undo a disconnect. Checked: `TypeOK`, whose last conjunct
  is the foreign key; `CursorHonest`: what is stored is what Google had at the cursor or later, so that no retry hides a
  change, on the connections that no sync has overlapped on and whose row no listing has `missed`; `DisconnectIsFinal`: a
  disconnect that met nobody at work stays so, whatever is still queued; `CancelBeforeDrop`: no event row goes before its
  meeting has been cancelled.
- **calendar_changed** (violation, one loop and no fault): README.md:83 says that changed events update their
  meeting. The update addresses the meeting by the event row's id and changes nothing.

No fairness: none of the properties is about progress. `CHECK_DEADLOCK FALSE`: when the requests are used up and the
event has had its changes, nothing is left to do.

The conditions of these invariants are the boundary of what the code achieves. Outside them:

- A listing without a cursor (first sync, or the cursor has expired, `sync.rs:58`) asks for the next 30 days only (`sync.rs:41`,
  `client.rs:204`): an event 40 days out is not stored, yet the cursor moves past it, and no later listing hands it out
  unless it changes. The same listing leaves out events that were cancelled meanwhile: the stored event and the meeting
  stay. In the model `ListAll` may pass over the event either way, and `missed` records it.
- An item without a meeting link is skipped (`sync.rs:112`): a stored event that loses its link keeps its row and its
  meeting while the cursor moves on. This too is `missed`.
- Nothing in the code repairs a missed row: it takes another change of the event, handed out by a listing and applied.
  `src/README.md:83` speaks of a "safe full refresh" when a cursor has expired.
- A reply without `nextSyncToken` leaves the cursor as it is and the job ends well (`sync.rs:207`): the next sync repeats the
  listing. The model lets one of its faults be such a reply.
- That a listing with a cursor returns whatever changed since is Google's promise; the module takes it as given
  (`client.rs:201` sends no time range then).
- Two syncs of one calendar at once apply their listings in any order: the older one may win.
- `update_oauth_connection_status` (`calendar.rs:277`) writes over `disconnected`, when a refresh ends late.
- A sync that inserts an event between the two deletions of a disconnect keeps the calendar row: the foreign key refuses
  its deletion and the error is swallowed (`routes/calendar.rs:266`).
- A meeting the user deleted keeps its dedupe key but is not found: a sync whose event row is new fails on the INSERT at every
  attempt, and the job dies (`meetings.rs:26`, `sync.rs:174`).
- A push whose job is ignored as a duplicate of one that has already listed waits for the next push; the periodic poll
  that `sync.rs:14` mentions does not exist.
- Any error of a token refresh counts as a refusal (`handlers.rs:696`); more than 250 changed events lose the rest and the new
  cursor (`client.rs:197`); a failed registration of a watch is not repeated; each connect makes another connection and a
  disconnect closes one of them.

## Chat and its caches

`ChatStream.tla` is the chat of one user: the requests `POST /chat` (`Streams`) with the task that streams the answer and
the task that names a new thread, the requests that list, read, rename and delete threads, the chat tables, and the
Redis keys in front of them. Every await is a point where others run. A message is its role, the request that wrote it
and its length in chunks.

| Model | Code |
|---|---|
| `thread`, `title`, `messages` | `chat_threads`, `chat_messages` |
| `page`, `list` | the cached messages of a thread (the key is the thread, whatever the limit), the cached lists per limit |
| `vectors` | exchanges handed to `vectorize_chat_qa` |
| `step`, `target`, `fresh`, `bare`, `prompt`, `answer`, `sent`, `naming` | a chat request: its place, its thread, whether it made it, whether the search found nothing, the history given to the model, the chunks read, the events sent, its title task |
| `reading`, `calling` | a GET between miss, query and fill; a PATCH or DELETE between its statement and the cache deletes |
| `doubtful` | history: keys that may stay stale with no delete to come |

| Action | Code |
|---|---|
| `OpenThread`, `CreateThread`, `SaveQuestion`, `ClearAfterQuestion`, `RecallAndSearch`, `FailRequest` | `chat_stream` until it returns the stream |
| `CallModel`, `Chunk`, `ReadDone`, `StreamBreaks`, `ClearAfterAnswer`, `Close`, `SaveNothingFound` | its answer task |
| `NameThread`, `ClearAfterTitle` | `generate_title` |
| `MissPage`, `QueryPage`, `FillPage`, `MissList`, `QueryList`, `FillList` | `get_thread_messages`, `list_threads` |
| `RenameThread`, `ClearAfterRename`, `DeleteThread`, `ClearAfterDelete` | `update_thread`, `delete_thread` |
| `Expire`, `ExpireList`, `Restart` | the five minutes of a key, the end of the process |

Run:

- **chat** (`ChatStream.cfg`): two chat requests, a reader and a caller on one thread, of which three may happen, each
  replaceable by a failed statement, a lost cache delete or a restart; answers of one chunk; half a million states.
  Two requests give every overlap on a thread; a reader is overtaken by one writer as by many;
  `HistoryLimit = 2` cuts the history of the second request. Checked: `TypeOK`; `PagesHonest`,
  `ListsHonest`: a cached value is what the tables hold, or its delete is on its way, or it is `doubtful`;
  `StoredIsStreamed`: at most one answer is stored per question, below it, of the chunks the client was sent, and without a
  fault it is there; `TitleThenDone`: `done` comes last and once, a title right before it;
  `PromptIsTheConversation`: the model gets the rows before the question and not the question itself, unless another
  request wrote in between; `StreamEnds`: an accepted request ends.

Fairness: the handler and the answer task run while their process does (`HandlerStep`, `TaskStep`), and a stream that stalls
is cut by its timeout (`StreamBreaks`). Nothing is assumed of the model's chunks or the title task, and
`StreamEnds` holds because the wait for the title has a timeout. `CHECK_DEADLOCK FALSE`: every request is made
once.

Outside the conditions: a reader overtaken between query and fill leaves a stale value for five minutes; list keys of other
limits than 3 and 50 are never deleted (`cache.rs:155`) and one page key serves all limits (`chat.rs:93`); a request
that fails after its question was saved leaves an unanswered question; two requests on a thread may drop each other's
question from the prompt; the title task may name a thread over the user's own title, and, when it outlasts the wait
(its own timeout is 30 s, the wait 10 s), its title comes after `done` although `chat.rs:321` calls it guaranteed; an
answer for a thread deleted meanwhile is still saved, and an exchange is handed to the index although its answer could
not be saved.

## Schema migration

`SchemaMigration.tla` is the declarative migration of `schema/logic.rs`, one step per statement, by any number of
processes (`Procs`) at once; processes that serve insert rows, and any of them may be stopped. The tables before and after are
constants (`Before`, `Wanted`), so that a run chooses the difference to be migrated.

| Model | Code |
|---|---|
| `table`, `copy` | a table and its `_rebuild_` copy: columns, rows, and whether it has its keys |
| `version` | `_schema_version` |
| `pc`, `plan` | a process: its next step, and what it goes by: the columns and copies it found, the tables left, the columns to add and drop |
| `written`, `disturbed` | history: rows each table was given; tables whose rebuild was not left alone |

| Action | Code |
|---|---|
| `Start`, `CreateTables`, `Look` | `get_applied_version`, the CREATEs, `get_live_tables` |
| `TakeTable`, `AddColumn`, `DropColumn` | the column difference of a table; a DROP COLUMN that fails, for whatever reason (`logic.rs:176`), leads to a rebuild |
| `CreateCopy`, `CopyRows`, `DropOld`, `RenameCopy` | `rebuild_table_without_columns` |
| `BeginDrops`, `DropTable`, `DropCopy`, `Finish` | what is not wanted goes; the closing batch and the version |
| `Exit`, `Stop`, `Insert` | a refused statement ends the process; it is stopped; a serving process writes |

Run:

- **schema** (`SchemaMigration.cfg`): two processes that start together or serve, four tables (one altered, one
  rebuilt, one new, one dropped; one column is protected, one table referenced), one stop or failed DROP COLUMN; 740 thousand states. Two
  processes are enough for every statement that fails because another did it first. Checked: `TypeOK`; `RowsKept`: no row
  of a table whose rebuild is left alone is lost; `VersionHonest`: a recorded version means that the schema is there;
  `EachComesUp` (liveness): processes that make each other fail still come up.

Fairness: processes run, and the container manager starts one that exited (`restart: unless-stopped` in
`src/docker-compose.yml`). `CHECK_DEADLOCK FALSE`: when all serve, the migration is over.

`disturbed` is the boundary of what the code achieves. A rebuild is four statements in no transaction, although the comment
at `logic.rs:678` speaks of SQLite's 12-step procedure. A crash between DROP and RENAME loses all rows: the next start
creates the missing table empty and then drops the copy as an unwanted table (`logic.rs:195`). A crash after the
copy was created makes the next rebuild fail at its CREATE (`logic.rs:715`). Columns are compared before tables are dropped
(`logic.rs:107-213`), so for a column ALTER TABLE cannot drop no later start gets as far as dropping the copy: the process
exits at every start until somebody removes the copy by hand. `EachComesUp` excepts this (`disturbed`). A second process drops
the first one's copy. Besides, a rebuilt table has lost its primary key, uniqueness and foreign keys (`keyed`), a
DROP COLUMN refused because another process already did it leads to a needless rebuild, a referenced table with rows
cannot be rebuilt under `foreign_keys = ON`, and a rebuild leaves out protected columns.

## What is proved

`JobQueueProofs.tla`, for any number of rows, keys and processes, any limits and any set of panicking handlers:

- `TypeCorrect`: `TypeOK` is an invariant. No assumption besides those of the module.
- `LeasesAreHeld`: `LeaseIsHeld` is an invariant. The same.
- `InvariantHolds`, under `LimitsOrdered == ConfigMaxAttempts <= RowMaxAttempts`: the inductive invariant
  `QueueInvariant`. From it `BudgetHolds` (`ActiveHasBudget`) and `DeadExhausted` (`DeadIsExhausted`).
- `OverrunIsBounded`: `OverrunBounded`, by counting the workers on a row.
- `Refinement`: `ImplementsDurableQueue`.

Why the strengthening is needed: `ActiveHasBudget` is not inductive by itself. A stale worker's `fail_job` decides between
retry and dead from its snapshot *and* the current counter. That it leaves no active row without budget needs that
the counter never passes the limit while active, and that a dead row stays dead needs `DeadIsExhausted`, which in
turn needs that a snapshot is never ahead of the row (`SnapshotNotAhead`): a worker that decides "no next run" has
seen at most what the row has. `OneActivePerKey` (the index) and `AbsentUntouched` are what the refinement needs for
`Submit`.

`JobQueueViewProofs.tla`, for the same and under `LimitsOrdered`:

- `HandlerQueueRefined`: `ImplementsHandlerQueue`. Each action of `JobQueue` maps to one of `HandlerQueueSpec` or to a
  stutter (`EnqueueMaps`, `LeaseMaps`, ..., one lemma each); the reaper and recovery map to one sweep over several keys.
- `HistoryHolds`: the invariant the mapping needs. An active row is the newest of its key: without it a late report could
  reach a row that the view does not show. A leased row belongs to the loop that ran it last and has not reported: without it
  a sweep would free a row whose holder the view does not know. That `fail_job` refuses no retry (`RetryIsActive`) is where
  `LimitsOrdered` comes in.

`MeetingPipelineProofs.tla`, for any finite set of loops, any number of attempts, transcriptions and faults,
assuming only `PipelineAssumption` (finitely many loops, positive limits, `NoJob` is no key):

- `HandlersTyped`: types, and that every loop is at a step of the handler of its job (`StepOfJob`).
- `PipelineTyped`: `TypeOK`. Its bound on the attempts of a row is not inductive: a loop that lost its lease charges
  the row once more when it fails, so the sum of the attempts and the claims still out on the row has to be
  bounded (`Overrun`), which in turn needs that a row is leased to one loop at most (`ClaimedRows`) and that an active
  row has an attempt left (`BudgetLeft`).
- `NotesFromWholeTranscripts`: `DerivedFromWholeTranscript`, together with `WorksOnWhole`, which follows a transcription
  from the INSERT of its segments through the queue into the handlers that use it.
- `ChainNeverBreaks`: `ChainUnbroken`. The strengthening `HandsOver` says for every step of every loop which stage the
  work has reached. The heart of the proof is `CompleteKeeps`: when `complete_job` deletes a row, and it may be the row
  another loop is running by now, the next stage already has the work. The lemmas on `Enqueue`, `Fail` and
  `LoseLease` say that nothing else removes a row.
- `ChainRefined`: `ImplementsChain`, from all of these and `ResultsKept`, which adds that a job of a stage is only run once the
  work is there (`InStage`), that a handler about to hand on has its result, and that media are fetched for known recordings
  only. That the stage never falls is `Kept` again; that it rises by one, although an old job may be enqueued
  anew, is `StageMoves`; and each step is one of the chain or a stutter (`StepChain`).

`ShareDeliveryProofs.tla`, for any set of requests and addresses, finitely many loops, any number of attempts, shares
and faults, assuming only `ShareAssumption`:

- `ShareTyped`: `TypeOK`.
- `NoShareLost`: `SharesAreKept`. That a job row is there says nothing about what the job will do, so the invariant
  is `OwedIsPending`: the recipient is still pending and every run that is going on has it among those it read. That
  holds when the request ends because of `RequestsPrepare`: as long as no run overlaps, what the request has reset
  and added stays so.
- `NoRecordedRepeat`: `RecordedNotRepeated`, from `RunsAlone`: a run that overlapped no other is the only one, so nobody
  else records what it has still to do.

`MeetingLifecycleProofs.tla`, for any requests and loops, any finite set of bots, any number of attempts, requests and
faults, assuming only `LifecycleAssumption`:

- `LifecycleTyped`: `TypeOK`, together with `BotKnown` (a creator past Recall's answer knows its bot).
- `OneBotPerMeeting`: `OneBotUndisturbed`. The number of bots says nothing about who may create the next, so the
  invariant is `Accounted` (every bot not left behind is in a creator's hands, has a row, or its calendar meeting
  is no draft any more) and `OneCreator` (a creator that has decided and overlaps nobody sees only bots that were
  left behind). They need each other: that a decision is taken without a bot follows from `Accounted`, because the
  manual creator has just read no row and the scheduler a draft.
- `DeletedGetsNoBot`: `DeletedStaysBotless`, from `NoLateDeciders`: nobody is late before the deletion, and after it the
  lookup and the scheduler's query refuse. The case of the INSERT rests on the index: without the row nobody has
  access, and without access nobody deletes.
- `CancelEndsBots`: `CancelStopsBots`, from `CancelEnds` (a cancel that goes on has ended a recorded bot, and ended
  bots stay so) and `OneCreator`.

`CalendarSyncProofs.tla`, for any finite sets of connections, loops and channels and any number of events, assuming only
`CalendarAssumption`:

- `CalendarTyped`: `TypeOK`. Its last conjunct is the foreign key of an event row and needs `HoldsRow`: a job that knows
  an event row is syncing, and the row is there, since whoever deletes event rows knows none any more.
- `DisconnectStays`: `DisconnectIsFinal`, from `FinalInv`: of a severed connection nothing is left and no job, request or
  renewal is at work on it (`Gone`); a disconnect that nobody interferes with is alone, and what it has deleted stays so
  until it closes the connection (`Alone`); and whoever rests is at no connection (`Rested`).
- `CursorStaysHonest` and `CancelComesFirst`: `CursorHonest` and `CancelBeforeDrop`, from `CursorInv`, which speaks of the
  connections that are not `disturbed`: their cursor is honest, one sync at most is at work on them, and what that sync has
  seen, holds and stored agrees with where it is (`Progress`). Two syncs at once would break exactly this, and such
  connections are `disturbed` from then on. That the row agrees with the cursor (`Good`) is claimed while the connection is not
  `missed`: a listing that passes over the event either finds the row in agreement (`Agrees`) or puts it there, and
  whoever takes it out has just stored the item.

`ChatStreamProofs.tla`, for any finite sets of requests, any threads, limits and chunks and any number of events,
assuming only `ChatAssumption`:

- `ChatTyped`: `TypeOK`.
- `StreamsEndRight`: `TitleThenDone`, from `ShapeInv`, which says of each step what the events sent so far look like.
- `PagesAreHonest`: `PagesHonest`. It needs `Placed`: a thread that is not there has no rows, and a request past its first
  statement is at work in a thread that is there; otherwise creating a thread could make a cached page wrong.
- `ListsAreHonest`: `ListsHonest`, with `NamedLate`: a title task runs only once its request has cleared the lists after the
  question, so the delete the task owes is never taken for the one the request owes.
- `AnswersAreStored` and `PromptsAreTheConversation`: `StoredIsStreamed` and `PromptIsTheConversation`, from `StoryInv`, which
  tells for each request and thread where its rows are (`WroteWhere`), that it asked and answered once and in that order
  (`WroteOnce`), that nothing it should have stored is missing unless something failed (`WroteAll`), and that its prompt
  is what stood before its question (`GotBefore`). Rows are only ever appended, so a story holds on while others write (`RowsKept`).

`SchemaMigrationProofs.tla`, for any tables, columns, schemas, processes and stops, assuming only `SchemaAssumption`:

- `MigrationTyped`: `TypeOK`.
- `RowsAreKept`: `RowsKept`, from `RowsInv`: a process in a rebuild that is not disturbed is the only one that is not down
  (`AloneThen`), the copy it made is its own (`CopyOwned`), and once it has copied, the copy holds every row written
  (`CopiedThen`). Without the first, another process could add a row or drop the copy after that.
- `RecordedVersionIsHonest`: `VersionHonest`, from `HonestInv`: what each process found, together with what it has
  done since, covers the wanted columns (`LeftAsFound`, `DoneButPlan`, `AsWanted`), and each step leaves a table excused,
  makes it as wanted or changes it for the better (`Improves`), so that at `Finish` the plan of the finishing process
  speaks for the whole schema although others changed it.

In each module the lemmas before the theorems reduce the steps to a few shapes (a move within a handler, an enqueue, a
failure, the end of a job; for the chat a cache delete, an insert; for the migration a step that improves a table), so
that an action with a new statement has one case to prove.

## What is only model-checked

- Liveness (`EveryJobSettles`, `EventuallyNoted`, `SharesSettle`, `DueGetsBot`, `StreamEnds`, `EachComesUp`): TLAPS proves
  nothing about fairness or ENABLED here. TLC checks them on the instances above.
- The disagreements with the repository's documentation: `OneWorkerPerJob`, `AckedIsQueued`, `SharesActuallySend`,
  `OneBot`, `ChangedEventMoves`. A counterexample needs no proof.

## Not modelled

- The supervisor's back-off (`supervisor.rs:116`): doubling up to a cap, with a reset; restarts themselves are `Start` of `JobQueue`.
  Each restart of the worker loop also spawns its three maintenance tasks again (`runner.rs:64`). `JobQueue` has the
  reaper of each process once, since a second one does nothing a first could not do.
- Tenancy: `ensure_user_workspace` selects and inserts (`tenancy.rs:75`), so two first requests make two workspaces; one
  race of two statements, listed as a hazard.
- Participants: upserts by key from the payload of one event, without a decision that depends on other state.
- Realtime events: a lossy broadcast whose receivers refetch; it has no state to get wrong.
- The other caches (meeting lists and details, notes, transcripts, analytics, audio urls): the pattern of `ChatStream` with
  other keys.
- The chunker (`service/vector/chunker.rs`): a pure function on text; the pipeline has its result as indexed or not.
- The run of a `vectorize_chat_qa` job: embeds and upserts under a fresh id (`search.rs:109`), so a repeat stores the exchange
  again; the queue in front of it is `JobQueue`.
- Provider clients, link detection, analytics, public views, authentication, frontend: no state of their own, or pure
  I/O and presentation.
- Of sharing: the token row (created once, read by the public page) and the auto-share after a note, which nothing can
  turn on (`set_auto_share_enabled` has no caller).
- Of the meeting lifecycle: the statuses that bot events write over one another (`events.rs:529` compares no order, so a late
  event moves a finished meeting back; what is shown derives from the note), the titles and attendees, and several
  meetings in one run of the scheduler.
- Of the pipeline: two handlers that insert two recordings of one bot (`processing.rs:31`), and a stale transcription that
  puts a completed meeting back to `transcribed` (`processing.rs:345`; the state is reached in the run, no property forbids it).
- Of the calendar: several calendars and events of one connection, listings of more than one page, access tokens.
- Of the chat: what is asked, found and ranked, pages before a cursor, the capacity of the stream's channel.
- Of the migration: renames (SCHEMA_SQL has none), types and defaults of columns, indexes and triggers beyond the tables the
  closing batch needs.
- In the modelled parts: retry delays and their arithmetic (a retry may come at any time after it is due), payloads,
  participants and the speaker timeline, a recording replaced by a second one of the same bot, a handler that
  never returns, the R2 object and the Groq and Qdrant calls beyond success or failure.
