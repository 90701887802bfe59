--------------------------- MODULE MeetingPipeline ---------------------------
(***************************************************************************)
(* From Recall's recording.done webhook to the meeting note: the webhook   *)
(* handler and the handlers of the jobs process_recall_event,              *)
(* fetch_recording_media, store_recording_audio, transcribe_recording,     *)
(* generate_note and vectorize_transcript, for one meeting with one bot.   *)
(*                                                                         *)
(* Each SQL statement (or call of a provider) is one step; between two     *)
(* steps a handler may fail, its process may die, or its lease may be lost *)
(* while it goes on (HandlerQueue).                                        *)
(*                                                                         *)
(* Abstracted: payloads, participants and the speaker timeline, and the    *)
(* auto-share that follows the note (nothing in the code turns it on).     *)
(***************************************************************************)
EXTENDS HandlerQueue, FiniteSets, Sequences

CONSTANTS
    MaxScripts,   \* bound: transcriptions ever inserted
    MaxFaults     \* bound: failures, crashes and lost leases in a behaviour

Scripts == 1..MaxScripts
Process == <<"process", 0>>
Fetch == <<"fetch", 0>>
Store == <<"store", 0>>
Transcribe == <<"transcribe", 0>>
Note(t) == <<"note", t>>
Index(t) == <<"index", t>>

\* The dedupe keys.
Keys == {Process, Fetch, Store, Transcribe} \cup {Note(t) : t \in Scripts} \cup {Index(t) : t \in Scripts}

ASSUME PipelineAssumption ==
    /\ IsFiniteSet(Workers)
    /\ NoJob \notin Keys
    /\ MaxAttempts \in Nat \ {0} /\ MaxScripts \in Nat \ {0} /\ MaxFaults \in Nat

VARIABLES
    hook,        \* the webhook delivery: sent (Recall keeps redelivering) or acked
    event,       \* its provider_events row: absent, stored, processed
    receiving,   \* a webhook handler is between INSERT and enqueue_job
    media,       \* what Recall answers: no recording yet, its id only, or a download url
    tiny,        \* the audio is under MIN_AUDIO_BYTES
    recording,   \* the recordings row exists
    asset,       \* recording_assets.status
    object,      \* recording_assets.storage_key is set
    scripts,     \* the transcriptions: part (segments missing) or whole
    notes,       \* transcriptions with a notes row
    indexed,     \* transcriptions in Qdrant
    processing,  \* meetings.processing_status
    ended,       \* history: a handler returned Ok without passing the work on
    at,          \* a loop: the transcription it inserted, or the one of its job
    faults

hookVars == <<hook, event, receiving>>
providerVars == <<media, tiny>>
dataVars == <<recording, asset, object, scripts, notes, indexed, processing, ended>>
loopVars == <<pc, job, lease, at>>
vars == <<hookVars, providerVars, queueVars, dataVars, loopVars, faults>>

Init ==
    /\ hook = "sent" /\ event = "absent" /\ receiving = FALSE
    /\ media = "none" /\ tiny \in BOOLEAN
    /\ row = [k \in Keys |-> "none"]
    /\ attempts = [k \in Keys |-> 0]
    /\ recording = FALSE /\ asset = "none" /\ object = FALSE
    /\ scripts = <<>> /\ notes = {} /\ indexed = {}
    /\ processing = "pending_media"
    /\ ended = {}
    /\ pc = [w \in Workers |-> "idle"]
    /\ job = [w \in Workers |-> NoJob]
    /\ lease = [w \in Workers |-> "none"]
    /\ at = [w \in Workers |-> 0]
    /\ faults = 0

-------------------------------------------------------------------------------
(* The loops. *)

Idle(w) == Leave(w) /\ at' = [at EXCEPT ![w] = 0]

Take(w, k) ==
    /\ LeaseRow(w, k, k[1])
    /\ at' = [at EXCEPT ![w] = k[2]]
    /\ UNCHANGED <<hookVars, providerVars, dataVars, faults>>

\* The handler returned Ok.
Complete(w) ==
    /\ pc[w] = "done"
    /\ DeleteRow(w) /\ Idle(w)
    /\ UNCHANGED <<hookVars, providerVars, dataVars, faults>>

\* The handler returned Err.
Fail(w) ==
    /\ FailRow(w) /\ Idle(w)
    /\ UNCHANGED <<hookVars, providerVars>>

Fault == faults < MaxFaults /\ faults' = faults + 1

\* Statements of the upload block: their error also records upload_failed.
Uploading == {"upload", "store_enqueue"}

\* Any statement or provider call of a handler may fail.
HandlerFails(w) ==
    /\ pc[w] \notin {"idle", "done"}
    /\ asset' = IF pc[w] \in Uploading THEN "upload_failed" ELSE asset
    /\ Fail(w) /\ Fault
    /\ UNCHANGED <<recording, object, scripts, notes, indexed, processing, ended>>

\* Seeded fault: nothing ever frees the row of a process that died.
CrashWithoutRecovery(w) ==
    /\ pc[w] # "idle"
    /\ pc' = [pc EXCEPT ![w] = "idle"]
    /\ Fault
    /\ UNCHANGED <<hookVars, providerVars, queueVars, dataVars, job, lease, at>>

\* The process dies; start-up recovery frees the row.
Crash(w) ==
    /\ pc[w] # "idle"
    /\ lease' = [lease EXCEPT ![w] = "none"]
    /\ Idle(w) /\ Fault
    /\ UNCHANGED <<hookVars, providerVars, queueVars, dataVars>>

\* The handler of a loop that lost its lease goes on.
LoseLease(w) ==
    /\ LoseRow(w) /\ Fault
    /\ UNCHANGED <<hookVars, providerVars, dataVars, pc, job, at>>

-------------------------------------------------------------------------------
(* recall_webhook. *)

\* store_provider_event: a repeated delivery finds the row and is acknowledged.
StoreEvent ==
    /\ hook = "sent"
    /\ IF event = "absent"
       THEN event' = "stored" /\ receiving' = TRUE /\ UNCHANGED hook
       ELSE hook' = "acked" /\ UNCHANGED <<event, receiving>>
    /\ UNCHANGED <<providerVars, queueVars, dataVars, loopVars, faults>>

\* Only the delivery that inserted the event enqueues its job.
EnqueueEvent ==
    /\ receiving
    /\ Enqueue(Process)
    /\ receiving' = FALSE /\ hook' = "acked"
    /\ UNCHANGED <<event, providerVars, dataVars, pc, job, at, faults>>

\* enqueue_job fails, or the process dies before it.
ReceiverFails ==
    /\ receiving
    /\ receiving' = FALSE
    /\ Fault
    /\ UNCHANGED <<hook, event, providerVars, queueVars, dataVars, loopVars>>

\* Recall finishes the recording: its id appears, then the download url.
MediaAppears(m) ==
    /\ <<media, m>> \in {<<"none", "id">>, <<"none", "url">>, <<"id", "url">>}
    /\ media' = m
    /\ UNCHANGED <<hookVars, tiny, queueVars, dataVars, loopVars, faults>>

-------------------------------------------------------------------------------
(* process_recall_event, fetch_recording_media *)

\* apply_recall_recording_event
ApplyRecordingEvent(w) ==
    /\ pc[w] = "process"
    /\ recording' = TRUE
    /\ GoTo(w, "process_enqueue")
    /\ UNCHANGED <<hookVars, providerVars, queueVars, asset, object, scripts, notes, indexed,
                   processing, ended, job, lease, at, faults>>

EnqueueFetch(w) ==
    /\ pc[w] = "process_enqueue"
    /\ Enqueue(Fetch)
    /\ GoTo(w, "process_mark")
    /\ UNCHANGED <<hookVars, providerVars, dataVars, job, at, faults>>

MarkProcessed(w) ==
    /\ pc[w] = "process_mark"
    /\ event' = "processed"
    /\ GoTo(w, "done")
    /\ UNCHANGED <<hook, receiving, providerVars, queueVars, dataVars, job, lease, at, faults>>

\* retrieve_bot: without a recording id the handler fails; without a url it is done.
RetrieveBot(w) ==
    /\ pc[w] = "fetch"
    /\ \/ media = "none" /\ Fail(w) /\ UNCHANGED <<dataVars, faults>>
       \/ /\ media = "id"
          /\ ended' = ended \cup {"no_url"}
          /\ GoTo(w, "done")
          /\ UNCHANGED <<hookVars, providerVars, queueVars, recording, asset, object, scripts,
                         notes, indexed, processing, job, lease, at, faults>>
       \/ /\ media = "url"
          /\ GoTo(w, "fetch_asset")
          /\ UNCHANGED <<hookVars, providerVars, queueVars, dataVars, job, lease, at, faults>>

\* Seeded fault: the upsert resets the storage key too.
UpsertAssetAnew(w) ==
    /\ pc[w] = "fetch_asset"
    /\ asset' = "source_available" /\ object' = FALSE
    /\ GoTo(w, "fetch_enqueue")
    /\ UNCHANGED <<hookVars, providerVars, queueVars, recording, scripts, notes, indexed,
                   processing, ended, job, lease, at, faults>>

\* upsert_recording_asset: the status of an existing row is overwritten, whatever it was.
UpsertAsset(w) ==
    /\ pc[w] = "fetch_asset"
    /\ asset' = "source_available"
    /\ GoTo(w, "fetch_enqueue")
    /\ UNCHANGED <<hookVars, providerVars, queueVars, recording, object, scripts, notes, indexed,
                   processing, ended, job, lease, at, faults>>

EnqueueStore(w) ==
    /\ pc[w] = "fetch_enqueue"
    /\ Enqueue(Store)
    /\ GoTo(w, "done")
    /\ UNCHANGED <<hookVars, providerVars, dataVars, job, at, faults>>

-------------------------------------------------------------------------------
(* store_recording_audio *)

\* Seeded fault: a stored asset is taken for one whose transcription is already queued.
ReadAssetStoredIsDone(w) ==
    /\ pc[w] = "store"
    /\ GoTo(w, IF asset = "stored" /\ object THEN "done" ELSE "begin_upload")
    /\ UNCHANGED <<hookVars, providerVars, queueVars, dataVars, job, lease, at, faults>>

\* The asset is read once; a stored one goes straight to transcription.
ReadAsset(w) ==
    /\ pc[w] = "store"
    /\ GoTo(w, IF asset = "stored" /\ object THEN "stored_enqueue" ELSE "begin_upload")
    /\ UNCHANGED <<hookVars, providerVars, queueVars, dataVars, job, lease, at, faults>>

BeginUpload(w) ==
    /\ pc[w] = "begin_upload"
    /\ asset' = "uploading"
    /\ GoTo(w, "upload")
    /\ UNCHANGED <<hookVars, providerVars, queueVars, recording, object, scripts, notes, indexed,
                   processing, ended, job, lease, at, faults>>

\* Download from Recall, upload to R2, mark_recording_asset_stored.
Upload(w) ==
    /\ pc[w] = "upload"
    /\ asset' = "stored" /\ object' = TRUE
    /\ GoTo(w, "store_enqueue")
    /\ UNCHANGED <<hookVars, providerVars, queueVars, recording, scripts, notes, indexed,
                   processing, ended, job, lease, at, faults>>

EnqueueTranscribe(w) ==
    /\ pc[w] \in {"store_enqueue", "stored_enqueue"}
    /\ Enqueue(Transcribe)
    /\ GoTo(w, "done")
    /\ UNCHANGED <<hookVars, providerVars, dataVars, job, at, faults>>

-------------------------------------------------------------------------------
(* transcribe_recording *)

\* An asset that is not stored (any more) fails the handler; too small a file ends it.
ReadStored(w) ==
    /\ pc[w] = "transcribe"
    /\ \/ asset # "stored" /\ Fail(w) /\ UNCHANGED <<dataVars, faults>>
       \/ /\ asset = "stored" /\ tiny
          /\ ended' = ended \cup {"too_small"}
          /\ GoTo(w, "done")
          /\ UNCHANGED <<hookVars, providerVars, queueVars, recording, asset, object, scripts,
                         notes, indexed, processing, job, lease, at, faults>>
       \/ /\ asset = "stored" /\ ~tiny
          /\ GoTo(w, "insert_script")
          /\ UNCHANGED <<hookVars, providerVars, queueVars, dataVars, job, lease, at, faults>>

\* replace_transcription: every run inserts a new row, status 'ready' before its segments.
InsertTranscription(w) ==
    /\ pc[w] = "insert_script" /\ Len(scripts) < MaxScripts
    /\ scripts' = Append(scripts, "part")
    /\ at' = [at EXCEPT ![w] = Len(scripts) + 1]
    /\ GoTo(w, "insert_segments")
    /\ UNCHANGED <<hookVars, providerVars, queueVars, recording, asset, object, notes, indexed,
                   processing, ended, job, lease, faults>>

InsertSegments(w) ==
    /\ pc[w] = "insert_segments"
    /\ scripts' = [scripts EXCEPT ![at[w]] = "whole"]
    /\ processing' = "transcribed"
    /\ GoTo(w, "script_note")
    /\ UNCHANGED <<hookVars, providerVars, queueVars, recording, asset, object, notes, indexed,
                   ended, job, lease, at, faults>>

\* Seeded fault: the note job is queued while the segments are being inserted.
EnqueueNoteEarly(w) ==
    /\ pc[w] = "insert_segments"
    /\ Enqueue(Note(at[w]))
    /\ UNCHANGED <<hookVars, providerVars, dataVars, pc, job, at, faults>>

EnqueueNote(w) ==
    /\ pc[w] = "script_note"
    /\ Enqueue(Note(at[w]))
    /\ GoTo(w, "script_index")
    /\ UNCHANGED <<hookVars, providerVars, dataVars, job, at, faults>>

EnqueueIndex(w) ==
    /\ pc[w] = "script_index"
    /\ Enqueue(Index(at[w]))
    /\ GoTo(w, "done")
    /\ UNCHANGED <<hookVars, providerVars, dataVars, job, at, faults>>

-------------------------------------------------------------------------------
(* generate_note, vectorize_transcript *)

\* replace_note: the note and its action items, then the meeting.
InsertNote(w) ==
    /\ pc[w] = "note"
    /\ notes' = notes \cup {at[w]}
    /\ GoTo(w, "note_meeting")
    /\ UNCHANGED <<hookVars, providerVars, queueVars, recording, asset, object, scripts, indexed,
                   processing, ended, job, lease, at, faults>>

CompleteMeeting(w) ==
    /\ pc[w] = "note_meeting"
    /\ processing' = "completed"
    /\ GoTo(w, "done")
    /\ UNCHANGED <<hookVars, providerVars, queueVars, recording, asset, object, scripts, notes,
                   indexed, ended, job, lease, at, faults>>

VectorizeTranscript(w) ==
    /\ pc[w] = "index"
    /\ indexed' = indexed \cup {at[w]}
    /\ GoTo(w, "done")
    /\ UNCHANGED <<hookVars, providerVars, queueVars, recording, asset, object, scripts, notes,
                   processing, ended, job, lease, at, faults>>

-------------------------------------------------------------------------------

\* One statement of the handler a loop is running, or its completion.
Step(w) ==
    \/ Complete(w)
    \/ ApplyRecordingEvent(w) \/ EnqueueFetch(w) \/ MarkProcessed(w)
    \/ RetrieveBot(w) \/ UpsertAsset(w) \/ EnqueueStore(w)
    \/ ReadAsset(w) \/ BeginUpload(w) \/ Upload(w) \/ EnqueueTranscribe(w)
    \/ ReadStored(w) \/ InsertTranscription(w) \/ InsertSegments(w)
    \/ EnqueueNote(w) \/ EnqueueIndex(w)
    \/ InsertNote(w) \/ CompleteMeeting(w) \/ VectorizeTranscript(w)

Next ==
    \/ StoreEvent \/ EnqueueEvent \/ ReceiverFails
    \/ \E m \in {"id", "url"} : MediaAppears(m)
    \/ \E w \in Workers, k \in Keys : Take(w, k)
    \/ \E w \in Workers : Step(w) \/ HandlerFails(w) \/ Crash(w) \/ LoseLease(w)

Safety == Init /\ [][Next]_vars

\* Recall redelivers, the loops poll and their handlers advance.
Fairness ==
    /\ WF_vars(StoreEvent) /\ WF_vars(EnqueueEvent)
    /\ \A w \in Workers : WF_vars(Step(w)) /\ WF_vars(\E k \in Keys : Take(w, k))

Spec == Safety /\ Fairness

-------------------------------------------------------------------------------
(* Properties *)

Steps == {"idle", "done", "process", "process_enqueue", "process_mark", "fetch", "fetch_asset",
          "fetch_enqueue", "store", "stored_enqueue", "begin_upload", "upload", "store_enqueue",
          "transcribe", "insert_script", "insert_segments", "script_note", "script_index",
          "note", "note_meeting", "index"}

OutsideTyped ==
    /\ hook \in {"sent", "acked"} /\ event \in {"absent", "stored", "processed"}
    /\ receiving \in BOOLEAN
    /\ media \in {"none", "id", "url"} /\ tiny \in BOOLEAN
    /\ faults \in 0..MaxFaults

DataTyped ==
    /\ recording \in BOOLEAN /\ object \in BOOLEAN
    /\ asset \in {"none", "source_available", "uploading", "upload_failed", "stored"}
    /\ scripts \in Seq({"part", "whole"}) /\ Len(scripts) <= MaxScripts
    /\ notes \subseteq Scripts /\ indexed \subseteq Scripts
    /\ processing \in {"pending_media", "transcribed", "completed"}
    /\ ended \subseteq {"no_url", "too_small"}

QueueTyped ==
    /\ row \in [Keys -> {"none", "active", "dead"}]
    /\ attempts \in [Keys -> Nat]

LoopTyped ==
    /\ pc \in [Workers -> Steps] /\ job \in [Workers -> Keys \cup {NoJob}]
    /\ lease \in [Workers -> {"none", "held", "lost", "gone"}]
    /\ at \in [Workers -> 0..MaxScripts]
    /\ \A w \in Workers : (pc[w] = "idle" <=> job[w] = NoJob) /\ (pc[w] = "idle" <=> lease[w] = "none")

\* Types, that a loop has a claim on a row exactly while it runs a job, and that late reports of
\* loops that lost their lease overrun the attempts of a row (fail_job) by one each at most.
TypeOK ==
    /\ OutsideTyped /\ DataTyped /\ QueueTyped /\ LoopTyped
    /\ \A k \in Keys : attempts[k] <= MaxAttempts + Cardinality(Workers)

Whole(t) == t <= Len(scripts) /\ scripts[t] = "whole"

\* Notes and the search index are made from complete transcriptions only, although the
\* transcription row is 'ready' before its segments are there and loops may run it twice.
DerivedFromWholeTranscript ==
    \A t \in Scripts :
        row[Note(t)] # "none" \/ row[Index(t)] # "none" \/ t \in notes \/ t \in indexed => Whole(t)

\* The jobs that still lead to a note: waiting, being run, or dead and reported as such.
Pending == {k \in Keys : k[1] # "index" /\ row[k] # "none"}

\* README, reliability model: the chain of jobs never breaks silently.  While a recorded meeting
\* has no note, a job row stands for the work that is left, whatever crashed, failed or ran twice,
\* unless a handler found nothing to work on.
ChainUnbroken ==
    recording /\ notes = {} => Pending # {} \/ ended # {}

-------------------------------------------------------------------------------
(* The parts of the inductive invariant. *)

\* A loop is at a step of the handler of its job, and knows its transcription from the INSERT on.
OnJob(w) ==
    /\ pc[w] \in {"process", "process_enqueue", "process_mark"} => job[w] = Process
    /\ pc[w] \in {"fetch", "fetch_asset", "fetch_enqueue"} => job[w] = Fetch
    /\ pc[w] \in {"store", "stored_enqueue", "begin_upload", "upload", "store_enqueue"} => job[w] = Store
    /\ pc[w] \in {"transcribe", "insert_script"} => job[w] = Transcribe
    /\ pc[w] \in {"insert_segments", "script_note", "script_index"} => job[w] = Transcribe /\ at[w] \in Scripts
    /\ pc[w] \in {"note", "note_meeting"} => at[w] \in Scripts /\ job[w] = Note(at[w])
    /\ pc[w] = "index" => at[w] \in Scripts /\ job[w] = Index(at[w])

StepOfJob == \A w \in Workers : OnJob(w)

Claims(k) == {w \in Workers : job[w] = k /\ lease[w] \in {"held", "lost"}}

\* One loop at most holds the lease of an active row, and every claim is on a row that is there.
ClaimedRows ==
    /\ \A w \in Workers : lease[w] \in {"held", "lost"} => row[job[w]] # "none"
    /\ \A w \in Workers : lease[w] = "held" => row[job[w]] = "active"
    /\ \A v, w \in Workers : lease[v] = "held" /\ lease[w] = "held" /\ job[v] = job[w] => v = w

BudgetLeft == \A k \in Keys : row[k] = "active" => attempts[k] < MaxAttempts

\* Every claim may charge the row one more attempt.
Overrun(k) == attempts[k] + Cardinality(Claims(k)) <= MaxAttempts + Cardinality(Workers)

QueueAccounts == ClaimedRows /\ BudgetLeft /\ \A k \in Keys : Overrun(k)

\* A handler past the segments of its transcription works on a whole one.
OnWhole(w) ==
    /\ pc[w] = "insert_segments" => at[w] <= Len(scripts)
    /\ pc[w] \in {"script_note", "script_index", "note", "note_meeting", "index"} => Whole(at[w])

WorksOnWhole == \A w \in Workers : OnWhole(w)

\* The work is at stage k or past it: a row of that stage or a later one, a note, or a handler
\* that found nothing to work on.
PastTranscribe == (\E t \in Scripts : row[Note(t)] # "none") \/ notes # {} \/ ended # {}
AtTranscribe == row[Transcribe] # "none" \/ PastTranscribe
AtStore == row[Store] # "none" \/ AtTranscribe
AtFetch == row[Fetch] # "none" \/ AtStore
AtProcess == row[Process] # "none" \/ AtFetch

\* A handler hands its work to the next stage before its own row can go.
HandedOver(w) ==
    /\ job[w] = Process => AtProcess
    /\ pc[w] = "process_mark" => AtFetch
    /\ pc[w] = "script_index" => PastTranscribe
    /\ pc[w] = "note_meeting" => notes # {}
    /\ pc[w] = "done" =>
         /\ job[w] = Process => AtFetch
         /\ job[w] = Fetch => AtStore
         /\ job[w] = Store => AtTranscribe
         /\ job[w] = Transcribe => PastTranscribe
         /\ \A t \in Scripts : job[w] = Note(t) => notes # {}

HandsOver ==
    /\ recording => AtProcess
    /\ \A w \in Workers : HandedOver(w)

PipelineInvariant ==
    TypeOK /\ StepOfJob /\ QueueAccounts /\ WorksOnWhole /\ HandsOver /\ DerivedFromWholeTranscript

\* How far the work has come.
Stage ==
    IF PastTranscribe THEN 5 ELSE IF AtTranscribe THEN 4 ELSE IF AtStore THEN 3
    ELSE IF AtFetch THEN 2 ELSE IF AtProcess THEN 1 ELSE 0

Chain == INSTANCE RecordingChain WITH
            stage <- Stage, recorded <- recording, stored <- object,
            whole <- {t \in Scripts : Whole(t)}

\* README, reliability model: "a chain of small, idempotent jobs".  Handlers that fail, die, run
\* twice or report late never take the work back to an earlier stage, nor past a result that is
\* not there, nor do they undo one.
ImplementsChain == Chain!Spec

\* What the mapping needs: a job of a stage exists only once the work is there, and a stage that
\* hands on has its result.
InStage(w) ==
    /\ job[w] = Fetch => AtFetch
    /\ job[w] = Store => AtStore
    /\ job[w] = Transcribe => AtTranscribe
    /\ \A t \in Scripts : job[w] = Note(t) \/ job[w] = Index(t) => PastTranscribe
    /\ pc[w] \in {"process_enqueue", "process_mark"} => recording
    /\ pc[w] \in {"store_enqueue", "stored_enqueue", "insert_script", "insert_segments"} => object

ResultsKept ==
    /\ \A w \in Workers : InStage(w)
    /\ \A t \in Scripts : row[Index(t)] # "none" => PastTranscribe
    /\ AtFetch => recording
    /\ asset = "stored" => object

-------------------------------------------------------------------------------
(* Liveness, and what the README says. *)

\* Jobs that gave up, and handlers that found nothing to work on.
GaveUp == ended # {} \/ \E k \in Keys : row[k] = "dead"

\* Whatever fails, dies or runs twice, a recorded meeting gets its note, unless Recall's media was
\* not ready or too small or a job used up its attempts.
EventuallyNoted == recording ~> notes # {} \/ GaveUp

\* README: the webhook "responds after persisting and enqueueing the event": once Recall has its
\* acknowledgement and no handler is on its way to the queue, the event is queued or processed.
AckedIsQueued ==
    hook = "acked" /\ ~receiving => event = "processed" \/ row[Process] # "none"

================================================================================
