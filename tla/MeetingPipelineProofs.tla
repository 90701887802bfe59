------------------------- MODULE MeetingPipelineProofs -------------------------
(***************************************************************************)
(* Proofs about MeetingPipeline for any number of loops, transcriptions,   *)
(* attempts and faults.                                                    *)
(*                                                                         *)
(* The steps of the handlers are first reduced to what they do to the      *)
(* queue and to the loops (lemmas on GoTo, Enqueue, Fail and Complete);    *)
(* the invariant is then proved in layers: types with the step of each     *)
(* loop, claims on rows, whole transcriptions, and the hand-over between   *)
(* the stages of the chain.                                                *)
(***************************************************************************)
EXTENDS MeetingPipeline, FiniteSetTheorems, TLAPS

-------------------------------------------------------------------------------
(* Keys. *)

\* The dedupe keys of the stages are different keys.
LEMMA KeysApart ==
  /\ Process \in Keys /\ Fetch \in Keys /\ Store \in Keys /\ Transcribe \in Keys
  /\ \A t \in Scripts : Note(t) \in Keys /\ Index(t) \in Keys
  /\ Process # Fetch /\ Process # Store /\ Process # Transcribe
  /\ Fetch # Store /\ Fetch # Transcribe /\ Store # Transcribe
  /\ \A t : /\ Note(t) \notin {Process, Fetch, Store, Transcribe}
            /\ Index(t) \notin {Process, Fetch, Store, Transcribe}
  /\ \A s, t : Note(s) # Index(t) /\ (Note(s) = Note(t) => s = t) /\ (Index(s) = Index(t) => s = t)
  BY DEF Keys, Process, Fetch, Store, Transcribe, Note, Index

\* A loop that takes key k starts at the handler of k, with the transcription k names.
LEMMA KeyParts ==
  /\ Process[1] = "process" /\ Process[2] = 0
  /\ Fetch[1] = "fetch" /\ Fetch[2] = 0
  /\ Store[1] = "store" /\ Store[2] = 0
  /\ Transcribe[1] = "transcribe" /\ Transcribe[2] = 0
  /\ \A t : Note(t)[1] = "note" /\ Note(t)[2] = t
  /\ \A t : Index(t)[1] = "index" /\ Index(t)[2] = t
  BY DEF Process, Fetch, Store, Transcribe, Note, Index

LEMMA KeyCases ==
  ASSUME NEW k \in Keys
  PROVE  \/ k \in {Process, Fetch, Store, Transcribe}
         \/ \E t \in Scripts : k = Note(t) \/ k = Index(t)
  BY DEF Keys

LEMMA KeyTyped ==
  ASSUME NEW k \in Keys
  PROVE  k[1] \in Steps \ {"idle"} /\ k[2] \in 0..MaxScripts
<1>1. CASE k \in {Process, Fetch, Store, Transcribe}
  BY <1>1, KeyParts, PipelineAssumption DEF Steps
<1>2. ASSUME NEW t \in Scripts, k = Note(t) \/ k = Index(t)
      PROVE  k[1] \in Steps \ {"idle"} /\ k[2] \in 0..MaxScripts
  BY <1>2, KeyParts, PipelineAssumption DEF Steps, Scripts
<1>3. QED
  BY <1>1, <1>2, KeyCases

-------------------------------------------------------------------------------
(* Types. *)

Typed == OutsideTyped /\ DataTyped /\ QueueTyped /\ LoopTyped /\ StepOfJob

\* A loop moves within its handler.
LEMMA GoToTyped ==
  ASSUME LoopTyped, NEW w \in Workers, NEW s \in Steps \ {"idle"}, pc[w] # "idle",
         GoTo(w, s), job' = job,
         at' \in [Workers -> 0..MaxScripts],
         lease' \in [Workers -> {"none", "held", "lost", "gone"}],
         \A v \in Workers : lease'[v] = "none" <=> lease[v] = "none"
  PROVE  LoopTyped'
<1>1. pc' \in [Workers -> Steps]
  BY DEF GoTo, LoopTyped
<1>2. \A v \in Workers : pc'[v] = "idle" <=> pc[v] = "idle"
  BY DEF GoTo, LoopTyped
<1>3. QED
  BY <1>1, <1>2 DEF LoopTyped

\* An insert that finds a row changes nothing; otherwise the older claims on the key are gone.
LEMMA EnqueueTyped ==
  ASSUME QueueTyped, LoopTyped, NEW k \in Keys, Enqueue(k)
  PROVE  /\ QueueTyped'
         /\ lease' \in [Workers -> {"none", "held", "lost", "gone"}]
         /\ \A v \in Workers : lease'[v] = "none" <=> lease[v] = "none"
<1>1. CASE row[k] = "active"
  BY <1>1 DEF Enqueue, QueueTyped, LoopTyped
<1>2. CASE row[k] # "active"
  <2>1. /\ row' = [row EXCEPT ![k] = "active"]
        /\ attempts' = [attempts EXCEPT ![k] = 0]
        /\ lease' = [w \in Workers |-> IF job[w] = k THEN "gone" ELSE lease[w]]
    BY <1>2 DEF Enqueue
  <2>2. \A v \in Workers : job[v] = k => lease[v] # "none"
    BY PipelineAssumption DEF LoopTyped
  <2>3. QED
    BY <2>1, <2>2 DEF QueueTyped, LoopTyped
<1>3. QED
  BY <1>1, <1>2

\* A busy loop works on a key.
LEMMA BusyHasJob ==
  ASSUME LoopTyped, NEW w \in Workers, pc[w] # "idle"
  PROVE  job[w] \in Keys /\ lease[w] \in {"held", "lost", "gone"}
  BY DEF LoopTyped

LEMMA ChargeTyped ==
  ASSUME QueueTyped, NEW k \in Keys, Charge(k)
  PROVE  QueueTyped'
  BY DEF Charge, QueueTyped

LEMMA IdleTyped ==
  ASSUME LoopTyped, NEW w \in Workers, Idle(w),
         lease' \in [Workers -> {"none", "held", "lost", "gone"}], lease'[w] = "none",
         \A v \in Workers \ {w} : lease'[v] = "none" <=> lease[v] = "none"
  PROVE  LoopTyped'
<1>1. pc' \in [Workers -> Steps] /\ job' \in [Workers -> Keys \cup {NoJob}]
  BY DEF Idle, Leave, LoopTyped, Steps
<1>2. at' \in [Workers -> 0..MaxScripts]
  BY PipelineAssumption DEF Idle, LoopTyped
<1>3. pc'[w] = "idle" /\ job'[w] = NoJob
  BY DEF Idle, Leave, LoopTyped
<1>4. \A v \in Workers \ {w} : pc'[v] = pc[v] /\ job'[v] = job[v]
  BY DEF Idle, Leave, LoopTyped
<1>5. QED
  BY <1>1, <1>2, <1>3, <1>4 DEF LoopTyped

LEMMA FailTyped ==
  ASSUME QueueTyped, LoopTyped, NEW w \in Workers, pc[w] # "idle", Fail(w)
  PROVE  QueueTyped' /\ LoopTyped'
<1>0. job[w] \in Keys /\ lease[w] \in {"held", "lost", "gone"} /\ Idle(w)
  BY BusyHasJob DEF Fail
<1>1. CASE lease[w] = "gone"
  <2>1. UNCHANGED queueVars /\ lease' = [lease EXCEPT ![w] = "none"]
    BY <1>1 DEF Fail, FailRow
  <2>2. QueueTyped'
    BY <2>1 DEF QueueTyped, queueVars
  <2>3. LoopTyped'
    <3>1. /\ lease' \in [Workers -> {"none", "held", "lost", "gone"}] /\ lease'[w] = "none"
          /\ \A v \in Workers \ {w} : lease'[v] = "none" <=> lease[v] = "none"
      BY <2>1 DEF LoopTyped
    <3>2. QED
      BY <1>0, <3>1, IdleTyped
  <2>4. QED
    BY <2>2, <2>3
<1>2. CASE lease[w] # "gone"
  <2>1. /\ Charge(job[w])
        /\ lease' = [v \in Workers |-> IF v = w THEN "none"
                                       ELSE IF job[v] = job[w] /\ lease[v] = "held" THEN "lost"
                                       ELSE lease[v]]
    BY <1>2 DEF Fail, FailRow
  <2>2. QueueTyped'
    BY <1>0, <2>1, ChargeTyped
  <2>3. /\ lease' \in [Workers -> {"none", "held", "lost", "gone"}] /\ lease'[w] = "none"
        /\ \A v \in Workers \ {w} : lease'[v] = "none" <=> lease[v] = "none"
    BY <2>1 DEF LoopTyped
  <2>4. QED
    BY <1>0, <2>2, <2>3, IdleTyped
<1>3. QED
  BY <1>1, <1>2

LEMMA CompleteTyped ==
  ASSUME QueueTyped, LoopTyped, NEW w \in Workers, Complete(w)
  PROVE  QueueTyped' /\ LoopTyped'
<1>0. job[w] \in Keys /\ lease[w] \in {"held", "lost", "gone"} /\ Idle(w)
  BY BusyHasJob DEF Complete
<1>1. QueueTyped'
  BY <1>0 DEF Complete, DeleteRow, QueueTyped, queueVars
<1>2. CASE lease[w] = "gone"
  <2>1. lease' = [lease EXCEPT ![w] = "none"]
    BY <1>2 DEF Complete, DeleteRow
  <2>2. /\ lease' \in [Workers -> {"none", "held", "lost", "gone"}] /\ lease'[w] = "none"
        /\ \A v \in Workers \ {w} : lease'[v] = "none" <=> lease[v] = "none"
    BY <2>1 DEF LoopTyped
  <2>3. QED
    BY <1>0, <1>1, <2>2, IdleTyped
<1>3. CASE lease[w] # "gone"
  <2>1. lease' = [v \in Workers |-> IF v = w THEN "none"
                                    ELSE IF job[v] = job[w] THEN "gone" ELSE lease[v]]
    BY <1>3 DEF Complete, DeleteRow
  <2>2. \A v \in Workers : job[v] = job[w] => lease[v] # "none"
    BY <1>0, PipelineAssumption DEF LoopTyped
  <2>3. /\ lease' \in [Workers -> {"none", "held", "lost", "gone"}] /\ lease'[w] = "none"
        /\ \A v \in Workers \ {w} : lease'[v] = "none" <=> lease[v] = "none"
    BY <2>1, <2>2 DEF LoopTyped
  <2>4. QED
    BY <1>0, <1>1, <2>3, IdleTyped
<1>4. QED
  BY <1>2, <1>3

\* The steps of the other loops keep their place.
LEMMA StepOfJobFrame ==
  ASSUME StepOfJob, NEW w \in Workers, OnJob(w)',
         \A v \in Workers \ {w} : pc'[v] = pc[v] /\ job'[v] = job[v] /\ at'[v] = at[v]
  PROVE  StepOfJob'
  BY DEF StepOfJob, OnJob

LEMMA OthersStay ==
  ASSUME LoopTyped, NEW w \in Workers, NEW s, GoTo(w, s), job' = job, at' = at, OnJob(w)', StepOfJob
  PROVE  StepOfJob'
<1>1. \A v \in Workers \ {w} : pc'[v] = pc[v] /\ job'[v] = job[v] /\ at'[v] = at[v]
  BY DEF GoTo, LoopTyped
<1>2. QED
  BY <1>1, StepOfJobFrame

LEMMA IdleKeepsSteps ==
  ASSUME LoopTyped, StepOfJob, NEW w \in Workers, Idle(w)
  PROVE  StepOfJob'
<1>1. pc'[w] = "idle"
  BY DEF Idle, Leave, LoopTyped
<1>2. OnJob(w)'
  BY <1>1 DEF OnJob
<1>3. \A v \in Workers \ {w} : pc'[v] = pc[v] /\ job'[v] = job[v] /\ at'[v] = at[v]
  BY DEF Idle, Leave, LoopTyped
<1>4. QED
  BY <1>2, <1>3, StepOfJobFrame

\* A step of a handler that leaves the queue alone.
LEMMA QuietMove ==
  ASSUME QueueTyped, LoopTyped, StepOfJob, NEW w \in Workers, NEW s \in Steps \ {"idle"},
         pc[w] # "idle", GoTo(w, s), UNCHANGED <<row, attempts, job, lease, at>>,
         OnJob(w)'
  PROVE  QueueTyped' /\ LoopTyped' /\ StepOfJob'
<1>1. QueueTyped'
  BY DEF QueueTyped
<1>2. LoopTyped'
  <2>1. /\ at' \in [Workers -> 0..MaxScripts]
        /\ lease' \in [Workers -> {"none", "held", "lost", "gone"}]
        /\ \A v \in Workers : lease'[v] = "none" <=> lease[v] = "none"
    BY DEF LoopTyped
  <2>2. QED
    BY <2>1, GoToTyped
<1>3. StepOfJob'
  BY OthersStay
<1>4. QED
  BY <1>1, <1>2, <1>3

\* A step of a handler that enqueues a job.
LEMMA EnqueueMove ==
  ASSUME QueueTyped, LoopTyped, StepOfJob, NEW w \in Workers, NEW s \in Steps \ {"idle"},
         pc[w] # "idle", GoTo(w, s), NEW k \in Keys, Enqueue(k), job' = job, at' = at,
         OnJob(w)'
  PROVE  QueueTyped' /\ LoopTyped' /\ StepOfJob'
<1>1. /\ QueueTyped'
      /\ lease' \in [Workers -> {"none", "held", "lost", "gone"}]
      /\ \A v \in Workers : lease'[v] = "none" <=> lease[v] = "none"
  BY EnqueueTyped
<1>2. at' \in [Workers -> 0..MaxScripts]
  BY DEF LoopTyped
<1>3. LoopTyped'
  BY <1>1, <1>2, GoToTyped
<1>4. QED
  BY <1>1, <1>3, OthersStay

LEMMA SegmentsTyped ==
  ASSUME scripts \in Seq({"part", "whole"}), NEW t
  PROVE  /\ [scripts EXCEPT ![t] = "whole"] \in Seq({"part", "whole"})
         /\ Len([scripts EXCEPT ![t] = "whole"]) = Len(scripts)
<1>1. scripts \in [1..Len(scripts) -> {"part", "whole"}] /\ Len(scripts) \in Nat
  OBVIOUS
<1>2. [scripts EXCEPT ![t] = "whole"] \in [1..Len(scripts) -> {"part", "whole"}]
  BY <1>1
<1>3. QED
  BY <1>1, <1>2

LEMMA FaultTyped ==
  ASSUME OutsideTyped, Fault
  PROVE  faults' \in 0..MaxFaults
  BY PipelineAssumption DEF OutsideTyped, Fault

\* Every step of a handler keeps the types and the place of every loop.
LEMMA StepTyped ==
  ASSUME Typed, NEW w \in Workers, Step(w)
  PROVE  Typed'
<1> USE DEF Typed
<1>1. CASE Complete(w)
  <2>1. OutsideTyped' /\ DataTyped'
    BY <1>1 DEF Complete, OutsideTyped, DataTyped, hookVars, providerVars, dataVars
  <2>2. QueueTyped' /\ LoopTyped'
    BY <1>1, CompleteTyped
  <2>3. StepOfJob'
    BY <1>1, IdleKeepsSteps DEF Complete
  <2>4. QED
    BY <2>1, <2>2, <2>3
<1>2. CASE ApplyRecordingEvent(w)
  <2>1. OutsideTyped' /\ DataTyped'
    BY <1>2 DEF ApplyRecordingEvent, OutsideTyped, DataTyped, hookVars, providerVars, dataVars, StepOfJob, OnJob
  <2>2. pc[w] # "idle" /\ GoTo(w, "process_enqueue") /\ UNCHANGED <<row, attempts, job, lease, at>>
    BY <1>2 DEF ApplyRecordingEvent, queueVars
  <2>3. OnJob(w)'
    BY <1>2, <2>2 DEF ApplyRecordingEvent, StepOfJob, OnJob, GoTo, LoopTyped
  <2>4. QED
    BY <2>1, <2>2, <2>3, QuietMove DEF Steps
<1>3. CASE MarkProcessed(w)
  <2>1. OutsideTyped' /\ DataTyped'
    BY <1>3 DEF MarkProcessed, OutsideTyped, DataTyped, hookVars, providerVars, dataVars, StepOfJob, OnJob
  <2>2. pc[w] # "idle" /\ GoTo(w, "done") /\ UNCHANGED <<row, attempts, job, lease, at>>
    BY <1>3 DEF MarkProcessed, queueVars
  <2>3. OnJob(w)'
    BY <1>3, <2>2 DEF MarkProcessed, StepOfJob, OnJob, GoTo, LoopTyped
  <2>4. QED
    BY <2>1, <2>2, <2>3, QuietMove DEF Steps
<1>4. CASE UpsertAsset(w)
  <2>1. OutsideTyped' /\ DataTyped'
    BY <1>4 DEF UpsertAsset, OutsideTyped, DataTyped, hookVars, providerVars, dataVars, StepOfJob, OnJob
  <2>2. pc[w] # "idle" /\ GoTo(w, "fetch_enqueue") /\ UNCHANGED <<row, attempts, job, lease, at>>
    BY <1>4 DEF UpsertAsset, queueVars
  <2>3. OnJob(w)'
    BY <1>4, <2>2 DEF UpsertAsset, StepOfJob, OnJob, GoTo, LoopTyped
  <2>4. QED
    BY <2>1, <2>2, <2>3, QuietMove DEF Steps
<1>5. CASE BeginUpload(w)
  <2>1. OutsideTyped' /\ DataTyped'
    BY <1>5 DEF BeginUpload, OutsideTyped, DataTyped, hookVars, providerVars, dataVars, StepOfJob, OnJob
  <2>2. pc[w] # "idle" /\ GoTo(w, "upload") /\ UNCHANGED <<row, attempts, job, lease, at>>
    BY <1>5 DEF BeginUpload, queueVars
  <2>3. OnJob(w)'
    BY <1>5, <2>2 DEF BeginUpload, StepOfJob, OnJob, GoTo, LoopTyped
  <2>4. QED
    BY <2>1, <2>2, <2>3, QuietMove DEF Steps
<1>6. CASE Upload(w)
  <2>1. OutsideTyped' /\ DataTyped'
    BY <1>6 DEF Upload, OutsideTyped, DataTyped, hookVars, providerVars, dataVars, StepOfJob, OnJob
  <2>2. pc[w] # "idle" /\ GoTo(w, "store_enqueue") /\ UNCHANGED <<row, attempts, job, lease, at>>
    BY <1>6 DEF Upload, queueVars
  <2>3. OnJob(w)'
    BY <1>6, <2>2 DEF Upload, StepOfJob, OnJob, GoTo, LoopTyped
  <2>4. QED
    BY <2>1, <2>2, <2>3, QuietMove DEF Steps
<1>7. CASE InsertSegments(w)
  <2>1. OutsideTyped' /\ DataTyped'
    BY <1>7, SegmentsTyped DEF InsertSegments, OutsideTyped, DataTyped, hookVars, providerVars, dataVars, StepOfJob, OnJob
  <2>2. pc[w] # "idle" /\ GoTo(w, "script_note") /\ UNCHANGED <<row, attempts, job, lease, at>>
    BY <1>7 DEF InsertSegments, queueVars
  <2>3. OnJob(w)'
    BY <1>7, <2>2 DEF InsertSegments, StepOfJob, OnJob, GoTo, LoopTyped
  <2>4. QED
    BY <2>1, <2>2, <2>3, QuietMove DEF Steps
<1>8. CASE InsertNote(w)
  <2>1. OutsideTyped' /\ DataTyped'
    BY <1>8 DEF InsertNote, OutsideTyped, DataTyped, hookVars, providerVars, dataVars, StepOfJob, OnJob
  <2>2. pc[w] # "idle" /\ GoTo(w, "note_meeting") /\ UNCHANGED <<row, attempts, job, lease, at>>
    BY <1>8 DEF InsertNote, queueVars
  <2>3. OnJob(w)'
    BY <1>8, <2>2 DEF InsertNote, StepOfJob, OnJob, GoTo, LoopTyped
  <2>4. QED
    BY <2>1, <2>2, <2>3, QuietMove DEF Steps
<1>9. CASE CompleteMeeting(w)
  <2>1. OutsideTyped' /\ DataTyped'
    BY <1>9 DEF CompleteMeeting, OutsideTyped, DataTyped, hookVars, providerVars, dataVars, StepOfJob, OnJob
  <2>2. pc[w] # "idle" /\ GoTo(w, "done") /\ UNCHANGED <<row, attempts, job, lease, at>>
    BY <1>9 DEF CompleteMeeting, queueVars
  <2>3. OnJob(w)'
    BY <1>9, <2>2 DEF CompleteMeeting, StepOfJob, OnJob, GoTo, LoopTyped
  <2>4. QED
    BY <2>1, <2>2, <2>3, QuietMove DEF Steps
<1>10. CASE VectorizeTranscript(w)
  <2>1. OutsideTyped' /\ DataTyped'
    BY <1>10 DEF VectorizeTranscript, OutsideTyped, DataTyped, hookVars, providerVars, dataVars, StepOfJob, OnJob
  <2>2. pc[w] # "idle" /\ GoTo(w, "done") /\ UNCHANGED <<row, attempts, job, lease, at>>
    BY <1>10 DEF VectorizeTranscript, queueVars
  <2>3. OnJob(w)'
    BY <1>10, <2>2 DEF VectorizeTranscript, StepOfJob, OnJob, GoTo, LoopTyped
  <2>4. QED
    BY <2>1, <2>2, <2>3, QuietMove DEF Steps
<1>11. CASE EnqueueFetch(w)
  <2>1. OutsideTyped' /\ DataTyped'
    BY <1>11 DEF EnqueueFetch, OutsideTyped, DataTyped, hookVars, providerVars, dataVars
  <2>2. pc[w] # "idle" /\ GoTo(w, "process_mark") /\ job' = job /\ at' = at
    BY <1>11 DEF EnqueueFetch
  <2>3. Fetch \in Keys /\ Enqueue(Fetch)
    BY <1>11, KeysApart DEF EnqueueFetch, StepOfJob, OnJob
  <2>4. OnJob(w)'
    BY <1>11, <2>2 DEF EnqueueFetch, StepOfJob, OnJob, GoTo, LoopTyped
  <2>5. QED
    BY <2>1, <2>2, <2>3, <2>4, EnqueueMove DEF Steps
<1>12. CASE EnqueueStore(w)
  <2>1. OutsideTyped' /\ DataTyped'
    BY <1>12 DEF EnqueueStore, OutsideTyped, DataTyped, hookVars, providerVars, dataVars
  <2>2. pc[w] # "idle" /\ GoTo(w, "done") /\ job' = job /\ at' = at
    BY <1>12 DEF EnqueueStore
  <2>3. Store \in Keys /\ Enqueue(Store)
    BY <1>12, KeysApart DEF EnqueueStore, StepOfJob, OnJob
  <2>4. OnJob(w)'
    BY <1>12, <2>2 DEF EnqueueStore, StepOfJob, OnJob, GoTo, LoopTyped
  <2>5. QED
    BY <2>1, <2>2, <2>3, <2>4, EnqueueMove DEF Steps
<1>13. CASE EnqueueTranscribe(w)
  <2>1. OutsideTyped' /\ DataTyped'
    BY <1>13 DEF EnqueueTranscribe, OutsideTyped, DataTyped, hookVars, providerVars, dataVars
  <2>2. pc[w] # "idle" /\ GoTo(w, "done") /\ job' = job /\ at' = at
    BY <1>13 DEF EnqueueTranscribe
  <2>3. Transcribe \in Keys /\ Enqueue(Transcribe)
    BY <1>13, KeysApart DEF EnqueueTranscribe, StepOfJob, OnJob
  <2>4. OnJob(w)'
    BY <1>13, <2>2 DEF EnqueueTranscribe, StepOfJob, OnJob, GoTo, LoopTyped
  <2>5. QED
    BY <2>1, <2>2, <2>3, <2>4, EnqueueMove DEF Steps
<1>14. CASE EnqueueNote(w)
  <2>1. OutsideTyped' /\ DataTyped'
    BY <1>14 DEF EnqueueNote, OutsideTyped, DataTyped, hookVars, providerVars, dataVars
  <2>2. pc[w] # "idle" /\ GoTo(w, "script_index") /\ job' = job /\ at' = at
    BY <1>14 DEF EnqueueNote
  <2>3. Note(at[w]) \in Keys /\ Enqueue(Note(at[w]))
    BY <1>14, KeysApart DEF EnqueueNote, StepOfJob, OnJob
  <2>4. OnJob(w)'
    BY <1>14, <2>2 DEF EnqueueNote, StepOfJob, OnJob, GoTo, LoopTyped
  <2>5. QED
    BY <2>1, <2>2, <2>3, <2>4, EnqueueMove DEF Steps
<1>15. CASE EnqueueIndex(w)
  <2>1. OutsideTyped' /\ DataTyped'
    BY <1>15 DEF EnqueueIndex, OutsideTyped, DataTyped, hookVars, providerVars, dataVars
  <2>2. pc[w] # "idle" /\ GoTo(w, "done") /\ job' = job /\ at' = at
    BY <1>15 DEF EnqueueIndex
  <2>3. Index(at[w]) \in Keys /\ Enqueue(Index(at[w]))
    BY <1>15, KeysApart DEF EnqueueIndex, StepOfJob, OnJob
  <2>4. OnJob(w)'
    BY <1>15, <2>2 DEF EnqueueIndex, StepOfJob, OnJob, GoTo, LoopTyped
  <2>5. QED
    BY <2>1, <2>2, <2>3, <2>4, EnqueueMove DEF Steps
<1>16. CASE RetrieveBot(w)
  <2>1. OutsideTyped' /\ DataTyped'
    BY <1>16 DEF RetrieveBot, Fail, FailRow, OutsideTyped, DataTyped, hookVars, providerVars, dataVars
  <2>2. pc[w] = "fetch"
    BY <1>16 DEF RetrieveBot
  <2>3. CASE media = "none" /\ Fail(w)
    BY <2>1, <2>2, <2>3, FailTyped, IdleKeepsSteps DEF Fail
  <2>4. ASSUME NEW s \in {"done", "fetch_asset"}, GoTo(w, s), UNCHANGED <<row, attempts, job, lease, at>>
        PROVE  Typed'
    <3>1. OnJob(w)'
      BY <2>2, <2>4 DEF StepOfJob, OnJob, GoTo, LoopTyped
    <3>2. QED
      BY <2>1, <2>2, <2>4, <3>1, QuietMove DEF Steps
  <2>5. QED
    BY <1>16, <2>3, <2>4 DEF RetrieveBot, queueVars
<1>17. CASE ReadAsset(w)
  <2>1. OutsideTyped' /\ DataTyped'
    BY <1>17 DEF ReadAsset, OutsideTyped, DataTyped, hookVars, providerVars, dataVars
  <2>2. pc[w] = "store" /\ UNCHANGED <<row, attempts, job, lease, at>>
    BY <1>17 DEF ReadAsset, queueVars
  <2>3. PICK s \in {"stored_enqueue", "begin_upload"} : GoTo(w, s)
    BY <1>17 DEF ReadAsset
  <2>4. OnJob(w)'
    BY <2>2, <2>3 DEF StepOfJob, OnJob, GoTo, LoopTyped
  <2>5. QED
    BY <2>1, <2>2, <2>3, <2>4, QuietMove DEF Steps
<1>18. CASE ReadStored(w)
  <2>1. OutsideTyped' /\ DataTyped'
    <3>1. UNCHANGED <<hookVars, providerVars, faults>>
      BY <1>18 DEF ReadStored, Fail
    <3>2. OutsideTyped'
      BY <3>1 DEF OutsideTyped, hookVars, providerVars
    <3>3. DataTyped'
      <4>1. CASE UNCHANGED dataVars
        BY <4>1 DEF DataTyped, dataVars
      <4>2. CASE asset = "stored" /\ tiny
        BY <1>18, <4>2 DEF ReadStored, DataTyped
      <4>3. QED
        BY <1>18, <4>1, <4>2 DEF ReadStored
    <3>4. QED
      BY <3>2, <3>3
  <2>2. pc[w] = "transcribe"
    BY <1>18 DEF ReadStored
  <2>3. CASE asset # "stored" /\ Fail(w)
    BY <2>1, <2>2, <2>3, FailTyped, IdleKeepsSteps DEF Fail
  <2>4. ASSUME NEW s \in {"done", "insert_script"}, GoTo(w, s), UNCHANGED <<row, attempts, job, lease, at>>
        PROVE  Typed'
    <3>1. OnJob(w)'
      BY <2>2, <2>4 DEF StepOfJob, OnJob, GoTo, LoopTyped
    <3>2. QED
      BY <2>1, <2>2, <2>4, <3>1, QuietMove DEF Steps
  <2>5. QED
    BY <1>18, <2>3, <2>4 DEF ReadStored, queueVars
<1>19. CASE InsertTranscription(w)
  <2>1. Len(scripts) \in Nat /\ Len(scripts) + 1 \in Scripts
    BY <1>19, PipelineAssumption DEF InsertTranscription, DataTyped, Scripts
  <2>2. OutsideTyped' /\ DataTyped'
    BY <1>19, <2>1, PipelineAssumption DEF InsertTranscription, OutsideTyped, DataTyped, hookVars, providerVars, Scripts
  <2>3. /\ pc[w] = "insert_script" /\ GoTo(w, "insert_segments")
        /\ at' = [at EXCEPT ![w] = Len(scripts) + 1]
        /\ UNCHANGED <<row, attempts, job, lease>>
    BY <1>19 DEF InsertTranscription, queueVars
  <2>4. at' \in [Workers -> 0..MaxScripts]
    BY <2>1, <2>3 DEF LoopTyped, Scripts
  <2>5. LoopTyped'
    <3>1. /\ lease' \in [Workers -> {"none", "held", "lost", "gone"}]
          /\ \A v \in Workers : lease'[v] = "none" <=> lease[v] = "none"
      BY <2>3 DEF LoopTyped
    <3>2. QED
      BY <2>3, <2>4, <3>1, GoToTyped DEF Steps
  <2>6. OnJob(w)'
    BY <2>1, <2>3 DEF StepOfJob, OnJob, GoTo, LoopTyped
  <2>7. \A v \in Workers \ {w} : pc'[v] = pc[v] /\ job'[v] = job[v] /\ at'[v] = at[v]
    BY <2>3 DEF GoTo, LoopTyped
  <2>8. StepOfJob'
    BY <2>6, <2>7, StepOfJobFrame
  <2>9. QED
    BY <2>2, <2>3, <2>5, <2>8 DEF QueueTyped
<1>20. QED
  BY <1>1, <1>2, <1>3, <1>4, <1>5, <1>6, <1>7, <1>8, <1>9, <1>10, <1>11, <1>12, <1>13, <1>14, <1>15, <1>16, <1>17, <1>18, <1>19 DEF Step

LEMMA InitTyped == Init => Typed
<1> SUFFICES ASSUME Init PROVE Typed
  OBVIOUS
<1>1. OutsideTyped
  <2>1. faults \in 0..MaxFaults
    BY PipelineAssumption DEF Init
  <2>2. QED
    BY <2>1 DEF Init, OutsideTyped
<1>2. DataTyped
  <2>1. scripts \in Seq({"part", "whole"}) /\ Len(scripts) <= MaxScripts
    BY PipelineAssumption DEF Init
  <2>2. QED
    BY <2>1 DEF Init, DataTyped
<1>3. QueueTyped
  BY DEF Init, QueueTyped
<1>4. LoopTyped
  BY PipelineAssumption DEF Init, LoopTyped, Steps
<1>5. StepOfJob
  BY DEF Init, StepOfJob, OnJob
<1>6. QED
  BY <1>1, <1>2, <1>3, <1>4, <1>5 DEF Typed

LEMMA NextTyped == Typed /\ [Next]_vars => Typed'
<1> SUFFICES ASSUME Typed, [Next]_vars PROVE Typed'
  OBVIOUS
<1> USE DEF Typed
<1>1. CASE StoreEvent \/ ReceiverFails \/ \E m \in {"id", "url"} : MediaAppears(m)
  <2>1. OutsideTyped'
    <3>1. CASE StoreEvent
      BY <3>1 DEF StoreEvent, OutsideTyped, providerVars
    <3>2. CASE ReceiverFails
      <4>1. faults' \in 0..MaxFaults
        BY <3>2, FaultTyped DEF ReceiverFails
      <4>2. QED
        BY <3>2, <4>1 DEF ReceiverFails, OutsideTyped, providerVars
    <3>3. ASSUME NEW m \in {"id", "url"}, MediaAppears(m) PROVE OutsideTyped'
      BY <3>3 DEF MediaAppears, OutsideTyped, hookVars
    <3>4. QED
      BY <1>1, <3>1, <3>2, <3>3
  <2>2. UNCHANGED <<queueVars, dataVars, loopVars>>
    BY <1>1 DEF StoreEvent, ReceiverFails, MediaAppears
  <2>3. DataTyped' /\ QueueTyped'
    BY <2>2 DEF DataTyped, QueueTyped, dataVars, queueVars
  <2>4. LoopTyped' /\ StepOfJob'
    BY <2>2 DEF LoopTyped, StepOfJob, OnJob, loopVars
  <2>5. QED
    BY <2>1, <2>3, <2>4
<1>2. CASE EnqueueEvent
  <2>1. OutsideTyped' /\ DataTyped' /\ StepOfJob'
    BY <1>2 DEF EnqueueEvent, OutsideTyped, DataTyped, StepOfJob, OnJob, providerVars, dataVars
  <2>2. /\ QueueTyped'
        /\ lease' \in [Workers -> {"none", "held", "lost", "gone"}]
        /\ \A v \in Workers : lease'[v] = "none" <=> lease[v] = "none"
    BY <1>2, KeysApart, EnqueueTyped DEF EnqueueEvent
  <2>3. LoopTyped'
    BY <1>2, <2>2 DEF EnqueueEvent, LoopTyped
  <2>4. QED
    BY <2>1, <2>2, <2>3
<1>3. ASSUME NEW w \in Workers, NEW k \in Keys, Take(w, k) PROVE Typed'
  <2>1. /\ pc' = [pc EXCEPT ![w] = k[1]] /\ job' = [job EXCEPT ![w] = k]
        /\ at' = [at EXCEPT ![w] = k[2]] /\ lease' = [lease EXCEPT ![w] = "held"]
        /\ UNCHANGED <<hookVars, providerVars, queueVars, dataVars, faults>>
    BY <1>3 DEF Take, LeaseRow
  <2>2. OutsideTyped' /\ DataTyped' /\ QueueTyped'
    BY <2>1 DEF OutsideTyped, DataTyped, QueueTyped, hookVars, providerVars, queueVars, dataVars
  <2>3. pc' \in [Workers -> Steps] /\ at' \in [Workers -> 0..MaxScripts]
    BY <2>1, KeyTyped DEF LoopTyped
  <2>4. /\ pc'[w] = k[1] /\ job'[w] = k /\ at'[w] = k[2] /\ lease'[w] = "held"
        /\ \A v \in Workers \ {w} : /\ pc'[v] = pc[v] /\ job'[v] = job[v] /\ at'[v] = at[v]
                                    /\ lease'[v] = lease[v]
    BY <2>1 DEF LoopTyped
  <2>5. LoopTyped'
    <3>1. job' \in [Workers -> Keys \cup {NoJob}] /\ lease' \in [Workers -> {"none", "held", "lost", "gone"}]
      BY <2>1 DEF LoopTyped
    <3>2. pc'[w] # "idle" /\ job'[w] # NoJob
      BY <2>4, KeyTyped, PipelineAssumption
    <3>3. QED
      BY <2>3, <2>4, <3>1, <3>2 DEF LoopTyped
  <2>6. OnJob(w)'
    <3>1. CASE k \in {Process, Fetch, Store, Transcribe}
      BY <2>4, <3>1, KeyParts DEF OnJob
    <3>2. ASSUME NEW t \in Scripts, k = Note(t) \/ k = Index(t) PROVE OnJob(w)'
      BY <2>4, <3>2, KeyParts DEF OnJob
    <3>3. QED
      BY <3>1, <3>2, KeyCases
  <2>7. QED
    BY <2>2, <2>4, <2>5, <2>6, StepOfJobFrame
<1>4. ASSUME NEW w \in Workers, Step(w) PROVE Typed'
  BY <1>4, StepTyped
<1>5. ASSUME NEW w \in Workers, HandlerFails(w) PROVE Typed'
  <2>1. OutsideTyped' /\ DataTyped'
    <3>1. faults' \in 0..MaxFaults
      BY <1>5, FaultTyped DEF HandlerFails
    <3>2. UNCHANGED <<hookVars, providerVars>>
      BY <1>5 DEF HandlerFails, Fail
    <3>3. OutsideTyped'
      BY <3>1, <3>2 DEF OutsideTyped, hookVars, providerVars
    <3>4. DataTyped'
      BY <1>5 DEF HandlerFails, DataTyped
    <3>5. QED
      BY <3>3, <3>4
  <2>2. pc[w] # "idle" /\ Fail(w)
    BY <1>5 DEF HandlerFails
  <2>3. QED
    BY <2>1, <2>2, FailTyped, IdleKeepsSteps DEF Fail
<1>6. ASSUME NEW w \in Workers, Crash(w) PROVE Typed'
  <2>1. Idle(w) /\ lease' = [lease EXCEPT ![w] = "none"]
    BY <1>6 DEF Crash
  <2>2. OutsideTyped' /\ DataTyped' /\ QueueTyped'
    <3>1. faults' \in 0..MaxFaults
      BY <1>6, FaultTyped DEF Crash
    <3>2. UNCHANGED <<hookVars, providerVars, queueVars, dataVars>>
      BY <1>6 DEF Crash
    <3>3. QED
      BY <3>1, <3>2 DEF OutsideTyped, DataTyped, QueueTyped, hookVars, providerVars, dataVars, queueVars
  <2>3. /\ lease' \in [Workers -> {"none", "held", "lost", "gone"}] /\ lease'[w] = "none"
        /\ \A v \in Workers \ {w} : lease'[v] = "none" <=> lease[v] = "none"
    BY <2>1 DEF LoopTyped
  <2>4. QED
    BY <2>1, <2>2, <2>3, IdleTyped, IdleKeepsSteps
<1>7. ASSUME NEW w \in Workers, LoseLease(w) PROVE Typed'
  <2>1. OutsideTyped' /\ DataTyped' /\ StepOfJob'
    <3>1. faults' \in 0..MaxFaults
      BY <1>7, FaultTyped DEF LoseLease
    <3>2. UNCHANGED <<hookVars, providerVars, dataVars, pc, job, at>>
      BY <1>7 DEF LoseLease
    <3>3. QED
      BY <3>1, <3>2 DEF OutsideTyped, DataTyped, StepOfJob, OnJob, hookVars, providerVars, dataVars
  <2>2. job[w] \in Keys
    BY <1>7, PipelineAssumption DEF LoseLease, LoseRow, LoopTyped
  <2>3. QueueTyped'
    <3>1. CASE Charge(job[w])
      BY <2>2, <3>1, ChargeTyped
    <3>2. CASE UNCHANGED queueVars
      BY <3>2 DEF QueueTyped, queueVars
    <3>3. QED
      BY <1>7, <3>1, <3>2 DEF LoseLease, LoseRow
  <2>4. LoopTyped'
    BY <1>7 DEF LoseLease, LoseRow, LoopTyped
  <2>5. QED
    BY <2>1, <2>3, <2>4
<1>8. CASE UNCHANGED vars
  <2>1. OutsideTyped' /\ DataTyped' /\ QueueTyped'
    BY <1>8 DEF vars, OutsideTyped, DataTyped, QueueTyped, hookVars, providerVars, queueVars, dataVars
  <2>2. LoopTyped' /\ StepOfJob'
    BY <1>8 DEF vars, LoopTyped, StepOfJob, OnJob, loopVars
  <2>3. QED
    BY <2>1, <2>2
<1>9. QED
  BY <1>1, <1>2, <1>3, <1>4, <1>5, <1>6, <1>7, <1>8 DEF Next

\* Each loop is always at a step of the handler that matches the job it leased, and from the INSERT
\* on it knows which transcription it works on; every variable has its type.
THEOREM HandlersTyped == Safety => []Typed
  BY InitTyped, NextTyped, PTL DEF Safety

-------------------------------------------------------------------------------
(* Claims on rows, and the attempts of a row. *)

LEMMA ClaimsFinite ==
  ASSUME NEW k
  PROVE  /\ IsFiniteSet(Claims(k)) /\ Cardinality(Claims(k)) \in Nat
         /\ Cardinality(Claims(k)) <= Cardinality(Workers) /\ Cardinality(Workers) \in Nat
<1>1. Claims(k) \subseteq Workers
  BY DEF Claims
<1>2. QED
  BY <1>1, PipelineAssumption, FS_Subset, FS_CardinalityType

LEMMA ClaimsFinitePrime ==
  ASSUME NEW k
  PROVE  Cardinality(Claims(k)') \in Nat /\ Cardinality(Claims(k)') <= Cardinality(Workers)
<1>1. Claims(k)' \subseteq Workers
  BY DEF Claims
<1>2. QED
  BY <1>1, PipelineAssumption, FS_Subset, FS_CardinalityType

\* The three ways a step may treat a row: nothing is charged, the charge stays within the limit,
\* or the worker that charges gives up its claim.
LEMMA OverrunKept ==
  ASSUME NEW k \in Keys, QueueTyped, QueueTyped', Overrun(k),
         \/ attempts'[k] <= attempts[k] /\ Claims(k)' \subseteq Claims(k)
         \/ attempts'[k] <= MaxAttempts
         \/ \E w \in Claims(k) : attempts'[k] = attempts[k] + 1 /\ Claims(k)' \subseteq Claims(k) \ {w}
  PROVE  Overrun(k)'
<1> USE PipelineAssumption
<1>1. /\ IsFiniteSet(Claims(k)) /\ Cardinality(Claims(k)) \in Nat
      /\ Cardinality(Claims(k)) <= Cardinality(Workers) /\ Cardinality(Workers) \in Nat
  BY ClaimsFinite
<1>2. Cardinality(Claims(k)') \in Nat /\ Cardinality(Claims(k)') <= Cardinality(Workers)
  BY ClaimsFinitePrime
<1>3. attempts[k] \in Nat /\ attempts'[k] \in Nat
  BY DEF QueueTyped
<1>4. CASE attempts'[k] <= attempts[k] /\ Claims(k)' \subseteq Claims(k)
  <2>1. Cardinality(Claims(k)') <= Cardinality(Claims(k))
    BY <1>1, <1>4, FS_Subset
  <2>2. QED
    BY <1>1, <1>2, <1>3, <1>4, <2>1 DEF Overrun
<1>5. CASE attempts'[k] <= MaxAttempts
  BY <1>1, <1>2, <1>3, <1>5 DEF Overrun
<1>6. ASSUME NEW w \in Claims(k), attempts'[k] = attempts[k] + 1, Claims(k)' \subseteq Claims(k) \ {w}
      PROVE  Overrun(k)'
  <2>1. IsFiniteSet(Claims(k) \ {w}) /\ Cardinality(Claims(k) \ {w}) = Cardinality(Claims(k)) - 1
    BY <1>1, FS_RemoveElement
  <2>2. Cardinality(Claims(k)') <= Cardinality(Claims(k) \ {w})
    BY <1>6, <2>1, FS_Subset
  <2>3. QED
    BY <1>1, <1>2, <1>3, <1>6, <2>1, <2>2 DEF Overrun
<1>7. QED
  BY <1>4, <1>5, <1>6

LEMMA AccountsFrame ==
  ASSUME Typed, QueueAccounts, UNCHANGED <<row, attempts, job, lease>>
  PROVE  QueueAccounts'
  BY DEF QueueAccounts, ClaimedRows, BudgetLeft, Overrun, Claims

LEMMA AccountsEnqueue ==
  ASSUME Typed, Typed', QueueAccounts, NEW k \in Keys, Enqueue(k), job' = job
  PROVE  QueueAccounts'
<1>1. CASE row[k] = "active"
  BY <1>1, AccountsFrame DEF Enqueue
<1>2. CASE row[k] # "active"
  <2>1. /\ row' = [row EXCEPT ![k] = "active"]
        /\ attempts' = [attempts EXCEPT ![k] = 0]
        /\ lease' = [w \in Workers |-> IF job[w] = k THEN "gone" ELSE lease[w]]
    BY <1>2 DEF Enqueue
  <2>2. \A i \in Keys : row'[i] = IF i = k THEN "active" ELSE row[i]
    BY <2>1 DEF Typed, QueueTyped
  <2>3. \A i \in Keys : attempts'[i] = IF i = k THEN 0 ELSE attempts[i]
    BY <2>1 DEF Typed, QueueTyped
  <2>4. \A w \in Workers : lease'[w] \in {"held", "lost"} => lease'[w] = lease[w] /\ job[w] # k /\ job[w] \in Keys
    BY <2>1, PipelineAssumption DEF Typed, LoopTyped
  <2>5. ClaimedRows'
    BY <2>2, <2>4 DEF ClaimedRows, QueueAccounts
  <2>6. BudgetLeft'
    BY <2>2, <2>3, PipelineAssumption DEF BudgetLeft, QueueAccounts
  <2>7. ASSUME NEW i \in Keys PROVE Overrun(i)'
    <3>1. attempts'[i] <= attempts[i]
      BY <2>3 DEF Typed, QueueTyped
    <3>2. Claims(i)' \subseteq Claims(i)
      BY <2>4 DEF Claims
    <3>3. QED
      BY <3>1, <3>2, OverrunKept DEF QueueAccounts, Typed
  <2>8. QED
    BY <2>5, <2>6, <2>7 DEF QueueAccounts
<1>3. QED
  BY <1>1, <1>2

LEMMA AccountsTake ==
  ASSUME Typed, Typed', QueueAccounts, NEW w \in Workers, NEW k \in Keys, Take(w, k)
  PROVE  QueueAccounts'
<1>1. /\ row' = row /\ attempts' = attempts /\ row[k] = "active"
      /\ \A v \in Workers : ~(job[v] = k /\ lease[v] = "held")
  BY DEF Take, LeaseRow, queueVars
<1>2. /\ job'[w] = k /\ lease'[w] = "held"
      /\ \A v \in Workers \ {w} : job'[v] = job[v] /\ lease'[v] = lease[v]
  BY DEF Take, LeaseRow, Typed, LoopTyped
<1>3. ClaimedRows'
  BY <1>1, <1>2 DEF ClaimedRows, QueueAccounts
<1>4. BudgetLeft'
  BY <1>1 DEF BudgetLeft, QueueAccounts
<1>5. ASSUME NEW i \in Keys PROVE Overrun(i)'
  <2>1. CASE i = k
    <3>1. attempts'[i] <= MaxAttempts
      BY <1>1, <2>1, PipelineAssumption DEF QueueAccounts, BudgetLeft, Typed, QueueTyped
    <3>2. QED
      BY <3>1, OverrunKept DEF QueueAccounts, Typed
  <2>2. CASE i # k
    <3>1. Claims(i)' \subseteq Claims(i)
      BY <1>2, <2>2 DEF Claims
    <3>2. attempts'[i] <= attempts[i]
      BY <1>1 DEF Typed, QueueTyped
    <3>3. QED
      BY <3>1, <3>2, OverrunKept DEF QueueAccounts, Typed
  <2>3. QED
    BY <2>1, <2>2
<1>6. QED
  BY <1>3, <1>4, <1>5 DEF QueueAccounts

\* A loop leaves its job; its claim is gone and nothing else changes.
LEMMA AccountsLeave ==
  ASSUME Typed, Typed', QueueAccounts, NEW w \in Workers, Idle(w), UNCHANGED <<row, attempts>>,
         lease' = [lease EXCEPT ![w] = "none"]
  PROVE  QueueAccounts'
<1>1. /\ lease'[w] = "none"
      /\ \A v \in Workers \ {w} : job'[v] = job[v] /\ lease'[v] = lease[v]
  BY DEF Idle, Leave, Typed, LoopTyped
<1>2. ClaimedRows'
  BY <1>1 DEF ClaimedRows, QueueAccounts
<1>3. BudgetLeft'
  BY DEF BudgetLeft, QueueAccounts
<1>4. ASSUME NEW i \in Keys PROVE Overrun(i)'
  <2>1. Claims(i)' \subseteq Claims(i)
    BY <1>1 DEF Claims
  <2>2. attempts'[i] <= attempts[i]
    BY DEF Typed, QueueTyped
  <2>3. QED
    BY <2>1, <2>2, OverrunKept DEF QueueAccounts, Typed
<1>5. QED
  BY <1>2, <1>3, <1>4 DEF QueueAccounts

LEMMA ChargeEffect ==
  ASSUME QueueTyped, NEW k \in Keys, Charge(k)
  PROVE  /\ attempts'[k] = attempts[k] + 1
         /\ row'[k] = IF attempts[k] + 1 >= MaxAttempts THEN "dead" ELSE row[k]
         /\ \A i \in Keys \ {k} : attempts'[i] = attempts[i] /\ row'[i] = row[i]
  BY DEF Charge, QueueTyped

LEMMA AccountsFail ==
  ASSUME Typed, Typed', QueueAccounts, NEW w \in Workers, pc[w] # "idle", Fail(w)
  PROVE  QueueAccounts'
<1>0. job[w] \in Keys /\ lease[w] \in {"held", "lost", "gone"} /\ Idle(w)
  BY BusyHasJob DEF Fail, Typed
<1>1. CASE lease[w] = "gone"
  BY <1>0, <1>1, AccountsLeave DEF Fail, FailRow, queueVars
<1>2. CASE lease[w] # "gone"
  <2> DEFINE k == job[w]
  <2>1. /\ Charge(k)
        /\ lease' = [v \in Workers |-> IF v = w THEN "none"
                                       ELSE IF job[v] = k /\ lease[v] = "held" THEN "lost"
                                       ELSE lease[v]]
    BY <1>2 DEF Fail, FailRow
  <2>2. /\ attempts'[k] = attempts[k] + 1
        /\ row'[k] = IF attempts[k] + 1 >= MaxAttempts THEN "dead" ELSE row[k]
        /\ \A i \in Keys \ {k} : attempts'[i] = attempts[i] /\ row'[i] = row[i]
    BY <1>0, <2>1, ChargeEffect DEF Typed
  <2>3. row[k] # "none" /\ w \in Claims(k)
    BY <1>0, <1>2 DEF QueueAccounts, ClaimedRows, Claims
  <2>4. lease'[w] = "none" /\ \A v \in Workers \ {w} : job'[v] = job[v]
    BY <1>0, <2>1 DEF Idle, Leave, Typed, LoopTyped
  <2>5. \A v \in Workers \ {w} : lease'[v] = IF job[v] = k /\ lease[v] = "held" THEN "lost" ELSE lease[v]
    BY <2>1
  <2>6. \A v \in Workers : lease[v] \in {"held", "lost"} => job[v] \in Keys
    BY PipelineAssumption DEF Typed, LoopTyped
  <2> HIDE DEF k
  <2>7. ClaimedRows'
    <3>1. ASSUME NEW v \in Workers, lease'[v] \in {"held", "lost"} PROVE row'[job'[v]] # "none"
      <4>1. v # w /\ lease[v] \in {"held", "lost"} /\ job'[v] = job[v] /\ job[v] \in Keys
        BY <2>4, <2>5, <2>6, <3>1
      <4>2. row[job[v]] # "none"
        BY <4>1 DEF QueueAccounts, ClaimedRows
      <4>3. QED
        BY <2>2, <4>1, <4>2
    <3>2. ASSUME NEW v \in Workers, lease'[v] = "held"
          PROVE  v # w /\ lease[v] = "held" /\ job'[v] = job[v] /\ row'[job'[v]] = "active"
      <4>1. v # w /\ lease[v] = "held" /\ job'[v] = job[v] /\ job[v] \in Keys /\ job[v] # k
        BY <2>4, <2>5, <2>6, <3>2
      <4>2. row[job[v]] = "active"
        BY <4>1 DEF QueueAccounts, ClaimedRows
      <4>3. QED
        BY <2>2, <4>1, <4>2
    <3>3. QED
      BY <3>1, <3>2 DEF QueueAccounts, ClaimedRows
  <2>8. BudgetLeft'
    <3>1. ASSUME NEW i \in Keys, row'[i] = "active" PROVE attempts'[i] < MaxAttempts
      <4>1. CASE i = k
        BY <2>2, <3>1, <4>1, PipelineAssumption DEF Typed, QueueTyped
      <4>2. CASE i # k
        BY <2>2, <3>1, <4>2 DEF QueueAccounts, BudgetLeft
      <4>3. QED
        BY <4>1, <4>2
    <3>2. QED
      BY <3>1 DEF BudgetLeft
  <2>9. ASSUME NEW i \in Keys PROVE Overrun(i)'
    <3>1. Claims(i)' \subseteq Claims(i) /\ w \notin Claims(i)'
      BY <2>4, <2>5 DEF Claims
    <3>2. CASE i = k
      BY <2>2, <2>3, <3>1, <3>2, OverrunKept DEF QueueAccounts, Typed
    <3>3. CASE i # k
      <4>1. attempts'[i] <= attempts[i]
        BY <2>2, <3>3 DEF Typed, QueueTyped
      <4>2. QED
        BY <3>1, <4>1, OverrunKept DEF QueueAccounts, Typed
    <3>4. QED
      BY <3>2, <3>3
  <2>10. QED
    BY <2>7, <2>8, <2>9 DEF QueueAccounts
<1>3. QED
  BY <1>1, <1>2

LEMMA AccountsComplete ==
  ASSUME Typed, Typed', QueueAccounts, NEW w \in Workers, Complete(w)
  PROVE  QueueAccounts'
<1>0. job[w] \in Keys /\ lease[w] \in {"held", "lost", "gone"} /\ Idle(w)
  BY BusyHasJob DEF Complete, Typed
<1>1. CASE lease[w] = "gone"
  BY <1>0, <1>1, AccountsLeave DEF Complete, DeleteRow, queueVars
<1>2. CASE lease[w] # "gone"
  <2> DEFINE k == job[w]
  <2>1. /\ row' = [row EXCEPT ![k] = "none"]
        /\ attempts' = [attempts EXCEPT ![k] = 0]
        /\ lease' = [v \in Workers |-> IF v = w THEN "none"
                                       ELSE IF job[v] = k THEN "gone" ELSE lease[v]]
    BY <1>2 DEF Complete, DeleteRow
  <2>2. \A i \in Keys : row'[i] = IF i = k THEN "none" ELSE row[i]
    BY <2>1 DEF Typed, QueueTyped
  <2>3. \A i \in Keys : attempts'[i] = IF i = k THEN 0 ELSE attempts[i]
    BY <2>1 DEF Typed, QueueTyped
  <2>4. \A v \in Workers : lease'[v] \in {"held", "lost"} =>
          v # w /\ lease'[v] = lease[v] /\ job'[v] = job[v] /\ job[v] # k /\ job[v] \in Keys
    BY <1>0, <2>1, PipelineAssumption DEF Idle, Leave, Typed, LoopTyped
  <2> HIDE DEF k
  <2>5. ClaimedRows'
    BY <2>2, <2>4 DEF ClaimedRows, QueueAccounts
  <2>6. BudgetLeft'
    BY <2>2, <2>3, PipelineAssumption DEF BudgetLeft, QueueAccounts
  <2>7. ASSUME NEW i \in Keys PROVE Overrun(i)'
    <3>1. attempts'[i] <= attempts[i]
      BY <2>3 DEF Typed, QueueTyped
    <3>2. Claims(i)' \subseteq Claims(i)
      BY <2>4 DEF Claims
    <3>3. QED
      BY <3>1, <3>2, OverrunKept DEF QueueAccounts, Typed
  <2>8. QED
    BY <2>5, <2>6, <2>7 DEF QueueAccounts
<1>3. QED
  BY <1>1, <1>2

LEMMA AccountsLoseLease ==
  ASSUME Typed, Typed', QueueAccounts, NEW w \in Workers, LoseLease(w)
  PROVE  QueueAccounts'
<1> DEFINE k == job[w]
<1>1. lease[w] = "held" /\ job' = job /\ (Charge(k) \/ UNCHANGED <<row, attempts>>)
  BY DEF LoseLease, LoseRow, queueVars
<1>2. \A v \in Workers : lease'[v] = IF v = w THEN "lost" ELSE lease[v]
  BY DEF LoseLease, LoseRow, Typed, LoopTyped
<1>3. \A v \in Workers : lease[v] \in {"held", "lost"} => job[v] \in Keys
  BY PipelineAssumption DEF Typed, LoopTyped
<1>4. k \in Keys /\ row[k] = "active" /\ attempts[k] < MaxAttempts
  BY <1>1, <1>3 DEF QueueAccounts, ClaimedRows, BudgetLeft
<1>5. \A v \in Workers \ {w} : lease[v] = "held" => job[v] # k
  BY <1>1 DEF QueueAccounts, ClaimedRows
<1>6. \A i \in Keys : Claims(i)' \subseteq Claims(i)
  BY <1>1, <1>2 DEF Claims
<1> HIDE DEF k
<1>7. CASE Charge(k)
  <2>1. /\ attempts'[k] = attempts[k] + 1
        /\ row'[k] = IF attempts[k] + 1 >= MaxAttempts THEN "dead" ELSE row[k]
        /\ \A i \in Keys \ {k} : attempts'[i] = attempts[i] /\ row'[i] = row[i]
    BY <1>4, <1>7, ChargeEffect DEF Typed
  <2>2. ClaimedRows'
    <3>1. \A i \in Keys : row[i] # "none" => row'[i] # "none"
      BY <2>1
    <3>2. \A v \in Workers : lease'[v] = "held" => lease[v] = "held" /\ job[v] \in Keys \ {k}
      BY <1>2, <1>3, <1>5
    <3>3. \A v \in Workers : lease'[v] \in {"held", "lost"} => lease[v] \in {"held", "lost"} /\ job[v] \in Keys
      BY <1>1, <1>2, <1>3
    <3>4. QED
      BY <1>1, <2>1, <3>1, <3>2, <3>3 DEF ClaimedRows, QueueAccounts
  <2>3. BudgetLeft'
    <3>1. ASSUME NEW i \in Keys, row'[i] = "active" PROVE attempts'[i] < MaxAttempts
      <4>1. CASE i = k
        BY <2>1, <3>1, <4>1, PipelineAssumption DEF Typed, QueueTyped
      <4>2. CASE i # k
        BY <2>1, <3>1, <4>2 DEF QueueAccounts, BudgetLeft
      <4>3. QED
        BY <4>1, <4>2
    <3>2. QED
      BY <3>1 DEF BudgetLeft
  <2>4. ASSUME NEW i \in Keys PROVE Overrun(i)'
    <3>1. CASE i = k
      <4>1. attempts'[i] <= MaxAttempts
        BY <1>4, <2>1, <3>1, PipelineAssumption DEF Typed, QueueTyped
      <4>2. QED
        BY <4>1, OverrunKept DEF QueueAccounts, Typed
    <3>2. CASE i # k
      <4>1. attempts'[i] <= attempts[i]
        BY <2>1, <3>2 DEF Typed, QueueTyped
      <4>2. QED
        BY <1>6, <4>1, OverrunKept DEF QueueAccounts, Typed
    <3>3. QED
      BY <3>1, <3>2
  <2>5. QED
    BY <2>2, <2>3, <2>4 DEF QueueAccounts
<1>8. CASE UNCHANGED <<row, attempts>>
  <2>1. ClaimedRows' /\ BudgetLeft'
    BY <1>1, <1>2, <1>8 DEF ClaimedRows, BudgetLeft, QueueAccounts
  <2>2. ASSUME NEW i \in Keys PROVE Overrun(i)'
    <3>1. attempts'[i] <= attempts[i]
      BY <1>8 DEF Typed, QueueTyped
    <3>2. QED
      BY <1>6, <3>1, OverrunKept DEF QueueAccounts, Typed
  <2>3. QED
    BY <2>1, <2>2 DEF QueueAccounts
<1>9. QED
  BY <1>1, <1>7, <1>8

\* What a step of the system does to the queue.
LEMMA QueueKinds ==
  ASSUME Typed, [Next]_vars
  PROVE  \/ UNCHANGED <<row, attempts, job, lease>>
         \/ \E k \in Keys : Enqueue(k) /\ job' = job
         \/ \E w \in Workers, k \in Keys : Take(w, k)
         \/ \E w \in Workers : \/ Complete(w) \/ LoseLease(w) \/ Crash(w)
                               \/ pc[w] # "idle" /\ Fail(w)
<1> DEFINE Goal == \/ UNCHANGED <<row, attempts, job, lease>>
                   \/ \E k \in Keys : Enqueue(k) /\ job' = job
                   \/ \E w \in Workers, k \in Keys : Take(w, k)
                   \/ \E w \in Workers : \/ Complete(w) \/ LoseLease(w) \/ Crash(w)
                                         \/ pc[w] # "idle" /\ Fail(w)
<1>1. CASE StoreEvent \/ ReceiverFails \/ \E m \in {"id", "url"} : MediaAppears(m)
  BY <1>1 DEF StoreEvent, ReceiverFails, MediaAppears, queueVars, loopVars
<1>2. CASE EnqueueEvent
  BY <1>2, KeysApart DEF EnqueueEvent
<1>3. CASE UNCHANGED vars
  BY <1>3 DEF vars, queueVars, loopVars
<1>4. ASSUME NEW w \in Workers, HandlerFails(w) PROVE Goal
  BY <1>4 DEF HandlerFails
<1>5. ASSUME NEW w \in Workers, Step(w) PROVE Goal
  <2>1. CASE ApplyRecordingEvent(w) \/ MarkProcessed(w) \/ UpsertAsset(w) \/ BeginUpload(w) \/ Upload(w)
    BY <2>1 DEF ApplyRecordingEvent, MarkProcessed, UpsertAsset, BeginUpload, Upload, queueVars
  <2>2. CASE InsertTranscription(w) \/ InsertSegments(w) \/ InsertNote(w) \/ CompleteMeeting(w) \/ VectorizeTranscript(w)
    BY <2>2 DEF InsertTranscription, InsertSegments, InsertNote, CompleteMeeting, VectorizeTranscript, queueVars
  <2>3. CASE ReadAsset(w)
    BY <2>3 DEF ReadAsset, queueVars
  <2>4. CASE RetrieveBot(w) \/ ReadStored(w)
    BY <2>4 DEF RetrieveBot, ReadStored, queueVars
  <2>5. CASE EnqueueFetch(w) \/ EnqueueStore(w) \/ EnqueueTranscribe(w)
    BY <2>5, KeysApart DEF EnqueueFetch, EnqueueStore, EnqueueTranscribe
  <2>6. CASE EnqueueNote(w) \/ EnqueueIndex(w)
    <3>1. at[w] \in Scripts
      BY <2>6 DEF EnqueueNote, EnqueueIndex, Typed, StepOfJob, OnJob
    <3>2. QED
      BY <2>6, <3>1, KeysApart DEF EnqueueNote, EnqueueIndex
  <2>7. QED
    BY <1>5, <2>1, <2>2, <2>3, <2>4, <2>5, <2>6 DEF Step
<1>6. QED
  BY <1>1, <1>2, <1>3, <1>4, <1>5 DEF Next

LEMMA NextAccounts == Typed /\ Typed' /\ QueueAccounts /\ [Next]_vars => QueueAccounts'
<1> SUFFICES ASSUME Typed, Typed', QueueAccounts, [Next]_vars PROVE QueueAccounts'
  OBVIOUS
<1>1. ASSUME NEW w \in Workers, Crash(w) PROVE QueueAccounts'
  BY <1>1, AccountsLeave DEF Crash, queueVars
<1>2. QED
  BY <1>1, QueueKinds, AccountsFrame, AccountsEnqueue, AccountsTake, AccountsComplete,
     AccountsLoseLease, AccountsFail

LEMMA InitAccounts == Init => QueueAccounts
<1> SUFFICES ASSUME Init PROVE QueueAccounts
  OBVIOUS
<1>1. ClaimedRows /\ BudgetLeft
  BY PipelineAssumption DEF Init, ClaimedRows, BudgetLeft
<1>2. ASSUME NEW k \in Keys PROVE Overrun(k)
  <2>1. attempts[k] = 0
    BY DEF Init
  <2>2. QED
    BY <2>1, ClaimsFinite, PipelineAssumption DEF Overrun
<1>3. QED
  BY <1>1, <1>2 DEF QueueAccounts

LEMMA AccountsBound == Typed /\ QueueAccounts => TypeOK
<1> SUFFICES ASSUME Typed, QueueAccounts PROVE TypeOK
  OBVIOUS
<1>1. ASSUME NEW k \in Keys PROVE attempts[k] <= MaxAttempts + Cardinality(Workers)
  BY ClaimsFinite, PipelineAssumption DEF Typed, QueueTyped, QueueAccounts, Overrun
<1>2. QED
  BY <1>1 DEF TypeOK, Typed

\* Every reachable state of the pipeline is typed, a loop claims a row exactly while it runs a job,
\* and failure reports of loops that lost their lease overrun the attempt limit of a row by at most
\* one each.
THEOREM PipelineTyped == Safety => []TypeOK
<1>1. Init => Typed /\ QueueAccounts
  BY InitTyped, InitAccounts
<1>2. Typed /\ QueueAccounts /\ [Next]_vars => Typed' /\ QueueAccounts'
  BY NextTyped, NextAccounts
<1>3. QED
  BY <1>1, <1>2, AccountsBound, PTL DEF Safety

-------------------------------------------------------------------------------
(* How rows come and go. *)

LEMMA EnqueuedRow ==
  ASSUME Typed, NEW k \in Keys, Enqueue(k)
  PROVE  /\ row'[k] = "active"
         /\ \A i \in Keys : i # k => row'[i] = row[i]
<1>1. CASE row[k] = "active"
  BY <1>1 DEF Enqueue, Typed, QueueTyped
<1>2. CASE row[k] # "active"
  BY <1>2 DEF Enqueue, Typed, QueueTyped
<1>3. QED
  BY <1>1, <1>2

LEMMA FailedRows ==
  ASSUME Typed, QueueAccounts, NEW w \in Workers, pc[w] # "idle", Fail(w)
  PROVE  \A i \in Keys : row'[i] = "none" <=> row[i] = "none"
<1>1. job[w] \in Keys /\ lease[w] \in {"held", "lost", "gone"}
  BY BusyHasJob DEF Typed
<1>2. CASE lease[w] = "gone"
  BY <1>2 DEF Fail, FailRow, queueVars
<1>3. CASE lease[w] # "gone"
  <2>1. Charge(job[w]) /\ row[job[w]] # "none"
    BY <1>1, <1>3 DEF Fail, FailRow, QueueAccounts, ClaimedRows
  <2>2. QED
    BY <1>1, <2>1, ChargeEffect DEF Typed
<1>4. QED
  BY <1>2, <1>3

LEMMA LostRows ==
  ASSUME Typed, QueueAccounts, NEW w \in Workers, LoseLease(w)
  PROVE  \A i \in Keys : row'[i] = "none" <=> row[i] = "none"
<1>1. job[w] \in Keys /\ row[job[w]] # "none"
  BY PipelineAssumption DEF LoseLease, LoseRow, Typed, LoopTyped, QueueAccounts, ClaimedRows
<1>2. CASE Charge(job[w])
  BY <1>1, <1>2, ChargeEffect DEF Typed
<1>3. CASE UNCHANGED queueVars
  BY <1>3 DEF queueVars
<1>4. QED
  BY <1>2, <1>3 DEF LoseLease, LoseRow

LEMMA CompletedRows ==
  ASSUME Typed, NEW w \in Workers, Complete(w)
  PROVE  \A i \in Keys : row'[i] # row[i] => i = job[w] /\ row'[i] = "none"
<1>1. job[w] \in Keys
  BY BusyHasJob DEF Complete, Typed
<1>2. QED
  BY <1>1 DEF Complete, DeleteRow, queueVars, Typed, QueueTyped

-------------------------------------------------------------------------------
(* Notes and index come from whole transcriptions. *)

AtScript == {"insert_segments", "script_note", "script_index", "note", "note_meeting", "index"}

OthersKept(w) == \A v \in Workers \ {w} : pc'[v] = pc[v] /\ job'[v] = job[v] /\ at'[v] = at[v]

WholeInvariant == WorksOnWhole /\ DerivedFromWholeTranscript

LEMMA GoToOthers ==
  ASSUME Typed, NEW w \in Workers, NEW s, GoTo(w, s), job' = job, at' = at
  PROVE  OthersKept(w) /\ pc'[w] = s /\ at'[w] = at[w] /\ job'[w] = job[w]
  BY DEF GoTo, OthersKept, Typed, LoopTyped

LEMMA IdleOthers ==
  ASSUME Typed, NEW w \in Workers, Idle(w)
  PROVE  OthersKept(w) /\ pc'[w] = "idle" /\ job'[w] = NoJob
  BY DEF Idle, Leave, OthersKept, Typed, LoopTyped

\* A step that leaves the transcriptions and what was made of them alone.
LEMMA PlainMove ==
  ASSUME Typed, WholeInvariant, NEW w \in Workers, OthersKept(w),
         UNCHANGED <<scripts, notes, indexed>>,
         \A i \in Keys : row'[i] # "none" => row[i] # "none" \/ i \in {Process, Fetch, Store, Transcribe},
         pc'[w] \notin AtScript
  PROVE  WholeInvariant'
<1>1. \A t \in Scripts : /\ row'[Note(t)] # "none" => row[Note(t)] # "none"
                         /\ row'[Index(t)] # "none" => row[Index(t)] # "none"
  BY KeysApart
<1>2. DerivedFromWholeTranscript'
  BY <1>1 DEF WholeInvariant, DerivedFromWholeTranscript, Whole
<1>3. OnWhole(w)'
  BY DEF OnWhole, AtScript
<1>4. WorksOnWhole'
  BY <1>3 DEF WholeInvariant, WorksOnWhole, OnWhole, OthersKept, Whole
<1>5. QED
  BY <1>2, <1>4 DEF WholeInvariant

\* A handler fails, whoever holds the row by now.
LEMMA FailWhole ==
  ASSUME Typed, QueueAccounts, WholeInvariant, NEW w \in Workers, pc[w] # "idle", Fail(w),
         UNCHANGED <<scripts, notes, indexed>>
  PROVE  WholeInvariant'
<1>1. OthersKept(w) /\ pc'[w] = "idle"
  BY IdleOthers DEF Fail
<1>2. QED
  BY <1>1, FailedRows, PlainMove DEF AtScript

LEMMA StepWhole ==
  ASSUME Typed, QueueAccounts, WholeInvariant, NEW w \in Workers, Step(w)
  PROVE  WholeInvariant'
<1>1. ASSUME NEW s \in Steps \ AtScript, GoTo(w, s), UNCHANGED <<row, job, at, scripts, notes, indexed>>
      PROVE  WholeInvariant'
  BY <1>1, GoToOthers, PlainMove
<1>2. ASSUME NEW s \in Steps \ AtScript, GoTo(w, s), UNCHANGED <<job, at, scripts, notes, indexed>>,
             NEW k \in {Process, Fetch, Store, Transcribe}, Enqueue(k)
      PROVE  WholeInvariant'
  <2>1. \A i \in Keys : row'[i] # "none" => row[i] # "none" \/ i \in {Process, Fetch, Store, Transcribe}
    BY <1>2, EnqueuedRow, KeysApart
  <2>2. QED
    BY <1>2, <2>1, GoToOthers, PlainMove
<1>3. CASE Complete(w)
  <2>1. OthersKept(w) /\ pc'[w] = "idle"
    BY <1>3, IdleOthers DEF Complete
  <2>2. QED
    BY <1>3, <2>1, CompletedRows, PlainMove DEF Complete, dataVars, AtScript
<1>4. CASE ApplyRecordingEvent(w) \/ MarkProcessed(w) \/ UpsertAsset(w) \/ BeginUpload(w) \/ Upload(w)
  BY <1>1, <1>4 DEF ApplyRecordingEvent, MarkProcessed, UpsertAsset, BeginUpload, Upload, queueVars,
                    dataVars, Steps, AtScript
<1>5. CASE CompleteMeeting(w)
  BY <1>1, <1>5 DEF CompleteMeeting, queueVars, Steps, AtScript
<1>6. CASE ReadAsset(w)
  BY <1>1, <1>6 DEF ReadAsset, queueVars, dataVars, Steps, AtScript
<1>7. CASE EnqueueFetch(w)
  BY <1>2, <1>7 DEF EnqueueFetch, dataVars, Steps, AtScript
<1>8. CASE EnqueueStore(w)
  BY <1>2, <1>8 DEF EnqueueStore, dataVars, Steps, AtScript
<1>9. CASE EnqueueTranscribe(w)
  BY <1>2, <1>9 DEF EnqueueTranscribe, dataVars, Steps, AtScript
<1>10. CASE RetrieveBot(w)
  <2>1. CASE media = "none" /\ Fail(w)
    BY <1>10, <2>1, FailWhole DEF RetrieveBot, dataVars
  <2>2. CASE media = "id"
    BY <1>1, <1>10, <2>2 DEF RetrieveBot, queueVars, Steps, AtScript
  <2>3. CASE media = "url"
    BY <1>1, <1>10, <2>3 DEF RetrieveBot, queueVars, dataVars, Steps, AtScript
  <2>4. QED
    BY <1>10, <2>1, <2>2, <2>3 DEF RetrieveBot
<1>11. CASE ReadStored(w)
  <2>1. CASE asset # "stored" /\ Fail(w)
    BY <1>11, <2>1, FailWhole DEF ReadStored, dataVars
  <2>2. CASE asset = "stored" /\ tiny
    BY <1>1, <1>11, <2>2 DEF ReadStored, queueVars, Steps, AtScript
  <2>3. CASE asset = "stored" /\ ~tiny
    BY <1>1, <1>11, <2>3 DEF ReadStored, queueVars, dataVars, Steps, AtScript
  <2>4. QED
    BY <1>11, <2>1, <2>2, <2>3 DEF ReadStored
<1>12. CASE InsertTranscription(w)
  <2>1. scripts' = Append(scripts, "part") /\ scripts \in Seq({"part", "whole"}) /\ Len(scripts) \in Nat
    BY <1>12 DEF InsertTranscription, Typed, DataTyped
  <2>2. Len(scripts') = Len(scripts) + 1 /\ \A t \in 1..Len(scripts) : scripts'[t] = scripts[t]
    BY <2>1
  <2>3. \A t \in Scripts : Whole(t) => Whole(t)'
    BY <2>1, <2>2, PipelineAssumption DEF Whole, Scripts
  <2>4. /\ OthersKept(w) /\ pc'[w] = "insert_segments" /\ at'[w] = Len(scripts) + 1
        /\ UNCHANGED <<row, notes, indexed>>
    BY <1>12 DEF InsertTranscription, GoTo, OthersKept, queueVars, Typed, LoopTyped
  <2>5. OnWhole(w)'
    BY <2>1, <2>2, <2>4 DEF OnWhole
  <2>6. ASSUME NEW v \in Workers \ {w} PROVE OnWhole(v)'
    <3>1. OnWhole(v) /\ pc'[v] = pc[v] /\ at'[v] = at[v] /\ at[v] \in 0..MaxScripts
      BY <2>4 DEF OthersKept, WholeInvariant, WorksOnWhole, Typed, LoopTyped
    <3>2. pc[v] \in AtScript => at[v] \in Scripts
      BY DEF Typed, StepOfJob, OnJob, AtScript
    <3>3. at[v] <= Len(scripts) => at[v] <= Len(scripts')
      BY <2>1, <2>2, <3>1, PipelineAssumption
    <3>4. QED
      BY <2>3, <3>1, <3>2, <3>3 DEF OnWhole, AtScript, Whole
  <2>7. DerivedFromWholeTranscript'
    BY <2>3, <2>4 DEF WholeInvariant, DerivedFromWholeTranscript
  <2>8. QED
    BY <2>5, <2>6, <2>7 DEF WholeInvariant, WorksOnWhole
<1>13. CASE InsertSegments(w)
  <2>1. /\ scripts' = [scripts EXCEPT ![at[w]] = "whole"] /\ pc[w] = "insert_segments"
        /\ GoTo(w, "script_note") /\ UNCHANGED <<row, job, at, notes, indexed>>
    BY <1>13 DEF InsertSegments, queueVars
  <2>2. scripts \in Seq({"part", "whole"}) /\ Len(scripts') = Len(scripts) /\ Len(scripts) \in Nat
    BY <2>1, SegmentsTyped DEF Typed, DataTyped
  <2>3. at[w] \in Scripts /\ at[w] <= Len(scripts)
    BY <2>1 DEF WholeInvariant, WorksOnWhole, OnWhole, Typed, StepOfJob, OnJob
  <2>4. Whole(at[w])' /\ \A t \in Scripts : Whole(t) => Whole(t)'
    BY <2>1, <2>2, <2>3, PipelineAssumption DEF Whole, Scripts
  <2>5. OthersKept(w) /\ pc'[w] = "script_note" /\ at'[w] = at[w]
    BY <2>1, GoToOthers
  <2>6. OnWhole(w)'
    BY <2>4, <2>5 DEF OnWhole, Whole
  <2>7. ASSUME NEW v \in Workers \ {w} PROVE OnWhole(v)'
    <3>1. OnWhole(v) /\ pc'[v] = pc[v] /\ at'[v] = at[v]
      BY <2>5 DEF OthersKept, WholeInvariant, WorksOnWhole
    <3>2. pc[v] \in AtScript => at[v] \in Scripts
      BY DEF Typed, StepOfJob, OnJob, AtScript
    <3>3. QED
      BY <2>2, <2>4, <3>1, <3>2 DEF OnWhole, AtScript, Whole
  <2>8. DerivedFromWholeTranscript'
    BY <2>1, <2>4 DEF WholeInvariant, DerivedFromWholeTranscript
  <2>9. QED
    BY <2>6, <2>7, <2>8 DEF WholeInvariant, WorksOnWhole
<1>14. ASSUME NEW k \in {Note(at[w]), Index(at[w])}, Enqueue(k), NEW s \in {"script_index", "done"}, GoTo(w, s),
              pc[w] \in {"script_note", "script_index"}, UNCHANGED <<job, at, scripts, notes, indexed>>
       PROVE  WholeInvariant'
  <2>1. at[w] \in Scripts /\ Whole(at[w])
    BY <1>14 DEF WholeInvariant, WorksOnWhole, OnWhole, Typed, StepOfJob, OnJob
  <2>2. k \in Keys
    BY <1>14, <2>1, KeysApart
  <2>3. \A i \in Keys : i # k => row'[i] = row[i]
    BY <1>14, <2>2, EnqueuedRow
  <2>4. \A t \in Scripts : /\ row'[Note(t)] # "none" => row[Note(t)] # "none" \/ t = at[w]
                           /\ row'[Index(t)] # "none" => row[Index(t)] # "none" \/ t = at[w]
    BY <1>14, <2>3, KeysApart
  <2>5. DerivedFromWholeTranscript'
    BY <1>14, <2>1, <2>4 DEF WholeInvariant, DerivedFromWholeTranscript, Whole
  <2>6. OthersKept(w) /\ pc'[w] = s /\ at'[w] = at[w]
    BY <1>14, GoToOthers
  <2>7. OnWhole(w)'
    BY <1>14, <2>1, <2>6 DEF OnWhole, Whole
  <2>8. WorksOnWhole'
    BY <1>14, <2>6, <2>7 DEF WholeInvariant, WorksOnWhole, OnWhole, OthersKept, Whole
  <2>9. QED
    BY <2>5, <2>8 DEF WholeInvariant
<1>15. CASE EnqueueNote(w)
  BY <1>14, <1>15 DEF EnqueueNote, dataVars
<1>16. CASE EnqueueIndex(w)
  BY <1>14, <1>16 DEF EnqueueIndex, dataVars
<1>17. CASE InsertNote(w) \/ VectorizeTranscript(w)
  <2>1. at[w] \in Scripts /\ Whole(at[w])
    BY <1>17 DEF InsertNote, VectorizeTranscript, WholeInvariant, WorksOnWhole, OnWhole, Typed, StepOfJob, OnJob
  <2>2. /\ notes' \subseteq notes \cup {at[w]} /\ indexed' \subseteq indexed \cup {at[w]}
        /\ UNCHANGED <<row, scripts, job, at>>
    BY <1>17 DEF InsertNote, VectorizeTranscript, queueVars
  <2>3. PICK s \in {"note_meeting", "done"} : GoTo(w, s)
    BY <1>17 DEF InsertNote, VectorizeTranscript
  <2>4. DerivedFromWholeTranscript'
    BY <2>1, <2>2 DEF WholeInvariant, DerivedFromWholeTranscript, Whole
  <2>5. OthersKept(w) /\ pc'[w] = s /\ at'[w] = at[w]
    BY <2>2, <2>3, GoToOthers
  <2>6. OnWhole(w)'
    BY <2>1, <2>2, <2>3, <2>5 DEF OnWhole, Whole
  <2>7. WorksOnWhole'
    BY <2>2, <2>5, <2>6 DEF WholeInvariant, WorksOnWhole, OnWhole, OthersKept, Whole
  <2>8. QED
    BY <2>4, <2>7 DEF WholeInvariant
<1>18. QED
  BY <1>3, <1>4, <1>5, <1>6, <1>7, <1>8, <1>9, <1>10, <1>11, <1>12, <1>13, <1>15, <1>16, <1>17 DEF Step

LEMMA NextWhole == Typed /\ QueueAccounts /\ WholeInvariant /\ [Next]_vars => WholeInvariant'
<1> SUFFICES ASSUME Typed, QueueAccounts, WholeInvariant, [Next]_vars PROVE WholeInvariant'
  OBVIOUS
<1>1. ASSUME UNCHANGED <<scripts, notes, indexed, pc, at>>,
             \A i \in Keys : row'[i] # "none" => row[i] # "none" \/ i \in {Process, Fetch, Store, Transcribe}
      PROVE  WholeInvariant'
  <2>1. WorksOnWhole'
    BY <1>1 DEF WholeInvariant, WorksOnWhole, OnWhole, Whole
  <2>2. DerivedFromWholeTranscript'
    BY <1>1, KeysApart DEF WholeInvariant, DerivedFromWholeTranscript, Whole
  <2>3. QED
    BY <2>1, <2>2 DEF WholeInvariant
<1>2. CASE StoreEvent \/ ReceiverFails \/ \E m \in {"id", "url"} : MediaAppears(m)
  BY <1>1, <1>2 DEF StoreEvent, ReceiverFails, MediaAppears, queueVars, dataVars, loopVars
<1>3. CASE EnqueueEvent
  <2>1. \A i \in Keys : row'[i] # "none" => row[i] # "none" \/ i \in {Process, Fetch, Store, Transcribe}
    BY <1>3, EnqueuedRow, KeysApart DEF EnqueueEvent
  <2>2. QED
    BY <1>1, <1>3, <2>1 DEF EnqueueEvent, dataVars
<1>4. ASSUME NEW w \in Workers, NEW k \in Keys, Take(w, k) PROVE WholeInvariant'
  <2>1. /\ OthersKept(w) /\ pc'[w] = k[1] /\ at'[w] = k[2] /\ row[k] = "active"
        /\ UNCHANGED <<row, scripts, notes, indexed>>
    BY <1>4 DEF Take, LeaseRow, OthersKept, Typed, LoopTyped, queueVars, dataVars
  <2>2. CASE k \in {Process, Fetch, Store, Transcribe}
    <3>1. pc'[w] \notin AtScript
      BY <2>1, <2>2, KeyParts DEF AtScript
    <3>2. QED
      BY <2>1, <3>1, PlainMove
  <2>3. ASSUME NEW t \in Scripts, k = Note(t) \/ k = Index(t) PROVE WholeInvariant'
    <3>1. Whole(t)
      BY <2>1, <2>3 DEF WholeInvariant, DerivedFromWholeTranscript
    <3>2. OnWhole(w)'
      BY <2>1, <2>3, <3>1, KeyParts DEF OnWhole, Whole
    <3>3. WorksOnWhole'
      BY <2>1, <3>2 DEF WholeInvariant, WorksOnWhole, OnWhole, OthersKept, Whole
    <3>4. DerivedFromWholeTranscript'
      BY <2>1 DEF WholeInvariant, DerivedFromWholeTranscript, Whole
    <3>5. QED
      BY <3>3, <3>4 DEF WholeInvariant
  <2>4. QED
    BY <2>2, <2>3, KeyCases
<1>5. ASSUME NEW w \in Workers, Step(w) PROVE WholeInvariant'
  BY <1>5, StepWhole
<1>6. ASSUME NEW w \in Workers, HandlerFails(w) PROVE WholeInvariant'
  BY <1>6, FailWhole DEF HandlerFails
<1>7. ASSUME NEW w \in Workers, Crash(w) PROVE WholeInvariant'
  <2>1. OthersKept(w) /\ pc'[w] = "idle"
    BY <1>7, IdleOthers DEF Crash
  <2>2. QED
    BY <1>7, <2>1, PlainMove DEF Crash, queueVars, dataVars, AtScript
<1>8. ASSUME NEW w \in Workers, LoseLease(w) PROVE WholeInvariant'
  BY <1>1, <1>8, LostRows DEF LoseLease, dataVars
<1>9. CASE UNCHANGED vars
  BY <1>1, <1>9 DEF vars, queueVars, dataVars, loopVars
<1>10. QED
  BY <1>2, <1>3, <1>4, <1>5, <1>6, <1>7, <1>8, <1>9 DEF Next

\* replace_transcription, generate_note, vectorize_transcript: every note, every indexed transcript
\* and every job queued to make one belongs to a transcription whose segments are all stored, for
\* any number of loops that run the handlers twice, die in them or lose their lease.
THEOREM NotesFromWholeTranscripts == Safety => []DerivedFromWholeTranscript
<1>1. Init => Typed /\ QueueAccounts /\ WholeInvariant
  <2>1. ASSUME Init PROVE WorksOnWhole /\ DerivedFromWholeTranscript
    BY <2>1, KeysApart DEF Init, WorksOnWhole, OnWhole, DerivedFromWholeTranscript
  <2>2. QED
    BY <2>1, InitTyped, InitAccounts DEF WholeInvariant
<1>2. Typed /\ QueueAccounts /\ WholeInvariant /\ [Next]_vars => Typed' /\ QueueAccounts' /\ WholeInvariant'
  BY NextTyped, NextAccounts, NextWhole
<1>3. WholeInvariant => DerivedFromWholeTranscript
  BY DEF WholeInvariant
<1>4. QED
  BY <1>1, <1>2, <1>3, PTL DEF Safety

-------------------------------------------------------------------------------
(* The chain of jobs. *)

\* No stage of the chain is lost: what was at a stage or past it still is.
Kept ==
    /\ AtProcess => AtProcess'
    /\ AtFetch => AtFetch'
    /\ AtStore => AtStore'
    /\ AtTranscribe => AtTranscribe'
    /\ PastTranscribe => PastTranscribe'
    /\ notes # {} => notes' # {}

\* The job of key k has handed its work to the next stage.
PassedOn(k) ==
    /\ k = Process => AtFetch
    /\ k = Fetch => AtStore
    /\ k = Store => AtTranscribe
    /\ k = Transcribe => PastTranscribe
    /\ \A t \in Scripts : k = Note(t) => notes # {}

LEMMA StagesKept ==
  ASSUME \A i \in Keys : row[i] # "none" => row'[i] # "none", notes \subseteq notes', ended \subseteq ended'
  PROVE  Kept
<1>1. PastTranscribe => PastTranscribe'
  BY KeysApart DEF PastTranscribe
<1>2. QED
  BY <1>1, KeysApart DEF Kept, AtProcess, AtFetch, AtStore, AtTranscribe

LEMMA EnqueueKeeps ==
  ASSUME Typed, NEW k \in Keys, Enqueue(k), UNCHANGED <<notes, ended>>
  PROVE  Kept /\ row'[k] # "none"
  BY EnqueuedRow, StagesKept

\* A row goes when its handler is done, and then the next stage has the work.
LEMMA CompleteKeeps ==
  ASSUME Typed, HandsOver, NEW w \in Workers, Complete(w)
  PROVE  Kept
<1>1. PassedOn(job[w]) /\ UNCHANGED <<notes, ended>> /\ job[w] \in Keys
  BY BusyHasJob DEF Complete, HandsOver, HandedOver, PassedOn, dataVars, Typed
<1>2. \A i \in Keys \ {job[w]} : row'[i] = row[i]
  BY CompletedRows
<1>3. PastTranscribe => PastTranscribe'
  <2>1. ASSUME NEW t \in Scripts, row[Note(t)] # "none" PROVE PastTranscribe'
    <3>1. CASE job[w] = Note(t)
      BY <1>1, <3>1 DEF PassedOn, PastTranscribe
    <3>2. CASE job[w] # Note(t)
      BY <1>2, <2>1, <3>2, KeysApart DEF PastTranscribe
    <3>3. QED
      BY <3>1, <3>2
  <2>2. QED
    BY <1>1, <2>1 DEF PastTranscribe
<1>4. AtTranscribe => AtTranscribe'
  BY <1>1, <1>2, <1>3, KeysApart DEF AtTranscribe, PassedOn
<1>5. AtStore => AtStore'
  BY <1>1, <1>2, <1>4, KeysApart DEF AtStore, PassedOn
<1>6. AtFetch => AtFetch'
  BY <1>1, <1>2, <1>5, KeysApart DEF AtFetch, PassedOn
<1>7. AtProcess => AtProcess'
  BY <1>1, <1>2, <1>6, KeysApart DEF AtProcess, PassedOn
<1>8. QED
  BY <1>1, <1>3, <1>4, <1>5, <1>6, <1>7 DEF Kept

\* What a loop has handed over stays handed over while it does not move.
LEMMA StillHandedOver ==
  ASSUME Kept, NEW v \in Workers, HandedOver(v), pc'[v] = pc[v], job'[v] = job[v]
  PROVE  HandedOver(v)'
  BY DEF Kept, HandedOver

\* One loop moves.
LEMMA OneHandsOver ==
  ASSUME HandsOver, Kept, NEW w \in Workers, OthersKept(w), HandedOver(w)',
         recording' => recording \/ AtProcess'
  PROVE  HandsOver'
<1>1. ASSUME NEW v \in Workers \ {w} PROVE HandedOver(v)'
  BY <1>1, StillHandedOver DEF OthersKept, HandsOver
<1>2. QED
  BY <1>1 DEF HandsOver, Kept

\* A loop goes on in its handler, or ends it having passed the work on.
LEMMA MoveHandsOver ==
  ASSUME Typed, HandsOver, Kept, NEW w \in Workers, NEW s, GoTo(w, s), UNCHANGED <<job, at>>,
         s = "process_mark" => AtFetch',
         s = "script_index" => PastTranscribe',
         s = "note_meeting" => notes' # {},
         s = "done" => PassedOn(job[w])',
         recording' => recording \/ job[w] = Process
  PROVE  HandsOver'
<1>1. OthersKept(w) /\ pc'[w] = s /\ job'[w] = job[w]
  BY GoToOthers
<1>2. job[w] = Process => AtProcess'
  BY DEF HandsOver, HandedOver, Kept
<1>3. HandedOver(w)'
  BY <1>1, <1>2 DEF HandedOver, PassedOn
<1>4. QED
  BY <1>1, <1>2, <1>3, OneHandsOver

\* A loop gives its job up.
LEMMA IdleHandsOver ==
  ASSUME Typed, HandsOver, Kept, NEW w \in Workers, Idle(w), UNCHANGED recording
  PROVE  HandsOver'
<1>1. OthersKept(w) /\ pc'[w] = "idle" /\ job'[w] = NoJob
  BY IdleOthers
<1>2. HandedOver(w)'
  BY <1>1, KeysApart, PipelineAssumption DEF HandedOver
<1>3. QED
  BY <1>1, <1>2, OneHandsOver

LEMMA FailHandsOver ==
  ASSUME Typed, QueueAccounts, HandsOver, NEW w \in Workers, pc[w] # "idle", Fail(w),
         UNCHANGED <<notes, ended, recording>>
  PROVE  HandsOver'
<1>1. Kept
  BY FailedRows, StagesKept
<1>2. QED
  BY <1>1, IdleHandsOver DEF Fail

LEMMA StepHandsOver ==
  ASSUME Typed, QueueAccounts, HandsOver, NEW w \in Workers, Step(w)
  PROVE  HandsOver'
<1>1. ASSUME NEW s \in Steps \ {"process_mark", "script_index", "note_meeting", "done"}, GoTo(w, s),
             UNCHANGED <<row, job, at, notes, ended>>, recording' => recording \/ job[w] = Process
      PROVE  HandsOver'
  <2>1. Kept
    BY <1>1, StagesKept
  <2>2. QED
    BY <1>1, <2>1, MoveHandsOver
<1>2. CASE Complete(w)
  BY <1>2, CompleteKeeps, IdleHandsOver DEF Complete, dataVars
<1>3. CASE ApplyRecordingEvent(w)
  BY <1>1, <1>3 DEF ApplyRecordingEvent, queueVars, Steps, Typed, StepOfJob, OnJob
<1>4. CASE UpsertAsset(w) \/ BeginUpload(w) \/ Upload(w)
  BY <1>1, <1>4 DEF UpsertAsset, BeginUpload, Upload, queueVars, Steps
<1>5. CASE ReadAsset(w)
  BY <1>1, <1>5 DEF ReadAsset, queueVars, dataVars, Steps
<1>6. CASE InsertSegments(w)
  BY <1>1, <1>6 DEF InsertSegments, queueVars, Steps
<1>7. CASE InsertTranscription(w)
  <2>1. Kept /\ UNCHANGED recording
    BY <1>7, StagesKept DEF InsertTranscription, queueVars
  <2>2. OthersKept(w) /\ pc'[w] = "insert_segments" /\ job' = job
    BY <1>7 DEF InsertTranscription, GoTo, OthersKept, Typed, LoopTyped
  <2>3. job'[w] = Process => AtProcess'
    BY <2>1, <2>2 DEF HandsOver, HandedOver, Kept
  <2>4. HandedOver(w)'
    BY <2>2, <2>3 DEF HandedOver
  <2>5. QED
    BY <2>1, <2>2, <2>4, OneHandsOver
<1>8. CASE EnqueueFetch(w)
  <2>1. Kept /\ row'[Fetch] # "none" /\ UNCHANGED recording
    BY <1>8, EnqueueKeeps, KeysApart DEF EnqueueFetch, dataVars
  <2>2. AtFetch'
    BY <2>1 DEF AtFetch
  <2>3. QED
    BY <1>8, <2>1, <2>2, MoveHandsOver DEF EnqueueFetch
<1>9. CASE MarkProcessed(w)
  <2>1. Kept /\ UNCHANGED recording
    BY <1>9, StagesKept DEF MarkProcessed, queueVars, dataVars
  <2>2. job[w] = Process /\ AtFetch'
    BY <1>9, <2>1 DEF MarkProcessed, HandsOver, HandedOver, Kept, Typed, StepOfJob, OnJob
  <2>3. PassedOn(job[w])'
    BY <1>9, <2>2, KeysApart DEF MarkProcessed, PassedOn
  <2>4. QED
    BY <1>9, <2>1, <2>3, MoveHandsOver DEF MarkProcessed
<1>10. CASE RetrieveBot(w)
  <2>1. CASE media = "none" /\ Fail(w)
    BY <1>10, <2>1, FailHandsOver DEF RetrieveBot, dataVars
  <2>2. CASE media = "id"
    <3>1. Kept /\ "no_url" \in ended' /\ UNCHANGED <<recording, job, at>> /\ GoTo(w, "done")
      BY <1>10, <2>2, StagesKept DEF RetrieveBot, queueVars
    <3>2. PassedOn(job[w])'
      BY <1>10, <3>1, KeysApart
         DEF RetrieveBot, PassedOn, AtStore, AtTranscribe, PastTranscribe, Typed, StepOfJob, OnJob
    <3>3. QED
      BY <3>1, <3>2, MoveHandsOver
  <2>3. CASE media = "url"
    BY <1>1, <1>10, <2>3 DEF RetrieveBot, queueVars, dataVars, Steps
  <2>4. QED
    BY <1>10, <2>1, <2>2, <2>3 DEF RetrieveBot
<1>11. CASE EnqueueStore(w)
  <2>1. Kept /\ row'[Store] # "none" /\ UNCHANGED recording
    BY <1>11, EnqueueKeeps, KeysApart DEF EnqueueStore, dataVars
  <2>2. PassedOn(job[w])'
    BY <1>11, <2>1, KeysApart DEF EnqueueStore, PassedOn, AtStore, Typed, StepOfJob, OnJob
  <2>3. QED
    BY <1>11, <2>1, <2>2, MoveHandsOver DEF EnqueueStore
<1>12. CASE EnqueueTranscribe(w)
  <2>1. Kept /\ row'[Transcribe] # "none" /\ UNCHANGED recording
    BY <1>12, EnqueueKeeps, KeysApart DEF EnqueueTranscribe, dataVars
  <2>2. PassedOn(job[w])'
    BY <1>12, <2>1, KeysApart DEF EnqueueTranscribe, PassedOn, AtTranscribe, Typed, StepOfJob, OnJob
  <2>3. QED
    BY <1>12, <2>1, <2>2, MoveHandsOver DEF EnqueueTranscribe
<1>13. CASE ReadStored(w)
  <2>1. CASE asset # "stored" /\ Fail(w)
    BY <1>13, <2>1, FailHandsOver DEF ReadStored, dataVars
  <2>2. CASE asset = "stored" /\ tiny
    <3>1. Kept /\ "too_small" \in ended' /\ UNCHANGED <<recording, job, at>> /\ GoTo(w, "done")
      BY <1>13, <2>2, StagesKept DEF ReadStored, queueVars
    <3>2. PassedOn(job[w])'
      BY <1>13, <3>1, KeysApart DEF ReadStored, PassedOn, PastTranscribe, Typed, StepOfJob, OnJob
    <3>3. QED
      BY <3>1, <3>2, MoveHandsOver
  <2>3. CASE asset = "stored" /\ ~tiny
    BY <1>1, <1>13, <2>3 DEF ReadStored, queueVars, dataVars, Steps
  <2>4. QED
    BY <1>13, <2>1, <2>2, <2>3 DEF ReadStored
<1>14. CASE EnqueueNote(w)
  <2>1. at[w] \in Scripts
    BY <1>14 DEF EnqueueNote, Typed, StepOfJob, OnJob
  <2>2. Kept /\ row'[Note(at[w])] # "none" /\ UNCHANGED recording
    BY <1>14, <2>1, EnqueueKeeps, KeysApart DEF EnqueueNote, dataVars
  <2>3. PastTranscribe'
    BY <2>1, <2>2 DEF PastTranscribe
  <2>4. QED
    BY <1>14, <2>2, <2>3, MoveHandsOver DEF EnqueueNote
<1>15. CASE EnqueueIndex(w)
  <2>1. at[w] \in Scripts /\ job[w] = Transcribe /\ PastTranscribe
    BY <1>15 DEF EnqueueIndex, HandsOver, HandedOver, Typed, StepOfJob, OnJob
  <2>2. Kept /\ UNCHANGED recording
    BY <1>15, <2>1, EnqueueKeeps, KeysApart DEF EnqueueIndex, dataVars
  <2>3. PassedOn(job[w])'
    BY <1>15, <2>1, <2>2, KeysApart DEF EnqueueIndex, PassedOn, Kept
  <2>4. QED
    BY <1>15, <2>2, <2>3, MoveHandsOver DEF EnqueueIndex
<1>16. CASE InsertNote(w)
  <2>1. Kept /\ notes' # {} /\ UNCHANGED recording
    BY <1>16, StagesKept DEF InsertNote, queueVars
  <2>2. QED
    BY <1>16, <2>1, MoveHandsOver DEF InsertNote
<1>17. CASE CompleteMeeting(w)
  <2>1. Kept /\ UNCHANGED recording
    BY <1>17, StagesKept DEF CompleteMeeting, queueVars
  <2>2. at[w] \in Scripts /\ job[w] = Note(at[w]) /\ notes # {}
    BY <1>17 DEF CompleteMeeting, HandsOver, HandedOver, Typed, StepOfJob, OnJob
  <2>3. PassedOn(job[w])'
    BY <1>17, <2>1, <2>2, KeysApart DEF CompleteMeeting, PassedOn, Kept
  <2>4. QED
    BY <1>17, <2>1, <2>3, MoveHandsOver DEF CompleteMeeting
<1>18. CASE VectorizeTranscript(w)
  <2>1. Kept /\ UNCHANGED recording
    BY <1>18, StagesKept DEF VectorizeTranscript, queueVars
  <2>2. PassedOn(job[w])'
    BY <1>18, KeysApart DEF VectorizeTranscript, PassedOn, Typed, StepOfJob, OnJob
  <2>3. QED
    BY <1>18, <2>1, <2>2, MoveHandsOver DEF VectorizeTranscript
<1>19. QED
  BY <1>2, <1>3, <1>4, <1>5, <1>6, <1>7, <1>8, <1>9, <1>10, <1>11, <1>12, <1>13, <1>14, <1>15, <1>16,
     <1>17, <1>18 DEF Step

LEMMA NextHandsOver == Typed /\ QueueAccounts /\ HandsOver /\ [Next]_vars => HandsOver'
<1> SUFFICES ASSUME Typed, QueueAccounts, HandsOver, [Next]_vars PROVE HandsOver'
  OBVIOUS
<1>1. ASSUME Kept, UNCHANGED <<pc, job, recording>> PROVE HandsOver'
  BY <1>1, StillHandedOver DEF HandsOver, Kept
<1>2. CASE StoreEvent \/ ReceiverFails \/ \E m \in {"id", "url"} : MediaAppears(m)
  BY <1>1, <1>2, StagesKept DEF StoreEvent, ReceiverFails, MediaAppears, queueVars, dataVars, loopVars
<1>3. CASE EnqueueEvent
  BY <1>1, <1>3, EnqueueKeeps, KeysApart DEF EnqueueEvent, dataVars
<1>4. ASSUME NEW w \in Workers, NEW k \in Keys, Take(w, k) PROVE HandsOver'
  <2>1. /\ OthersKept(w) /\ pc'[w] = k[1] /\ job'[w] = k /\ row[k] = "active"
        /\ UNCHANGED <<row, notes, ended, recording>>
    BY <1>4 DEF Take, LeaseRow, OthersKept, Typed, LoopTyped, queueVars, dataVars
  <2>2. Kept
    BY <2>1, StagesKept
  <2>3. k[1] \notin {"process_mark", "script_index", "note_meeting", "done"}
    BY KeyCases, KeyParts
  <2>4. job'[w] = Process => AtProcess'
    BY <2>1 DEF AtProcess
  <2>5. HandedOver(w)'
    BY <2>1, <2>3, <2>4 DEF HandedOver
  <2>6. QED
    BY <2>1, <2>2, <2>5, OneHandsOver
<1>5. ASSUME NEW w \in Workers, Step(w) PROVE HandsOver'
  BY <1>5, StepHandsOver
<1>6. ASSUME NEW w \in Workers, HandlerFails(w) PROVE HandsOver'
  BY <1>6, FailHandsOver DEF HandlerFails
<1>7. ASSUME NEW w \in Workers, Crash(w) PROVE HandsOver'
  BY <1>7, StagesKept, IdleHandsOver DEF Crash, queueVars, dataVars
<1>8. ASSUME NEW w \in Workers, LoseLease(w) PROVE HandsOver'
  BY <1>1, <1>8, LostRows, StagesKept DEF LoseLease, dataVars
<1>9. CASE UNCHANGED vars
  BY <1>1, <1>9, StagesKept DEF vars, queueVars, dataVars, loopVars
<1>10. QED
  BY <1>2, <1>3, <1>4, <1>5, <1>6, <1>7, <1>8, <1>9 DEF Next

LEMMA HandsOverEnough == HandsOver => ChainUnbroken
<1> SUFFICES ASSUME HandsOver, recording, notes = {}, ended = {} PROVE Pending # {}
  BY DEF ChainUnbroken
<1>1. AtProcess
  BY DEF HandsOver
<1>2. PICK k \in Keys : row[k] # "none" /\ (k \in {Process, Fetch, Store, Transcribe} \/ \E t \in Scripts : k = Note(t))
  BY <1>1, KeysApart DEF AtProcess, AtFetch, AtStore, AtTranscribe, PastTranscribe
<1>3. k[1] # "index"
  BY <1>2, KeyParts
<1>4. QED
  BY <1>2, <1>3 DEF Pending

\* README, reliability model: once the recording event is applied, the work that is left until the
\* note is always some job row, waiting, leased or dead, or a handler found nothing to work on:
\* whatever fails, dies, loses its lease or runs twice between two statements, for any number of
\* loops and faults.
THEOREM ChainNeverBreaks == Safety => []ChainUnbroken
<1>1. Init => Typed /\ QueueAccounts /\ HandsOver
  <2>1. ASSUME Init PROVE HandsOver
    <3>1. ASSUME NEW w \in Workers PROVE HandedOver(w)
      BY <2>1, KeysApart, PipelineAssumption DEF Init, HandedOver
    <3>2. QED
      BY <2>1, <3>1 DEF Init, HandsOver
  <2>2. QED
    BY <2>1, InitTyped, InitAccounts
<1>2. Typed /\ QueueAccounts /\ HandsOver /\ [Next]_vars => Typed' /\ QueueAccounts' /\ HandsOver'
  BY NextTyped, NextAccounts, NextHandsOver
<1>3. QED
  BY <1>1, <1>2, HandsOverEnough, PTL DEF Safety

-------------------------------------------------------------------------------
(* The pipeline implements RecordingChain. *)

\* Rows appear in no other place than K.
NewRows(K) == \A i \in Keys : row'[i] # "none" => row[i] # "none" \/ i \in K

\* Only the end of a job takes a row away, and nothing takes a result away.
LEMMA RowsPersist ==
  ASSUME Typed, QueueAccounts, [Next]_vars, \A w \in Workers : ~Complete(w)
  PROVE  /\ \A i \in Keys : row[i] # "none" => row'[i] # "none"
         /\ notes \subseteq notes' /\ ended \subseteq ended'
         /\ (recording => recording') /\ (object => object')
<1> DEFINE Stays == /\ \A i \in Keys : row[i] # "none" => row'[i] # "none"
                    /\ notes \subseteq notes' /\ ended \subseteq ended'
                    /\ (recording => recording') /\ (object => object')
<1>1. ASSUME UNCHANGED row, notes \subseteq notes', ended \subseteq ended',
             recording => recording', object => object'
      PROVE  Stays
  BY <1>1
<1>2. ASSUME NEW k \in Keys, Enqueue(k), UNCHANGED dataVars PROVE Stays
  BY <1>2, EnqueuedRow DEF dataVars
<1>3. ASSUME NEW w \in Workers, pc[w] # "idle", Fail(w), UNCHANGED <<notes, ended, recording, object>>
      PROVE  Stays
  BY <1>3, FailedRows
<1>4. CASE StoreEvent \/ ReceiverFails \/ \E m \in {"id", "url"} : MediaAppears(m)
  BY <1>1, <1>4 DEF StoreEvent, ReceiverFails, MediaAppears, queueVars, dataVars
<1>5. CASE EnqueueEvent
  BY <1>2, <1>5, KeysApart DEF EnqueueEvent
<1>6. ASSUME NEW w \in Workers, NEW k \in Keys, Take(w, k) PROVE Stays
  BY <1>1, <1>6 DEF Take, LeaseRow, queueVars, dataVars
<1>7. ASSUME NEW w \in Workers, HandlerFails(w) PROVE Stays
  BY <1>3, <1>7 DEF HandlerFails
<1>8. ASSUME NEW w \in Workers, Crash(w) PROVE Stays
  BY <1>1, <1>8 DEF Crash, queueVars, dataVars
<1>9. ASSUME NEW w \in Workers, LoseLease(w) PROVE Stays
  BY <1>9, LostRows DEF LoseLease, dataVars
<1>10. ASSUME NEW w \in Workers, Step(w) PROVE Stays
  <2>1. CASE ApplyRecordingEvent(w) \/ MarkProcessed(w) \/ UpsertAsset(w) \/ ReadAsset(w)
             \/ BeginUpload(w) \/ Upload(w) \/ InsertTranscription(w) \/ InsertSegments(w)
             \/ InsertNote(w) \/ CompleteMeeting(w) \/ VectorizeTranscript(w)
    BY <1>1, <2>1 DEF ApplyRecordingEvent, MarkProcessed, UpsertAsset, ReadAsset, BeginUpload, Upload,
          InsertTranscription, InsertSegments, InsertNote, CompleteMeeting, VectorizeTranscript,
          queueVars, dataVars
  <2>2. CASE EnqueueFetch(w) \/ EnqueueStore(w) \/ EnqueueTranscribe(w)
    BY <1>2, <2>2, KeysApart DEF EnqueueFetch, EnqueueStore, EnqueueTranscribe
  <2>3. CASE EnqueueNote(w) \/ EnqueueIndex(w)
    <3>1. at[w] \in Scripts
      BY <2>3 DEF EnqueueNote, EnqueueIndex, Typed, StepOfJob, OnJob
    <3>2. QED
      BY <1>2, <2>3, <3>1, KeysApart DEF EnqueueNote, EnqueueIndex
  <2>4. CASE RetrieveBot(w)
    <3>1. CASE media = "none" /\ Fail(w)
      BY <1>3, <2>4, <3>1 DEF RetrieveBot, dataVars
    <3>2. CASE media \in {"id", "url"}
      BY <1>1, <2>4, <3>2 DEF RetrieveBot, queueVars, dataVars
    <3>3. QED
      BY <2>4, <3>1, <3>2 DEF RetrieveBot
  <2>5. CASE ReadStored(w)
    <3>1. CASE asset # "stored" /\ Fail(w)
      BY <1>3, <2>5, <3>1 DEF ReadStored, dataVars
    <3>2. CASE asset = "stored"
      BY <1>1, <2>5, <3>2 DEF ReadStored, queueVars, dataVars
    <3>3. QED
      BY <2>5, <3>1, <3>2 DEF ReadStored
  <2>6. QED
    BY <1>10, <2>1, <2>2, <2>3, <2>4, <2>5 DEF Step
<1>11. CASE UNCHANGED vars
  BY <1>1, <1>11 DEF vars, queueVars, dataVars
<1>12. QED
  BY <1>4, <1>5, <1>6, <1>7, <1>8, <1>9, <1>10, <1>11 DEF Next

\* No stage and no result is lost.
Advances == Kept /\ (recording => recording') /\ (object => object')

LEMMA NextKept ==
  ASSUME Typed, QueueAccounts, HandsOver, [Next]_vars
  PROVE  Advances
<1> USE DEF Advances
<1>1. ASSUME NEW w \in Workers, Complete(w) PROVE Kept /\ UNCHANGED <<recording, object>>
  BY <1>1, CompleteKeeps DEF Complete, dataVars
<1>2. CASE \A w \in Workers : ~Complete(w)
  <2>1. /\ \A i \in Keys : row[i] # "none" => row'[i] # "none"
        /\ notes \subseteq notes' /\ ended \subseteq ended'
        /\ (recording => recording') /\ (object => object')
    BY <1>2, RowsPersist
  <2>2. Kept
    BY <2>1, StagesKept
  <2>3. QED
    BY <2>1, <2>2
<1>3. QED
  BY <1>1, <1>2

\* The stage moves by new rows and new ends only.
LEMMA StageStays ==
  ASSUME Kept, NewRows({}), notes' = notes \/ PastTranscribe, ended' = ended
  PROVE  Stage' = Stage
<1>1. PastTranscribe' => PastTranscribe
  BY KeysApart DEF PastTranscribe, NewRows
<1>2. AtTranscribe' => AtTranscribe
  BY <1>1, KeysApart DEF AtTranscribe, NewRows
<1>3. AtStore' => AtStore
  BY <1>2, KeysApart DEF AtStore, NewRows
<1>4. AtFetch' => AtFetch
  BY <1>3, KeysApart DEF AtFetch, NewRows
<1>5. AtProcess' => AtProcess
  BY <1>4, KeysApart DEF AtProcess, NewRows
<1>6. QED
  BY <1>1, <1>2, <1>3, <1>4, <1>5 DEF Kept, Stage

\* A new job of the next stage moves the work there, a job of an earlier stage moves nothing.
LEMMA StageMoves ==
  ASSUME Kept, NEW k \in Keys, NewRows({k}), row'[k] # "none", UNCHANGED <<notes, ended>>
  PROVE  /\ k = Process => Stage' = Stage \/ (Stage = 0 /\ Stage' = 1)
         /\ k = Fetch /\ AtProcess => Stage' = Stage \/ (Stage = 1 /\ Stage' = 2)
         /\ k = Store /\ AtFetch => Stage' = Stage \/ (Stage = 2 /\ Stage' = 3)
         /\ k = Transcribe /\ AtStore => Stage' = Stage \/ (Stage = 3 /\ Stage' = 4)
         /\ (\E t \in Scripts : k = Note(t)) /\ AtTranscribe =>
                Stage' = Stage \/ (Stage = 4 /\ Stage' = 5)
         /\ (\E t \in Scripts : k = Index(t)) => Stage' = Stage
<1>1. PastTranscribe' => PastTranscribe \/ \E t \in Scripts : k = Note(t)
  BY KeysApart DEF PastTranscribe, NewRows
<1>2. AtTranscribe' => AtTranscribe \/ k = Transcribe \/ \E t \in Scripts : k = Note(t)
  BY <1>1, KeysApart DEF AtTranscribe, NewRows
<1>3. AtStore' => AtStore \/ k = Store \/ k = Transcribe \/ \E t \in Scripts : k = Note(t)
  BY <1>2, KeysApart DEF AtStore, NewRows
<1>4. AtFetch' => AtFetch \/ k = Fetch \/ k = Store \/ k = Transcribe \/ \E t \in Scripts : k = Note(t)
  BY <1>3, KeysApart DEF AtFetch, NewRows
<1>5. AtProcess' => AtProcess \/ k = Process \/ k = Fetch \/ k = Store \/ k = Transcribe
                              \/ \E t \in Scripts : k = Note(t)
  BY <1>4, KeysApart DEF AtProcess, NewRows
<1>6. /\ PastTranscribe => AtTranscribe
      /\ AtTranscribe => AtStore
      /\ AtStore => AtFetch
      /\ AtFetch => AtProcess
  BY DEF AtTranscribe, AtStore, AtFetch, AtProcess
<1>7. CASE k = Process
  <2>1. AtProcess'
    BY <1>7 DEF AtProcess
  <2>2. QED
    BY <1>1, <1>2, <1>3, <1>4, <1>5, <1>6, <1>7, <2>1, KeysApart DEF Kept, Stage
<1>8. CASE k = Fetch
  <2>1. AtFetch'
    BY <1>8 DEF AtFetch
  <2>2. QED
    BY <1>1, <1>2, <1>3, <1>4, <1>5, <1>6, <1>8, <2>1, KeysApart DEF Kept, Stage
<1>9. CASE k = Store
  <2>1. AtStore'
    BY <1>9 DEF AtStore
  <2>2. QED
    BY <1>1, <1>2, <1>3, <1>4, <1>5, <1>6, <1>9, <2>1, KeysApart DEF Kept, Stage
<1>10. CASE k = Transcribe
  <2>1. AtTranscribe'
    BY <1>10 DEF AtTranscribe
  <2>2. QED
    BY <1>1, <1>2, <1>3, <1>4, <1>5, <1>6, <1>10, <2>1, KeysApart DEF Kept, Stage
<1>11. CASE \E t \in Scripts : k = Note(t)
  <2>1. PastTranscribe'
    BY <1>11 DEF PastTranscribe
  <2>2. QED
    BY <1>1, <1>2, <1>3, <1>4, <1>5, <1>6, <1>11, <2>1, KeysApart DEF Kept, Stage
<1>12. CASE \E t \in Scripts : k = Index(t)
  BY <1>1, <1>2, <1>3, <1>4, <1>5, <1>6, <1>12, KeysApart DEF Kept, Stage
<1>13. QED
  BY <1>7, <1>8, <1>9, <1>10, <1>11, <1>12

-------------------------------------------------------------------------------
(* The part of the invariant the mapping needs. *)

\* New rows, notes and ends stand on an earlier stage.
Grounded(K) ==
    /\ NewRows(K)
    /\ recording \/ (K \cap {Fetch, Store, Transcribe} = {} /\ \A t \in Scripts : Note(t) \notin K)
    /\ \A t \in Scripts : Index(t) \in K => PastTranscribe
    /\ notes' = notes \/ AtFetch
    /\ ended' = ended \/ AtFetch
    /\ asset' = "stored" => asset = "stored" \/ object'

LEMMA GroundedResults ==
  ASSUME ResultsKept, Advances, NEW K, Grounded(K)
  PROVE  /\ \A t \in Scripts : row'[Index(t)] # "none" => PastTranscribe'
         /\ AtFetch' => recording'
         /\ asset' = "stored" => object'
<1>1. ASSUME NEW t \in Scripts, row'[Index(t)] # "none" PROVE PastTranscribe'
  BY <1>1, KeysApart DEF ResultsKept, Advances, Kept, Grounded, NewRows
<1>2. ASSUME AtFetch' PROVE recording
  <2> SUFFICES ASSUME ~recording PROVE FALSE
    OBVIOUS
  <2>1. ~AtFetch /\ notes' = notes /\ ended' = ended
    BY DEF ResultsKept, Grounded
  <2>2. \A k \in {Fetch, Store, Transcribe} : row'[k] = "none"
    BY <2>1, KeysApart DEF Grounded, NewRows, AtFetch, AtStore, AtTranscribe
  <2>3. \A t \in Scripts : row'[Note(t)] = "none"
    BY <2>1, KeysApart DEF Grounded, NewRows, AtFetch, AtStore, AtTranscribe, PastTranscribe
  <2>4. ~PastTranscribe'
    BY <2>1, <2>3 DEF AtFetch, AtStore, AtTranscribe, PastTranscribe
  <2>5. ~AtFetch'
    BY <2>2, <2>4 DEF AtFetch, AtStore, AtTranscribe
  <2>6. QED
    BY <1>2, <2>5
<1>3. AtFetch' => recording'
  BY <1>2 DEF Advances
<1>4. asset' = "stored" => object'
  BY DEF ResultsKept, Grounded, Advances
<1>5. QED
  BY <1>1, <1>3, <1>4

LEMMA StillInStage ==
  ASSUME Advances, NEW v \in Workers, InStage(v), pc'[v] = pc[v], job'[v] = job[v]
  PROVE  InStage(v)'
  BY DEF Advances, Kept, InStage

LEMMA OneResults ==
  ASSUME ResultsKept, Advances, NEW K, Grounded(K), NEW w \in Workers, OthersKept(w), InStage(w)'
  PROVE  ResultsKept'
<1>1. ASSUME NEW v \in Workers \ {w} PROVE InStage(v)'
  BY <1>1, StillInStage DEF OthersKept, ResultsKept
<1>2. QED
  BY <1>1, GroundedResults DEF ResultsKept

\* A loop goes on in its handler.
LEMMA MoveResults ==
  ASSUME Typed, ResultsKept, Advances, NEW K, Grounded(K), NEW w \in Workers, NEW s, GoTo(w, s),
         UNCHANGED <<job, at>>,
         s \in {"process_enqueue", "process_mark"} => recording',
         s \in {"store_enqueue", "stored_enqueue", "insert_script", "insert_segments"} => object'
  PROVE  ResultsKept'
<1>1. OthersKept(w) /\ pc'[w] = s /\ job'[w] = job[w]
  BY GoToOthers
<1>2. InStage(w)'
  BY <1>1 DEF ResultsKept, InStage, Advances, Kept
<1>3. QED
  BY <1>1, <1>2, OneResults

\* A loop gives its job up.
LEMMA IdleResults ==
  ASSUME Typed, ResultsKept, Advances, Grounded({}), NEW w \in Workers, Idle(w)
  PROVE  ResultsKept'
<1>1. OthersKept(w) /\ pc'[w] = "idle" /\ job'[w] = NoJob
  BY IdleOthers
<1>2. InStage(w)'
  BY <1>1, KeysApart, PipelineAssumption DEF InStage
<1>3. QED
  BY <1>1, <1>2, OneResults

\* A handler fails.
LEMMA FailResults ==
  ASSUME Typed, QueueAccounts, ResultsKept, Advances, NEW w \in Workers, pc[w] # "idle", Fail(w),
         UNCHANGED <<notes, ended>>, asset' = "stored" => asset = "stored"
  PROVE  ResultsKept'
<1>1. Grounded({})
  BY FailedRows DEF Grounded, NewRows
<1>2. QED
  BY <1>1, IdleResults DEF Fail

LEMMA StepResults ==
  ASSUME Typed, QueueAccounts, HandsOver, ResultsKept, Advances, NEW w \in Workers, Step(w)
  PROVE  ResultsKept'
<1>1. ASSUME NEW s \in Steps \ {"process_enqueue", "process_mark", "store_enqueue", "stored_enqueue",
                                "insert_script", "insert_segments"},
             GoTo(w, s), UNCHANGED <<row, job, at, notes, ended>>, asset' = "stored" => asset = "stored"
      PROVE  ResultsKept'
  <2>1. Grounded({})
    BY <1>1 DEF Grounded, NewRows
  <2>2. QED
    BY <1>1, <2>1, MoveResults
<1>2. ASSUME NEW k \in Keys, Enqueue(k), NEW s \in {"process_mark", "script_index", "done"}, GoTo(w, s),
             UNCHANGED <<job, at, notes, ended, asset>>,
             recording \/ (k \notin {Fetch, Store, Transcribe} /\ \A t \in Scripts : k # Note(t)),
             (\E t \in Scripts : k = Index(t)) => PastTranscribe,
             s = "process_mark" => recording
      PROVE  ResultsKept'
  <2>1. NewRows({k})
    BY <1>2, EnqueuedRow DEF NewRows
  <2>2. Grounded({k})
    BY <1>2, <2>1 DEF Grounded
  <2>3. QED
    BY <1>2, <2>2, MoveResults DEF Advances
<1>3. CASE Complete(w)
  <2>1. Grounded({})
    BY <1>3, CompletedRows DEF Complete, dataVars, Grounded, NewRows
  <2>2. QED
    BY <1>3, <2>1, IdleResults DEF Complete
<1>4. CASE ApplyRecordingEvent(w)
  <2>1. Grounded({}) /\ GoTo(w, "process_enqueue") /\ recording' /\ UNCHANGED <<job, at>>
    BY <1>4 DEF ApplyRecordingEvent, queueVars, Grounded, NewRows
  <2>2. QED
    BY <2>1, MoveResults
<1>5. CASE EnqueueFetch(w)
  <2>1. recording
    BY <1>5 DEF EnqueueFetch, ResultsKept, InStage
  <2>2. QED
    BY <1>2, <1>5, <2>1, KeysApart DEF EnqueueFetch, dataVars
<1>6. CASE MarkProcessed(w) \/ UpsertAsset(w) \/ BeginUpload(w)
  BY <1>1, <1>6 DEF MarkProcessed, UpsertAsset, BeginUpload, queueVars, dataVars, Steps
<1>7. CASE InsertSegments(w) \/ CompleteMeeting(w) \/ VectorizeTranscript(w)
  BY <1>1, <1>7 DEF InsertSegments, CompleteMeeting, VectorizeTranscript, queueVars, Steps
<1>8. CASE RetrieveBot(w)
  <2>1. CASE media = "none" /\ Fail(w)
    BY <1>8, <2>1, FailResults DEF RetrieveBot, dataVars
  <2>2. CASE media = "id"
    <3>1. AtFetch /\ job[w] = Fetch
      BY <1>8 DEF RetrieveBot, ResultsKept, InStage, Typed, StepOfJob, OnJob
    <3>2. Grounded({}) /\ GoTo(w, "done") /\ UNCHANGED <<job, at>>
      BY <1>8, <2>2, <3>1 DEF RetrieveBot, queueVars, Grounded, NewRows
    <3>3. QED
      BY <3>2, MoveResults
  <2>3. CASE media = "url"
    BY <1>1, <1>8, <2>3 DEF RetrieveBot, queueVars, dataVars, Steps
  <2>4. QED
    BY <1>8, <2>1, <2>2, <2>3 DEF RetrieveBot
<1>9. CASE EnqueueStore(w)
  <2>1. recording
    BY <1>9 DEF EnqueueStore, ResultsKept, InStage, Typed, StepOfJob, OnJob
  <2>2. QED
    BY <1>2, <1>9, <2>1, KeysApart DEF EnqueueStore, dataVars
<1>10. CASE ReadAsset(w)
  <2>1. Grounded({}) /\ UNCHANGED <<job, at, object>>
    BY <1>10 DEF ReadAsset, queueVars, dataVars, Grounded, NewRows
  <2>2. CASE GoTo(w, "stored_enqueue") /\ object
    BY <2>1, <2>2, MoveResults
  <2>3. CASE GoTo(w, "begin_upload")
    BY <2>1, <2>3, MoveResults
  <2>4. QED
    BY <1>10, <2>2, <2>3 DEF ReadAsset
<1>11. CASE Upload(w)
  <2>1. Grounded({}) /\ GoTo(w, "store_enqueue") /\ object' /\ UNCHANGED <<job, at>>
    BY <1>11 DEF Upload, queueVars, Grounded, NewRows
  <2>2. QED
    BY <2>1, MoveResults
<1>12. CASE EnqueueTranscribe(w)
  <2>1. job[w] = Store
    BY <1>12 DEF EnqueueTranscribe, Typed, StepOfJob, OnJob
  <2>2. recording
    BY <2>1 DEF ResultsKept, InStage, AtFetch
  <2>3. QED
    BY <1>2, <1>12, <2>2, KeysApart DEF EnqueueTranscribe, dataVars
<1>13. CASE ReadStored(w)
  <2>1. AtFetch
    BY <1>13 DEF ReadStored, ResultsKept, InStage, Typed, StepOfJob, OnJob, AtFetch, AtStore
  <2>2. CASE asset # "stored" /\ Fail(w)
    BY <1>13, <2>2, FailResults DEF ReadStored, dataVars
  <2>3. CASE asset = "stored" /\ tiny
    <3>1. Grounded({}) /\ GoTo(w, "done") /\ UNCHANGED <<job, at>>
      BY <1>13, <2>1, <2>3 DEF ReadStored, queueVars, Grounded, NewRows
    <3>2. QED
      BY <3>1, MoveResults
  <2>4. CASE asset = "stored" /\ ~tiny
    <3>1. Grounded({}) /\ GoTo(w, "insert_script") /\ object' /\ UNCHANGED <<job, at>>
      BY <1>13, <2>4 DEF ReadStored, queueVars, dataVars, Grounded, NewRows, ResultsKept
    <3>2. QED
      BY <3>1, MoveResults
  <2>5. QED
    BY <1>13, <2>2, <2>3, <2>4 DEF ReadStored
<1>14. CASE InsertTranscription(w)
  <2>1. Grounded({})
    BY <1>14 DEF InsertTranscription, queueVars, Grounded, NewRows
  <2>2. OthersKept(w) /\ pc'[w] = "insert_segments" /\ job' = job /\ object'
    BY <1>14 DEF InsertTranscription, GoTo, OthersKept, Typed, LoopTyped, ResultsKept, InStage
  <2>3. InStage(w)'
    BY <2>2 DEF ResultsKept, InStage, Advances, Kept
  <2>4. QED
    BY <2>1, <2>2, <2>3, OneResults
<1>15. CASE EnqueueNote(w)
  <2>1. at[w] \in Scripts /\ job[w] = Transcribe
    BY <1>15 DEF EnqueueNote, Typed, StepOfJob, OnJob
  <2>2. recording
    BY <2>1 DEF ResultsKept, InStage, AtFetch, AtStore
  <2>3. QED
    BY <1>2, <1>15, <2>1, <2>2, KeysApart DEF EnqueueNote, dataVars
<1>16. CASE EnqueueIndex(w)
  <2>1. at[w] \in Scripts /\ PastTranscribe
    BY <1>16 DEF EnqueueIndex, Typed, StepOfJob, OnJob, HandsOver, HandedOver
  <2>2. QED
    BY <1>2, <1>16, <2>1, KeysApart DEF EnqueueIndex, dataVars
<1>17. CASE InsertNote(w)
  <2>1. AtFetch
    BY <1>17 DEF InsertNote, Typed, StepOfJob, OnJob, ResultsKept, InStage, AtFetch, AtStore, AtTranscribe
  <2>2. Grounded({}) /\ GoTo(w, "note_meeting") /\ UNCHANGED <<job, at>>
    BY <1>17, <2>1 DEF InsertNote, queueVars, Grounded, NewRows
  <2>3. QED
    BY <2>2, MoveResults
<1>18. QED
  BY <1>3, <1>4, <1>5, <1>6, <1>7, <1>8, <1>9, <1>10, <1>11, <1>12, <1>13, <1>14, <1>15, <1>16, <1>17
     DEF Step

LEMMA NextResults == Typed /\ QueueAccounts /\ HandsOver /\ ResultsKept /\ [Next]_vars => ResultsKept'
<1> SUFFICES ASSUME Typed, QueueAccounts, HandsOver, ResultsKept, [Next]_vars PROVE ResultsKept'
  OBVIOUS
<1>1. Advances
  BY NextKept
<1>2. ASSUME NEW K, Grounded(K), UNCHANGED <<pc, job>> PROVE ResultsKept'
  <2>1. ASSUME NEW v \in Workers PROVE InStage(v)'
    BY <1>1, <1>2, StillInStage DEF ResultsKept
  <2>2. QED
    BY <1>1, <1>2, <2>1, GroundedResults DEF ResultsKept
<1>3. CASE StoreEvent \/ ReceiverFails \/ \E m \in {"id", "url"} : MediaAppears(m)
  <2>1. Grounded({}) /\ UNCHANGED <<pc, job>>
    BY <1>3 DEF StoreEvent, ReceiverFails, MediaAppears, queueVars, dataVars, loopVars, Grounded, NewRows
  <2>2. QED
    BY <1>2, <2>1
<1>4. CASE EnqueueEvent
  <2>1. Grounded({Process}) /\ UNCHANGED <<pc, job>>
    BY <1>4, KeysApart, EnqueuedRow DEF EnqueueEvent, dataVars, Grounded, NewRows
  <2>2. QED
    BY <1>2, <2>1
<1>5. ASSUME NEW w \in Workers, NEW k \in Keys, Take(w, k) PROVE ResultsKept'
  <2>1. /\ OthersKept(w) /\ pc'[w] = k[1] /\ job'[w] = k /\ row[k] = "active"
        /\ UNCHANGED <<row, notes, ended, asset>>
    BY <1>5 DEF Take, LeaseRow, OthersKept, Typed, LoopTyped, queueVars, dataVars
  <2>2. Grounded({})
    BY <2>1 DEF Grounded, NewRows
  <2>3. k[1] \notin {"process_enqueue", "process_mark", "store_enqueue", "stored_enqueue", "insert_script",
                     "insert_segments"}
    BY KeyCases, KeyParts
  <2>4. (k = Fetch => AtFetch) /\ (k = Store => AtStore)
    BY <2>1 DEF AtFetch, AtStore
  <2>5. /\ k = Transcribe => AtTranscribe
        /\ \A t \in Scripts : k = Note(t) \/ k = Index(t) => PastTranscribe
    BY <2>1 DEF AtTranscribe, PastTranscribe, ResultsKept
  <2>6. InStage(w)'
    BY <1>1, <2>1, <2>3, <2>4, <2>5 DEF InStage, Advances, Kept
  <2>7. QED
    BY <1>1, <2>1, <2>2, <2>6, OneResults
<1>6. ASSUME NEW w \in Workers, Step(w) PROVE ResultsKept'
  BY <1>1, <1>6, StepResults
<1>7. ASSUME NEW w \in Workers, HandlerFails(w) PROVE ResultsKept'
  BY <1>1, <1>7, FailResults DEF HandlerFails
<1>8. ASSUME NEW w \in Workers, Crash(w) PROVE ResultsKept'
  <2>1. Grounded({}) /\ Idle(w)
    BY <1>8 DEF Crash, queueVars, dataVars, Grounded, NewRows
  <2>2. QED
    BY <1>1, <2>1, IdleResults
<1>9. ASSUME NEW w \in Workers, LoseLease(w) PROVE ResultsKept'
  <2>1. Grounded({}) /\ UNCHANGED <<pc, job>>
    BY <1>9, LostRows DEF LoseLease, dataVars, Grounded, NewRows
  <2>2. QED
    BY <1>2, <2>1
<1>10. CASE UNCHANGED vars
  <2>1. Grounded({}) /\ UNCHANGED <<pc, job>>
    BY <1>10 DEF vars, queueVars, dataVars, loopVars, Grounded, NewRows
  <2>2. QED
    BY <1>2, <2>1
<1>11. QED
  BY <1>3, <1>4, <1>5, <1>6, <1>7, <1>8, <1>9, <1>10 DEF Next

-------------------------------------------------------------------------------
(* The steps of the chain. *)

LEMMA StageReached ==
  /\ Stage \in 0..5
  /\ AtProcess => Stage >= 1
  /\ AtFetch => Stage >= 2
  /\ AtStore => Stage >= 3
  /\ AtTranscribe => Stage >= 4
  /\ PastTranscribe <=> Stage = 5
  BY DEF Stage, AtProcess, AtFetch, AtStore, AtTranscribe

ChainStep == [Chain!Next]_(Chain!vars)

SameWhole == {t \in Scripts : Whole(t)}' = {t \in Scripts : Whole(t)}

LEMMA ChainStutters ==
  ASSUME Stage' = Stage, SameWhole, UNCHANGED <<recording, object, notes, indexed>>
  PROVE  ChainStep
  BY DEF ChainStep, SameWhole, Chain!vars

LEMMA ChainHandsOn ==
  ASSUME \/ Stage' = Stage
         \/ /\ Stage \in 0..4 /\ Stage' = Stage + 1
            /\ Stage = 1 => recording
            /\ Stage = 3 => object
            /\ Stage = 4 => \E t \in Scripts : Whole(t),
         UNCHANGED <<recording, object, scripts, notes, indexed>>
  PROVE  ChainStep
<1>1. SameWhole
  BY DEF SameWhole, Whole
<1>2. CASE Stage' = Stage
  BY <1>1, <1>2, ChainStutters
<1>3. CASE Stage' # Stage
  <2>1. Chain!ResultThere
    BY <1>3 DEF Chain!ResultThere
  <2>2. Chain!HandOn
    BY <1>1, <1>3, <2>1 DEF Chain!HandOn, Chain!results, SameWhole
  <2>3. QED
    BY <2>2 DEF ChainStep, Chain!Next
<1>4. QED
  BY <1>2, <1>3

\* A handler finds nothing to work on.
LEMMA ChainEnds ==
  ASSUME ended' # {}, AtFetch, UNCHANGED <<recording, object, scripts, notes, indexed>>
  PROVE  ChainStep
<1>1. SameWhole
  BY DEF SameWhole, Whole
<1>2. Stage' = 5
  BY DEF Stage, PastTranscribe
<1>3. CASE Stage = 5
  BY <1>1, <1>2, <1>3, ChainStutters
<1>4. CASE Stage # 5
  <2>1. Stage \in 2..4
    BY <1>4, StageReached
  <2>2. Chain!NothingThere
    BY <1>1, <1>2, <2>1 DEF Chain!NothingThere, Chain!results, SameWhole
  <2>3. QED
    BY <2>2 DEF ChainStep, Chain!Next
<1>5. QED
  BY <1>3, <1>4

\* Steps that bring no result and no new stage.
LEMMA ChainQuiet ==
  ASSUME Kept, NewRows({}), UNCHANGED <<notes, ended, recording, object, scripts, indexed>>
  PROVE  ChainStep
<1>1. SameWhole
  BY DEF SameWhole, Whole
<1>2. QED
  BY <1>1, StageStays, ChainStutters

LEMMA FailChain ==
  ASSUME Typed, QueueAccounts, Kept, NEW w \in Workers, pc[w] # "idle", Fail(w),
         UNCHANGED <<notes, ended, recording, object, scripts, indexed>>
  PROVE  ChainStep
<1>1. NewRows({})
  BY FailedRows DEF NewRows
<1>2. QED
  BY <1>1, ChainQuiet

LEMMA StepChain ==
  ASSUME Typed, QueueAccounts, HandsOver, WholeInvariant, ResultsKept, Kept, NEW w \in Workers, Step(w)
  PROVE  ChainStep
<1>1. ASSUME UNCHANGED <<row, notes, ended, recording, object, scripts, indexed>> PROVE ChainStep
  BY <1>1, ChainQuiet DEF NewRows
<1>2. ASSUME NEW k \in Keys, Enqueue(k), UNCHANGED dataVars
      PROVE  NewRows({k}) /\ row'[k] # "none"
             /\ UNCHANGED <<notes, ended, recording, object, scripts, indexed>>
  BY <1>2, EnqueuedRow DEF NewRows, dataVars
<1>3. CASE Complete(w)
  BY <1>3, CompletedRows, ChainQuiet DEF Complete, dataVars, NewRows
<1>4. CASE ApplyRecordingEvent(w)
  <2>1. AtProcess
    BY <1>4 DEF ApplyRecordingEvent, Typed, StepOfJob, OnJob, HandsOver, HandedOver
  <2>2. UNCHANGED <<row, notes, ended, object, scripts, indexed>> /\ recording' = TRUE
    BY <1>4 DEF ApplyRecordingEvent, queueVars
  <2>3. Stage' = Stage
    BY <2>2, StageStays DEF NewRows
  <2>4. SameWhole
    BY <2>2 DEF SameWhole, Whole
  <2>5. Chain!Record
    BY <2>1, <2>2, <2>3, <2>4, StageReached DEF Chain!Record, SameWhole
  <2>6. QED
    BY <2>5 DEF ChainStep, Chain!Next
<1>5. CASE EnqueueFetch(w)
  <2>1. recording /\ AtProcess
    BY <1>5 DEF EnqueueFetch, ResultsKept, InStage, Typed, StepOfJob, OnJob, HandsOver, HandedOver
  <2>2. NewRows({Fetch}) /\ row'[Fetch] # "none" /\ UNCHANGED <<notes, ended, recording, object, scripts, indexed>>
    BY <1>2, <1>5, KeysApart DEF EnqueueFetch
  <2>3. Stage' = Stage \/ (Stage = 1 /\ Stage' = 2)
    BY <2>1, <2>2, StageMoves, KeysApart
  <2>4. QED
    BY <2>1, <2>2, <2>3, ChainHandsOn
<1>6. CASE MarkProcessed(w) \/ UpsertAsset(w) \/ ReadAsset(w) \/ BeginUpload(w) \/ CompleteMeeting(w)
  BY <1>1, <1>6 DEF MarkProcessed, UpsertAsset, ReadAsset, BeginUpload, CompleteMeeting, queueVars, dataVars
<1>7. CASE RetrieveBot(w)
  <2>1. CASE media = "none" /\ Fail(w)
    BY <1>7, <2>1, FailChain DEF RetrieveBot, dataVars
  <2>2. CASE media = "id"
    BY <1>7, <2>2, ChainEnds DEF RetrieveBot, ResultsKept, InStage, Typed, StepOfJob, OnJob
  <2>3. CASE media = "url"
    BY <1>1, <1>7, <2>3 DEF RetrieveBot, queueVars, dataVars
  <2>4. QED
    BY <1>7, <2>1, <2>2, <2>3 DEF RetrieveBot
<1>8. CASE EnqueueStore(w)
  <2>1. AtFetch
    BY <1>8 DEF EnqueueStore, ResultsKept, InStage, Typed, StepOfJob, OnJob
  <2>2. NewRows({Store}) /\ row'[Store] # "none" /\ UNCHANGED <<notes, ended, recording, object, scripts, indexed>>
    BY <1>2, <1>8, KeysApart DEF EnqueueStore
  <2>3. Stage' = Stage \/ (Stage = 2 /\ Stage' = 3)
    BY <2>1, <2>2, StageMoves, KeysApart
  <2>4. QED
    BY <2>2, <2>3, ChainHandsOn
<1>9. CASE Upload(w)
  <2>1. AtStore /\ recording
    BY <1>9 DEF Upload, ResultsKept, InStage, Typed, StepOfJob, OnJob, AtFetch
  <2>2. UNCHANGED <<row, notes, ended, recording, scripts, indexed>> /\ object' = TRUE
    BY <1>9 DEF Upload, queueVars
  <2>3. Stage' = Stage
    BY <2>2, StageStays DEF NewRows
  <2>4. SameWhole
    BY <2>2 DEF SameWhole, Whole
  <2>5. Chain!StoreAudio
    BY <2>1, <2>2, <2>3, <2>4, StageReached DEF Chain!StoreAudio, SameWhole
  <2>6. QED
    BY <2>5 DEF ChainStep, Chain!Next
<1>10. CASE EnqueueTranscribe(w)
  <2>1. AtStore /\ object
    BY <1>10 DEF EnqueueTranscribe, ResultsKept, InStage, Typed, StepOfJob, OnJob
  <2>2. NewRows({Transcribe}) /\ row'[Transcribe] # "none"
        /\ UNCHANGED <<notes, ended, recording, object, scripts, indexed>>
    BY <1>2, <1>10, KeysApart DEF EnqueueTranscribe
  <2>3. Stage' = Stage \/ (Stage = 3 /\ Stage' = 4)
    BY <2>1, <2>2, StageMoves, KeysApart
  <2>4. QED
    BY <2>1, <2>2, <2>3, ChainHandsOn
<1>11. CASE ReadStored(w)
  <2>1. CASE asset # "stored" /\ Fail(w)
    BY <1>11, <2>1, FailChain DEF ReadStored, dataVars
  <2>2. CASE asset = "stored" /\ tiny
    BY <1>11, <2>2, ChainEnds
       DEF ReadStored, ResultsKept, InStage, Typed, StepOfJob, OnJob, AtFetch, AtStore
  <2>3. CASE asset = "stored" /\ ~tiny
    BY <1>1, <1>11, <2>3 DEF ReadStored, queueVars, dataVars
  <2>4. QED
    BY <1>11, <2>1, <2>2, <2>3 DEF ReadStored
<1>12. CASE InsertTranscription(w)
  <2>1. scripts' = Append(scripts, "part") /\ scripts \in Seq({"part", "whole"}) /\ Len(scripts) \in Nat
    BY <1>12 DEF InsertTranscription, Typed, DataTyped
  <2>2. Len(scripts') = Len(scripts) + 1 /\ scripts'[Len(scripts) + 1] = "part"
        /\ \A t \in 1..Len(scripts) : scripts'[t] = scripts[t]
    BY <2>1
  <2>3. \A t \in Scripts : Whole(t) <=> Whole(t)'
    BY <2>1, <2>2, PipelineAssumption DEF Whole, Scripts
  <2>4. SameWhole
    BY <2>3 DEF SameWhole
  <2>5. UNCHANGED <<row, notes, ended, recording, object, indexed>>
    BY <1>12 DEF InsertTranscription, queueVars
  <2>6. Stage' = Stage
    BY <2>5, StageStays DEF NewRows
  <2>7. QED
    BY <2>4, <2>5, <2>6, ChainStutters
<1>13. CASE InsertSegments(w)
  <2>1. /\ scripts' = [scripts EXCEPT ![at[w]] = "whole"] /\ pc[w] = "insert_segments"
        /\ UNCHANGED <<row, notes, ended, recording, object, indexed>>
    BY <1>13 DEF InsertSegments, queueVars
  <2>2. scripts \in Seq({"part", "whole"}) /\ Len(scripts') = Len(scripts) /\ Len(scripts) \in Nat
    BY <2>1, SegmentsTyped DEF Typed, DataTyped
  <2>3. at[w] \in Scripts /\ at[w] <= Len(scripts) /\ job[w] = Transcribe
    BY <2>1 DEF WholeInvariant, WorksOnWhole, OnWhole, Typed, StepOfJob, OnJob
  <2>4. \A t \in Scripts : Whole(t)' <=> Whole(t) \/ t = at[w]
    BY <2>1, <2>2, <2>3, PipelineAssumption DEF Whole, Scripts
  <2>5. {t \in Scripts : Whole(t)}' = {t \in Scripts : Whole(t)} \cup {at[w]}
    BY <2>3, <2>4
  <2>6. AtTranscribe /\ object
    BY <2>1, <2>3 DEF ResultsKept, InStage
  <2>7. Stage' = Stage
    BY <2>1, StageStays DEF NewRows
  <2>8. Chain!Transcribe(at[w])
    BY <2>1, <2>5, <2>6, <2>7, StageReached DEF Chain!Transcribe
  <2>9. QED
    BY <2>3, <2>8 DEF ChainStep, Chain!Next
<1>14. CASE EnqueueNote(w)
  <2>1. at[w] \in Scripts /\ AtTranscribe /\ Whole(at[w])
    BY <1>14 DEF EnqueueNote, ResultsKept, InStage, Typed, StepOfJob, OnJob, WholeInvariant, WorksOnWhole, OnWhole
  <2>2. NewRows({Note(at[w])}) /\ row'[Note(at[w])] # "none"
        /\ UNCHANGED <<notes, ended, recording, object, scripts, indexed>>
    BY <1>2, <1>14, <2>1, KeysApart DEF EnqueueNote
  <2>3. Stage' = Stage \/ (Stage = 4 /\ Stage' = 5)
    BY <2>1, <2>2, StageMoves, KeysApart
  <2>4. QED
    BY <2>1, <2>2, <2>3, ChainHandsOn
<1>15. CASE EnqueueIndex(w)
  <2>1. at[w] \in Scripts
    BY <1>15 DEF EnqueueIndex, Typed, StepOfJob, OnJob
  <2>2. NewRows({Index(at[w])}) /\ row'[Index(at[w])] # "none"
        /\ UNCHANGED <<notes, ended, recording, object, scripts, indexed>>
    BY <1>2, <1>15, <2>1, KeysApart DEF EnqueueIndex
  <2>3. Stage' = Stage
    BY <2>1, <2>2, StageMoves, KeysApart
  <2>4. SameWhole
    BY <2>2 DEF SameWhole, Whole
  <2>5. QED
    BY <2>2, <2>3, <2>4, ChainStutters
<1>16. CASE InsertNote(w)
  <2>1. at[w] \in Scripts /\ PastTranscribe /\ Whole(at[w])
    BY <1>16 DEF InsertNote, ResultsKept, InStage, Typed, StepOfJob, OnJob, WholeInvariant, WorksOnWhole, OnWhole
  <2>2. UNCHANGED <<row, ended, recording, object, scripts, indexed>> /\ notes' = notes \cup {at[w]}
    BY <1>16 DEF InsertNote, queueVars
  <2>3. Stage' = Stage /\ Stage = 5
    BY <2>1, StageReached DEF Kept, Stage
  <2>4. SameWhole
    BY <2>2 DEF SameWhole, Whole
  <2>5. Chain!WriteNote(at[w])
    BY <2>1, <2>2, <2>3, <2>4 DEF Chain!WriteNote, SameWhole
  <2>6. QED
    BY <2>1, <2>5 DEF ChainStep, Chain!Next
<1>17. CASE VectorizeTranscript(w)
  <2>1. at[w] \in Scripts /\ PastTranscribe /\ Whole(at[w])
    BY <1>17
       DEF VectorizeTranscript, ResultsKept, InStage, Typed, StepOfJob, OnJob, WholeInvariant, WorksOnWhole, OnWhole
  <2>2. UNCHANGED <<row, ended, recording, object, scripts, notes>> /\ indexed' = indexed \cup {at[w]}
    BY <1>17 DEF VectorizeTranscript, queueVars
  <2>3. Stage' = Stage /\ Stage = 5
    BY <2>1, StageReached DEF Kept, Stage
  <2>4. SameWhole
    BY <2>2 DEF SameWhole, Whole
  <2>5. Chain!Index(at[w])
    BY <2>1, <2>2, <2>3, <2>4 DEF Chain!Index, SameWhole
  <2>6. QED
    BY <2>1, <2>5 DEF ChainStep, Chain!Next
<1>18. QED
  BY <1>3, <1>4, <1>5, <1>6, <1>7, <1>8, <1>9, <1>10, <1>11, <1>12, <1>13, <1>14, <1>15, <1>16, <1>17
     DEF Step

LEMMA NextChain ==
  Typed /\ QueueAccounts /\ HandsOver /\ WholeInvariant /\ ResultsKept /\ [Next]_vars => ChainStep
<1> SUFFICES ASSUME Typed, QueueAccounts, HandsOver, WholeInvariant, ResultsKept, [Next]_vars
             PROVE  ChainStep
  OBVIOUS
<1>1. Kept
  BY NextKept DEF Advances
<1>2. ASSUME UNCHANGED <<row, notes, ended, recording, object, scripts, indexed>> PROVE ChainStep
  BY <1>1, <1>2, ChainQuiet DEF NewRows
<1>3. CASE StoreEvent \/ ReceiverFails \/ \E m \in {"id", "url"} : MediaAppears(m)
  BY <1>2, <1>3 DEF StoreEvent, ReceiverFails, MediaAppears, queueVars, dataVars
<1>4. CASE EnqueueEvent
  <2>1. NewRows({Process}) /\ row'[Process] # "none"
        /\ UNCHANGED <<notes, ended, recording, object, scripts, indexed>>
    BY <1>4, EnqueuedRow, KeysApart DEF EnqueueEvent, NewRows, dataVars
  <2>2. Stage' = Stage \/ (Stage = 0 /\ Stage' = 1)
    BY <1>1, <2>1, StageMoves, KeysApart
  <2>3. QED
    BY <2>1, <2>2, ChainHandsOn
<1>5. ASSUME NEW w \in Workers, NEW k \in Keys, Take(w, k) PROVE ChainStep
  BY <1>2, <1>5 DEF Take, LeaseRow, queueVars, dataVars
<1>6. ASSUME NEW w \in Workers, Step(w) PROVE ChainStep
  BY <1>1, <1>6, StepChain
<1>7. ASSUME NEW w \in Workers, HandlerFails(w) PROVE ChainStep
  BY <1>1, <1>7, FailChain DEF HandlerFails
<1>8. ASSUME NEW w \in Workers, Crash(w) PROVE ChainStep
  BY <1>2, <1>8 DEF Crash, queueVars, dataVars
<1>9. ASSUME NEW w \in Workers, LoseLease(w) PROVE ChainStep
  BY <1>1, <1>9, LostRows, ChainQuiet DEF LoseLease, dataVars, NewRows
<1>10. CASE UNCHANGED vars
  BY <1>2, <1>10 DEF vars, queueVars, dataVars
<1>11. QED
  BY <1>3, <1>4, <1>5, <1>6, <1>7, <1>8, <1>9, <1>10 DEF Next

LEMMA InitChain == Init => HandsOver /\ WholeInvariant /\ ResultsKept /\ Chain!Init
<1> SUFFICES ASSUME Init PROVE HandsOver /\ WholeInvariant /\ ResultsKept /\ Chain!Init
  OBVIOUS
<1>1. /\ \A k \in Keys : row[k] = "none"
      /\ \A w \in Workers : pc[w] = "idle" /\ job[w] = NoJob
      /\ ~recording /\ ~object /\ asset = "none" /\ scripts = <<>>
      /\ notes = {} /\ indexed = {} /\ ended = {}
  BY DEF Init
<1>2. recording = FALSE /\ object = FALSE
  BY DEF Init
<1>3. ~PastTranscribe
  BY <1>1, KeysApart DEF PastTranscribe
<1>4. ~AtTranscribe /\ ~AtStore /\ ~AtFetch /\ ~AtProcess
  BY <1>1, <1>3, KeysApart DEF AtTranscribe, AtStore, AtFetch, AtProcess
<1>5. \A k \in Keys : k # NoJob
  BY PipelineAssumption
<1>6. HandsOver
  BY <1>1, <1>5, KeysApart DEF HandsOver, HandedOver
<1>7. WholeInvariant
  BY <1>1, KeysApart DEF WholeInvariant, WorksOnWhole, OnWhole, DerivedFromWholeTranscript
<1>8. ResultsKept
  BY <1>1, <1>4, <1>5, KeysApart DEF ResultsKept, InStage
<1>9. Chain!Init
  <2>1. Stage = 0
    BY <1>3, <1>4 DEF Stage
  <2>2. \A t \in Scripts : ~Whole(t)
    BY <1>1 DEF Whole, Scripts
  <2>3. {t \in Scripts : Whole(t)} = {}
    BY <2>2
  <2>4. QED
    BY <1>1, <1>2, <2>1, <2>3 DEF Chain!Init
<1>10. QED
  BY <1>6, <1>7, <1>8, <1>9

\* The pipeline implements RecordingChain: whatever fails, dies, loses its lease or runs twice
\* between two statements, the work of a meeting moves along the chain stage by stage and never
\* back, each result is made from the one before it, and none is taken away.
THEOREM ChainRefined == Safety => ImplementsChain
<1> DEFINE IInv == Typed /\ QueueAccounts /\ HandsOver /\ WholeInvariant /\ ResultsKept
<1>1. Init => IInv /\ Chain!Init
  BY InitTyped, InitAccounts, InitChain
<1>2. IInv /\ [Next]_vars => IInv'
  BY NextTyped, NextAccounts, NextHandsOver, NextWhole, NextResults
<1>3. IInv /\ [Next]_vars => [Chain!Next]_(Chain!vars)
  BY NextChain DEF ChainStep
<1>4. QED
  BY <1>1, <1>2, <1>3, PTL DEF Safety, ImplementsChain, Chain!Spec

================================================================================
