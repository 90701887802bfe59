---------------------------- MODULE RecordingChain ----------------------------
(***************************************************************************)
(* What the README promises of a recorded meeting ("a chain of small,      *)
(* idempotent jobs"), whatever jobs, leases, retries and repeated handlers *)
(* do underneath: the work moves along the chain one stage at a time and   *)
(* never back, each result is made from the one before it, and no result   *)
(* is taken away again.                                                    *)
(***************************************************************************)
EXTENDS Integers

CONSTANT Scripts   \* transcriptions

VARIABLES
    stage,      \* the work to do: 0 none yet, 1 event, 2 media, 3 audio, 4 transcript, 5 note (or over)
    recorded,   \* the recording is known
    stored,     \* its audio is in R2
    whole,      \* the complete transcriptions
    notes,      \* those with a note
    indexed     \* those in the search index

vars == <<stage, recorded, stored, whole, notes, indexed>>
results == <<recorded, stored, whole, notes, indexed>>

Init ==
    /\ stage = 0
    /\ recorded = FALSE /\ stored = FALSE
    /\ whole = {} /\ notes = {} /\ indexed = {}

\* A stage hands on when its result is there (the event's and the media's result is the next job).
ResultThere ==
    /\ stage = 1 => recorded
    /\ stage = 3 => stored
    /\ stage = 4 => whole # {}

HandOn ==
    /\ stage < 5 /\ ResultThere
    /\ stage' = stage + 1
    /\ UNCHANGED results

\* There is nothing to work on: no media to download, or too little audio.
NothingThere ==
    /\ stage \in 2..4
    /\ stage' = 5
    /\ UNCHANGED results

Record ==
    /\ stage >= 1
    /\ recorded' = TRUE
    /\ UNCHANGED <<stage, stored, whole, notes, indexed>>

StoreAudio ==
    /\ stage >= 3 /\ recorded
    /\ stored' = TRUE
    /\ UNCHANGED <<stage, recorded, whole, notes, indexed>>

Transcribe(t) ==
    /\ stage >= 4 /\ stored
    /\ whole' = whole \cup {t}
    /\ UNCHANGED <<stage, recorded, stored, notes, indexed>>

WriteNote(t) ==
    /\ stage = 5 /\ t \in whole
    /\ notes' = notes \cup {t}
    /\ UNCHANGED <<stage, recorded, stored, whole, indexed>>

Index(t) ==
    /\ stage = 5 /\ t \in whole
    /\ indexed' = indexed \cup {t}
    /\ UNCHANGED <<stage, recorded, stored, whole, notes>>

Next ==
    \/ HandOn \/ NothingThere \/ Record \/ StoreAudio
    \/ \E t \in Scripts : Transcribe(t) \/ WriteNote(t) \/ Index(t)

Spec == Init /\ [][Next]_vars

================================================================================
