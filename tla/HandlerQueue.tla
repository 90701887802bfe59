---------------------------- MODULE HandlerQueue ----------------------------
(***************************************************************************)
(* The job queue as producers and handlers see it, for the modules whose   *)
(* handlers it runs: per dedupe key the newest jobs row, per consumer loop *)
(* the job it runs and its claim on that job's row.                        *)
(*                                                                         *)
(* The statements behind it are modelled in JobQueue; that they come to no *)
(* more than this is proved in JobQueueViewProofs.  A loop that lost its   *)
(* lease goes on and reports by row id, whoever leases the row by then.    *)
(* Left out: retry delays (a retry may come at any time); HandlerQueueSpec *)
(* adds the seven-day purge of dead rows.                                  *)
(***************************************************************************)
EXTENDS Integers

CONSTANTS
    Workers,      \* consumer loops
    NoJob,        \* the job of an idle loop
    MaxAttempts   \* jobs.max_attempts

VARIABLES
    row,          \* row[k]: the newest jobs row of key k: none, active, dead
    attempts,     \* its attempt_count
    pc, job,      \* a loop: the step of its handler, the key of its job
    lease         \* its claim on the row: none, held, lost (somebody else may lease it), gone (replaced)

queueVars == <<row, attempts>>

\* Seeded fault: the unique index counts dead rows too.
EnqueueUnlessKnown(k) ==
    IF row[k] # "none"
    THEN UNCHANGED <<row, attempts, lease>>
    ELSE /\ row' = [row EXCEPT ![k] = "active"]
         /\ attempts' = [attempts EXCEPT ![k] = 0]
         /\ lease' = [w \in Workers |-> IF job[w] = k THEN "gone" ELSE lease[w]]

\* INSERT OR IGNORE against the index over active rows.  A new row leaves the workers of an older
\* dead row of the key behind.
Enqueue(k) ==
    IF row[k] = "active"
    THEN UNCHANGED <<row, attempts, lease>>
    ELSE /\ row' = [row EXCEPT ![k] = "active"]
         /\ attempts' = [attempts EXCEPT ![k] = 0]
         /\ lease' = [w \in Workers |-> IF job[w] = k THEN "gone" ELSE lease[w]]

GoTo(w, step) == pc' = [pc EXCEPT ![w] = step]

Leave(w) ==
    /\ pc' = [pc EXCEPT ![w] = "idle"]
    /\ job' = [job EXCEPT ![w] = NoJob]

\* An idle loop leases an active row that nobody holds and starts its handler.
LeaseRow(w, k, step) ==
    /\ pc[w] = "idle" /\ row[k] = "active"
    /\ \A v \in Workers : ~(job[v] = k /\ lease[v] = "held")
    /\ pc' = [pc EXCEPT ![w] = step]
    /\ job' = [job EXCEPT ![w] = k]
    /\ lease' = [lease EXCEPT ![w] = "held"]
    /\ UNCHANGED queueVars

\* complete_job: the row goes, if it is still there.
DeleteRow(w) ==
    IF lease[w] = "gone"
    THEN UNCHANGED queueVars /\ lease' = [lease EXCEPT ![w] = "none"]
    ELSE /\ row' = [row EXCEPT ![job[w]] = "none"]
         /\ attempts' = [attempts EXCEPT ![job[w]] = 0]
         /\ lease' = [v \in Workers |-> IF v = w THEN "none"
                                        ELSE IF job[v] = job[w] THEN "gone" ELSE lease[v]]

\* Seeded fault: a row whose attempts are used up is retried.
ChargeWithoutLimit(k) ==
    attempts' = [attempts EXCEPT ![k] = @ + 1] /\ UNCHANGED row

\* One more attempt is charged to the row of key k.
Charge(k) ==
    /\ attempts' = [attempts EXCEPT ![k] = @ + 1]
    /\ row' = [row EXCEPT ![k] = IF attempts[k] + 1 >= MaxAttempts THEN "dead" ELSE @]

\* fail_job
FailRow(w) ==
    IF lease[w] = "gone"
    THEN UNCHANGED queueVars /\ lease' = [lease EXCEPT ![w] = "none"]
    ELSE /\ Charge(job[w])
         /\ lease' = [v \in Workers |-> IF v = w THEN "none"
                                        ELSE IF job[v] = job[w] /\ lease[v] = "held" THEN "lost"
                                        ELSE lease[v]]

\* The reaper (charging an attempt) or the start of another process frees the row of a loop that
\* goes on.
LoseRow(w) ==
    /\ lease[w] = "held"
    /\ lease' = [lease EXCEPT ![w] = "lost"]
    /\ Charge(job[w]) \/ UNCHANGED queueVars

================================================================================
