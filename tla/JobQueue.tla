------------------------------- MODULE JobQueue -------------------------------
(***************************************************************************)
(* The durable job queue: the `jobs` table of Turso, the consumer loop     *)
(* that leases and runs jobs, the lease reaper, start-up recovery and the  *)
(* purge of dead jobs.  Every SQL statement is one atomic step; whatever   *)
(* happens between two statements of a worker is an interleaving.          *)
(*                                                                         *)
(* Abstracted: timestamps (run_after <= now is due[j], lease_expires_at <  *)
(* now is expired[j], a dead row's age is arbitrary), payloads, last_error, *)
(* and which due row ORDER BY run_after puts first (any due row may be).    *)
(***************************************************************************)
EXTENDS Integers, FiniteSets

CONSTANTS
    Jobs,               \* rows ever inserted; a row id (a fresh UUID) is never reused
    Workers,            \* operating-system processes that run run_worker_loop
    KeyOf,              \* (job_type, dedupe_key) of each row
    NoKey,              \* the key of a row whose dedupe_key is NULL
    NoJob, NoWorker,
    RowMaxAttempts,     \* jobs.max_attempts, the 8 enqueue_job inserts
    ConfigMaxAttempts,  \* WORKER_MAX_ATTEMPTS
    Role,               \* "all": the loop is supervised; "worker": its error ends the process
    Poison              \* rows whose handler panics instead of returning

ASSUME ConstantsAssumption ==
    /\ IsFiniteSet(Workers)
    /\ RowMaxAttempts \in Nat \ {0}
    /\ ConfigMaxAttempts \in Nat \ {0}
    /\ Role \in {"all", "worker"}
    /\ Poison \subseteq Jobs
    /\ NoJob \notin Jobs
    /\ NoWorker \notin Workers

VARIABLES
    status,    \* status[j]: absent, queued, retryable, leased, dead, or gone (deleted)
    attempts,  \* jobs.attempt_count
    due,       \* run_after <= now
    owner,     \* jobs.lease_owner
    expired,   \* lease_expires_at < now
    pc,        \* the consumer loop of a process: down, poll, select, running
    cur,       \* the row it has selected or is running
    snap,      \* the attempt_count its SELECT returned
    bg         \* its scheduler and reaper tasks run

rowVars == <<status, attempts, due, owner, expired>>
loopVars == <<pc, cur, snap>>
vars == <<status, attempts, due, owner, expired, pc, cur, snap, bg>>

Active == {"queued", "retryable", "leased"}

\* Seeded fault: the lease query forgets the jobs that wait for a retry.
LeasableQueuedOnly == {"queued"}

\* Seeded fault: the lease query takes a row although another loop leases it.
LeasableTaken == {"queued", "retryable", "leased"}

Leasable == {"queued", "retryable"}
SameKey(i, j) == KeyOf[i] # NoKey /\ KeyOf[i] = KeyOf[j]

\* The partial unique index idx_jobs_type_dedupe_active refuses an active row j.
UniqueConflict(j) == \E i \in Jobs \ {j} : status[i] \in Active /\ SameKey(i, j)

Running(w, j) == pc[w] = "running" /\ cur[w] = j

\* DELETE FROM jobs: what a row held is forgotten with it.
Delete(R) ==
    /\ status' = [j \in Jobs |-> IF j \in R THEN "gone" ELSE status[j]]
    /\ attempts' = [j \in Jobs |-> IF j \in R THEN 0 ELSE attempts[j]]
    /\ due' = [j \in Jobs |-> due[j] /\ j \notin R]
    /\ owner' = [j \in Jobs |-> IF j \in R THEN NoWorker ELSE owner[j]]
    /\ expired' = [j \in Jobs |-> expired[j] /\ j \notin R]

Init ==
    /\ status = [j \in Jobs |-> "absent"]
    /\ attempts = [j \in Jobs |-> 0]
    /\ due = [j \in Jobs |-> FALSE]
    /\ owner = [j \in Jobs |-> NoWorker]
    /\ expired = [j \in Jobs |-> FALSE]
    /\ pc = [w \in Workers |-> "down"]
    /\ cur = [w \in Workers |-> NoJob]
    /\ snap = [w \in Workers |-> 0]
    /\ bg = [w \in Workers |-> FALSE]

-------------------------------------------------------------------------------
(* Producers: webhooks, API routes, the periodic scheduler, other handlers. *)

\* INSERT OR IGNORE: a conflicting insert changes nothing, so only the others are steps.
Enqueue(j) ==
    /\ status[j] = "absent"
    /\ ~UniqueConflict(j)
    /\ status' = [status EXCEPT ![j] = "queued"]
    /\ due' = [due EXCEPT ![j] = TRUE]
    /\ UNCHANGED <<attempts, owner, expired, loopVars, bg>>

-------------------------------------------------------------------------------
(* The consumer loop. *)

\* lease_due_job, first statement: the row and its counters are read, nothing is locked.
SelectDue(w) ==
    /\ pc[w] = "poll"
    /\ \E j \in Jobs :
         /\ status[j] \in Leasable /\ due[j]
         /\ cur' = [cur EXCEPT ![w] = j]
         /\ snap' = [snap EXCEPT ![w] = attempts[j]]
    /\ pc' = [pc EXCEPT ![w] = "select"]
    /\ UNCHANGED <<rowVars, bg>>

ToPoll(w) ==
    /\ pc' = [pc EXCEPT ![w] = "poll"]
    /\ cur' = [cur EXCEPT ![w] = NoJob]
    /\ snap' = [snap EXCEPT ![w] = 0]

\* lease_due_job, second statement: guarded by the status alone (run_after is not read again).
\* When another worker was faster no row changes and the loop goes on polling.
Lease(w) ==
    LET j == cur[w] IN
    /\ pc[w] = "select"
    /\ IF status[j] \in Leasable
       THEN /\ status' = [status EXCEPT ![j] = "leased"]
            /\ owner' = [owner EXCEPT ![j] = w]
            /\ expired' = [expired EXCEPT ![j] = FALSE]
            /\ pc' = [pc EXCEPT ![w] = "running"]
            /\ UNCHANGED <<attempts, due, cur, snap, bg>>
       ELSE ToPoll(w) /\ UNCHANGED <<rowVars, bg>>

\* The handler returned Ok: complete_job deletes the row, whoever leases it by now.
CompleteJob(w) ==
    /\ pc[w] = "running" /\ cur[w] \notin Poison
    /\ Delete({cur[w]})
    /\ ToPoll(w)
    /\ UNCHANGED bg

\* A process whose loop returned Err or panicked.  Supervised, only the loop stops and the
\* background tasks it spawned go on; alone in main, the process exits.
StopLoop(w) ==
    /\ pc' = [pc EXCEPT ![w] = "down"]
    /\ cur' = [cur EXCEPT ![w] = NoJob]
    /\ snap' = [snap EXCEPT ![w] = 0]
    /\ bg' = [bg EXCEPT ![w] = Role = "all" /\ @]

\* next_run_after is None: decided from the attempt_count read before the handler ran.
NoNextRun(w) == snap[w] + 1 >= RowMaxAttempts

\* Seeded fault: a status that no query of the queue knows.
FailedStatusMisspelt(w) ==
    IF attempts[cur[w]] + 1 >= ConfigMaxAttempts \/ NoNextRun(w) THEN "failed" ELSE "retryable"

\* Seeded fault: only the worker's own snapshot decides whether the job is dead.
FailedStatusBySnapshot(w) == IF NoNextRun(w) THEN "dead" ELSE "retryable"

\* fail_job's CASE: decided from the attempt_count the row has now.
FailedStatus(w) ==
    IF attempts[cur[w]] + 1 >= ConfigMaxAttempts \/ NoNextRun(w) THEN "dead" ELSE "retryable"

\* The handler returned Err: fail_job updates the row by id alone, neither lease_owner nor
\* status is compared.  No row matches once it was deleted; bringing a dead row back beside a
\* newer active one breaks the unique index, and the error stops the loop.
FailJob(w) ==
    LET j == cur[w] IN
    /\ pc[w] = "running" /\ j \notin Poison
    /\ IF status[j] = "gone"
       THEN ToPoll(w) /\ UNCHANGED <<rowVars, bg>>
       ELSE IF FailedStatus(w) = "retryable" /\ UniqueConflict(j)
       THEN StopLoop(w) /\ UNCHANGED rowVars
       ELSE /\ status' = [status EXCEPT ![j] = FailedStatus(w)]
            /\ attempts' = [attempts EXCEPT ![j] = @ + 1]
            /\ due' = [due EXCEPT ![j] = NoNextRun(w) /\ @]
            /\ ToPoll(w)
            /\ UNCHANGED <<owner, expired, bg>>

\* A statement of the loop fails (run_worker_consumer_loop returns Err), or the handler panics.
LoopFails(w) ==
    /\ pc[w] # "down"
    /\ StopLoop(w)
    /\ UNCHANGED rowVars

-------------------------------------------------------------------------------
(* Recovery, maintenance and time. *)

\* The process dies at any point: the loop and the background tasks with it.
Crash(w) ==
    /\ pc[w] # "down" \/ bg[w]
    /\ pc' = [pc EXCEPT ![w] = "down"]
    /\ cur' = [cur EXCEPT ![w] = NoJob]
    /\ snap' = [snap EXCEPT ![w] = 0]
    /\ bg' = [bg EXCEPT ![w] = FALSE]
    /\ UNCHANGED rowVars

\* Seeded fault: start-up without recover_stale_leases.
StartWithoutRecovery(w) ==
    /\ pc[w] = "down"
    /\ pc' = [pc EXCEPT ![w] = "poll"]
    /\ bg' = [bg EXCEPT ![w] = TRUE]
    /\ UNCHANGED <<rowVars, cur, snap>>

\* run_worker_loop: recover_stale_leases takes every lease of the table, its own or another
\* process's, expired or not, without charging an attempt; then the tasks are spawned.
Start(w) ==
    /\ pc[w] = "down"
    /\ status' = [j \in Jobs |-> IF status[j] = "leased" THEN "queued" ELSE status[j]]
    /\ owner' = [j \in Jobs |-> IF status[j] = "leased" THEN NoWorker ELSE owner[j]]
    /\ expired' = [j \in Jobs |-> IF status[j] = "leased" THEN FALSE ELSE expired[j]]
    /\ pc' = [pc EXCEPT ![w] = "poll"]
    /\ bg' = [bg EXCEPT ![w] = TRUE]
    /\ UNCHANGED <<attempts, due, cur, snap>>

Stale(j) == status[j] = "leased" /\ expired[j]

\* Seeded fault: the first UPDATE of the sweep has no attempt_count condition.
ExhaustedAlways(j) == TRUE

\* Seeded fault: the sweep compares the attempts used so far, not the one just lost.
ExhaustedOneLate(j) == attempts[j] >= RowMaxAttempts

Exhausted(j) == attempts[j] + 1 >= RowMaxAttempts

\* The rows R that one pass of the reaper rewrites: dead when exhausted, queued otherwise.
Reap(R) ==
    /\ R # {}
    /\ status' = [j \in Jobs |-> IF j \in R THEN (IF Exhausted(j) THEN "dead" ELSE "queued")
                                 ELSE status[j]]
    /\ attempts' = [j \in Jobs |-> IF j \in R THEN attempts[j] + 1 ELSE attempts[j]]
    /\ owner' = [j \in Jobs |-> IF j \in R THEN NoWorker ELSE owner[j]]
    /\ expired' = [j \in Jobs |-> IF j \in R THEN FALSE ELSE expired[j]]
    /\ UNCHANGED <<due, loopVars, bg>>

\* reap_expired_leases: two UPDATEs with the same `now`.  What happens between them can only
\* take rows out of the second one's reach (a new lease expires after `now`), so both are one
\* step, or the second fails and the exhausted rows alone are rewritten.
ReapExpired(w) ==
    /\ bg[w]
    /\ \/ Reap({j \in Jobs : Stale(j)})
       \/ Reap({j \in Jobs : Stale(j) /\ Exhausted(j)})

\* purge_dead_jobs: the dead rows last updated more than seven days ago.
PurgeDead(w) ==
    /\ bg[w]
    /\ \E old \in (SUBSET {j \in Jobs : status[j] = "dead"}) \ {{}} : Delete(old)
    /\ UNCHANGED <<loopVars, bg>>

\* lease_seconds pass: nothing renews a lease, and handlers wait up to 600 s for one request.
LeaseExpires(j) ==
    /\ status[j] = "leased" /\ ~expired[j]
    /\ expired' = [expired EXCEPT ![j] = TRUE]
    /\ UNCHANGED <<status, attempts, due, owner, loopVars, bg>>

\* The retry delay passes (also for a row that was leased meanwhile, see Lease).
BecomesDue(j) ==
    /\ status[j] \in Active /\ ~due[j]
    /\ due' = [due EXCEPT ![j] = TRUE]
    /\ UNCHANGED <<status, attempts, owner, expired, loopVars, bg>>

\* A handler ends: it returns, or it panics when the row is poison.
HandlerEnds(w) ==
    \/ CompleteJob(w) \/ FailJob(w)
    \/ pc[w] = "running" /\ cur[w] \in Poison /\ LoopFails(w)

Next ==
    \/ \E j \in Jobs : Enqueue(j) \/ LeaseExpires(j) \/ BecomesDue(j)
    \/ \E w \in Workers :
         \/ SelectDue(w) \/ Lease(w)
         \/ CompleteJob(w) \/ FailJob(w)
         \/ LoopFails(w) \/ Crash(w) \/ Start(w)
         \/ ReapExpired(w) \/ PurgeDead(w)

Safety == Init /\ [][Next]_vars

\* What the runtime keeps doing: a loop polls and its handlers return or panic, a stopped loop
\* is restarted by its supervisor or the container, the tickers tick, time passes.  Nobody has
\* to enqueue, to purge, to crash or to lose the database.
Fairness ==
    /\ \A w \in Workers : WF_vars(SelectDue(w)) /\ WF_vars(Lease(w)) /\ WF_vars(HandlerEnds(w))
                          /\ WF_vars(Start(w)) /\ WF_vars(ReapExpired(w))
    /\ \A j \in Jobs : WF_vars(LeaseExpires(j)) /\ WF_vars(BecomesDue(j))

Spec == Safety /\ Fairness

-------------------------------------------------------------------------------
(* Properties *)

Statuses == {"absent", "queued", "retryable", "leased", "dead", "gone"}

\* Types, and that a loop holds a row exactly while it is between SELECT and its last UPDATE.
TypeOK ==
    /\ status \in [Jobs -> Statuses]
    /\ attempts \in [Jobs -> Nat]
    /\ due \in [Jobs -> BOOLEAN]
    /\ owner \in [Jobs -> Workers \cup {NoWorker}]
    /\ expired \in [Jobs -> BOOLEAN]
    /\ pc \in [Workers -> {"down", "poll", "select", "running"}]
    /\ cur \in [Workers -> Jobs \cup {NoJob}]
    /\ snap \in [Workers -> Nat]
    /\ bg \in [Workers -> BOOLEAN]
    /\ \A w \in Workers : cur[w] \in Jobs <=> pc[w] \in {"select", "running"}

\* A job that can still be picked up has an attempt left: whatever reaper, recovery and stale
\* workers do to the row, an exhausted job is never leased again (README: exhausted jobs "move
\* to a dead state instead of retrying forever").
ActiveHasBudget ==
    \A j \in Jobs : status[j] \in Active => attempts[j] < RowMaxAttempts

\* A dead row has used up the limit that fail_job compares with, so that no failure report of a
\* worker that lost its lease can bring it back.
DeadIsExhausted ==
    \A j \in Jobs : status[j] = "dead" => attempts[j] >= ConfigMaxAttempts

\* The attempt count a loop read before its handler is never ahead of the row's.
SnapshotNotAhead ==
    \A w \in Workers :
        pc[w] \in {"select", "running"} /\ status[cur[w]] # "gone" =>
            snap[w] <= attempts[cur[w]]

\* The index's own invariant.
OneActivePerKey ==
    \A i, j \in Jobs : status[i] \in Active /\ status[j] \in Active /\ SameKey(i, j) => i = j

\* A row that was never inserted has no history and no worker.
AbsentUntouched ==
    \A j \in Jobs : status[j] = "absent" => attempts[j] = 0 /\ \A w \in Workers : cur[w] # j

\* The invariant that the steps preserve when ConfigMaxAttempts <= RowMaxAttempts.
QueueInvariant ==
    /\ TypeOK
    /\ ActiveHasBudget
    /\ DeadIsExhausted
    /\ SnapshotNotAhead
    /\ OneActivePerKey
    /\ AbsentUntouched

\* A lease belongs to a loop that is executing the job, unless that loop has died: a live
\* worker never leaves a leased row behind that only the reaper could free.
LeaseIsHeld ==
    \A j \in Jobs : status[j] = "leased" =>
        /\ owner[j] \in Workers
        /\ Running(owner[j], j) \/ pc[owner[j]] = "down"

Runners(j) == {w \in Workers : Running(w, j)}

\* Workers that lost their lease still charge their failure to the row.  The overrun is bounded:
\* each worker can push the counter past the limit once.
OverrunBounded ==
    \A j \in Jobs : status[j] # "gone" =>
        attempts[j] + Cardinality(Runners(j)) <= RowMaxAttempts + Cardinality(Workers)

RowState ==
    [j \in Jobs |-> IF status[j] \in Active THEN "pending" ELSE status[j]]

DQ == INSTANCE DurableQueue WITH row <- RowState

\* The leases, retries, recovery and purge implement the queue of DurableQueue: one pending job
\* per dedupe key, dead is final, and a row leaves the table finished or purged.
ImplementsDurableQueue == DQ!Spec

\* A loop or a process stops in this step for a reason that is not the job it runs: the database
\* failed or the machine did.
OutsideFailure ==
    \E w \in Workers :
        /\ \/ pc[w] # "down" /\ pc'[w] = "down"
           \/ bg[w] /\ ~bg'[w]
        /\ ~(pc[w] = "running" /\ cur[w] \in Poison)

\* README: "jobs that exhaust their attempts move to a dead state instead of retrying forever":
\* every job that enters the queue is finished or declared dead, if the failures from outside
\* eventually stop.
EveryJobSettles ==
    <>[][~OutsideFailure]_vars =>
        \A j \in Jobs : status[j] \in Active ~> status[j] \in {"dead", "gone"}

\* README: "Workers lease due jobs from Turso so only one worker owns a job at a time."
OneWorkerPerJob ==
    \A v, w \in Workers, j \in Jobs : Running(v, j) /\ Running(w, j) => v = w

================================================================================
