----------------------------- MODULE JobQueueView -----------------------------
(***************************************************************************)
(* JobQueue as HandlerQueueSpec sees it.  The rows of one dedupe key become *)
(* one row, the newest; a loop that died in a handler still counts as      *)
(* running it until it comes back, since nobody can tell a dead loop from  *)
(* a slow one before recovery or the reaper takes its lease.  Two history  *)
(* variables remember what the table and the loops have forgotten by then. *)
(***************************************************************************)
EXTENDS JobQueue

VARIABLES
    newest,  \* newest[k]: the last row that was inserted for key k
    ran      \* ran[w]: the row of the handler that loop w is running, or died in

viewVars == <<status, attempts, due, owner, expired, pc, cur, snap, bg, newest, ran>>

\* A key is the class of the rows that exclude each other; a row without a key is alone in its own.
Key(j) == {i \in Jobs : i = j \/ SameKey(i, j)}
Keys == {Key(j) : j \in Jobs}
NoKeyYet == {}

Inserted(j) == status[j] = "absent" /\ status'[j] # "absent"

\* How the history follows a step.
Remember ==
    /\ newest' = [k \in Keys |-> IF \E j \in k : Inserted(j)
                                 THEN CHOOSE j \in k : Inserted(j)
                                 ELSE newest[k]]
    /\ ran' = [w \in Workers |-> IF pc'[w] = "running" THEN cur'[w]
                                 ELSE IF pc'[w] = "down" THEN ran[w]
                                 ELSE NoJob]

ViewInit ==
    /\ Init
    /\ newest = [k \in Keys |-> NoJob]
    /\ ran = [w \in Workers |-> NoJob]

ViewSafety == ViewInit /\ [][Next /\ Remember]_viewVars

ViewSpec == ViewSafety /\ Fairness

-------------------------------------------------------------------------------
(* The mapping. *)

There(j) == j \in Jobs /\ status[j] # "gone"

RowView ==
    [k \in Keys |-> IF ~There(newest[k]) THEN "none"
                    ELSE IF status[newest[k]] \in Active THEN "active" ELSE "dead"]

AttemptsView == [k \in Keys |-> IF There(newest[k]) THEN attempts[newest[k]] ELSE 0]

PcView == [w \in Workers |-> IF ran[w] = NoJob THEN "idle" ELSE "running"]

JobView == [w \in Workers |-> IF ran[w] = NoJob THEN NoKeyYet ELSE Key(ran[w])]

\* What loop w may still do to a row j it ran.
Claim(w, j) ==
    IF ~There(j) \/ newest[Key(j)] # j THEN "gone"
    ELSE IF status[j] = "leased" /\ owner[j] = w THEN "held" ELSE "lost"

LeaseView == [w \in Workers |-> IF ran[w] = NoJob THEN "none" ELSE Claim(w, ran[w])]

HQ == INSTANCE HandlerQueueSpec WITH
        NoJob <- NoKeyYet, MaxAttempts <- ConfigMaxAttempts, SweepLimit <- RowMaxAttempts,
        row <- RowView, attempts <- AttemptsView, pc <- PcView, job <- JobView, lease <- LeaseView

\* The queue that the handlers of the other modules are checked against is the one the statements
\* of events.rs implement: retries, recovery, the reaper, purges and the late reports of stale
\* workers come to no more than HandlerQueue allows.
ImplementsHandlerQueue == HQ!Spec

\* The history agrees with the table and the loops: what is active is the newest of its key, and
\* a lease belongs to the loop that ran the row last.
HistoryAgrees ==
    /\ \A k \in Keys : newest[k] \in k \cup {NoJob}
    /\ \A j \in Jobs : status[j] # "absent" => newest[Key(j)] \in Jobs
    /\ \A k \in Keys : newest[k] \in Jobs => status[newest[k]] # "absent"
    /\ \A j \in Jobs : status[j] \in Active => newest[Key(j)] = j
    /\ \A w \in Workers : /\ pc[w] = "running" => ran[w] = cur[w]
                          /\ pc[w] \in {"poll", "select"} => ran[w] = NoJob
                          /\ ran[w] \in Jobs => status[ran[w]] # "absent"
    /\ \A j \in Jobs : status[j] = "leased" => ran[owner[j]] = j

================================================================================
