--------------------------- MODULE HandlerQueueSpec ---------------------------
(***************************************************************************)
(* HandlerQueue as a specification of its own: what producers and          *)
(* consumer loops may see of the queue when handlers do nothing but end.   *)
(* The modules that extend HandlerQueue put their handlers' steps between  *)
(* Take and the end of a job, and take the two limits to be equal.         *)
(***************************************************************************)
EXTENDS HandlerQueue

CONSTANTS
    Keys,        \* dedupe keys
    SweepLimit   \* the limit the reaper compares with (MaxAttempts is the one of fail_job)

vars == <<row, attempts, pc, job, lease>>

Init ==
    /\ row = [k \in Keys |-> "none"]
    /\ attempts = [k \in Keys |-> 0]
    /\ pc = [w \in Workers |-> "idle"]
    /\ job = [w \in Workers |-> NoJob]
    /\ lease = [w \in Workers |-> "none"]

Submit(k) == Enqueue(k) /\ UNCHANGED <<pc, job>>

Take(w) == \E k \in Keys : LeaseRow(w, k, "running")

Succeed(w) ==
    /\ pc[w] = "running"
    /\ DeleteRow(w) /\ Leave(w)

Fail(w) ==
    /\ pc[w] = "running"
    /\ FailRow(w) /\ Leave(w)

Held(k) == \E w \in Workers : job[w] = k /\ lease[w] = "held"

\* LoseRow with a charge, for the holders of all the keys F in one statement.
Reap(F) ==
    /\ \A k \in F : Held(k)
    /\ attempts' = [k \in Keys |-> IF k \in F THEN attempts[k] + 1 ELSE attempts[k]]
    /\ row' = [k \in Keys |-> IF k \in F /\ attempts[k] + 1 >= SweepLimit THEN "dead" ELSE row[k]]
    /\ lease' = [w \in Workers |-> IF lease[w] = "held" /\ job[w] \in F THEN "lost" ELSE lease[w]]
    /\ UNCHANGED <<pc, job>>

\* A loop comes back: the job it died in, if any, is forgotten, and LoseRow without a charge
\* happens to every other holder.
Restart(w) ==
    /\ lease' = [v \in Workers |-> IF v = w THEN "none"
                                   ELSE IF lease[v] = "held" THEN "lost" ELSE lease[v]]
    /\ Leave(w)
    /\ UNCHANGED queueVars

\* Dead rows are cleaned away; whoever lost one reports to nothing from now on.
Purge(D) ==
    /\ \A k \in D : row[k] = "dead"
    /\ row' = [k \in Keys |-> IF k \in D THEN "none" ELSE row[k]]
    /\ attempts' = [k \in Keys |-> IF k \in D THEN 0 ELSE attempts[k]]
    /\ lease' = [w \in Workers |-> IF job[w] \in D THEN "gone" ELSE lease[w]]
    /\ UNCHANGED <<pc, job>>

Next ==
    \/ \E k \in Keys : Submit(k)
    \/ \E w \in Workers : Take(w) \/ Succeed(w) \/ Fail(w) \/ Restart(w)
    \/ \E S \in SUBSET Keys : Reap(S) \/ Purge(S)

Spec == Init /\ [][Next]_vars

================================================================================
