----------------------------- MODULE DurableQueue -----------------------------
(***************************************************************************)
(* What the README promises of the durable job queue, whatever workers,    *)
(* leases and retries do underneath: a job is submitted once per active    *)
(* dedupe key, stays pending until it is finished or buried, and a buried  *)
(* ("dead") job is never picked up again; it can only be cleaned away.     *)
(***************************************************************************)
CONSTANTS
    Jobs,    \* the rows ever inserted into the jobs table
    KeyOf,   \* the (job_type, dedupe_key) pair of a row
    NoKey    \* the key of a row inserted without a dedupe key

VARIABLE row \* row[j]: absent, pending, dead or gone

States == {"absent", "pending", "dead", "gone"}

Init == row = [j \in Jobs |-> "absent"]

Submit(j) ==
    /\ row[j] = "absent"
    /\ KeyOf[j] = NoKey \/ \A i \in Jobs : row[i] = "pending" => KeyOf[i] # KeyOf[j]
    /\ row' = [row EXCEPT ![j] = "pending"]

Finish(j) ==
    /\ row[j] = "pending"
    /\ row' = [row EXCEPT ![j] = "gone"]

\* One sweep may bury several jobs.
Bury(S) ==
    /\ \A j \in S : row[j] = "pending"
    /\ row' = [j \in Jobs |-> IF j \in S THEN "dead" ELSE row[j]]

Clean(S) ==
    /\ \A j \in S : row[j] = "dead"
    /\ row' = [j \in Jobs |-> IF j \in S THEN "gone" ELSE row[j]]

Next ==
    \/ \E j \in Jobs : Submit(j) \/ Finish(j)
    \/ \E S \in SUBSET Jobs : Bury(S) \/ Clean(S)

Spec == Init /\ [][Next]_row
================================================================================
