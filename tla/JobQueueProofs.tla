----------------------------- MODULE JobQueueProofs -----------------------------
(***************************************************************************)
(* Proofs about JobQueue for any number of rows, processes and keys and    *)
(* for any limits with WORKER_MAX_ATTEMPTS <= jobs.max_attempts (both are 8 *)
(* by default).                                                            *)
(***************************************************************************)
EXTENDS JobQueue, FiniteSetTheorems, TLAPS

LimitsOrdered == ConfigMaxAttempts <= RowMaxAttempts

LEMMA InitTypeOK == Init => TypeOK
  BY ConstantsAssumption DEF Init, TypeOK, Statuses

LEMMA NextTypeOK == TypeOK /\ [Next]_vars => TypeOK'
<1> SUFFICES ASSUME TypeOK, [Next]_vars PROVE TypeOK'
  OBVIOUS
<1> USE ConstantsAssumption DEF TypeOK, Statuses
<1>1. ASSUME NEW j \in Jobs, Enqueue(j) PROVE TypeOK'
  BY <1>1 DEF Enqueue, loopVars
<1>2. ASSUME NEW j \in Jobs, LeaseExpires(j) PROVE TypeOK'
  BY <1>2 DEF LeaseExpires, loopVars
<1>3. ASSUME NEW j \in Jobs, BecomesDue(j) PROVE TypeOK'
  BY <1>3 DEF BecomesDue, loopVars
<1>4. ASSUME NEW w \in Workers, SelectDue(w) PROVE TypeOK'
  BY <1>4 DEF SelectDue, rowVars
<1>5. ASSUME NEW w \in Workers, Lease(w) PROVE TypeOK'
  <2>1. cur[w] \in Jobs /\ pc[w] = "select"
    BY <1>5 DEF Lease
  <2>2. CASE status[cur[w]] \in Leasable
    <3>1. expired' \in [Jobs -> BOOLEAN]
      BY <1>5, <2>1, <2>2 DEF Lease
    <3>2. status' \in [Jobs -> Statuses] /\ owner' \in [Jobs -> Workers \cup {NoWorker}]
      BY <1>5, <2>1, <2>2 DEF Lease
    <3>3. QED
      BY <1>5, <2>1, <2>2, <3>1, <3>2 DEF Lease
  <2>3. CASE status[cur[w]] \notin Leasable
    BY <1>5, <2>1, <2>3 DEF Lease, ToPoll, rowVars
  <2>4. QED
    BY <2>2, <2>3
<1>6. ASSUME NEW w \in Workers, CompleteJob(w) PROVE TypeOK'
  BY <1>6 DEF CompleteJob, Delete, ToPoll
<1>7. ASSUME NEW w \in Workers, FailJob(w) PROVE TypeOK'
  <2> DEFINE j == cur[w]
  <2>1. j \in Jobs /\ pc[w] = "running"
    BY <1>7 DEF FailJob
  <2>2. CASE status[j] = "gone"
    BY <1>7, <2>1, <2>2 DEF FailJob, ToPoll, rowVars
  <2>3. CASE status[j] # "gone" /\ FailedStatus(w) = "retryable" /\ UniqueConflict(j)
    <3>1. StopLoop(w) /\ UNCHANGED rowVars
      BY <1>7, <2>1, <2>3 DEF FailJob
    <3>2. QED
      BY <2>1, <3>1 DEF StopLoop, rowVars
  <2>4. CASE status[j] # "gone" /\ ~(FailedStatus(w) = "retryable" /\ UniqueConflict(j))
    <3>1. FailedStatus(w) \in {"dead", "retryable"}
      BY DEF FailedStatus
    <3>2. NoNextRun(w) \in BOOLEAN
      BY DEF NoNextRun
    <3>3. /\ status' = [status EXCEPT ![j] = FailedStatus(w)]
          /\ attempts' = [attempts EXCEPT ![j] = @ + 1]
          /\ due' = [due EXCEPT ![j] = NoNextRun(w) /\ @]
          /\ ToPoll(w)
          /\ UNCHANGED <<owner, expired, bg>>
      BY <1>7, <2>4 DEF FailJob
    <3>4. due' \in [Jobs -> BOOLEAN]
      BY <3>2, <3>3
    <3>5. status' \in [Jobs -> Statuses] /\ attempts' \in [Jobs -> Nat]
      BY <2>1, <3>1, <3>3
    <3>6. QED
      BY <2>1, <3>3, <3>4, <3>5 DEF ToPoll
  <2>5. QED
    BY <2>2, <2>3, <2>4
<1>8. ASSUME NEW w \in Workers, LoopFails(w) PROVE TypeOK'
  BY <1>8 DEF LoopFails, StopLoop, rowVars
<1>9. ASSUME NEW w \in Workers, Crash(w) PROVE TypeOK'
  BY <1>9 DEF Crash, rowVars
<1>10. ASSUME NEW w \in Workers, Start(w) PROVE TypeOK'
  BY <1>10 DEF Start
<1>11. ASSUME NEW w \in Workers, ReapExpired(w) PROVE TypeOK'
  <2>1. ASSUME NEW R, Reap(R) PROVE TypeOK'
    <3>1. status' \in [Jobs -> Statuses] /\ attempts' \in [Jobs -> Nat]
      BY <2>1 DEF Reap
    <3>2. owner' \in [Jobs -> Workers \cup {NoWorker}]
      BY <2>1 DEF Reap
    <3>3. expired' \in [Jobs -> BOOLEAN]
      BY <2>1 DEF Reap
    <3>4. QED
      BY <2>1, <3>1, <3>2, <3>3 DEF Reap, loopVars
  <2>2. QED
    BY <1>11, <2>1 DEF ReapExpired
<1>12. ASSUME NEW w \in Workers, PurgeDead(w) PROVE TypeOK'
  BY <1>12 DEF PurgeDead, Delete, loopVars
<1>13. CASE UNCHANGED vars
  BY <1>13 DEF vars
<1>14. QED
  BY <1>1, <1>2, <1>3, <1>4, <1>5, <1>6, <1>7, <1>8, <1>9, <1>10, <1>11, <1>12, <1>13 DEF Next

THEOREM TypeCorrect == Safety => []TypeOK
  BY InitTypeOK, NextTypeOK, PTL DEF Safety

-------------------------------------------------------------------------------
(* Attempts and dedupe keys. *)

LEMMA InitInvariant == Init => QueueInvariant
  BY InitTypeOK, ConstantsAssumption
  DEF Init, QueueInvariant, ActiveHasBudget, DeadIsExhausted, SnapshotNotAhead,
      OneActivePerKey, AbsentUntouched, Active

\* What the row cur[w] of a loop that fails looks like afterwards.
LEMMA FailVerdict ==
  ASSUME LimitsOrdered, QueueInvariant, NEW w \in Workers, pc[w] = "running",
         status[cur[w]] # "gone"
  PROVE  /\ FailedStatus(w) = "dead" => attempts[cur[w]] + 1 >= ConfigMaxAttempts
         /\ FailedStatus(w) = "retryable" => attempts[cur[w]] + 1 < ConfigMaxAttempts
         /\ FailedStatus(w) \in {"dead", "retryable"}
<1>1. cur[w] \in Jobs /\ snap[w] <= attempts[cur[w]]
  BY DEF QueueInvariant, TypeOK, SnapshotNotAhead
<1>2. attempts[cur[w]] \in Nat /\ snap[w] \in Nat
  BY <1>1 DEF QueueInvariant, TypeOK
<1>3. QED
  BY <1>1, <1>2, ConstantsAssumption DEF FailedStatus, NoNextRun, LimitsOrdered

\* Attempts only matter where the row stays in the table, and there they never decrease.
LEMMA NextInvariant ==
  ASSUME LimitsOrdered, QueueInvariant, [Next]_vars
  PROVE  QueueInvariant'
<1> USE ConstantsAssumption DEF QueueInvariant, Active
<1>0. TypeOK /\ TypeOK'
  BY NextTypeOK
<1> DEFINE Rest == /\ ActiveHasBudget
                  /\ DeadIsExhausted
                  /\ SnapshotNotAhead
                  /\ OneActivePerKey
                  /\ AbsentUntouched
<1>1. SUFFICES Rest'
  BY <1>0
<1>2. ASSUME NEW j \in Jobs, Enqueue(j) PROVE Rest'
  BY <1>0, <1>2 DEF Enqueue, UniqueConflict, SameKey, loopVars, TypeOK,
     ActiveHasBudget, DeadIsExhausted, SnapshotNotAhead, OneActivePerKey, AbsentUntouched
<1>3. ASSUME NEW j \in Jobs, LeaseExpires(j) \/ BecomesDue(j) PROVE Rest'
  BY <1>0, <1>3 DEF LeaseExpires, BecomesDue, SameKey, loopVars, TypeOK,
     ActiveHasBudget, DeadIsExhausted, SnapshotNotAhead, OneActivePerKey, AbsentUntouched
<1>4. ASSUME NEW w \in Workers, SelectDue(w) PROVE Rest'
  <2>1. PICK j \in Jobs : /\ status[j] \in Leasable
                          /\ cur' = [cur EXCEPT ![w] = j]
                          /\ snap' = [snap EXCEPT ![w] = attempts[j]]
    BY <1>4 DEF SelectDue
  <2>2. UNCHANGED rowVars /\ pc' = [pc EXCEPT ![w] = "select"]
    BY <1>4 DEF SelectDue
  <2>3. AbsentUntouched' /\ SnapshotNotAhead'
    BY <1>0, <2>1, <2>2 DEF AbsentUntouched, SnapshotNotAhead, Leasable, rowVars, TypeOK
  <2>4. QED
    BY <2>2, <2>3 DEF SameKey, rowVars, ActiveHasBudget, DeadIsExhausted, OneActivePerKey
<1>5. ASSUME NEW w \in Workers, Lease(w) PROVE Rest'
  BY <1>0, <1>5 DEF Lease, Leasable, ToPoll, SameKey, rowVars, TypeOK,
     ActiveHasBudget, DeadIsExhausted, SnapshotNotAhead, OneActivePerKey, AbsentUntouched
<1>6. ASSUME NEW w \in Workers, CompleteJob(w) PROVE Rest'
  BY <1>0, <1>6 DEF CompleteJob, Delete, ToPoll, SameKey, TypeOK,
     ActiveHasBudget, DeadIsExhausted, SnapshotNotAhead, OneActivePerKey, AbsentUntouched
<1>7. ASSUME NEW w \in Workers, FailJob(w) PROVE Rest'
  <2> DEFINE j == cur[w]
  <2>1. j \in Jobs /\ pc[w] = "running"
    BY <1>7 DEF FailJob, TypeOK
  <2>2. CASE status[j] = "gone"
    BY <1>0, <1>7, <2>2 DEF FailJob, ToPoll, SameKey, rowVars, TypeOK,
       ActiveHasBudget, DeadIsExhausted, SnapshotNotAhead, OneActivePerKey, AbsentUntouched
  <2>3. CASE status[j] # "gone" /\ FailedStatus(w) = "retryable" /\ UniqueConflict(j)
    BY <1>0, <1>7, <2>3 DEF FailJob, StopLoop, SameKey, rowVars, TypeOK,
       ActiveHasBudget, DeadIsExhausted, SnapshotNotAhead, OneActivePerKey, AbsentUntouched
  <2>4. CASE status[j] # "gone" /\ ~(FailedStatus(w) = "retryable" /\ UniqueConflict(j))
    <3>1. /\ status' = [status EXCEPT ![j] = FailedStatus(w)]
          /\ attempts' = [attempts EXCEPT ![j] = @ + 1]
          /\ ToPoll(w)
      BY <1>7, <2>4 DEF FailJob
    <3>2. /\ FailedStatus(w) = "dead" => attempts[j] + 1 >= ConfigMaxAttempts
          /\ FailedStatus(w) = "retryable" => attempts[j] + 1 < ConfigMaxAttempts
          /\ FailedStatus(w) \in {"dead", "retryable"}
      BY <2>1, <2>4, FailVerdict
    <3>3. /\ attempts'[j] = attempts[j] + 1 /\ status'[j] = FailedStatus(w)
          /\ \A i \in Jobs \ {j} : attempts'[i] = attempts[i] /\ status'[i] = status[i]
      BY <1>0, <2>1, <3>1 DEF TypeOK
    <3>4. ActiveHasBudget' /\ DeadIsExhausted'
      BY <1>0, <2>1, <3>2, <3>3 DEF ActiveHasBudget, DeadIsExhausted, LimitsOrdered, TypeOK
    <3>5. SnapshotNotAhead'
      BY <1>0, <2>1, <2>4, <3>1, <3>3 DEF SnapshotNotAhead, ToPoll, TypeOK
    <3>6. OneActivePerKey'
      BY <2>1, <2>4, <3>2, <3>3 DEF OneActivePerKey, UniqueConflict, SameKey
    <3>7. AbsentUntouched'
      BY <1>0, <2>1, <3>1, <3>2, <3>3, ConstantsAssumption DEF AbsentUntouched, ToPoll, TypeOK
    <3>8. QED
      BY <3>4, <3>5, <3>6, <3>7
  <2>5. QED
    BY <2>2, <2>3, <2>4
<1>8. ASSUME NEW w \in Workers, LoopFails(w) \/ Crash(w) PROVE Rest'
  BY <1>0, <1>8 DEF LoopFails, Crash, StopLoop, SameKey, rowVars, TypeOK,
     ActiveHasBudget, DeadIsExhausted, SnapshotNotAhead, OneActivePerKey, AbsentUntouched
<1>9. ASSUME NEW w \in Workers, Start(w) PROVE Rest'
  BY <1>0, <1>9 DEF Start, SameKey, TypeOK,
     ActiveHasBudget, DeadIsExhausted, SnapshotNotAhead, OneActivePerKey, AbsentUntouched
<1>10. ASSUME NEW w \in Workers, ReapExpired(w) PROVE Rest'
  <2>1. PICK R \in SUBSET Jobs : Reap(R) /\ \A j \in R : status[j] = "leased"
    BY <1>10 DEF ReapExpired, Stale
  <2>2. \A j \in R : /\ attempts'[j] = attempts[j] + 1
                    /\ status'[j] = IF Exhausted(j) THEN "dead" ELSE "queued"
    BY <2>1 DEF Reap
  <2>3. \A j \in Jobs \ R : attempts'[j] = attempts[j] /\ status'[j] = status[j]
    BY <2>1 DEF Reap
  <2>4. ActiveHasBudget' /\ DeadIsExhausted'
    BY <1>0, <2>2, <2>3
    DEF ActiveHasBudget, DeadIsExhausted, Exhausted, LimitsOrdered, TypeOK
  <2>5. SnapshotNotAhead'
    BY <1>0, <2>1, <2>2, <2>3 DEF SnapshotNotAhead, Reap, loopVars, TypeOK
  <2>6. OneActivePerKey'
    BY <2>1, <2>2, <2>3 DEF OneActivePerKey, SameKey
  <2>7. AbsentUntouched'
    BY <2>1, <2>2, <2>3 DEF AbsentUntouched, Reap, loopVars
  <2>8. QED
    BY <2>4, <2>5, <2>6, <2>7
<1>11. ASSUME NEW w \in Workers, PurgeDead(w) PROVE Rest'
  BY <1>0, <1>11 DEF PurgeDead, Delete, SameKey, loopVars, TypeOK,
     ActiveHasBudget, DeadIsExhausted, SnapshotNotAhead, OneActivePerKey, AbsentUntouched
<1>12. CASE UNCHANGED vars
  BY <1>12 DEF vars, SameKey, ActiveHasBudget, DeadIsExhausted, SnapshotNotAhead, OneActivePerKey, AbsentUntouched
<1>13. QED
  BY <1>2, <1>3, <1>4, <1>5, <1>6, <1>7, <1>8, <1>9, <1>10, <1>11, <1>12 DEF Next

THEOREM InvariantHolds ==
  ASSUME LimitsOrdered PROVE Safety => []QueueInvariant
<1>1. QueueInvariant /\ [Next]_vars => QueueInvariant'
  BY NextInvariant
<1>2. QED
  BY <1>1, InitInvariant, PTL DEF Safety

\* A row that can be leased still has an attempt left, for every number of workers and rows.
THEOREM BudgetHolds ==
  ASSUME LimitsOrdered PROVE Safety => []ActiveHasBudget
<1>1. QueueInvariant => ActiveHasBudget
  BY DEF QueueInvariant
<1>2. QED
  BY <1>1, InvariantHolds, PTL

\* A dead row has used up the configured limit.
THEOREM DeadExhausted ==
  ASSUME LimitsOrdered PROVE Safety => []DeadIsExhausted
<1>1. QueueInvariant => DeadIsExhausted
  BY DEF QueueInvariant
<1>2. QED
  BY <1>1, InvariantHolds, PTL

-------------------------------------------------------------------------------
(* The overrun of the attempt counter of dead rows. *)

LEMMA RunnersFinite ==
  ASSUME NEW j \in Jobs
  PROVE  /\ IsFiniteSet(Runners(j)) /\ Cardinality(Runners(j)) \in Nat
         /\ Cardinality(Runners(j)) <= Cardinality(Workers)
         /\ Cardinality(Workers) \in Nat
<1>1. Runners(j) \in SUBSET Workers
  BY DEF Runners
<1>2. QED
  BY <1>1, ConstantsAssumption, FS_Subset, FS_CardinalityType

\* Charged(j): a worker that still runs row j reports its failure and stops running it.
Charged(j) ==
    \E w \in Runners(j) : /\ attempts'[j] = attempts[j] + 1
                          /\ Runners(j)' \subseteq Runners(j) \ {w}

Kept(j) == attempts'[j] = attempts[j] /\ Runners(j)' \subseteq Runners(j)

\* A dead row stays as it is or pays for one of its remaining runners.
LEMMA DeadRowStep ==
  ASSUME QueueInvariant, [Next]_vars,
         NEW j \in Jobs, status[j] = "dead", status'[j] = "dead"
  PROVE  Kept(j) \/ Charged(j)
<1> USE DEF Kept, Runners, Running
<1>0. TypeOK
  BY DEF QueueInvariant
<1>1. ASSUME NEW i \in Jobs, Enqueue(i) \/ LeaseExpires(i) \/ BecomesDue(i) PROVE Kept(j)
  BY <1>1 DEF Enqueue, LeaseExpires, BecomesDue, loopVars
<1>2. ASSUME NEW w \in Workers, SelectDue(w) PROVE Kept(j)
  BY <1>0, <1>2 DEF SelectDue, rowVars, TypeOK
<1>3. ASSUME NEW w \in Workers, Lease(w) PROVE Kept(j)
  BY <1>0, <1>3 DEF Lease, Leasable, ToPoll, rowVars, TypeOK
<1>4. ASSUME NEW w \in Workers, CompleteJob(w) PROVE Kept(j)
  BY <1>0, <1>4 DEF CompleteJob, Delete, ToPoll, TypeOK
<1>5. ASSUME NEW w \in Workers, FailJob(w) PROVE Kept(j) \/ Charged(j)
  <2>1. pc[w] = "running" /\ (ToPoll(w) \/ StopLoop(w))
    BY <1>5 DEF FailJob
  <2>2. Runners(j)' \subseteq Runners(j) \ {w}
    BY <1>0, <2>1 DEF ToPoll, StopLoop, TypeOK
  <2>3. CASE UNCHANGED rowVars
    BY <2>2, <2>3 DEF rowVars
  <2>4. CASE attempts' = [attempts EXCEPT ![cur[w]] = @ + 1] /\ cur[w] # j
    BY <1>0, <2>2, <2>4 DEF TypeOK
  <2>5. CASE attempts' = [attempts EXCEPT ![cur[w]] = @ + 1] /\ cur[w] = j
    BY <1>0, <2>1, <2>2, <2>5 DEF TypeOK, Charged
  <2>6. QED
    BY <1>5, <2>3, <2>4, <2>5 DEF FailJob
<1>6. ASSUME NEW w \in Workers, LoopFails(w) \/ Crash(w) PROVE Kept(j)
  BY <1>0, <1>6 DEF LoopFails, Crash, StopLoop, rowVars, TypeOK
<1>7. ASSUME NEW w \in Workers, Start(w) PROVE Kept(j)
  BY <1>0, <1>7 DEF Start, TypeOK
<1>8. ASSUME NEW w \in Workers, ReapExpired(w) PROVE Kept(j)
  BY <1>8 DEF ReapExpired, Reap, Stale, loopVars
<1>9. ASSUME NEW w \in Workers, PurgeDead(w) PROVE Kept(j)
  BY <1>9 DEF PurgeDead, Delete, loopVars
<1>10. CASE UNCHANGED vars
  BY <1>10 DEF vars
<1>11. QED
  BY <1>1, <1>2, <1>3, <1>4, <1>5, <1>6, <1>7, <1>8, <1>9, <1>10 DEF Next

\* A row that dies in this step had its last attempt left.
LEMMA NewlyDead ==
  ASSUME QueueInvariant, [Next]_vars,
         NEW j \in Jobs, status[j] # "dead", status'[j] = "dead"
  PROVE  status[j] \in Active /\ attempts'[j] = attempts[j] + 1
<1>0. TypeOK /\ AbsentUntouched
  BY DEF QueueInvariant
<1>1. ASSUME NEW i \in Jobs, Enqueue(i) \/ LeaseExpires(i) \/ BecomesDue(i) PROVE FALSE
  BY <1>0, <1>1 DEF Enqueue, LeaseExpires, BecomesDue, TypeOK
<1>2. ASSUME NEW w \in Workers, SelectDue(w) \/ LoopFails(w) \/ Crash(w) PROVE FALSE
  BY <1>2 DEF SelectDue, LoopFails, Crash, rowVars
<1>3. ASSUME NEW w \in Workers, Lease(w) PROVE FALSE
  BY <1>0, <1>3 DEF Lease, rowVars, TypeOK
<1>4. ASSUME NEW w \in Workers, CompleteJob(w) \/ Start(w) \/ PurgeDead(w) PROVE FALSE
  <2>1. ASSUME NEW R, Delete(R) PROVE FALSE
    BY <2>1 DEF Delete
  <2>2. CASE Start(w)
    BY <2>2 DEF Start
  <2>3. QED
    BY <1>4, <2>1, <2>2 DEF CompleteJob, PurgeDead
<1>5. ASSUME NEW w \in Workers, FailJob(w)
      PROVE  status[j] \in Active /\ attempts'[j] = attempts[j] + 1
  <2>1. pc[w] = "running" /\ cur[w] \in Jobs
    BY <1>0, <1>5 DEF FailJob, TypeOK
  <2>2. CASE UNCHANGED rowVars
    BY <2>2 DEF rowVars
  <2>3. CASE /\ status[cur[w]] # "gone"
             /\ status' = [status EXCEPT ![cur[w]] = FailedStatus(w)]
             /\ attempts' = [attempts EXCEPT ![cur[w]] = @ + 1]
    <3>1. j = cur[w]
      BY <1>0, <2>1, <2>3 DEF TypeOK
    <3>2. QED
      BY <1>0, <2>1, <2>3, <3>1 DEF TypeOK, Statuses, AbsentUntouched, Active
  <2>4. QED
    BY <1>5, <2>2, <2>3 DEF FailJob
<1>6. ASSUME NEW w \in Workers, ReapExpired(w)
      PROVE  status[j] \in Active /\ attempts'[j] = attempts[j] + 1
  BY <1>6 DEF ReapExpired, Reap, Stale, Active
<1>7. CASE UNCHANGED vars
  BY <1>7 DEF vars
<1>8. QED
  BY <1>1, <1>2, <1>3, <1>4, <1>5, <1>6, <1>7 DEF Next

LEMMA NextOverrun ==
  ASSUME LimitsOrdered, QueueInvariant, QueueInvariant', OverrunBounded, [Next]_vars
  PROVE  OverrunBounded'
<1>1. SUFFICES ASSUME NEW j \in Jobs, status'[j] # "gone"
               PROVE  attempts'[j] + Cardinality(Runners(j)')
                        <= RowMaxAttempts + Cardinality(Workers)
  BY DEF OverrunBounded
<1>2. TypeOK /\ TypeOK' /\ ActiveHasBudget /\ ActiveHasBudget' /\ AbsentUntouched'
  BY DEF QueueInvariant
<1>3. /\ IsFiniteSet(Runners(j)) /\ Cardinality(Runners(j)) \in Nat
      /\ Cardinality(Runners(j)) <= Cardinality(Workers) /\ Cardinality(Workers) \in Nat
  BY RunnersFinite
<1>4. Runners(j)' \in SUBSET Workers
  BY DEF Runners
<1>5. Cardinality(Runners(j)') \in Nat /\ Cardinality(Runners(j)') <= Cardinality(Workers)
  BY <1>4, ConstantsAssumption, FS_Subset, FS_CardinalityType
<1>6. attempts[j] \in Nat /\ attempts'[j] \in Nat /\ RowMaxAttempts \in Nat \ {0}
  BY <1>2, ConstantsAssumption DEF TypeOK
<1>7. CASE attempts'[j] <= RowMaxAttempts
  BY <1>3, <1>5, <1>6, <1>7
<1>8. CASE status'[j] = "dead" /\ status[j] = "dead"
  <2>1. attempts[j] + Cardinality(Runners(j)) <= RowMaxAttempts + Cardinality(Workers)
    BY <1>8 DEF OverrunBounded
  <2>2. CASE Kept(j)
    <3>1. Cardinality(Runners(j)') <= Cardinality(Runners(j))
      BY <1>3, <2>2, FS_Subset DEF Kept
    <3>2. QED
      BY <1>3, <1>5, <1>6, <2>1, <2>2, <3>1 DEF Kept
  <2>3. CASE Charged(j)
    <3>1. PICK w \in Runners(j) : /\ attempts'[j] = attempts[j] + 1
                                 /\ Runners(j)' \subseteq Runners(j) \ {w}
      BY <2>3 DEF Charged
    <3>2. /\ IsFiniteSet(Runners(j) \ {w})
          /\ Cardinality(Runners(j) \ {w}) = Cardinality(Runners(j)) - 1
      BY <1>3, <3>1, FS_RemoveElement
    <3>3. Cardinality(Runners(j)') <= Cardinality(Runners(j) \ {w})
      BY <3>1, <3>2, FS_Subset
    <3>4. QED
      BY <1>3, <1>5, <1>6, <2>1, <3>1, <3>2, <3>3
  <2>4. QED
    BY <1>8, <2>2, <2>3, DeadRowStep
<1>9. CASE status'[j] = "dead" /\ status[j] # "dead"
  <2>1. status[j] \in Active /\ attempts'[j] = attempts[j] + 1
    BY <1>9, NewlyDead
  <2>2. attempts[j] < RowMaxAttempts
    BY <1>2, <2>1 DEF ActiveHasBudget
  <2>3. QED
    BY <1>6, <1>7, <2>1, <2>2
<1>10. CASE status'[j] # "dead"
  <2>1. status'[j] \in Active \cup {"absent"}
    BY <1>1, <1>2, <1>10 DEF TypeOK, Statuses, Active
  <2>2. attempts'[j] <= RowMaxAttempts
    BY <1>2, <1>6, <2>1 DEF ActiveHasBudget, AbsentUntouched, Active
  <2>3. QED
    BY <1>7, <2>2
<1>11. QED
  BY <1>8, <1>9, <1>10

\* However many workers lost their lease while they ran a job, together they push its attempt
\* counter at most one step each past the limit of the row.
THEOREM OverrunIsBounded ==
  ASSUME LimitsOrdered PROVE Safety => []OverrunBounded
<1>1. Init => OverrunBounded
  <2>1. ASSUME Init, NEW j \in Jobs PROVE attempts[j] = 0
    BY <2>1 DEF Init
  <2>2. QED
    BY <2>1, RunnersFinite, ConstantsAssumption DEF OverrunBounded
<1>2. QueueInvariant /\ QueueInvariant' /\ OverrunBounded /\ [Next]_vars => OverrunBounded'
  BY NextOverrun
<1>3. QED
  BY <1>1, <1>2, InvariantHolds, PTL DEF Safety

-------------------------------------------------------------------------------
(* Leases.  No assumption on the limits is needed. *)

LEMMA NextLeaseIsHeld ==
  ASSUME TypeOK, LeaseIsHeld, [Next]_vars
  PROVE  LeaseIsHeld'
<1> USE DEF LeaseIsHeld, Running, TypeOK
<1>0. TypeOK'
  BY NextTypeOK
<1>1. ASSUME NEW j \in Jobs, Enqueue(j) \/ LeaseExpires(j) \/ BecomesDue(j) PROVE LeaseIsHeld'
  BY <1>1 DEF Enqueue, LeaseExpires, BecomesDue, loopVars
<1>2. ASSUME NEW w \in Workers, SelectDue(w) PROVE LeaseIsHeld'
  BY <1>2 DEF SelectDue, rowVars
<1>3. ASSUME NEW w \in Workers, Lease(w) PROVE LeaseIsHeld'
  BY <1>3, ConstantsAssumption DEF Lease, ToPoll, rowVars
<1>4. ASSUME NEW w \in Workers, CompleteJob(w) PROVE LeaseIsHeld'
  BY <1>4, ConstantsAssumption DEF CompleteJob, Delete, ToPoll
<1>5. ASSUME NEW w \in Workers, FailJob(w) PROVE LeaseIsHeld'
  <2> DEFINE j == cur[w]
  <2>1. j \in Jobs /\ pc[w] = "running"
    BY <1>5 DEF FailJob
  <2>2. CASE UNCHANGED rowVars /\ (ToPoll(w) \/ StopLoop(w)) /\ status[j] # "leased"
    BY <2>1, <2>2, ConstantsAssumption DEF ToPoll, StopLoop, rowVars
  <2>3. CASE UNCHANGED rowVars /\ StopLoop(w)
    BY <2>1, <2>3 DEF StopLoop, rowVars
  <2>4. CASE /\ status' = [status EXCEPT ![j] = FailedStatus(w)]
             /\ ToPoll(w)
             /\ UNCHANGED owner
    <3>1. status'[j] # "leased" /\ \A i \in Jobs \ {j} : status'[i] = status[i]
      BY <2>1, <2>4 DEF FailedStatus
    <3>2. QED
      BY <2>1, <2>4, <3>1 DEF ToPoll
  <2>5. QED
    BY <1>5, <2>2, <2>3, <2>4 DEF FailJob
<1>6. ASSUME NEW w \in Workers, LoopFails(w) \/ Crash(w) PROVE LeaseIsHeld'
  BY <1>6 DEF LoopFails, Crash, StopLoop, rowVars
<1>7. ASSUME NEW w \in Workers, Start(w) PROVE LeaseIsHeld'
  BY <1>7 DEF Start
<1>8. ASSUME NEW w \in Workers, ReapExpired(w) \/ PurgeDead(w) PROVE LeaseIsHeld'
  <2>1. UNCHANGED <<pc, cur>>
    BY <1>8 DEF ReapExpired, Reap, PurgeDead, loopVars
  <2>2. \A j \in Jobs : status'[j] = "leased" => status[j] = "leased" /\ owner'[j] = owner[j]
    <3>1. ASSUME NEW R, Reap(R) PROVE \A j \in Jobs : status'[j] = "leased" =>
                                         status[j] = "leased" /\ owner'[j] = owner[j]
      BY <3>1 DEF Reap
    <3>2. ASSUME NEW R, Delete(R) PROVE \A j \in Jobs : status'[j] = "leased" =>
                                         status[j] = "leased" /\ owner'[j] = owner[j]
      BY <3>2 DEF Delete
    <3>3. QED
      BY <1>8, <3>1, <3>2 DEF ReapExpired, PurgeDead
  <2>3. QED
    BY <2>1, <2>2
<1>9. CASE UNCHANGED vars
  BY <1>9 DEF vars
<1>10. QED
  BY <1>1, <1>2, <1>3, <1>4, <1>5, <1>6, <1>7, <1>8, <1>9 DEF Next

\* Whatever the reaper, recovery and stale workers do, a leased row is being executed by the
\* loop that leased it, or that loop has died.
THEOREM LeasesAreHeld == Safety => []LeaseIsHeld
<1>1. Init => LeaseIsHeld
  BY DEF Init, LeaseIsHeld
<1>2. TypeOK /\ LeaseIsHeld /\ [Next]_vars => LeaseIsHeld'
  BY NextLeaseIsHeld
<1>3. QED
  BY <1>1, <1>2, TypeCorrect, PTL DEF Safety

-------------------------------------------------------------------------------
(* The queue implements DurableQueue. *)

LEMMA InitRefines == Init => DQ!Init
  BY DEF Init, DQ!Init, RowState, Active

LEMMA StepRefines ==
  ASSUME LimitsOrdered, QueueInvariant, QueueInvariant', [Next]_vars
  PROVE  [DQ!Next]_RowState
<1>0. TypeOK /\ TypeOK' /\ OneActivePerKey' /\ AbsentUntouched /\ DeadIsExhausted
  BY DEF QueueInvariant
<1> DEFINE Bucket(s) == IF s \in Active THEN "pending" ELSE s
<1>a. RowState = [j \in Jobs |-> Bucket(status[j])] /\ RowState' = [j \in Jobs |-> Bucket(status'[j])]
  BY DEF RowState, Active
<1>b. ASSUME \A j \in Jobs : Bucket(status'[j]) = Bucket(status[j])
      PROVE  UNCHANGED RowState
  BY <1>a, <1>b
<1>1. ASSUME NEW j \in Jobs, Enqueue(j) PROVE DQ!Submit(j)
  <2>1. RowState[j] = "absent" /\ RowState' = [RowState EXCEPT ![j] = "pending"]
    BY <1>0, <1>1 DEF Enqueue, RowState, Active, TypeOK
  <2>2. ASSUME NEW i \in Jobs, RowState[i] = "pending", KeyOf[i] = KeyOf[j], KeyOf[j] # NoKey
        PROVE  FALSE
    <3>1. status[i] \in Active
      BY <1>0, <2>2 DEF RowState, Active, TypeOK, Statuses
    <3>2. i # j
      BY <1>1, <3>1 DEF Enqueue, Active
    <3>3. QED
      BY <1>1, <2>2, <3>1, <3>2 DEF Enqueue, UniqueConflict, SameKey
  <2>3. QED
    BY <2>1, <2>2 DEF DQ!Submit
<1>2. ASSUME NEW j \in Jobs, LeaseExpires(j) \/ BecomesDue(j) PROVE UNCHANGED RowState
  BY <1>2 DEF LeaseExpires, BecomesDue, RowState
<1>3. ASSUME NEW w \in Workers, SelectDue(w) \/ LoopFails(w) \/ Crash(w)
      PROVE  UNCHANGED RowState
  BY <1>3 DEF SelectDue, LoopFails, Crash, rowVars, RowState
<1>4. ASSUME NEW w \in Workers, Lease(w) PROVE UNCHANGED RowState
  BY <1>0, <1>4 DEF Lease, Leasable, TypeOK, rowVars, RowState, Active
<1>5. ASSUME NEW w \in Workers, Start(w) PROVE UNCHANGED RowState
  <2>1. \A j \in Jobs : Bucket(status'[j]) = Bucket(status[j])
    BY <1>5 DEF Start, Active
  <2>2. QED
    BY <1>b, <2>1
<1>6. ASSUME NEW w \in Workers, CompleteJob(w) PROVE [DQ!Next]_RowState
  <2> DEFINE j == cur[w]
  <2>1. j \in Jobs /\ status' = [i \in Jobs |-> IF i \in {j} THEN "gone" ELSE status[i]]
    BY <1>0, <1>6 DEF CompleteJob, Delete, TypeOK
  <2>2. RowState' = [RowState EXCEPT ![j] = "gone"]
    BY <2>1 DEF RowState, Active
  <2>3. RowState' = [i \in Jobs |-> IF i \in {j} THEN "gone" ELSE RowState[i]]
    BY <2>1 DEF RowState, Active
  <2>4. CASE RowState[j] = "pending"
    BY <2>1, <2>2, <2>4 DEF DQ!Next, DQ!Finish
  <2>5. CASE RowState[j] = "dead"
    BY <2>1, <2>3, <2>5 DEF DQ!Next, DQ!Clean
  <2>6. CASE RowState[j] = "gone"
    BY <2>1, <2>2, <2>6 DEF RowState
  <2>7. status[j] # "absent"
    BY <1>0, <1>6, <2>1 DEF AbsentUntouched
  <2>8. QED
    BY <1>0, <2>1, <2>4, <2>5, <2>6, <2>7 DEF RowState, TypeOK, Statuses, Active
<1>7. ASSUME NEW w \in Workers, FailJob(w) PROVE [DQ!Next]_RowState
  <2> DEFINE j == cur[w]
  <2>1. j \in Jobs /\ pc[w] = "running"
    BY <1>0, <1>7 DEF FailJob, TypeOK
  <2>2. CASE UNCHANGED rowVars
    BY <2>2 DEF rowVars, RowState
  <2>3. CASE status[j] # "gone" /\ status' = [status EXCEPT ![j] = FailedStatus(w)]
    <3>1. /\ FailedStatus(w) = "dead" => attempts[j] + 1 >= ConfigMaxAttempts
          /\ FailedStatus(w) = "retryable" => attempts[j] + 1 < ConfigMaxAttempts
          /\ FailedStatus(w) \in {"dead", "retryable"}
      BY <2>1, <2>3, FailVerdict
    <3>2. status[j] = "dead" => attempts[j] + 1 > ConfigMaxAttempts
      BY <1>0, <2>1, ConstantsAssumption DEF DeadIsExhausted, TypeOK
    <3>3. status[j] \in Active \cup {"dead"}
      BY <1>0, <2>1, <2>3 DEF AbsentUntouched, TypeOK, Statuses, Active
    <3>4. \A i \in Jobs \ {j} : status'[i] = status[i]
      BY <1>0, <2>1, <2>3 DEF TypeOK
    <3>5. status'[j] = FailedStatus(w)
      BY <1>0, <2>1, <2>3 DEF TypeOK
    <3>6. CASE FailedStatus(w) = "retryable"
      <4>1. status[j] # "dead"
        BY <1>0, <2>1, <3>1, <3>2, <3>6, ConstantsAssumption DEF TypeOK
      <4>2. \A i \in Jobs : Bucket(status'[i]) = Bucket(status[i])
        BY <3>3, <3>4, <3>5, <3>6, <4>1 DEF Active
      <4>3. QED
        BY <1>b, <4>2
    <3>7. CASE FailedStatus(w) = "dead" /\ status[j] = "dead"
      <4>1. \A i \in Jobs : Bucket(status'[i]) = Bucket(status[i])
        BY <3>4, <3>5, <3>7
      <4>2. QED
        BY <1>b, <4>1
    <3>8. CASE FailedStatus(w) = "dead" /\ status[j] \in Active
      <4>1. \A i \in {j} : RowState[i] = "pending"
        BY <2>1, <3>8 DEF RowState
      <4>2. \A i \in Jobs : Bucket(status'[i]) = IF i \in {j} THEN "dead" ELSE Bucket(status[i])
        BY <3>4, <3>5, <3>8 DEF Active
      <4>3. RowState' = [i \in Jobs |-> IF i \in {j} THEN "dead" ELSE RowState[i]]
        BY <1>a, <4>2
      <4>4. DQ!Bury({j})
        BY <4>1, <4>3 DEF DQ!Bury
      <4>5. QED
        BY <2>1, <4>4 DEF DQ!Next
    <3>9. QED
      BY <3>1, <3>3, <3>6, <3>7, <3>8
  <2>4. QED
    BY <1>7, <2>2, <2>3 DEF FailJob
<1>8. ASSUME NEW w \in Workers, ReapExpired(w) PROVE \E S \in SUBSET Jobs : DQ!Bury(S)
  <2>1. PICK R \in SUBSET Jobs : Reap(R) /\ \A j \in R : status[j] = "leased"
    BY <1>8 DEF ReapExpired, Stale
  <2> DEFINE S == {j \in R : Exhausted(j)}
  <2>2. S \in SUBSET Jobs /\ \A j \in S : RowState[j] = "pending"
    BY <2>1 DEF RowState, Active
  <2>3. RowState' = [j \in Jobs |-> IF j \in S THEN "dead" ELSE RowState[j]]
    <3>1. \A j \in Jobs : Bucket(status'[j]) = IF j \in S THEN "dead" ELSE Bucket(status[j])
      BY <2>1 DEF Reap, Active
    <3>2. QED
      BY <1>a, <3>1
  <2>4. DQ!Bury(S)
    BY <2>2, <2>3 DEF DQ!Bury
  <2>5. QED
    BY <2>2, <2>4
<1>9. ASSUME NEW w \in Workers, PurgeDead(w) PROVE \E S \in SUBSET Jobs : DQ!Clean(S)
  <2>1. PICK S \in SUBSET Jobs : Delete(S) /\ \A j \in S : status[j] = "dead"
    BY <1>9 DEF PurgeDead
  <2>2. \A j \in S : RowState[j] = "dead"
    BY <2>1 DEF RowState, Active
  <2>3. RowState' = [j \in Jobs |-> IF j \in S THEN "gone" ELSE RowState[j]]
    <3>1. \A j \in Jobs : Bucket(status'[j]) = IF j \in S THEN "gone" ELSE Bucket(status[j])
      BY <2>1 DEF Delete, Active
    <3>2. QED
      BY <1>a, <3>1
  <2>4. DQ!Clean(S)
    BY <2>2, <2>3 DEF DQ!Clean
  <2>5. QED
    BY <2>4
<1>10. CASE UNCHANGED vars
  BY <1>10 DEF vars, RowState
<1>11. QED
  BY <1>1, <1>2, <1>3, <1>4, <1>5, <1>6, <1>7, <1>8, <1>9, <1>10 DEF Next, DQ!Next

\* Leases, retries, recovery and purge are invisible to a producer: it sees DurableQueue.
THEOREM Refinement ==
  ASSUME LimitsOrdered PROVE Safety => ImplementsDurableQueue
<1>1. QueueInvariant /\ QueueInvariant' /\ [Next]_vars => [DQ!Next]_RowState
  BY StepRefines
<1>2. QED
  BY <1>1, InitRefines, InvariantHolds, PTL DEF Safety, ImplementsDurableQueue, DQ!Spec
================================================================================
