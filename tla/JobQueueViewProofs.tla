--------------------------- MODULE JobQueueViewProofs ---------------------------
(***************************************************************************)
(* JobQueue implements HandlerQueueSpec, for any number of rows, processes *)
(* and keys and for any limits with WORKER_MAX_ATTEMPTS <=                 *)
(* jobs.max_attempts.                                                      *)
(***************************************************************************)
EXTENDS JobQueueView, JobQueueProofs

HistoryTyped ==
    /\ newest \in [Keys -> Jobs \cup {NoJob}]
    /\ ran \in [Workers -> Jobs \cup {NoJob}]

-------------------------------------------------------------------------------
(* Keys. *)

LEMMA OwnKey ==
  ASSUME NEW j \in Jobs
  PROVE  j \in Key(j) /\ Key(j) \in Keys /\ Key(j) # NoKeyYet
  BY DEF Key, Keys, NoKeyYet

LEMMA KeyOfMember ==
  ASSUME NEW k \in Keys, NEW j \in k
  PROVE  j \in Jobs /\ Key(j) = k
<1>1. PICK i \in Jobs : k = Key(i)
  BY DEF Keys
<1>2. j \in Jobs /\ (j = i \/ SameKey(j, i))
  BY <1>1 DEF Key
<1>3. CASE SameKey(j, i)
  BY <1>1, <1>2, <1>3 DEF Key, SameKey
<1>4. QED
  BY <1>1, <1>2, <1>3

LEMMA ExcludeEachOther ==
  ASSUME NEW i \in Jobs, NEW j \in Jobs, Key(i) = Key(j), i # j
  PROVE  SameKey(i, j)
  BY DEF Key

-------------------------------------------------------------------------------
(* How the history follows a step. *)

NothingInserted == \A j \in Jobs : ~Inserted(j)

LEMMA NewestStays ==
  ASSUME HistoryTyped, Remember, NothingInserted
  PROVE  newest' = newest
<1>1. \A k \in Keys : ~\E j \in k : Inserted(j)
  BY KeyOfMember DEF NothingInserted
<1>2. newest' = [k \in Keys |-> newest[k]]
  BY <1>1 DEF Remember
<1>3. QED
  BY <1>2 DEF HistoryTyped

LEMMA NewestMoves ==
  ASSUME TypeOK, HistoryTyped, Remember, NEW j \in Jobs, Enqueue(j)
  PROVE  newest' = [k \in Keys |-> IF k = Key(j) THEN j ELSE newest[k]]
<1>1. \A i \in Jobs : Inserted(i) <=> i = j
  BY DEF Enqueue, Inserted, TypeOK
<1>2. \A k \in Keys : (\E i \in k : Inserted(i)) <=> k = Key(j)
  BY <1>1, KeyOfMember, OwnKey
<1>3. ASSUME NEW k \in Keys
      PROVE  (IF \E i \in k : Inserted(i) THEN CHOOSE i \in k : Inserted(i) ELSE newest[k])
             = IF k = Key(j) THEN j ELSE newest[k]
  <2>1. CASE k = Key(j)
    <3>1. Inserted(j) /\ j \in k
      BY <1>1, <2>1, OwnKey
    <3>2. \A i \in k : Inserted(i) => i = j
      BY <1>1, KeyOfMember
    <3>3. (CHOOSE i \in k : Inserted(i)) = j
      BY <3>1, <3>2
    <3>4. QED
      BY <2>1, <3>1, <3>3
  <2>2. CASE k # Key(j)
    BY <1>2, <2>2
  <2>3. QED
    BY <2>1, <2>2
<1>4. QED
  BY <1>3, Zenon DEF Remember

\* Only an enqueue brings a row into the table.
LEMMA OnlyEnqueueInserts ==
  ASSUME TypeOK, AbsentUntouched, Next
  PROVE  NothingInserted \/ \E j \in Jobs : Enqueue(j)
<1> USE DEF TypeOK, NothingInserted, Inserted
<1>1. ASSUME NEW j \in Jobs, LeaseExpires(j) \/ BecomesDue(j) PROVE NothingInserted
  BY <1>1 DEF LeaseExpires, BecomesDue
<1>2. ASSUME NEW w \in Workers, SelectDue(w) \/ LoopFails(w) \/ Crash(w) \/ Start(w)
      PROVE  NothingInserted
  BY <1>2 DEF SelectDue, LoopFails, Crash, Start, rowVars
<1>3. ASSUME NEW w \in Workers, Lease(w) PROVE NothingInserted
  BY <1>3 DEF Lease, AbsentUntouched, rowVars
<1>4. ASSUME NEW w \in Workers, CompleteJob(w) PROVE NothingInserted
  BY <1>4 DEF CompleteJob, Delete, AbsentUntouched
<1>5. ASSUME NEW w \in Workers, FailJob(w) PROVE NothingInserted
  BY <1>5 DEF FailJob, AbsentUntouched, rowVars
<1>6. ASSUME NEW w \in Workers, ReapExpired(w) PROVE NothingInserted
  BY <1>6 DEF ReapExpired, Reap, Stale
<1>7. ASSUME NEW w \in Workers, PurgeDead(w) PROVE NothingInserted
  BY <1>7 DEF PurgeDead, Delete
<1>8. QED
  BY <1>1, <1>2, <1>3, <1>4, <1>5, <1>6, <1>7 DEF Next

LEMMA NextHistoryTyped ==
  ASSUME TypeOK, TypeOK', AbsentUntouched, HistoryTyped, [Next /\ Remember]_viewVars
  PROVE  HistoryTyped'
<1>1. CASE UNCHANGED viewVars
  BY <1>1 DEF viewVars, HistoryTyped
<1>2. CASE Next /\ Remember
  <2>1. ran' \in [Workers -> Jobs \cup {NoJob}]
    BY <1>2 DEF Remember, HistoryTyped, TypeOK
  <2>2. CASE NothingInserted
    BY <1>2, <2>1, <2>2, NewestStays DEF HistoryTyped
  <2>3. ASSUME NEW j \in Jobs, Enqueue(j) PROVE HistoryTyped'
    BY <1>2, <2>1, <2>3, NewestMoves DEF HistoryTyped
  <2>4. QED
    BY <1>2, <2>2, <2>3, OnlyEnqueueInserts
<1>3. QED
  BY <1>1, <1>2

-------------------------------------------------------------------------------
(* The history agrees with the table and the loops. *)

HistoryInv == QueueInvariant /\ LeaseIsHeld /\ HistoryTyped /\ HistoryAgrees

LEMMA InitHistory == ViewInit => HistoryTyped /\ HistoryAgrees
<1> SUFFICES ASSUME ViewInit PROVE HistoryTyped /\ HistoryAgrees
  OBVIOUS
<1>1. HistoryTyped
  BY DEF ViewInit, HistoryTyped
<1>2. \A j \in Jobs : status[j] = "absent"
  BY DEF ViewInit, Init
<1>3. /\ \A k \in Keys : newest[k] = NoJob
      /\ \A w \in Workers : ran[w] = NoJob /\ pc[w] = "down"
  BY DEF ViewInit, Init
<1>4. QED
  BY <1>1, <1>2, <1>3, ConstantsAssumption DEF HistoryAgrees, Active

\* What becomes of a row in a step other than an enqueue, as far as the history is concerned.
OldRows ==
    /\ newest' = newest
    /\ \A j \in Jobs : /\ status[j] = "absent" <=> status'[j] = "absent"
                       /\ status'[j] \in Active => status[j] \in Active

\* The three parts of HistoryAgrees that speak of keys.
NewestAgrees ==
    /\ \A k \in Keys : newest[k] \in k \cup {NoJob}
    /\ \A j \in Jobs : status[j] # "absent" => newest[Key(j)] \in Jobs
    /\ \A k \in Keys : newest[k] \in Jobs => status[newest[k]] # "absent"
    /\ \A j \in Jobs : status[j] \in Active => newest[Key(j)] = j

RanAgrees ==
    /\ \A w \in Workers : /\ pc[w] = "running" => ran[w] = cur[w]
                          /\ pc[w] \in {"poll", "select"} => ran[w] = NoJob
                          /\ ran[w] \in Jobs => status[ran[w]] # "absent"
    /\ \A j \in Jobs : status[j] = "leased" => ran[owner[j]] = j

LEMMA OldRowsKeep ==
  ASSUME NewestAgrees, OldRows
  PROVE  NewestAgrees'
  BY DEF NewestAgrees, OldRows

LEMMA EnqueueKeeps ==
  ASSUME TypeOK, HistoryTyped, NewestAgrees, Remember, NEW j \in Jobs, Enqueue(j)
  PROVE  NewestAgrees'
<1>1. newest' = [k \in Keys |-> IF k = Key(j) THEN j ELSE newest[k]]
  BY NewestMoves
<1>2. /\ status[j] = "absent" /\ status'[j] = "queued"
      /\ \A i \in Jobs \ {j} : status'[i] = status[i]
  BY DEF Enqueue, TypeOK
<1>3. \A k \in Keys : newest'[k] = IF k = Key(j) THEN j ELSE newest[k]
  BY <1>1
<1>4. ASSUME NEW k \in Keys PROVE newest'[k] \in k \cup {NoJob}
  BY <1>3, OwnKey DEF NewestAgrees
<1>5. ASSUME NEW i \in Jobs, status'[i] # "absent" PROVE newest'[Key(i)] \in Jobs
  BY <1>2, <1>3, <1>5, OwnKey DEF NewestAgrees
<1>6. ASSUME NEW k \in Keys, newest'[k] \in Jobs PROVE status'[newest'[k]] # "absent"
  BY <1>2, <1>3, <1>6 DEF NewestAgrees
<1>7. ASSUME NEW i \in Jobs, status'[i] \in Active PROVE newest'[Key(i)] = i
  <2>1. CASE i = j
    BY <1>3, <2>1, OwnKey
  <2>2. CASE i # j
    <3>1. status[i] \in Active
      BY <1>2, <1>7, <2>2
    <3>2. Key(i) # Key(j)
      BY <2>2, <3>1, ExcludeEachOther DEF Enqueue, UniqueConflict
    <3>3. QED
      BY <1>3, <3>1, <3>2, OwnKey DEF NewestAgrees
  <2>3. QED
    BY <2>1, <2>2
<1>8. QED
  BY <1>4, <1>5, <1>6, <1>7 DEF NewestAgrees

\* A report that asks for a retry finds an active row, so the unique index never refuses it.
LEMMA RetryIsActive ==
  ASSUME LimitsOrdered, QueueInvariant, NEW w \in Workers, pc[w] = "running",
         NEW j \in Jobs, cur[w] = j, status[j] # "gone", FailedStatus(w) = "retryable"
  PROVE  status[j] \in Active /\ ~UniqueConflict(j)
<1>0. TypeOK /\ AbsentUntouched /\ DeadIsExhausted /\ OneActivePerKey
  BY DEF QueueInvariant
<1>1. attempts[j] + 1 < ConfigMaxAttempts
  BY FailVerdict
<1>2. status[j] # "dead"
  BY <1>0, <1>1, ConstantsAssumption DEF DeadIsExhausted, TypeOK
<1>3. status[j] \in Active
  BY <1>0, <1>2 DEF AbsentUntouched, TypeOK, Statuses, Active
<1>4. QED
  BY <1>0, <1>3 DEF UniqueConflict, OneActivePerKey, SameKey

\* A step other than an enqueue inserts no row and makes none active again.
LEMMA OtherStepsAreOld ==
  ASSUME LimitsOrdered, QueueInvariant, HistoryTyped, Next, Remember,
         \A j \in Jobs : ~Enqueue(j)
  PROVE  OldRows
<1>0. TypeOK /\ AbsentUntouched /\ DeadIsExhausted
  BY DEF QueueInvariant
<1> DEFINE NoneNew == \A j \in Jobs : /\ status[j] = "absent" <=> status'[j] = "absent"
                                      /\ status'[j] \in Active => status[j] \in Active
<1> USE <1>0 DEF TypeOK
<1>1. ASSUME NEW j \in Jobs, LeaseExpires(j) \/ BecomesDue(j) PROVE NoneNew
  BY <1>1 DEF LeaseExpires, BecomesDue
<1>2. ASSUME NEW w \in Workers, SelectDue(w) \/ LoopFails(w) \/ Crash(w) \/ Start(w)
      PROVE  NoneNew
  BY <1>2 DEF SelectDue, LoopFails, Crash, Start, rowVars, Active
<1>3. ASSUME NEW w \in Workers, Lease(w) PROVE NoneNew
  BY <1>3 DEF Lease, AbsentUntouched, rowVars, Active, Leasable
<1>4. ASSUME NEW w \in Workers, CompleteJob(w) PROVE NoneNew
  BY <1>4 DEF CompleteJob, Delete, AbsentUntouched, Active
<1>5. ASSUME NEW w \in Workers, FailJob(w) PROVE NoneNew
  <2> DEFINE j == cur[w]
  <2>1. j \in Jobs /\ pc[w] = "running" /\ status[j] # "absent"
    BY <1>5 DEF FailJob, AbsentUntouched
  <2>2. CASE UNCHANGED rowVars
    BY <2>2 DEF rowVars
  <2>3. CASE status[j] # "gone" /\ status' = [status EXCEPT ![j] = FailedStatus(w)]
    <3>1. FailedStatus(w) \in {"dead", "retryable"}
      BY DEF FailedStatus
    <3>2. FailedStatus(w) = "retryable" => status[j] \in Active
      BY <2>1, <2>3, RetryIsActive
    <3>3. /\ status'[j] = FailedStatus(w)
          /\ \A i \in Jobs \ {j} : status'[i] = status[i]
      BY <2>1, <2>3
    <3>4. QED
      BY <2>1, <3>1, <3>2, <3>3 DEF Active
  <2>4. QED
    BY <1>5, <2>2, <2>3 DEF FailJob
<1>6. ASSUME NEW w \in Workers, ReapExpired(w) PROVE NoneNew
  <2>1. PICK R \in SUBSET Jobs : Reap(R) /\ \A j \in R : status[j] = "leased"
    BY <1>6 DEF ReapExpired, Stale
  <2>2. QED
    BY <2>1 DEF Reap, Active
<1>7. ASSUME NEW w \in Workers, PurgeDead(w) PROVE NoneNew
  BY <1>7 DEF PurgeDead, Delete, Active
<1>8. NoneNew
  BY <1>1, <1>2, <1>3, <1>4, <1>5, <1>6, <1>7 DEF Next
<1>9. newest' = newest
  BY <1>8, NewestStays DEF NothingInserted, Inserted
<1>10. QED
  BY <1>8, <1>9 DEF OldRows

\* Whoever gets a lease in a step starts to run the row.
LEMMA NewLeaseRuns ==
  ASSUME TypeOK, [Next]_vars, NEW j \in Jobs, status'[j] = "leased"
  PROVE  \/ status[j] = "leased" /\ owner'[j] = owner[j]
         \/ pc'[owner'[j]] = "running"
<1> DEFINE Same == status[j] = "leased" /\ owner'[j] = owner[j]
<1> USE DEF TypeOK
<1>1. ASSUME NEW i \in Jobs, Enqueue(i) \/ LeaseExpires(i) \/ BecomesDue(i) PROVE Same
  BY <1>1 DEF Enqueue, LeaseExpires, BecomesDue
<1>2. ASSUME NEW w \in Workers, SelectDue(w) \/ LoopFails(w) \/ Crash(w) \/ Start(w)
      PROVE  Same
  BY <1>2 DEF SelectDue, LoopFails, Crash, Start, rowVars
<1>3. ASSUME NEW w \in Workers, Lease(w) PROVE Same \/ pc'[owner'[j]] = "running"
  BY <1>3 DEF Lease, rowVars
<1>4. ASSUME NEW w \in Workers, CompleteJob(w) PROVE Same
  BY <1>4 DEF CompleteJob, Delete
<1>5. ASSUME NEW w \in Workers, FailJob(w) PROVE Same
  <2>1. FailedStatus(w) # "leased"
    BY DEF FailedStatus
  <2>2. QED
    BY <1>5, <2>1 DEF FailJob, rowVars
<1>6. ASSUME NEW w \in Workers, ReapExpired(w) PROVE Same
  <2>1. PICK R \in SUBSET Jobs : Reap(R)
    BY <1>6 DEF ReapExpired
  <2>2. QED
    BY <2>1 DEF Reap
<1>7. ASSUME NEW w \in Workers, PurgeDead(w) PROVE Same
  BY <1>7 DEF PurgeDead, Delete
<1>8. CASE UNCHANGED vars
  BY <1>8 DEF vars
<1>9. QED
  BY <1>1, <1>2, <1>3, <1>4, <1>5, <1>6, <1>7, <1>8 DEF Next

LEMMA RanStep ==
  ASSUME TypeOK, TypeOK', AbsentUntouched', LeaseIsHeld', RanAgrees, HistoryTyped, Next, Remember,
         \A j \in Jobs : status[j] # "absent" => status'[j] # "absent"
  PROVE  RanAgrees'
<1>1. ASSUME NEW w \in Workers
      PROVE  /\ pc'[w] = "running" => ran'[w] = cur'[w]
             /\ pc'[w] = "down" => ran'[w] = ran[w]
             /\ pc'[w] \in {"poll", "select"} => ran'[w] = NoJob
  BY DEF Remember, TypeOK
<1>2. ASSUME NEW w \in Workers, ran'[w] \in Jobs PROVE status'[ran'[w]] # "absent"
  <2>1. CASE pc'[w] = "running"
    BY <1>1, <1>2, <2>1 DEF AbsentUntouched
  <2>2. CASE pc'[w] = "down"
    BY <1>1, <1>2, <2>2 DEF RanAgrees
  <2>3. QED
    BY <1>1, <1>2, <2>1, <2>2, ConstantsAssumption DEF TypeOK
<1>3. ASSUME NEW j \in Jobs, status'[j] = "leased" PROVE ran'[owner'[j]] = j
  <2>1. owner'[j] \in Workers /\ (Running(owner[j], j)' \/ pc'[owner'[j]] = "down")
    BY <1>3 DEF LeaseIsHeld
  <2>2. CASE Running(owner[j], j)'
    BY <1>1, <2>1, <2>2 DEF Running
  <2>3. CASE pc'[owner'[j]] = "down"
    <3>1. status[j] = "leased" /\ owner'[j] = owner[j]
      BY <1>3, <2>3, NewLeaseRuns
    <3>2. QED
      BY <1>1, <2>1, <2>3, <3>1 DEF RanAgrees
  <2>4. QED
    BY <2>1, <2>2, <2>3
<1>4. QED
  BY <1>1, <1>2, <1>3 DEF RanAgrees

LEMMA NextHistory ==
  ASSUME LimitsOrdered, QueueInvariant, QueueInvariant', LeaseIsHeld', HistoryTyped, HistoryAgrees,
         [Next /\ Remember]_viewVars
  PROVE  HistoryAgrees'
<1>0. TypeOK /\ TypeOK' /\ AbsentUntouched /\ AbsentUntouched'
  BY DEF QueueInvariant
<1>1. NewestAgrees /\ RanAgrees
  BY DEF HistoryAgrees, NewestAgrees, RanAgrees
<1>2. CASE UNCHANGED viewVars
  BY <1>2 DEF viewVars, HistoryAgrees
<1>3. CASE Next /\ Remember
  <2>1. CASE \A j \in Jobs : ~Enqueue(j)
    <3>1. OldRows
      BY <1>3, <2>1, OtherStepsAreOld
    <3>2. NewestAgrees' /\ RanAgrees'
      BY <1>0, <1>1, <1>3, <3>1, OldRowsKeep, RanStep DEF OldRows
    <3>3. QED
      BY <3>2 DEF HistoryAgrees, NewestAgrees, RanAgrees
  <2>2. ASSUME NEW j \in Jobs, Enqueue(j) PROVE HistoryAgrees'
    <3>1. \A i \in Jobs : status[i] # "absent" => status'[i] # "absent"
      BY <1>0, <2>2 DEF Enqueue, TypeOK
    <3>2. NewestAgrees' /\ RanAgrees'
      BY <1>0, <1>1, <1>3, <2>2, <3>1, EnqueueKeeps, RanStep
    <3>3. QED
      BY <3>2 DEF HistoryAgrees, NewestAgrees, RanAgrees
  <2>3. QED
    BY <2>1, <2>2
<1>4. QED
  BY <1>2, <1>3

-------------------------------------------------------------------------------
(* The steps.  Each lemma maps one action of JobQueue. *)

ViewFacts ==
    /\ TypeOK /\ AbsentUntouched /\ LeaseIsHeld /\ HistoryTyped
    /\ NewestAgrees /\ RanAgrees

\* The row is neither deleted, nor inserted, nor made active or inactive, nor charged.
RowAlike(j) ==
    /\ status'[j] = "gone" <=> status[j] = "gone"
    /\ status'[j] \in Active <=> status[j] \in Active
    /\ attempts'[j] = attempts[j]

\* It is leased by w, or not, as before.
LeaseAlike(j) ==
    \A w \in Workers : (status'[j] = "leased" /\ owner'[j] = w) <=>
                       (status[j] = "leased" /\ owner[j] = w)

LEMMA RowsAlike ==
  ASSUME newest' = newest, \A j \in Jobs : RowAlike(j)
  PROVE  UNCHANGED <<RowView, AttemptsView>>
<1>1. \A j : There(j)' <=> There(j)
  BY DEF There, RowAlike
<1>2. RowView' = RowView
  BY <1>1 DEF RowView, RowAlike, There
<1>3. AttemptsView' = AttemptsView
  BY <1>1 DEF AttemptsView, RowAlike, There
<1>4. QED
  BY <1>2, <1>3

LEMMA ClaimAlike ==
  ASSUME newest' = newest, NEW j \in Jobs, RowAlike(j), LeaseAlike(j), NEW w \in Workers
  PROVE  Claim(w, j)' = Claim(w, j)
<1>1. There(j)' <=> There(j)
  BY DEF There, RowAlike
<1>2. QED
  BY <1>1 DEF Claim, LeaseAlike

LEMMA RanStays ==
  ASSUME ViewFacts, Remember, pc' = pc, cur' = cur
  PROVE  ran' = ran
<1>1. \A w \in Workers : ran'[w] = ran[w]
  BY DEF Remember, ViewFacts, RanAgrees, TypeOK
<1>2. ran' = [w \in Workers |-> ran'[w]]
  BY DEF Remember
<1>3. QED
  BY <1>1, <1>2 DEF ViewFacts, HistoryTyped

\* A loop stops or selects: what it ran last is what it ran.
LEMMA RanStaysIdle ==
  ASSUME ViewFacts, Remember, NEW w \in Workers,
         NEW p \in {"down", "select", "poll"}, NEW c,
         p = "down" \/ pc[w] \in {"poll", "select"},
         pc' = [pc EXCEPT ![w] = p], cur' = [cur EXCEPT ![w] = c]
  PROVE  ran' = ran
<1>1. \A v \in Workers : ran'[v] = ran[v]
  BY DEF Remember, ViewFacts, RanAgrees, TypeOK
<1>2. ran' = [v \in Workers |-> ran'[v]]
  BY DEF Remember
<1>3. QED
  BY <1>1, <1>2 DEF ViewFacts, HistoryTyped

\* A loop polls again after a handler or a restart.
LEMMA RanForgets ==
  ASSUME ViewFacts, Remember, NEW w \in Workers, pc' = [pc EXCEPT ![w] = "poll"],
         \A v \in Workers \ {w} : cur'[v] = cur[v]
  PROVE  ran' = [v \in Workers |-> IF v = w THEN NoJob ELSE ran[v]]
<1>1. \A v \in Workers : ran'[v] = IF v = w THEN NoJob ELSE ran[v]
  BY DEF Remember, ViewFacts, RanAgrees, TypeOK
<1>2. ran' = [v \in Workers |-> ran'[v]]
  BY DEF Remember
<1>3. QED
  BY <1>1, <1>2

LEMMA Quiet ==
  ASSUME newest' = newest, ran' = ran, HistoryTyped,
         \A j \in Jobs : RowAlike(j) /\ LeaseAlike(j)
  PROVE  UNCHANGED <<RowView, AttemptsView, PcView, JobView, LeaseView>>
<1>1. UNCHANGED <<RowView, AttemptsView>>
  BY RowsAlike
<1>2. PcView' = PcView /\ JobView' = JobView
  BY DEF PcView, JobView
<1>3. ASSUME NEW w \in Workers, ran[w] # NoJob PROVE Claim(w, ran[w])' = Claim(w, ran[w])
  <2>1. PICK j \in Jobs : ran[w] = j
    BY <1>3 DEF HistoryTyped
  <2>2. Claim(w, j)' = Claim(w, j)
    BY ClaimAlike
  <2>3. QED
    BY <2>1, <2>2 DEF Claim
<1>4. LeaseView' = LeaseView
  BY <1>3 DEF LeaseView
<1>5. QED
  BY <1>1, <1>2, <1>4

LEMMA EnqueueMaps ==
  ASSUME ViewFacts, Remember, NEW j \in Jobs, Enqueue(j)
  PROVE  HQ!Submit(Key(j))
<1> DEFINE k == Key(j)
<1> USE DEF ViewFacts
<1>1. k \in Keys
  BY OwnKey
<1>2. /\ status[j] = "absent" /\ status'[j] = "queued"
      /\ \A i \in Jobs \ {j} : status'[i] = status[i]
      /\ attempts' = attempts /\ owner' = owner /\ pc' = pc /\ cur' = cur
      /\ attempts[j] = 0
  BY DEF Enqueue, TypeOK, loopVars, AbsentUntouched
<1>3. newest' = [i \in Keys |-> IF i = k THEN j ELSE newest[i]]
  BY NewestMoves
<1>4. ran' = ran
  BY <1>2, RanStays
<1>5. PcView' = PcView /\ JobView' = JobView
  BY <1>4 DEF PcView, JobView
<1>6. RowView[k] # "active"
  <2> SUFFICES ASSUME RowView[k] = "active" PROVE FALSE
    OBVIOUS
  <2>1. PICK i : i = newest[k] /\ i \in Jobs /\ status[i] \in Active
    BY <1>1 DEF RowView, There
  <2>2. Key(i) = Key(j)
    BY <1>1, <2>1, KeyOfMember, ConstantsAssumption DEF NewestAgrees
  <2>3. i # j
    BY <1>2, <2>1 DEF Active
  <2>4. QED
    BY <2>1, <2>2, <2>3, ExcludeEachOther DEF Enqueue, UniqueConflict
<1>7. ASSUME NEW i \in Keys, i # k
      PROVE  /\ newest'[i] = newest[i]
             /\ newest[i] \in Jobs => newest[i] # j /\ status'[newest[i]] = status[newest[i]]
  <2>1. newest'[i] = newest[i]
    BY <1>3, <1>7
  <2>2. newest[i] \in Jobs => newest[i] # j
    BY <1>7, KeyOfMember, ConstantsAssumption DEF NewestAgrees
  <2>3. QED
    BY <1>2, <2>1, <2>2
<1>8. newest'[k] = j
  BY <1>1, <1>3
<1>9. RowView' = [RowView EXCEPT ![k] = "active"]
  <2>1. \A i \in Keys : RowView'[i] = IF i = k THEN "active" ELSE RowView[i]
    BY <1>1, <1>2, <1>7, <1>8 DEF RowView, There, Active
  <2>2. QED
    BY <2>1 DEF RowView
<1>10. AttemptsView' = [AttemptsView EXCEPT ![k] = 0]
  <2>1. \A i \in Keys : AttemptsView'[i] = IF i = k THEN 0 ELSE AttemptsView[i]
    BY <1>1, <1>2, <1>7, <1>8 DEF AttemptsView, There, Active
  <2>2. QED
    BY <2>1 DEF AttemptsView
<1>11. LeaseView' = [w \in Workers |-> IF JobView[w] = k THEN "gone" ELSE LeaseView[w]]
  <2>1. ASSUME NEW w \in Workers
        PROVE  LeaseView'[w] = IF JobView[w] = k THEN "gone" ELSE LeaseView[w]
    <3>1. CASE ran[w] = NoJob
      BY <1>4, <3>1, OwnKey DEF LeaseView, JobView
    <3>2. CASE ran[w] # NoJob
      <4>1. PICK r \in Jobs : ran[w] = r
        BY <3>2 DEF HistoryTyped
      <4>2. r # j /\ Key(r) \in Keys
        BY <1>2, <4>1, OwnKey DEF RanAgrees
      <4>3. CASE Key(r) = k
        <5>1. Claim(w, r)' = "gone"
          BY <1>8, <4>2, <4>3 DEF Claim
        <5>2. QED
          BY <1>4, <3>2, <4>1, <4>3, <5>1 DEF LeaseView, JobView, Claim
      <4>4. CASE Key(r) # k
        <5>1. Claim(w, r)' = Claim(w, r)
          BY <1>2, <1>3, <4>1, <4>2, <4>4 DEF Claim, There
        <5>2. QED
          BY <1>4, <3>2, <4>1, <4>4, <5>1 DEF LeaseView, JobView, Claim
      <4>5. QED
        BY <4>3, <4>4
    <3>3. QED
      BY <3>1, <3>2
  <2>2. QED
    BY <2>1 DEF LeaseView
<1>12. QED
  BY <1>5, <1>6, <1>9, <1>10, <1>11 DEF HQ!Submit, HQ!Enqueue

LEMMA LeaseMaps ==
  ASSUME ViewFacts, Remember, NothingInserted, NEW w \in Workers, Lease(w),
         status[cur[w]] \in Leasable
  PROVE  HQ!Take(w)
<1> USE DEF ViewFacts
<1> DEFINE j == cur[w]
           k == Key(j)
<1>1. j \in Jobs /\ k \in Keys /\ pc[w] = "select" /\ ran[w] = NoJob
  BY OwnKey DEF Lease, TypeOK, RanAgrees
<1>2. /\ status' = [status EXCEPT ![j] = "leased"]
      /\ owner' = [owner EXCEPT ![j] = w]
      /\ pc' = [pc EXCEPT ![w] = "running"]
      /\ attempts' = attempts /\ cur' = cur
  BY DEF Lease
<1>3. newest' = newest /\ newest[k] = j
  BY <1>1, NewestStays DEF NewestAgrees, Leasable, Active
<1>4. UNCHANGED <<RowView, AttemptsView>>
  <2>1. \A i \in Jobs : RowAlike(i)
    BY <1>1, <1>2 DEF RowAlike, Active, Leasable, TypeOK
  <2>2. QED
    BY <1>3, <2>1, RowsAlike
<1>5. ran' = [v \in Workers |-> IF v = w THEN j ELSE ran[v]]
  <2>1. \A v \in Workers : ran'[v] = IF v = w THEN j ELSE ran[v]
    BY <1>1, <1>2 DEF Remember, RanAgrees, TypeOK
  <2>2. ran' = [v \in Workers |-> ran'[v]]
    BY DEF Remember
  <2>3. QED
    BY <2>1, <2>2
<1>6. j # NoJob
  BY <1>1, ConstantsAssumption
<1>7. PcView[w] = "idle" /\ PcView' = [PcView EXCEPT ![w] = "running"]
  <2>1. \A v \in Workers : PcView'[v] = IF v = w THEN "running" ELSE PcView[v]
    BY <1>5, <1>6 DEF PcView
  <2>2. QED
    BY <1>1, <2>1 DEF PcView
<1>8. JobView' = [JobView EXCEPT ![w] = k]
  <2>1. \A v \in Workers : JobView'[v] = IF v = w THEN k ELSE JobView[v]
    BY <1>5, <1>6 DEF JobView
  <2>2. QED
    BY <2>1 DEF JobView
<1>9. RowView[k] = "active"
  BY <1>1, <1>3 DEF RowView, There, Leasable, Active
<1>10. ASSUME NEW v \in Workers PROVE ~(JobView[v] = k /\ LeaseView[v] = "held")
  <2> SUFFICES ASSUME JobView[v] = k, LeaseView[v] = "held" PROVE FALSE
    OBVIOUS
  <2>1. PICK r \in Jobs : ran[v] = r /\ r # NoJob
    BY DEF LeaseView, HistoryTyped
  <2>2. Key(r) = k /\ Claim(v, r) = "held"
    BY <2>1 DEF LeaseView, JobView, Claim
  <2>3. newest[k] = r /\ status[r] = "leased"
    BY <2>2 DEF Claim
  <2>4. QED
    BY <1>3, <2>3 DEF Leasable
<1>11. LeaseView' = [LeaseView EXCEPT ![w] = "held"]
  <2>1. ASSUME NEW v \in Workers
        PROVE  LeaseView'[v] = IF v = w THEN "held" ELSE LeaseView[v]
    <3>1. CASE v = w
      <4>1. Claim(w, j)' = "held"
        BY <1>1, <1>2, <1>3 DEF Claim, There, TypeOK
      <4>2. QED
        BY <1>1, <1>2, <1>5, <1>6, <3>1, <4>1 DEF LeaseView, Claim
    <3>2. CASE v # w /\ ran[v] = NoJob
      BY <1>5, <3>2 DEF LeaseView
    <3>3. CASE v # w /\ ran[v] # NoJob
      <4>1. PICK r \in Jobs : ran[v] = r
        BY <3>3 DEF HistoryTyped
      <4>2. CASE r = j
        <5>1. Claim(v, r) = "lost" /\ Claim(v, r)' = "lost"
          BY <1>1, <1>2, <1>3, <3>3, <4>2 DEF Claim, There, TypeOK, Leasable
        <5>2. QED
          BY <1>5, <3>3, <4>1, <5>1 DEF LeaseView, Claim
      <4>3. CASE r # j
        <5>1. status'[r] = status[r] /\ owner'[r] = owner[r]
          BY <1>1, <1>2, <4>3 DEF TypeOK
        <5>2. Claim(v, r)' = Claim(v, r)
          BY <1>3, <5>1 DEF Claim, There
        <5>3. QED
          BY <1>5, <3>3, <4>1, <5>2 DEF LeaseView, Claim
      <4>4. QED
        BY <4>2, <4>3
    <3>4. QED
      BY <3>1, <3>2, <3>3
  <2>2. QED
    BY <2>1 DEF LeaseView
<1>12. HQ!LeaseRow(w, k, "running")
  BY <1>4, <1>7, <1>8, <1>9, <1>10, <1>11 DEF HQ!LeaseRow, HQ!queueVars
<1>13. QED
  BY <1>1, <1>12 DEF HQ!Take

\* What the report of loop w finds: its row j is replaced or deleted exactly when its claim is gone.
LEMMA ReporterSees ==
  ASSUME ViewFacts, NEW w \in Workers, pc[w] = "running", NEW j \in Jobs, cur[w] = j
  PROVE  /\ Key(j) \in Keys /\ ran[w] = j /\ j # NoJob /\ status[j] # "absent"
         /\ PcView[w] = "running" /\ JobView[w] = Key(j)
         /\ LeaseView[w] = Claim(w, j)
         /\ LeaseView[w] = "gone" <=> (status[j] = "gone" \/ newest[Key(j)] # j)
<1>1. Key(j) \in Keys /\ ran[w] = j /\ j # NoJob /\ status[j] # "absent"
  BY OwnKey, ConstantsAssumption DEF ViewFacts, RanAgrees
<1>2. LeaseView[w] = Claim(w, j)
  BY <1>1 DEF LeaseView, Claim
<1>3. QED
  BY <1>1, <1>2 DEF PcView, JobView, Claim, There

\* How the view of the loops follows a report of loop w.
LEMMA ReporterLeaves ==
  ASSUME ViewFacts, Remember, NEW w \in Workers, ToPoll(w)
  PROVE  /\ ran' = [v \in Workers |-> IF v = w THEN NoJob ELSE ran[v]]
         /\ PcView' = [PcView EXCEPT ![w] = "idle"]
         /\ JobView' = [JobView EXCEPT ![w] = NoKeyYet]
<1>1. ran' = [v \in Workers |-> IF v = w THEN NoJob ELSE ran[v]]
  BY RanForgets DEF ToPoll, ViewFacts, TypeOK
<1>2. \A v \in Workers : PcView'[v] = IF v = w THEN "idle" ELSE PcView[v]
  BY <1>1 DEF PcView
<1>3. \A v \in Workers : JobView'[v] = IF v = w THEN NoKeyYet ELSE JobView[v]
  BY <1>1 DEF JobView
<1>4. QED
  BY <1>1, <1>2, <1>3 DEF PcView, JobView

\* The claims after a report of loop w, from what becomes of the other loops' claims.
LEMMA ClaimsAfter ==
  ASSUME HistoryTyped, NEW w \in Workers,
         ran' = [v \in Workers |-> IF v = w THEN NoJob ELSE ran[v]],
         NEW after,
         \A v \in Workers \ {w} :
             /\ ran[v] = NoJob => after[v] = "none"
             /\ \A r \in Jobs : ran[v] = r => Claim(v, r)' = after[v]
  PROVE  LeaseView' = [v \in Workers |-> IF v = w THEN "none" ELSE after[v]]
<1>1. ASSUME NEW v \in Workers
      PROVE  LeaseView'[v] = IF v = w THEN "none" ELSE after[v]
  <2>1. CASE v = w
    BY <2>1 DEF LeaseView
  <2>2. CASE v # w /\ ran[v] = NoJob
    BY <2>2 DEF LeaseView
  <2>3. CASE v # w /\ ran[v] # NoJob
    <3>1. PICK r \in Jobs : ran[v] = r
      BY <2>3 DEF HistoryTyped
    <3>2. QED
      BY <2>3, <3>1 DEF LeaseView, Claim
  <2>4. QED
    BY <2>1, <2>2, <2>3
<1>2. QED
  BY <1>1 DEF LeaseView

LEMMA CompleteMaps ==
  ASSUME ViewFacts, Remember, NothingInserted, NEW w \in Workers, CompleteJob(w)
  PROVE  HQ!Succeed(w)
<1> USE DEF ViewFacts
<1>1. PICK j \in Jobs : j = cur[w]
  BY DEF CompleteJob, TypeOK
<1> DEFINE k == Key(j)
<1>2. pc[w] = "running" /\ Delete({j}) /\ ToPoll(w)
  BY <1>1 DEF CompleteJob
<1>3. /\ k \in Keys /\ ran[w] = j /\ j # NoJob /\ status[j] # "absent"
      /\ PcView[w] = "running" /\ JobView[w] = k
      /\ LeaseView[w] = "gone" <=> (status[j] = "gone" \/ newest[k] # j)
  BY <1>1, <1>2, ReporterSees
<1>4. /\ ran' = [v \in Workers |-> IF v = w THEN NoJob ELSE ran[v]]
      /\ PcView' = [PcView EXCEPT ![w] = "idle"]
      /\ JobView' = [JobView EXCEPT ![w] = NoKeyYet]
  BY <1>2, ReporterLeaves
<1>5. newest' = newest
  BY NewestStays
<1>6. /\ status'[j] = "gone"
      /\ \A i \in Jobs \ {j} : /\ status'[i] = status[i] /\ attempts'[i] = attempts[i]
                               /\ owner'[i] = owner[i]
  BY <1>2 DEF Delete
<1>7. HQ!Leave(w)
  BY <1>4 DEF HQ!Leave
<1>8. ASSUME NEW v \in Workers \ {w}, NEW r \in Jobs, ran[v] = r
      PROVE  Claim(v, r)' = IF LeaseView[w] # "gone" /\ JobView[v] = k THEN "gone"
                            ELSE LeaseView[v]
  <2>1. LeaseView[v] = Claim(v, r) /\ JobView[v] = Key(r)
    BY <1>8, ConstantsAssumption DEF LeaseView, JobView, Claim
  <2>2. CASE r = j
    <3>1. Claim(v, r)' = "gone"
      BY <1>6, <2>2 DEF Claim, There
    <3>2. LeaseView[w] = "gone" => Claim(v, r) = "gone"
      BY <1>3, <2>2 DEF Claim, There
    <3>3. QED
      BY <2>1, <2>2, <3>1, <3>2
  <2>3. CASE r # j
    <3>1. Claim(v, r)' = Claim(v, r)
      BY <1>5, <1>6, <2>3 DEF Claim, There
    <3>2. LeaseView[w] # "gone" /\ Key(r) = k => Claim(v, r) = "gone"
      BY <1>3, <2>3 DEF Claim
    <3>3. QED
      BY <2>1, <3>1, <3>2
  <2>4. QED
    BY <2>2, <2>3
<1>9. CASE LeaseView[w] = "gone"
  <2>1. ASSUME NEW i \in Keys
        PROVE  RowView'[i] = RowView[i] /\ AttemptsView'[i] = AttemptsView[i]
    <3>1. CASE newest[i] = j
      <4>1. i = k
        BY <3>1, KeyOfMember, <1>3 DEF NewestAgrees
      <4>2. status[j] = "gone"
        BY <1>3, <1>9, <3>1, <4>1
      <4>3. QED
        BY <1>5, <1>6, <3>1, <4>2 DEF RowView, AttemptsView, There
    <3>2. CASE newest[i] # j
      BY <1>5, <1>6, <3>2 DEF RowView, AttemptsView, There
    <3>3. QED
      BY <3>1, <3>2
  <2>2. UNCHANGED <<RowView, AttemptsView>>
    BY <2>1 DEF RowView, AttemptsView
  <2>3. LeaseView' = [v \in Workers |-> IF v = w THEN "none" ELSE LeaseView[v]]
    <3>1. ASSUME NEW v \in Workers \ {w}
          PROVE  /\ ran[v] = NoJob => LeaseView[v] = "none"
                 /\ \A r \in Jobs : ran[v] = r => Claim(v, r)' = LeaseView[v]
      BY <1>8, <1>9 DEF LeaseView
    <3>2. QED
      BY <1>4, <3>1, ClaimsAfter
  <2>4. LeaseView' = [LeaseView EXCEPT ![w] = "none"]
    BY <2>3 DEF LeaseView
  <2>5. HQ!DeleteRow(w)
    BY <1>9, <2>2, <2>4 DEF HQ!DeleteRow, HQ!queueVars
  <2>6. QED
    BY <1>3, <1>7, <2>5 DEF HQ!Succeed
<1>10. CASE LeaseView[w] # "gone"
  <2>1. newest[k] = j
    BY <1>3, <1>10
  <2>2. ASSUME NEW i \in Keys
        PROVE  /\ RowView'[i] = IF i = k THEN "none" ELSE RowView[i]
               /\ AttemptsView'[i] = IF i = k THEN 0 ELSE AttemptsView[i]
    <3>1. newest[i] = j => i = k
      BY <1>3, KeyOfMember DEF NewestAgrees
    <3>2. QED
      BY <1>5, <1>6, <2>1, <3>1 DEF RowView, AttemptsView, There
  <2>3. RowView' = [RowView EXCEPT ![JobView[w]] = "none"]
    BY <1>3, <2>2 DEF RowView
  <2>4. AttemptsView' = [AttemptsView EXCEPT ![JobView[w]] = 0]
    BY <1>3, <2>2 DEF AttemptsView
  <2> DEFINE after == [v \in Workers |-> IF JobView[v] = JobView[w] THEN "gone" ELSE LeaseView[v]]
  <2>5. ASSUME NEW v \in Workers \ {w}
        PROVE  /\ ran[v] = NoJob => after[v] = "none"
               /\ \A r \in Jobs : ran[v] = r => Claim(v, r)' = after[v]
    <3>1. ran[v] = NoJob => after[v] = "none"
      BY <1>1, <1>3, OwnKey DEF JobView, LeaseView
    <3>2. QED
      BY <1>3, <1>8, <1>10, <3>1
  <2>6. LeaseView' = [v \in Workers |-> IF v = w THEN "none" ELSE after[v]]
    <3> HIDE DEF after
    <3>1. QED
      BY <1>4, <2>5, ClaimsAfter
  <2>7. LeaseView' = [v \in Workers |-> IF v = w THEN "none"
                         ELSE IF JobView[v] = JobView[w] THEN "gone" ELSE LeaseView[v]]
    BY <2>6
  <2>8. HQ!DeleteRow(w)
    BY <1>10, <2>3, <2>4, <2>7 DEF HQ!DeleteRow
  <2>9. QED
    BY <1>3, <1>7, <2>8 DEF HQ!Succeed
<1>11. QED
  BY <1>9, <1>10

LEMMA FailMaps ==
  ASSUME LimitsOrdered, QueueInvariant, ViewFacts, Remember, NothingInserted,
         NEW w \in Workers, FailJob(w)
  PROVE  HQ!Fail(w)
<1> USE DEF ViewFacts
<1>1. PICK j \in Jobs : j = cur[w]
  BY DEF FailJob, TypeOK
<1> DEFINE k == Key(j)
<1>2. pc[w] = "running"
  BY DEF FailJob
<1>3. /\ k \in Keys /\ ran[w] = j /\ j # NoJob /\ status[j] # "absent"
      /\ PcView[w] = "running" /\ JobView[w] = k
      /\ LeaseView[w] = "gone" <=> (status[j] = "gone" \/ newest[k] # j)
  BY <1>1, <1>2, ReporterSees
<1>4. ToPoll(w)
  <2>1. ~(status[j] # "gone" /\ FailedStatus(w) = "retryable" /\ UniqueConflict(j))
    BY <1>1, <1>2, RetryIsActive
  <2>2. QED
    BY <1>1, <2>1 DEF FailJob
<1>5. /\ ran' = [v \in Workers |-> IF v = w THEN NoJob ELSE ran[v]]
      /\ PcView' = [PcView EXCEPT ![w] = "idle"]
      /\ JobView' = [JobView EXCEPT ![w] = NoKeyYet]
  BY <1>4, ReporterLeaves
<1>6. newest' = newest
  BY NewestStays
<1>7. HQ!Leave(w)
  BY <1>5 DEF HQ!Leave
<1>8. ASSUME NEW i \in Keys, newest[i] = j PROVE i = k
  BY <1>3, <1>8, KeyOfMember DEF NewestAgrees
<1>9. ASSUME status[j] # "gone"
      PROVE  /\ status'[j] = FailedStatus(w) /\ attempts'[j] = attempts[j] + 1 /\ owner' = owner
             /\ \A i \in Jobs \ {j} : status'[i] = status[i] /\ attempts'[i] = attempts[i]
             /\ FailedStatus(w) \in {"dead", "retryable"}
             /\ FailedStatus(w) = "retryable" => status[j] \in Active
  <2>1. ~(FailedStatus(w) = "retryable" /\ UniqueConflict(j))
    BY <1>1, <1>2, <1>9, RetryIsActive
  <2>2. /\ status' = [status EXCEPT ![j] = FailedStatus(w)]
        /\ attempts' = [attempts EXCEPT ![j] = @ + 1]
        /\ owner' = owner
    BY <1>1, <1>9, <2>1 DEF FailJob
  <2>3. QED
    BY <1>1, <1>2, <1>9, <2>2, RetryIsActive, FailVerdict DEF TypeOK
<1>10. status[j] = "gone" => UNCHANGED rowVars
  BY <1>1 DEF FailJob
<1>11. CASE LeaseView[w] = "gone"
  <2>1. /\ \A i \in Jobs \ {j} : status'[i] = status[i] /\ attempts'[i] = attempts[i]
        /\ owner' = owner /\ status'[j] = status[j]
    <3>1. CASE status[j] = "gone"
      BY <1>10, <3>1 DEF rowVars
    <3>2. CASE status[j] # "gone"
      <4>1. status[j] \notin Active
        BY <1>3, <1>11, <3>2 DEF NewestAgrees
      <4>2. status[j] = "dead"
        BY <1>3, <3>2, <4>1 DEF TypeOK, Statuses, Active
      <4>3. QED
        BY <1>9, <3>2, <4>1, <4>2
    <3>3. QED
      BY <3>1, <3>2
  <2>2. ASSUME NEW i \in Keys
        PROVE  RowView'[i] = RowView[i] /\ AttemptsView'[i] = AttemptsView[i]
    <3>1. CASE newest[i] = j
      <4>1. status[j] = "gone"
        BY <1>3, <1>8, <1>11, <3>1
      <4>2. QED
        BY <1>6, <2>1, <3>1, <4>1 DEF RowView, AttemptsView, There
    <3>2. CASE newest[i] # j
      BY <1>6, <2>1, <3>2 DEF RowView, AttemptsView, There
    <3>3. QED
      BY <3>1, <3>2
  <2>3. UNCHANGED <<RowView, AttemptsView>>
    BY <2>2 DEF RowView, AttemptsView
  <2>4. ASSUME NEW v \in Workers \ {w}
        PROVE  /\ ran[v] = NoJob => LeaseView[v] = "none"
               /\ \A r \in Jobs : ran[v] = r => Claim(v, r)' = LeaseView[v]
    <3>1. ASSUME NEW r \in Jobs PROVE Claim(v, r)' = Claim(v, r)
      BY <1>6, <2>1 DEF Claim, There
    <3>2. \A r \in Jobs : ran[v] = r => LeaseView[v] = Claim(v, r)
      BY ConstantsAssumption DEF LeaseView, Claim
    <3>3. QED
      BY <3>1, <3>2 DEF LeaseView
  <2>5. LeaseView' = [v \in Workers |-> IF v = w THEN "none" ELSE LeaseView[v]]
    BY <1>5, <2>4, ClaimsAfter
  <2>6. LeaseView' = [LeaseView EXCEPT ![w] = "none"]
    BY <2>5 DEF LeaseView
  <2>7. HQ!FailRow(w)
    BY <1>11, <2>3, <2>6 DEF HQ!FailRow, HQ!queueVars
  <2>8. QED
    BY <1>3, <1>7, <2>7 DEF HQ!Fail
<1>12. CASE LeaseView[w] # "gone"
  <2>1. newest[k] = j /\ status[j] # "gone"
    BY <1>3, <1>12
  <2>2. RowView[k] \in {"active", "dead"} /\ AttemptsView[k] = attempts[j]
    BY <1>3, <2>1 DEF RowView, AttemptsView, There
  <2>3. /\ RowView'[k] = IF FailedStatus(w) = "dead" THEN "dead" ELSE "active"
        /\ AttemptsView'[k] = attempts[j] + 1
    BY <1>3, <1>6, <1>9, <2>1 DEF RowView, AttemptsView, There, Active
  <2>4. /\ FailedStatus(w) = "dead" => attempts[j] + 1 >= ConfigMaxAttempts
        /\ FailedStatus(w) = "retryable" => attempts[j] + 1 < ConfigMaxAttempts
    BY <1>1, <1>2, <2>1, FailVerdict
  <2>5. FailedStatus(w) = "retryable" => RowView[k] = "active"
    BY <1>3, <1>9, <2>1 DEF RowView, There
  <2>6. RowView'[k] = IF AttemptsView[k] + 1 >= ConfigMaxAttempts THEN "dead" ELSE RowView[k]
    <3>1. attempts[j] + 1 \in Nat /\ ConfigMaxAttempts \in Nat
      BY ConstantsAssumption DEF TypeOK
    <3>2. QED
      BY <1>9, <2>1, <2>2, <2>3, <2>4, <2>5, <3>1
  <2>7. ASSUME NEW i \in Keys \ {k}
        PROVE  RowView'[i] = RowView[i] /\ AttemptsView'[i] = AttemptsView[i]
    <3>1. newest[i] # j
      BY <1>8
    <3>2. QED
      BY <1>6, <1>9, <2>1, <3>1 DEF RowView, AttemptsView, There
  <2>8. HQ!Charge(k)
    <3>1. RowView' = [RowView EXCEPT ![k] = IF AttemptsView[k] + 1 >= ConfigMaxAttempts
                                            THEN "dead" ELSE @]
      BY <2>6, <2>7 DEF RowView
    <3>2. AttemptsView' = [AttemptsView EXCEPT ![k] = @ + 1]
      BY <2>2, <2>3, <2>7 DEF AttemptsView
    <3>3. QED
      BY <3>1, <3>2 DEF HQ!Charge
  <2> DEFINE after == [v \in Workers |-> IF JobView[v] = JobView[w] /\ LeaseView[v] = "held"
                                         THEN "lost" ELSE LeaseView[v]]
  <2>9. ASSUME NEW v \in Workers \ {w}
        PROVE  /\ ran[v] = NoJob => after[v] = "none"
               /\ \A r \in Jobs : ran[v] = r => Claim(v, r)' = after[v]
    <3>1. ran[v] = NoJob => after[v] = "none"
      BY DEF LeaseView
    <3>2. ASSUME NEW r \in Jobs, ran[v] = r PROVE Claim(v, r)' = after[v]
      <4>1. LeaseView[v] = Claim(v, r) /\ JobView[v] = Key(r)
        BY <3>2, ConstantsAssumption DEF LeaseView, JobView, Claim
      <4>2. CASE r = j
        <5>1. Claim(v, r)' = "lost"
          BY <1>6, <1>9, <2>1, <4>2 DEF Claim, There
        <5>2. Claim(v, r) \in {"held", "lost"}
          BY <2>1, <4>2 DEF Claim, There
        <5>3. QED
          BY <1>3, <4>1, <4>2, <5>1, <5>2
      <4>3. CASE r # j
        <5>1. Claim(v, r)' = Claim(v, r)
          BY <1>6, <1>9, <2>1, <4>3 DEF Claim, There
        <5>2. Key(r) = k => Claim(v, r) = "gone"
          BY <2>1, <4>3 DEF Claim
        <5>3. QED
          BY <1>3, <4>1, <5>1, <5>2
      <4>4. QED
        BY <4>2, <4>3
    <3>3. QED
      BY <3>1, <3>2
  <2>10. LeaseView' = [v \in Workers |-> IF v = w THEN "none" ELSE after[v]]
    <3> HIDE DEF after
    <3>1. QED
      BY <1>5, <2>9, ClaimsAfter
  <2>11. LeaseView' = [v \in Workers |-> IF v = w THEN "none"
                         ELSE IF JobView[v] = JobView[w] /\ LeaseView[v] = "held" THEN "lost"
                         ELSE LeaseView[v]]
    BY <2>10
  <2>12. HQ!FailRow(w)
    BY <1>3, <1>12, <2>8, <2>11 DEF HQ!FailRow
  <2>13. QED
    BY <1>3, <1>7, <2>12 DEF HQ!Fail
<1>13. QED
  BY <1>11, <1>12

LEMMA ReapMaps ==
  ASSUME ViewFacts, Remember, NothingInserted, NEW w \in Workers, ReapExpired(w)
  PROVE  \E F \in SUBSET Keys : HQ!Reap(F)
<1> USE DEF ViewFacts
<1>1. PICK R \in SUBSET Jobs : Reap(R) /\ \A j \in R : status[j] = "leased"
  BY DEF ReapExpired, Stale
<1> DEFINE F == {k \in Keys : newest[k] \in R}
<1>2. newest' = newest /\ ran' = ran
  BY <1>1, NewestStays, RanStays DEF Reap, loopVars
<1>3. \A j \in Jobs : /\ j \in R => /\ attempts'[j] = attempts[j] + 1
                                    /\ status'[j] = IF attempts[j] + 1 >= RowMaxAttempts
                                                    THEN "dead" ELSE "queued"
                      /\ j \notin R => /\ status'[j] = status[j] /\ owner'[j] = owner[j]
                                       /\ attempts'[j] = attempts[j]
  BY <1>1 DEF Reap, Exhausted
<1>4. \A j \in R : j \in Jobs /\ newest[Key(j)] = j /\ Key(j) \in Keys
  BY <1>1, OwnKey DEF NewestAgrees, Active
<1>5. ASSUME NEW k \in F PROVE HQ!Held(k)
  <2>1. PICK j \in R : newest[k] = j /\ k = Key(j)
    BY <1>4, KeyOfMember, ConstantsAssumption DEF NewestAgrees
  <2>2. PICK v \in Workers : owner[j] = v /\ ran[v] = j
    BY <1>1, <2>1 DEF LeaseIsHeld, RanAgrees
  <2>3. JobView[v] = k /\ LeaseView[v] = "held"
    BY <1>1, <1>4, <2>1, <2>2, ConstantsAssumption DEF JobView, LeaseView, Claim, There
  <2>4. QED
    BY <2>3 DEF HQ!Held
<1>6. AttemptsView' = [k \in Keys |-> IF k \in F THEN AttemptsView[k] + 1 ELSE AttemptsView[k]]
  BY <1>1, <1>2, <1>3 DEF AttemptsView, There
<1>7. RowView' = [k \in Keys |-> IF k \in F /\ AttemptsView[k] + 1 >= RowMaxAttempts
                                 THEN "dead" ELSE RowView[k]]
  <2>1. ASSUME NEW k \in Keys
        PROVE  RowView'[k] = IF k \in F /\ AttemptsView[k] + 1 >= RowMaxAttempts
                             THEN "dead" ELSE RowView[k]
    BY <1>1, <1>2, <1>3 DEF RowView, AttemptsView, There, Active
  <2>2. QED
    BY <2>1 DEF RowView
<1>8. PcView' = PcView /\ JobView' = JobView
  BY <1>2 DEF PcView, JobView
<1>9. LeaseView' = [v \in Workers |-> IF LeaseView[v] = "held" /\ JobView[v] \in F
                                      THEN "lost" ELSE LeaseView[v]]
  <2>1. ASSUME NEW v \in Workers
        PROVE  LeaseView'[v] = IF LeaseView[v] = "held" /\ JobView[v] \in F
                               THEN "lost" ELSE LeaseView[v]
    <3>1. CASE ran[v] = NoJob
      BY <1>2, <3>1 DEF LeaseView
    <3>2. CASE ran[v] # NoJob
      <4>1. PICK r \in Jobs : ran[v] = r
        BY <3>2 DEF HistoryTyped
      <4>2. LeaseView[v] = Claim(v, r) /\ JobView[v] = Key(r) /\ LeaseView'[v] = Claim(v, r)'
        BY <1>2, <3>2, <4>1 DEF LeaseView, JobView, Claim
      <4>3. CASE r \in R
        <5>1. Key(r) \in F
          BY <1>4, <4>3
        <5>2. Claim(v, r) \in {"held", "lost"} /\ Claim(v, r)' = "lost"
          BY <1>1, <1>2, <1>3, <1>4, <4>1, <4>3 DEF Claim, There
        <5>3. QED
          BY <4>2, <5>1, <5>2
      <4>4. CASE r \notin R
        <5>1. Claim(v, r)' = Claim(v, r)
          BY <1>2, <1>3, <4>1, <4>4 DEF Claim, There
        <5>2. Claim(v, r) = "held" => Key(r) \notin F
          BY <4>4 DEF Claim
        <5>3. QED
          BY <4>2, <5>1, <5>2
      <4>5. QED
        BY <4>3, <4>4
    <3>3. QED
      BY <3>1, <3>2
  <2>2. QED
    BY <2>1 DEF LeaseView
<1>10. HQ!Reap(F)
  BY <1>5, <1>6, <1>7, <1>8, <1>9 DEF HQ!Reap
<1>11. F \in SUBSET Keys
  OBVIOUS
<1>12. QED
  BY <1>10, <1>11

LEMMA StartMaps ==
  ASSUME ViewFacts, Remember, NothingInserted, NEW w \in Workers, Start(w)
  PROVE  HQ!Restart(w)
<1> USE DEF ViewFacts
<1>1. newest' = newest
  BY NewestStays
<1>2. ran' = [v \in Workers |-> IF v = w THEN NoJob ELSE ran[v]]
  BY RanForgets DEF Start
<1>3. \A j \in Jobs : /\ status'[j] = IF status[j] = "leased" THEN "queued" ELSE status[j]
                      /\ attempts'[j] = attempts[j]
  BY DEF Start
<1>4. UNCHANGED <<RowView, AttemptsView>>
  <2>1. \A j \in Jobs : RowAlike(j)
    BY <1>3 DEF RowAlike, Active
  <2>2. QED
    BY <1>1, <2>1, RowsAlike
<1>5. HQ!Leave(w)
  <2>1. \A v \in Workers : PcView'[v] = IF v = w THEN "idle" ELSE PcView[v]
    BY <1>2 DEF PcView
  <2>2. \A v \in Workers : JobView'[v] = IF v = w THEN NoKeyYet ELSE JobView[v]
    BY <1>2 DEF JobView
  <2>3. QED
    BY <2>1, <2>2 DEF PcView, JobView, HQ!Leave
<1> DEFINE after == [v \in Workers |-> IF LeaseView[v] = "held" THEN "lost" ELSE LeaseView[v]]
<1>6. ASSUME NEW v \in Workers \ {w}
      PROVE  /\ ran[v] = NoJob => after[v] = "none"
             /\ \A r \in Jobs : ran[v] = r => Claim(v, r)' = after[v]
  <2>1. ASSUME NEW r \in Jobs, ran[v] = r PROVE Claim(v, r)' = after[v]
    <3>1. LeaseView[v] = Claim(v, r)
      BY <2>1, ConstantsAssumption DEF LeaseView, Claim
    <3>2. status'[r] # "leased" /\ (status'[r] = "gone" <=> status[r] = "gone")
      BY <1>3
    <3>3. QED
      BY <1>1, <3>1, <3>2 DEF Claim, There
  <2>2. QED
    BY <2>1 DEF LeaseView
<1>7. LeaseView' = [v \in Workers |-> IF v = w THEN "none" ELSE after[v]]
  <2> HIDE DEF after
  <2>1. QED
    BY <1>2, <1>6, ClaimsAfter
<1>8. LeaseView' = [v \in Workers |-> IF v = w THEN "none"
                       ELSE IF LeaseView[v] = "held" THEN "lost" ELSE LeaseView[v]]
  BY <1>7
<1>9. QED
  BY <1>4, <1>5, <1>8 DEF HQ!Restart, HQ!queueVars

LEMMA PurgeMaps ==
  ASSUME ViewFacts, Remember, NothingInserted, NEW w \in Workers, PurgeDead(w)
  PROVE  \E D \in SUBSET Keys : HQ!Purge(D)
<1> USE DEF ViewFacts
<1>1. PICK old \in SUBSET Jobs : Delete(old) /\ \A j \in old : status[j] = "dead"
  BY DEF PurgeDead
<1> DEFINE D == {k \in Keys : newest[k] \in old}
<1>2. newest' = newest /\ ran' = ran
  BY NewestStays, RanStays DEF PurgeDead, loopVars
<1>3. \A j \in Jobs : /\ j \in old => status'[j] = "gone"
                      /\ j \notin old => /\ status'[j] = status[j] /\ owner'[j] = owner[j]
                                         /\ attempts'[j] = attempts[j]
  BY <1>1 DEF Delete
<1>4. \A k \in D : RowView[k] = "dead"
  BY <1>1 DEF RowView, There, Active
<1>5. RowView' = [k \in Keys |-> IF k \in D THEN "none" ELSE RowView[k]]
  <2>1. \A k \in Keys : RowView'[k] = IF k \in D THEN "none" ELSE RowView[k]
    BY <1>1, <1>2, <1>3 DEF RowView, There
  <2>2. QED
    BY <2>1 DEF RowView
<1>6. AttemptsView' = [k \in Keys |-> IF k \in D THEN 0 ELSE AttemptsView[k]]
  <2>1. \A k \in Keys : AttemptsView'[k] = IF k \in D THEN 0 ELSE AttemptsView[k]
    BY <1>1, <1>2, <1>3 DEF AttemptsView, There
  <2>2. QED
    BY <2>1 DEF AttemptsView
<1>7. PcView' = PcView /\ JobView' = JobView
  BY <1>2 DEF PcView, JobView
<1>8. LeaseView' = [v \in Workers |-> IF JobView[v] \in D THEN "gone" ELSE LeaseView[v]]
  <2>1. ASSUME NEW v \in Workers
        PROVE  LeaseView'[v] = IF JobView[v] \in D THEN "gone" ELSE LeaseView[v]
    <3>1. CASE ran[v] = NoJob
      <4>1. NoKeyYet \notin Keys
        BY OwnKey DEF Keys
      <4>2. QED
        BY <1>2, <3>1, <4>1 DEF LeaseView, JobView
    <3>2. CASE ran[v] # NoJob
      <4>1. PICK r \in Jobs : ran[v] = r
        BY <3>2 DEF HistoryTyped
      <4>2. LeaseView[v] = Claim(v, r) /\ JobView[v] = Key(r) /\ LeaseView'[v] = Claim(v, r)'
        BY <1>2, <3>2, <4>1 DEF LeaseView, JobView, Claim
      <4>3. CASE r \in old
        <5>1. Claim(v, r)' = "gone"
          BY <1>3, <4>1, <4>3 DEF Claim, There
        <5>2. Key(r) \notin D => Claim(v, r) = "gone"
          BY <4>1, <4>3, OwnKey DEF Claim
        <5>3. QED
          BY <4>2, <5>1, <5>2
      <4>4. CASE r \notin old
        <5>1. Claim(v, r)' = Claim(v, r)
          BY <1>2, <1>3, <4>1, <4>4 DEF Claim, There
        <5>2. Key(r) \in D => Claim(v, r) = "gone"
          BY <4>4 DEF Claim
        <5>3. QED
          BY <4>2, <5>1, <5>2
      <4>5. QED
        BY <4>3, <4>4
    <3>3. QED
      BY <3>1, <3>2
  <2>2. QED
    BY <2>1 DEF LeaseView
<1>9. HQ!Purge(D)
  BY <1>4, <1>5, <1>6, <1>7, <1>8 DEF HQ!Purge
<1>10. D \in SUBSET Keys
  OBVIOUS
<1>11. QED
  BY <1>9, <1>10

viewTuple == <<RowView, AttemptsView, PcView, JobView, LeaseView>>

LEMMA TimePasses ==
  ASSUME ViewFacts, Remember, NothingInserted, NEW j \in Jobs, LeaseExpires(j) \/ BecomesDue(j)
  PROVE  UNCHANGED viewTuple
<1>1. newest' = newest /\ ran' = ran
  BY NewestStays, RanStays DEF LeaseExpires, BecomesDue, loopVars, ViewFacts
<1>2. \A i \in Jobs : RowAlike(i) /\ LeaseAlike(i)
  BY DEF LeaseExpires, BecomesDue, RowAlike, LeaseAlike
<1>3. QED
  BY <1>1, <1>2, Quiet DEF viewTuple, ViewFacts

LEMMA LoopMoves ==
  ASSUME ViewFacts, Remember, NothingInserted, NEW w \in Workers,
         \/ SelectDue(w) \/ LoopFails(w) \/ Crash(w)
         \/ Lease(w) /\ status[cur[w]] \notin Leasable
  PROVE  UNCHANGED viewTuple
<1> USE DEF ViewFacts
<1>1. newest' = newest
  BY NewestStays
<1>2. UNCHANGED <<status, attempts, owner>>
  BY DEF SelectDue, LoopFails, Crash, Lease, rowVars
<1>3. ran' = ran
  <2>1. CASE SelectDue(w)
    <3>1. PICK c \in Jobs : cur' = [cur EXCEPT ![w] = c]
      BY <2>1 DEF SelectDue
    <3>2. pc[w] \in {"poll", "select"} /\ pc' = [pc EXCEPT ![w] = "select"]
      BY <2>1 DEF SelectDue
    <3>3. QED
      BY <3>1, <3>2, RanStaysIdle
  <2>2. CASE Lease(w) /\ status[cur[w]] \notin Leasable
    <3>1. /\ pc[w] \in {"poll", "select"} /\ pc' = [pc EXCEPT ![w] = "poll"]
          /\ cur' = [cur EXCEPT ![w] = NoJob]
      BY <2>2 DEF Lease, ToPoll
    <3>2. QED
      BY <3>1, RanStaysIdle
  <2>3. CASE LoopFails(w) \/ Crash(w)
    <3>1. /\ pc' = [pc EXCEPT ![w] = "down"]
          /\ cur' = [cur EXCEPT ![w] = NoJob]
      BY <2>3 DEF LoopFails, StopLoop, Crash
    <3>2. QED
      BY <3>1, RanStaysIdle
  <2>4. QED
    BY <2>1, <2>2, <2>3
<1>4. \A i \in Jobs : RowAlike(i) /\ LeaseAlike(i)
  BY <1>2 DEF RowAlike, LeaseAlike
<1>5. QED
  BY <1>1, <1>3, <1>4, Quiet DEF viewTuple

LEMMA ViewStep ==
  ASSUME LimitsOrdered, HistoryInv, [Next /\ Remember]_viewVars
  PROVE  [HQ!Next]_viewTuple
<1>0. ViewFacts /\ QueueInvariant
  BY DEF HistoryInv, QueueInvariant, ViewFacts, HistoryAgrees, NewestAgrees, RanAgrees
<1>1. CASE UNCHANGED viewVars
  BY <1>1 DEF viewVars, viewTuple, RowView, AttemptsView, PcView, JobView, LeaseView, Claim, There
<1>2. CASE Next /\ Remember
  <2>1. ASSUME NEW j \in Jobs, Enqueue(j) PROVE HQ!Next
    <3>1. HQ!Submit(Key(j))
      BY <1>0, <1>2, <2>1, EnqueueMaps
    <3>2. QED
      BY <3>1, OwnKey DEF HQ!Next
  <2>2. CASE NothingInserted
    <3>1. ASSUME NEW j \in Jobs, LeaseExpires(j) \/ BecomesDue(j) PROVE UNCHANGED viewTuple
      BY <1>0, <1>2, <2>2, <3>1, TimePasses
    <3>2. ASSUME NEW w \in Workers, SelectDue(w) \/ LoopFails(w) \/ Crash(w)
          PROVE  UNCHANGED viewTuple
      BY <1>0, <1>2, <2>2, <3>2, LoopMoves
    <3>3. ASSUME NEW w \in Workers, Lease(w) PROVE HQ!Next \/ UNCHANGED viewTuple
      <4>1. CASE status[cur[w]] \in Leasable
        BY <1>0, <1>2, <2>2, <3>3, <4>1, LeaseMaps DEF HQ!Next
      <4>2. CASE status[cur[w]] \notin Leasable
        BY <1>0, <1>2, <2>2, <3>3, <4>2, LoopMoves
      <4>3. QED
        BY <4>1, <4>2
    <3>4. ASSUME NEW w \in Workers, CompleteJob(w) PROVE HQ!Next
      BY <1>0, <1>2, <2>2, <3>4, CompleteMaps DEF HQ!Next
    <3>5. ASSUME NEW w \in Workers, FailJob(w) PROVE HQ!Next
      BY <1>0, <1>2, <2>2, <3>5, FailMaps DEF HQ!Next
    <3>6. ASSUME NEW w \in Workers, Start(w) PROVE HQ!Next
      BY <1>0, <1>2, <2>2, <3>6, StartMaps DEF HQ!Next
    <3>7. ASSUME NEW w \in Workers, ReapExpired(w) PROVE HQ!Next
      BY <1>0, <1>2, <2>2, <3>7, ReapMaps DEF HQ!Next
    <3>8. ASSUME NEW w \in Workers, PurgeDead(w) PROVE HQ!Next
      BY <1>0, <1>2, <2>2, <3>8, PurgeMaps DEF HQ!Next
    <3>9. QED
      BY <1>2, <2>1, <3>1, <3>2, <3>3, <3>4, <3>5, <3>6, <3>7, <3>8 DEF Next
  <2>3. QED
    BY <1>0, <1>2, <2>1, <2>2, OnlyEnqueueInserts DEF ViewFacts
<1>3. QED
  BY <1>1, <1>2

LEMMA ViewInitMaps == ViewInit => HQ!Init
<1> SUFFICES ASSUME ViewInit PROVE HQ!Init
  OBVIOUS
<1>1. \A k \in Keys : newest[k] = NoJob
  BY DEF ViewInit
<1>2. \A w \in Workers : ran[w] = NoJob
  BY DEF ViewInit
<1>3. QED
  BY <1>1, <1>2, ConstantsAssumption
  DEF HQ!Init, RowView, AttemptsView, PcView, JobView, LeaseView, There

\* The table, the loops and their history stay in agreement.
THEOREM HistoryHolds ==
  ASSUME LimitsOrdered PROVE ViewSafety => []HistoryInv
<1>1. ViewInit => HistoryInv
  <2>1. ViewInit => Init
    BY DEF ViewInit
  <2>2. Init => LeaseIsHeld
    BY DEF Init, LeaseIsHeld
  <2>3. QED
    BY <2>1, <2>2, InitHistory, InitInvariant DEF HistoryInv
<1>2. HistoryInv /\ [Next /\ Remember]_viewVars => HistoryInv'
  <2> SUFFICES ASSUME HistoryInv, [Next /\ Remember]_viewVars PROVE HistoryInv'
    OBVIOUS
  <2>1. [Next]_vars
    BY DEF vars, viewVars
  <2>2. QueueInvariant' /\ LeaseIsHeld'
    BY <2>1, NextInvariant, NextLeaseIsHeld DEF HistoryInv, QueueInvariant
  <2>3. HistoryTyped'
    BY <2>2, NextHistoryTyped DEF HistoryInv, QueueInvariant
  <2>4. HistoryAgrees'
    BY <2>2, NextHistory DEF HistoryInv
  <2>5. QED
    BY <2>2, <2>3, <2>4 DEF HistoryInv
<1>3. QED
  BY <1>1, <1>2, PTL DEF ViewSafety

\* The statements of events.rs implement the queue that the other modules run their handlers on:
\* HandlerQueue leaves out nothing that leases, retries, crashes, recovery, the reaper, purges
\* and late reports can do to a producer or a handler.
THEOREM HandlerQueueRefined ==
  ASSUME LimitsOrdered PROVE ViewSafety => ImplementsHandlerQueue
<1>1. HistoryInv /\ [Next /\ Remember]_viewVars => [HQ!Next]_HQ!vars
  <2>1. HQ!vars = viewTuple
    BY DEF HQ!vars, viewTuple
  <2>2. QED
    BY <2>1, ViewStep DEF HQ!vars, viewTuple
<1>2. QED
  BY <1>1, ViewInitMaps, HistoryHolds, PTL DEF ViewSafety, ImplementsHandlerQueue, HQ!Spec

================================================================================
