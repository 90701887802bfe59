-------------------------- MODULE ShareDeliveryProofs --------------------------
(***************************************************************************)
(* Proofs about ShareDelivery for any number of loops, concurrent          *)
(* requests, addresses, attempts and faults.                               *)
(***************************************************************************)
EXTENDS ShareDelivery, TLAPS

-------------------------------------------------------------------------------
(* Types. *)

Claim == {"none", "held", "lost", "gone"}

QueueTyped == row \in [Keys -> {"none", "active", "dead"}] /\ attempts \in [Keys -> Nat]

LEMMA BusyRunsSend ==
  ASSUME LoopTyped, NEW w \in Workers, pc[w] # "idle"
  PROVE  job[w] = Send /\ lease[w] \in Claim \ {"none"}
  BY DEF LoopTyped, Claim, Keys

LEMMA ChargeTyped ==
  ASSUME QueueTyped, NEW k \in Keys, Charge(k)
  PROVE  QueueTyped' /\ (row[k] # "none" => row'[k] # "none")
  BY DEF QueueTyped, Charge

\* A loop reports Ok or Err and becomes idle.
LEMMA IdleTyped ==
  ASSUME LoopTyped, NEW w \in Workers, Idle(w), lease' \in [Workers -> Claim], lease'[w] = "none",
         \A v \in Workers \ {w} : lease'[v] = "none" <=> lease[v] = "none"
  PROVE  LoopTyped'
<1>1. /\ pc' \in [Workers -> {"idle", "send", "pending", "mail", "record", "done"}]
      /\ job' \in [Workers -> Keys \cup {NoJob}]
      /\ left' \in [Workers -> SUBSET Recipients]
      /\ mail' \in [Workers -> {<<>>} \cup (Recipients \X {"sent", "failed"})]
  BY DEF Idle, Leave, LoopTyped
<1>2. pc'[w] = "idle" /\ job'[w] = NoJob /\ left'[w] = {} /\ mail'[w] = <<>>
  BY DEF Idle, Leave, LoopTyped
<1>3. \A v \in Workers \ {w} : pc'[v] = pc[v] /\ job'[v] = job[v] /\ left'[v] = left[v] /\ mail'[v] = mail[v]
  BY DEF Idle, Leave, LoopTyped
<1>4. QED
  BY <1>1, <1>2, <1>3 DEF LoopTyped, Claim

LEMMA FailTyped ==
  ASSUME LoopTyped, QueueTyped, NEW w \in Workers, pc[w] # "idle", Fail(w)
  PROVE  LoopTyped' /\ QueueTyped' /\ (row[Send] # "none" => row'[Send] # "none")
<1>1. job[w] = Send /\ Send \in Keys /\ Idle(w)
  BY BusyRunsSend DEF Fail, Keys
<1>2. QueueTyped' /\ (row[Send] # "none" => row'[Send] # "none")
  BY <1>1, ChargeTyped DEF Fail, FailRow, queueVars, QueueTyped
<1>3. /\ lease' \in [Workers -> Claim] /\ lease'[w] = "none"
      /\ \A v \in Workers \ {w} : lease'[v] = "none" <=> lease[v] = "none"
  BY DEF Fail, FailRow, LoopTyped, Claim
<1>4. QED
  BY <1>1, <1>2, <1>3, IdleTyped

LEMMA CompleteTyped ==
  ASSUME LoopTyped, QueueTyped, NEW w \in Workers, Complete(w)
  PROVE  LoopTyped' /\ QueueTyped'
<1>1. job[w] = Send /\ Send \in Keys /\ Idle(w) /\ DeleteRow(w)
  BY BusyRunsSend DEF Complete, Keys
<1>2. QueueTyped'
  BY <1>1 DEF DeleteRow, queueVars, QueueTyped
<1>3. /\ lease' \in [Workers -> Claim] /\ lease'[w] = "none"
      /\ \A v \in Workers \ {w} : lease'[v] = "none" <=> lease[v] = "none"
  <2>1. \A v \in Workers \ {w} : job[v] = Send => lease[v] # "none"
    BY ShareAssumption DEF LoopTyped, Keys
  <2>2. QED
    BY <1>1, <2>1 DEF DeleteRow, LoopTyped, Claim
<1>4. QED
  BY <1>1, <1>2, <1>3, IdleTyped

LEMMA EnqueueTyped ==
  ASSUME LoopTyped, QueueTyped, Enqueue(Send), UNCHANGED <<pc, job, left, mail>>
  PROVE  LoopTyped' /\ QueueTyped' /\ row'[Send] # "none"
<1>1. QueueTyped' /\ row'[Send] # "none"
  BY DEF Enqueue, QueueTyped, Keys
<1>2. \A v \in Workers : job[v] = Send => lease[v] # "none"
  BY ShareAssumption DEF LoopTyped, Keys
<1>3. lease' \in [Workers -> Claim] /\ \A v \in Workers : lease'[v] = "none" <=> lease[v] = "none"
  BY <1>2 DEF Enqueue, LoopTyped, Claim
<1>4. QED
  BY <1>1, <1>3 DEF LoopTyped, Claim

\* A loop moves within its handler.
LEMMA MoveTyped ==
  ASSUME LoopTyped, NEW w \in Workers, pc[w] # "idle",
         NEW s \in {"pending", "mail", "record", "done"}, GoTo(w, s), UNCHANGED <<job, lease>>,
         left' \in [Workers -> SUBSET Recipients],
         mail' \in [Workers -> {<<>>} \cup (Recipients \X {"sent", "failed"})],
         \A v \in Workers \ {w} : left'[v] = left[v] /\ mail'[v] = mail[v],
         s = "record" <=> mail'[w] # <<>>, s \notin {"mail", "record"} => left'[w] = {}
  PROVE  LoopTyped'
<1>1. pc' \in [Workers -> {"idle", "send", "pending", "mail", "record", "done"}]
  BY DEF GoTo, LoopTyped
<1>2. pc'[w] = s /\ \A v \in Workers \ {w} : pc'[v] = pc[v]
  BY DEF GoTo, LoopTyped
<1>3. QED
  BY <1>1, <1>2 DEF LoopTyped

LEMMA TickTyped ==
  ASSUME RequestTyped, NEW c \in Callers, NEW r \in Recipients, NEW next \in {"add", "enqueue"}, Tick(c, r, next)
  PROVE  RequestTyped'
  BY DEF Tick, RequestTyped

LEMMA RespondTyped ==
  ASSUME RequestTyped, HistoryTyped, NEW c \in Callers, Respond(c), UNCHANGED shares
  PROVE  RequestTyped' /\ alone' \in [Callers \cup Workers -> BOOLEAN]
  BY DEF Respond, RequestTyped, HistoryTyped

LEMMA FaultTyped ==
  ASSUME faults \in 0..MaxFaults, Fault
  PROVE  faults' \in 0..MaxFaults
  BY ShareAssumption DEF Fault

LEMMA InitTyped == Init => TypeOK
<1> SUFFICES ASSUME Init PROVE TypeOK
  OBVIOUS
<1>1. RequestTyped
  BY ShareAssumption DEF Init, RequestTyped
<1>2. TablesTyped
  BY DEF Init, TablesTyped
<1>3. LoopTyped
  BY DEF Init, LoopTyped
<1>4. HistoryTyped
  BY ShareAssumption DEF Init, HistoryTyped
<1>5. QED
  BY <1>1, <1>2, <1>3, <1>4 DEF TypeOK

LEMMA RequestStepTyped ==
  ASSUME TypeOK, NEW c \in Callers,
         \/ \E addresses \in SUBSET Recipients \ {{}} : Share(c, addresses)
         \/ ResetDelivery(c) \/ AddRecipient(c) \/ EnqueueSend(c) \/ ShareStops(c)
  PROVE  TypeOK'
<1>1. ASSUME NEW addresses \in SUBSET Recipients \ {{}}, Share(c, addresses) PROVE TypeOK'
  <2>1. RequestTyped'
    BY <1>1, ShareAssumption DEF Share, TypeOK, RequestTyped
  <2>2. HistoryTyped'
    BY <1>1 DEF Share, TypeOK, HistoryTyped
  <2>3. TablesTyped' /\ LoopTyped'
    BY <1>1 DEF Share, TypeOK, TablesTyped, LoopTyped, tableVars, queueVars, runVars
  <2>4. QED
    BY <2>1, <2>2, <2>3 DEF TypeOK
<1>2. CASE ResetDelivery(c)
  <2>1. PICK r \in Recipients : Tick(c, r, "add") /\ records' = [records EXCEPT ![r] = {}]
    BY <1>2 DEF ResetDelivery
  <2>2. RequestTyped'
    BY <2>1, TickTyped DEF TypeOK
  <2>3. TablesTyped'
    BY <1>2, <2>1 DEF ResetDelivery, Tick, TypeOK, TablesTyped, queueVars
  <2>4. LoopTyped' /\ HistoryTyped'
    BY <2>1 DEF Tick, TypeOK, LoopTyped, HistoryTyped, runVars
  <2>5. QED
    BY <2>2, <2>3, <2>4 DEF TypeOK
<1>3. CASE AddRecipient(c)
  <2>1. PICK r \in Recipients : Tick(c, r, "enqueue") /\ recipients' = recipients \cup {r}
    BY <1>3 DEF AddRecipient
  <2>2. RequestTyped'
    BY <2>1, TickTyped DEF TypeOK
  <2>3. TablesTyped'
    BY <1>3, <2>1 DEF AddRecipient, Tick, TypeOK, TablesTyped, queueVars
  <2>4. LoopTyped' /\ HistoryTyped'
    BY <2>1 DEF Tick, TypeOK, LoopTyped, HistoryTyped, runVars
  <2>5. QED
    BY <2>2, <2>3, <2>4 DEF TypeOK
<1>4. CASE EnqueueSend(c)
  <2>1. RequestTyped' /\ alone' \in [Callers \cup Workers -> BOOLEAN]
    BY <1>4, RespondTyped DEF EnqueueSend, TypeOK
  <2>2. HistoryTyped'
    BY <1>4, <2>1 DEF EnqueueSend, TypeOK, HistoryTyped, RequestTyped
  <2>3. LoopTyped' /\ QueueTyped'
    BY <1>4, EnqueueTyped DEF EnqueueSend, TypeOK, TablesTyped, QueueTyped, runVars
  <2>4. TablesTyped'
    BY <1>4, <2>3 DEF EnqueueSend, TypeOK, TablesTyped, QueueTyped, tableVars
  <2>5. QED
    BY <2>1, <2>2, <2>3, <2>4 DEF TypeOK
<1>5. CASE ShareStops(c)
  <2>1. RequestTyped' /\ alone' \in [Callers \cup Workers -> BOOLEAN]
    BY <1>5, RespondTyped DEF ShareStops, TypeOK
  <2>2. HistoryTyped'
    BY <1>5, <2>1, FaultTyped DEF ShareStops, TypeOK, HistoryTyped
  <2>3. TablesTyped' /\ LoopTyped'
    BY <1>5 DEF ShareStops, TypeOK, TablesTyped, LoopTyped, tableVars, queueVars, runVars
  <2>4. QED
    BY <2>1, <2>2, <2>3 DEF TypeOK
<1>6. QED
  BY <1>1, <1>2, <1>3, <1>4, <1>5

\* The steps of a loop, but for the fault count.
LEMMA FailKeepsTypes ==
  ASSUME TypeOK, NEW w \in Workers, pc[w] # "idle", Fail(w), faults' \in 0..MaxFaults
  PROVE  TypeOK'
<1>1. LoopTyped' /\ QueueTyped'
  BY FailTyped DEF TypeOK, TablesTyped, QueueTyped
<1>2. RequestTyped' /\ TablesTyped'
  BY <1>1 DEF Fail, TypeOK, RequestTyped, TablesTyped, QueueTyped, requestVars, tableVars
<1>3. HistoryTyped'
  BY DEF Fail, Idle, TypeOK, HistoryTyped
<1>4. QED
  BY <1>1, <1>2, <1>3 DEF TypeOK

LEMMA LoopStepTyped ==
  ASSUME TypeOK, NEW w \in Workers, Take(w) \/ Step(w) \/ HandlerFails(w) \/ Crash(w) \/ LoseLease(w)
  PROVE  TypeOK'
<1>1. CASE Take(w)
  <2>1. LoopTyped'
    BY <1>1, ShareAssumption DEF Take, LeaseRow, runVars, TypeOK, LoopTyped, Keys
  <2>2. QED
    BY <1>1, <2>1 DEF Take, LeaseRow, TypeOK, RequestTyped, TablesTyped, HistoryTyped, tableVars,
                      requestVars, queueVars
<1>2. ASSUME LoopTyped', UNCHANGED <<note, tableVars, requestVars, queueVars, owed, alone, shares, faults>>
      PROVE  TypeOK'
  BY <1>2 DEF TypeOK, RequestTyped, TablesTyped, HistoryTyped, tableVars, requestVars, queueVars
<1>3. CASE ReadNote(w)
  <2>1. CASE ~note /\ Fail(w) /\ UNCHANGED faults
    BY <1>3, <2>1, FailKeepsTypes DEF ReadNote, TypeOK, HistoryTyped
  <2>2. CASE note /\ GoTo(w, "pending")
    <3>1. LoopTyped'
      BY <1>3, <2>2, MoveTyped DEF ReadNote, Fail, Idle, runVars, TypeOK, LoopTyped
    <3>2. QED
      BY <1>2, <1>3, <2>2, <3>1 DEF ReadNote
  <2>3. QED
    BY <1>3, <2>1, <2>2 DEF ReadNote
<1>4. CASE SelectPending(w)
  <2>1. left' = [left EXCEPT ![w] = Pending] /\ Pending \subseteq Recipients /\ mail[w] = <<>>
    BY <1>4 DEF SelectPending, StartRun, Pending, TypeOK, TablesTyped, LoopTyped
  <2>2. LoopTyped'
    BY <1>4, <2>1, MoveTyped DEF SelectPending, StartRun, TypeOK, LoopTyped
  <2>3. HistoryTyped'
    BY <1>4 DEF SelectPending, StartRun, TypeOK, HistoryTyped
  <2>4. QED
    BY <1>4, <2>2, <2>3 DEF SelectPending, StartRun, TypeOK, RequestTyped, TablesTyped, tableVars,
                            requestVars, queueVars
<1>5. CASE Attempt(w)
  <2>1. PICK r \in left[w], status \in {"sent", "failed"} :
            /\ mail' = [mail EXCEPT ![w] = <<r, status>>]
            /\ served' = [c \in Callers |-> IF step[c] = "none" THEN served[c] ELSE served[c] \cup {r}]
            /\ owed' = owed \ ({r} \X BOOLEAN)
    BY <1>5 DEF Attempt
  <2>2. <<r, status>> \in Recipients \X {"sent", "failed"} /\ r \in Recipients
    BY DEF TypeOK, LoopTyped
  <2>3. LoopTyped'
    BY <1>5, <2>1, <2>2, MoveTyped DEF Attempt, TypeOK, LoopTyped
  <2>4. RequestTyped' /\ HistoryTyped'
    BY <1>5, <2>1, <2>2 DEF Attempt, TypeOK, RequestTyped, HistoryTyped
  <2>5. QED
    BY <1>5, <2>3, <2>4 DEF Attempt, TypeOK, TablesTyped, tableVars, queueVars
<1>6. CASE RecordDelivery(w)
  <2>1. mail[w] \in Recipients \X {"sent", "failed"}
    BY <1>6 DEF RecordDelivery, TypeOK, LoopTyped
  <2>2. records' \in [Recipients -> SUBSET {"sent", "failed"}]
    BY <1>6, <2>1 DEF RecordDelivery, TypeOK, TablesTyped
  <2>3. LoopTyped'
    BY <1>6, MoveTyped DEF RecordDelivery, TypeOK, LoopTyped
  <2>4. QED
    BY <1>6, <2>2, <2>3 DEF RecordDelivery, TypeOK, RequestTyped, TablesTyped, HistoryTyped,
                            requestVars, queueVars
<1>7. CASE EndRun(w)
  <2>1. LoopTyped'
    BY <1>7, MoveTyped DEF EndRun, runVars, TypeOK, LoopTyped
  <2>2. QED
    BY <1>2, <1>7, <2>1 DEF EndRun
<1>8. CASE Complete(w)
  <2>1. LoopTyped' /\ QueueTyped'
    BY <1>8, CompleteTyped DEF TypeOK, TablesTyped, QueueTyped
  <2>2. HistoryTyped'
    BY <1>8 DEF Complete, Idle, TypeOK, HistoryTyped
  <2>3. QED
    BY <1>8, <2>1, <2>2 DEF Complete, TypeOK, RequestTyped, TablesTyped, QueueTyped, tableVars, requestVars
<1>9. CASE HandlerFails(w)
  BY <1>9, FaultTyped, FailKeepsTypes DEF HandlerFails, TypeOK, HistoryTyped
<1>10. CASE Crash(w)
  <2>1. LoopTyped'
    BY <1>10, IdleTyped DEF Crash, TypeOK, LoopTyped, Claim
  <2>2. HistoryTyped'
    BY <1>10, FaultTyped DEF Crash, Idle, TypeOK, HistoryTyped
  <2>3. QED
    BY <1>10, <2>1, <2>2 DEF Crash, TypeOK, RequestTyped, TablesTyped, tableVars, requestVars, queueVars
<1>11. CASE LoseLease(w)
  <2>1. pc[w] # "idle" /\ job[w] = Send /\ Send \in Keys
    BY <1>11 DEF LoseLease, LoseRow, TypeOK, LoopTyped, Keys
  <2>2. QueueTyped'
    BY <1>11, <2>1, ChargeTyped DEF LoseLease, LoseRow, queueVars, TypeOK, TablesTyped, QueueTyped
  <2>3. LoopTyped'
    BY <1>11, <2>1 DEF LoseLease, LoseRow, runVars, TypeOK, LoopTyped
  <2>4. HistoryTyped'
    BY <1>11, FaultTyped DEF LoseLease, TypeOK, HistoryTyped
  <2>5. QED
    BY <1>11, <2>2, <2>3, <2>4 DEF LoseLease, TypeOK, RequestTyped, TablesTyped, QueueTyped, tableVars, requestVars
<1>12. QED
  BY <1>1, <1>3, <1>4, <1>5, <1>6, <1>7, <1>8, <1>9, <1>10, <1>11 DEF Step

LEMMA NextTyped == TypeOK /\ [Next]_vars => TypeOK'
<1> SUFFICES ASSUME TypeOK, [Next]_vars PROVE TypeOK'
  OBVIOUS
<1>1. CASE NoteReady
  BY <1>1 DEF NoteReady, TypeOK, RequestTyped, TablesTyped, LoopTyped, HistoryTyped, tableVars,
              requestVars, queueVars, runVars
<1>2. CASE UNCHANGED vars
  BY <1>2 DEF vars, TypeOK, RequestTyped, TablesTyped, LoopTyped, HistoryTyped, tableVars,
              requestVars, queueVars, runVars
<1>3. QED
  BY <1>1, <1>2, RequestStepTyped, LoopStepTyped DEF Next

\* The requests, the loops and the tables always have their types, a loop has a claim on the row
\* exactly while it runs the job, and it has a mail to record exactly between the two statements.
THEOREM ShareTyped == Safety => []TypeOK
  BY InitTyped, NextTyped, PTL DEF Safety

-------------------------------------------------------------------------------
(* No share is lost, no recorded mail repeated. *)

Promises == OwedIsPending /\ RequestsPrepare /\ RunsAlone /\ RecordedNotRepeated

\* Steps of requests: deliveries may be forgotten and recipients added, the runs go on as they are.
LEMMA RunsUndisturbed ==
  ASSUME TypeOK, Promises, UNCHANGED <<pc, left, mail>>,
         \A w \in Workers : alone'[w] = alone[w],
         \A r \in Recipients : "sent" \in records'[r] => "sent" \in records[r]
  PROVE  Running' = Running /\ RunsAlone' /\ RecordedNotRepeated'
<1>1. Running' = Running
  BY DEF Running
<1>2. RunsAlone'
  BY <1>1 DEF Promises, RunsAlone, Running
<1>3. RecordedNotRepeated'
  BY <1>1 DEF Promises, RecordedNotRepeated, Running, TypeOK, LoopTyped
<1>4. QED
  BY <1>1, <1>2, <1>3

LEMMA OwedKept ==
  ASSUME TypeOK, Promises, UNCHANGED <<pc, left, mail>>, recipients \subseteq recipients',
         \A r \in Recipients : "sent" \in records'[r] => "sent" \in records[r],
         row[Send] # "none" => row'[Send] # "none",
         \A r \in Recipients : <<r, TRUE>> \in owed' \ owed =>
            row'[Send] # "none" /\ r \in Pending /\ Running = {}
  PROVE  OwedIsPending'
<1>1. Running' = Running
  BY DEF Running
<1>2. ASSUME NEW r \in Recipients, r \in Pending PROVE r \in Pending'
  BY <1>2 DEF Pending
<1>3. QED
  BY <1>1, <1>2 DEF Promises, OwedIsPending

LEMMA OtherPrepared ==
  ASSUME TypeOK, RequestsPrepare, Running' = Running, recipients \subseteq recipients',
         \A r \in Recipients : "sent" \in records'[r] => "sent" \in records[r],
         NEW c \in Callers, step'[c] = step[c], emails'[c] = emails[c], todo'[c] = todo[c],
         alone'[c] = alone[c], step[c] # "none", alone[c]
  PROVE  Prepared(c)'
<1>1. Prepared(c) /\ emails[c] \subseteq Recipients
  BY DEF RequestsPrepare, TypeOK, RequestTyped
<1>2. QED
  BY <1>1 DEF Prepared

LEMMA RequestStepPromises ==
  ASSUME TypeOK, Promises, NEW c \in Callers,
         \/ \E addresses \in SUBSET Recipients \ {{}} : Share(c, addresses)
         \/ ResetDelivery(c) \/ AddRecipient(c) \/ EnqueueSend(c) \/ ShareStops(c)
  PROVE  Promises'
<1>0. c \notin Workers
  BY ShareAssumption
<1>1. ASSUME UNCHANGED <<pc, left, mail>>, \A x \in (Callers \cup Workers) \ {c} : alone'[x] = alone[x],
             recipients \subseteq recipients',
             \A r \in Recipients : "sent" \in records'[r] => "sent" \in records[r],
             row[Send] # "none" => row'[Send] # "none",
             \A r \in Recipients : <<r, TRUE>> \in owed' \ owed =>
                row'[Send] # "none" /\ r \in Pending /\ Running = {},
             \A d \in Callers \ {c} : step'[d] = step[d] /\ emails'[d] = emails[d] /\ todo'[d] = todo[d],
             step'[c] # "none" /\ alone'[c] => Prepared(c)'
      PROVE  Promises'
  <2>1. Running' = Running /\ RunsAlone' /\ RecordedNotRepeated'
    BY <1>0, <1>1, RunsUndisturbed
  <2>2. OwedIsPending'
    BY <1>1, OwedKept
  <2>3. ASSUME NEW d \in Callers \ {c}, step'[d] # "none", alone'[d] PROVE Prepared(d)'
    BY <1>1, <2>1, <2>3, OtherPrepared DEF Promises
  <2>4. RequestsPrepare'
    BY <1>1, <2>3 DEF RequestsPrepare
  <2>5. QED
    BY <2>1, <2>2, <2>4 DEF Promises
<1>2. ASSUME NEW addresses \in SUBSET Recipients \ {{}}, Share(c, addresses) PROVE Promises'
  <2>1. alone'[c] => Prepared(c)'
    BY <1>2 DEF Share, Prepared, Running, TypeOK, RequestTyped, HistoryTyped
  <2>2. \A x \in (Callers \cup Workers) \ {c} : alone'[x] = alone[x]
    BY <1>2 DEF Share, TypeOK, HistoryTyped
  <2>3. \A d \in Callers \ {c} : step'[d] = step[d] /\ emails'[d] = emails[d] /\ todo'[d] = todo[d]
    BY <1>2 DEF Share, TypeOK, RequestTyped
  <2>4. QED
    BY <1>1, <1>2, <2>1, <2>2, <2>3 DEF Share, tableVars, runVars, queueVars
<1>3. ASSUME NEW r \in Recipients, NEW next, Tick(c, r, next)
      PROVE  \A d \in Callers \ {c} : step'[d] = step[d] /\ emails'[d] = emails[d] /\ todo'[d] = todo[d]
  BY <1>3 DEF Tick, TypeOK, RequestTyped
<1>4. CASE ResetDelivery(c)
  <2>1. PICK r \in Recipients : Tick(c, r, "add") /\ records' = [records EXCEPT ![r] = {}]
    BY <1>4 DEF ResetDelivery
  <2>2. /\ records'[r] = {} /\ \A s \in Recipients \ {r} : records'[s] = records[s]
        /\ step[c] = "reset" /\ UNCHANGED <<recipients, emails, pc, alone>>
    BY <1>4, <2>1 DEF ResetDelivery, Tick, TypeOK, TablesTyped
  <2>3. \/ step'[c] = "reset" /\ todo'[c] = todo[c] \ {r}
        \/ step'[c] = "add" /\ todo'[c] = emails[c] /\ todo[c] = {r}
    BY <2>1, <2>2 DEF Tick, TypeOK, RequestTyped
  <2>4. alone'[c] => Prepared(c)'
    <3>1. SUFFICES ASSUME alone[c] PROVE Prepared(c)'
      BY <2>2
    <3>2. Prepared(c)
      BY <2>2, <3>1 DEF Promises, RequestsPrepare
    <3>3. Running' = {}
      BY <2>2, <3>2 DEF Prepared, Running
    <3>4. ASSUME NEW s \in emails[c], step'[c] # "reset" \/ s \notin todo'[c] PROVE "sent" \notin records'[s]
      BY <2>2, <2>3, <3>2, <3>4 DEF Prepared, TypeOK, RequestTyped
    <3>5. QED
      BY <2>2, <2>3, <3>3, <3>4 DEF Prepared
  <2>5. QED
    BY <1>1, <1>3, <1>4, <2>1, <2>2, <2>4 DEF ResetDelivery, Tick, runVars, queueVars
<1>5. CASE AddRecipient(c)
  <2>1. PICK r \in Recipients : Tick(c, r, "enqueue") /\ recipients' = recipients \cup {r}
    BY <1>5 DEF AddRecipient
  <2>2. step[c] = "add" /\ UNCHANGED <<records, emails, pc, alone>>
    BY <1>5, <2>1 DEF AddRecipient, Tick
  <2>3. \/ step'[c] = "add" /\ todo'[c] = todo[c] \ {r}
        \/ step'[c] = "enqueue" /\ todo'[c] = emails[c] /\ todo[c] = {r}
    BY <2>1, <2>2 DEF Tick, TypeOK, RequestTyped
  <2>4. alone'[c] => Prepared(c)'
    <3>1. SUFFICES ASSUME alone[c] PROVE Prepared(c)'
      BY <2>2
    <3>2. Prepared(c)
      BY <2>2, <3>1 DEF Promises, RequestsPrepare
    <3>3. Running' = {}
      BY <2>2, <3>2 DEF Prepared, Running
    <3>4. \A s \in emails[c] : step'[c] = "enqueue" \/ s \notin todo'[c] => s \in recipients'
      BY <2>1, <2>2, <2>3, <3>2 DEF Prepared
    <3>5. QED
      BY <2>2, <2>3, <3>2, <3>3, <3>4 DEF Prepared
  <2>5. QED
    BY <1>1, <1>3, <1>5, <2>1, <2>2, <2>4 DEF AddRecipient, Tick, runVars, queueVars
<1>6. ASSUME Respond(c)
      PROVE  /\ step'[c] = "none"
             /\ \A x \in (Callers \cup Workers) \ {c} : alone'[x] = alone[x]
             /\ \A d \in Callers \ {c} : step'[d] = step[d] /\ emails'[d] = emails[d] /\ todo'[d] = todo[d]
  BY <1>6 DEF Respond, TypeOK, RequestTyped, HistoryTyped
<1>7. CASE EnqueueSend(c)
  <2>1. row'[Send] # "none"
    BY <1>7 DEF EnqueueSend, Enqueue, TypeOK, TablesTyped, Keys
  <2>2. ASSUME NEW r \in Recipients, <<r, TRUE>> \in owed' \ owed PROVE r \in Pending /\ Running = {}
    <3>1. alone[c] /\ r \in emails[c] /\ step[c] = "enqueue"
      BY <1>7, <2>2 DEF EnqueueSend
    <3>2. QED
      BY <3>1 DEF Promises, RequestsPrepare, Prepared, Pending
  <2>3. QED
    BY <1>1, <1>6, <1>7, <2>1, <2>2 DEF EnqueueSend, tableVars, runVars
<1>8. CASE ShareStops(c)
  BY <1>1, <1>6, <1>8 DEF ShareStops, tableVars, runVars, queueVars
<1>9. QED
  BY <1>2, <1>4, <1>5, <1>7, <1>8

\* Steps of a loop that neither start a run, nor mail, nor record.
LEMMA QuietLoop ==
  ASSUME TypeOK, Promises, UNCHANGED <<recipients, records, step, emails, todo, owed>>,
         Running' \subseteq Running,
         \A v \in Running' : /\ left'[v] = left[v] /\ mail'[v] = mail[v] /\ alone'[v] = alone[v]
                             /\ pc'[v] = "record" => pc[v] = "record",
         \A c \in Callers : alone'[c] = alone[c],
         \A r \in Recipients : <<r, TRUE>> \in owed => row'[Send] # "none"
  PROVE  Promises'
<1>1. OwedIsPending'
  <2>1. Pending' = Pending
    BY DEF Pending
  <2>2. ASSUME NEW r \in Recipients, <<r, TRUE>> \in owed
        PROVE  /\ row'[Send] # "none" /\ r \in Pending'
               /\ \A v \in Running' : r \in left'[v] /\ (pc'[v] = "record" => mail'[v][1] # r)
    BY <2>1, <2>2 DEF Promises, OwedIsPending
  <2>3. QED
    BY <2>2 DEF OwedIsPending
<1>2. RequestsPrepare'
  <2>1. ASSUME NEW c \in Callers, step'[c] # "none", alone'[c] PROVE Prepared(c)'
    BY <2>1 DEF Promises, RequestsPrepare, Prepared
  <2>2. QED
    BY <2>1 DEF RequestsPrepare
<1>3. RunsAlone'
  BY DEF Promises, RunsAlone
<1>4. RecordedNotRepeated'
  BY DEF Promises, RecordedNotRepeated
<1>5. QED
  BY <1>1, <1>2, <1>3, <1>4 DEF Promises

\* The loop w becomes idle and keeps or frees the row.
LEMMA IdlePromises ==
  ASSUME TypeOK, Promises, NEW w \in Workers, Idle(w), UNCHANGED <<tableVars, step, emails, todo, owed>>,
         \A r \in Recipients : <<r, TRUE>> \in owed => row'[Send] # "none"
  PROVE  Promises'
<1>1. /\ pc'[w] = "idle"
      /\ \A v \in Workers \ {w} : /\ pc'[v] = pc[v] /\ left'[v] = left[v] /\ mail'[v] = mail[v]
                                  /\ alone'[v] = alone[v]
      /\ \A c \in Callers : alone'[c] = alone[c]
  BY ShareAssumption DEF Idle, Leave, TypeOK, LoopTyped, HistoryTyped
<1>2. Running' \subseteq Running /\ w \notin Running'
  BY <1>1 DEF Running
<1>3. QED
  BY <1>1, <1>2, QuietLoop DEF Running, tableVars

LEMMA FailPromises ==
  ASSUME TypeOK, Promises, NEW w \in Workers, pc[w] # "idle", Fail(w)
  PROVE  Promises'
<1>1. row[Send] # "none" => row'[Send] # "none"
  BY FailTyped DEF TypeOK, TablesTyped, QueueTyped
<1>2. QED
  BY <1>1, IdlePromises DEF Fail, requestVars, Promises, OwedIsPending

\* The loop w moves without touching the tables, its recipients or its mail.
LEMMA MovePromises ==
  ASSUME TypeOK, Promises, NEW w \in Workers,
         UNCHANGED <<tableVars, step, emails, todo, row, runVars, owed, alone>>,
         \A v \in Workers \ {w} : pc'[v] = pc[v],
         pc'[w] # "record", pc'[w] \in {"mail", "done"} => w \in Running
  PROVE  Promises'
<1>1. Running' \subseteq Running
  BY DEF Running
<1>2. QED
  BY <1>1, QuietLoop DEF Running, tableVars, runVars, Promises, OwedIsPending

LEMMA LoopStepPromises ==
  ASSUME TypeOK, Promises, NEW w \in Workers, Take(w) \/ Step(w) \/ HandlerFails(w) \/ Crash(w) \/ LoseLease(w)
  PROVE  Promises'
<1>1. ASSUME NEW s, GoTo(w, s) PROVE pc'[w] = s /\ \A v \in Workers \ {w} : pc'[v] = pc[v]
  BY <1>1 DEF GoTo, TypeOK, LoopTyped
<1>2. CASE Take(w)
  <2>1. pc'[w] = "send" /\ \A v \in Workers \ {w} : pc'[v] = pc[v]
    BY <1>2 DEF Take, LeaseRow, TypeOK, LoopTyped
  <2>2. QED
    BY <1>2, <2>1, MovePromises DEF Take, LeaseRow, queueVars, requestVars
<1>3. CASE ReadNote(w)
  <2>1. CASE Fail(w)
    BY <1>3, <2>1, FailPromises DEF ReadNote
  <2>2. CASE ~Fail(w)
    BY <1>1, <1>3, <2>2, MovePromises DEF ReadNote, queueVars, requestVars
  <2>3. QED
    BY <2>1, <2>2
<1>4. CASE SelectPending(w)
  <2>1. /\ left' = [left EXCEPT ![w] = Pending] /\ pc[w] = "pending"
        /\ UNCHANGED <<recipients, records, step, emails, todo, row, mail, owed>>
    BY <1>4 DEF SelectPending, StartRun, tableVars, requestVars, queueVars
  <2>2. left'[w] = Pending /\ \A v \in Workers \ {w} : left'[v] = left[v]
    BY <2>1 DEF TypeOK, LoopTyped
  <2>3. pc'[w] = "mail" /\ (\A v \in Workers \ {w} : pc'[v] = pc[v]) /\ Running' = Running \cup {w} /\ w \notin Running
    BY <1>1, <1>4, <2>1 DEF SelectPending, StartRun, Running
  <2>4. /\ alone'[w] = (Running = {})
        /\ \A v \in Running : ~alone'[v]
        /\ \A c \in Callers : alone'[c] => step[c] = "none"
    <3>1. alone' = [x \in Callers \cup Workers |->
                      IF x = w THEN Running = {}
                      ELSE alone[x] /\ (x \in Callers => step[x] = "none") /\ x \notin Running]
      BY <1>4 DEF SelectPending, StartRun
    <3>2. Running \subseteq Workers /\ w \notin Callers
      BY ShareAssumption DEF Running
    <3>3. QED
      BY <2>3, <3>1, <3>2
  <2>5. OwedIsPending'
    BY <2>1, <2>2, <2>3 DEF Promises, OwedIsPending, Pending, Running
  <2>6. RequestsPrepare'
    BY <2>1, <2>4 DEF RequestsPrepare
  <2>7. RunsAlone'
    BY <2>3, <2>4 DEF RunsAlone
  <2>8. RecordedNotRepeated'
    BY <2>1, <2>2, <2>3, <2>4 DEF RecordedNotRepeated, Pending
  <2>9. QED
    BY <2>5, <2>6, <2>7, <2>8 DEF Promises
<1>5. CASE Attempt(w)
  <2>1. PICK r \in left[w], status \in {"sent", "failed"} :
            mail' = [mail EXCEPT ![w] = <<r, status>>] /\ owed' = owed \ ({r} \X BOOLEAN)
    BY <1>5 DEF Attempt
  <2>2. /\ mail'[w] = <<r, status>> /\ \A v \in Workers \ {w} : mail'[v] = mail[v]
        /\ UNCHANGED <<recipients, records, step, emails, todo, row, left, alone>>
    BY <1>5, <2>1 DEF Attempt, TypeOK, LoopTyped, tableVars, queueVars
  <2>3. (\A v \in Workers \ {w} : pc'[v] = pc[v]) /\ Running' = Running
    BY <1>1, <1>5 DEF Attempt, Running
  <2>4. \A s \in Recipients : <<s, TRUE>> \in owed' => <<s, TRUE>> \in owed /\ s # r
    BY <2>1
  <2>5. OwedIsPending'
    <3>1. Pending' = Pending
      BY <2>2 DEF Pending
    <3>2. ASSUME NEW s \in Recipients, <<s, TRUE>> \in owed'
          PROVE  /\ row'[Send] # "none" /\ s \in Pending'
                 /\ \A v \in Running' : s \in left'[v] /\ (pc'[v] = "record" => mail'[v][1] # s)
      <4>1. <<s, TRUE>> \in owed /\ s # r
        BY <2>4, <3>2
      <4>2. /\ row[Send] # "none" /\ s \in Pending
            /\ \A v \in Running : s \in left[v] /\ (pc[v] = "record" => mail[v][1] # s)
        BY <4>1 DEF Promises, OwedIsPending
      <4>3. mail'[w][1] # s
        BY <2>2, <4>1
      <4>4. \A v \in Running \ {w} : pc'[v] = pc[v] /\ mail'[v] = mail[v]
        BY <2>2, <2>3 DEF Running
      <4>5. QED
        BY <2>2, <2>3, <3>1, <4>2, <4>3, <4>4
    <3>3. QED
      BY <3>2 DEF OwedIsPending
  <2>6. RequestsPrepare' /\ RunsAlone' /\ RecordedNotRepeated'
    BY <2>2, <2>3 DEF Promises, RequestsPrepare, Prepared, RunsAlone, RecordedNotRepeated
  <2>7. QED
    BY <2>5, <2>6 DEF Promises
<1>6. CASE RecordDelivery(w)
  <2>1. mail[w] \in Recipients \X {"sent", "failed"}
    BY <1>6 DEF RecordDelivery, TypeOK, LoopTyped
  <2>2. PICK r \in Recipients : mail[w][1] = r
    BY <2>1
  <2>3. /\ left'[w] = left[w] \ {r} /\ \A v \in Workers \ {w} : left'[v] = left[v] /\ mail'[v] = mail[v]
        /\ \A s \in Recipients \ {r} : records'[s] = records[s]
        /\ UNCHANGED <<recipients, step, emails, todo, row, owed, alone>> /\ w \in Running /\ pc[w] = "record"
    BY <1>6, <2>2 DEF RecordDelivery, TypeOK, LoopTyped, TablesTyped, requestVars, queueVars, Running
  <2>4. pc'[w] = "mail" /\ (\A v \in Workers \ {w} : pc'[v] = pc[v]) /\ Running' = Running
    BY <1>1, <1>6 DEF RecordDelivery, Running
  <2>5. OwedIsPending'
    <3>1. ASSUME NEW s \in Recipients, <<s, TRUE>> \in owed PROVE s # r /\ s \in Pending /\ row[Send] # "none"
      BY <2>2, <2>3, <3>1 DEF Promises, OwedIsPending
    <3>2. QED
      <4>1. ASSUME NEW s \in Recipients, <<s, TRUE>> \in owed'
            PROVE  /\ row'[Send] # "none" /\ s \in Pending'
                   /\ \A v \in Running' : s \in left'[v] /\ (pc'[v] = "record" => mail'[v][1] # s)
        <5>1. <<s, TRUE>> \in owed /\ s # r /\ s \in Pending /\ row[Send] # "none"
          BY <2>3, <3>1, <4>1
        <5>2. s \in Pending'
          BY <2>3, <5>1 DEF Pending
        <5>3. ASSUME NEW v \in Running'
              PROVE  s \in left'[v] /\ (pc'[v] = "record" => mail'[v][1] # s)
          <6>1. v \in Running /\ s \in left[v] /\ (pc[v] = "record" => mail[v][1] # s)
            BY <2>4, <4>1, <5>1, <5>3 DEF Promises, OwedIsPending
          <6>2. CASE v = w
            BY <2>3, <2>4, <5>1, <6>1, <6>2
          <6>3. CASE v # w
            BY <2>3, <2>4, <6>1, <6>3 DEF Running
          <6>4. QED
            BY <6>2, <6>3
        <5>4. QED
          BY <2>3, <5>1, <5>2, <5>3
      <4>2. QED
        BY <4>1 DEF OwedIsPending
  <2>6. RequestsPrepare'
    BY <2>3 DEF Promises, RequestsPrepare, Prepared
  <2>7. RunsAlone'
    BY <2>3, <2>4 DEF Promises, RunsAlone
  <2>8. RecordedNotRepeated'
    <3>1. ASSUME NEW v \in Running, alone[v], NEW s \in left'[v] PROVE "sent" \notin records'[s]
      <4>1. v = w
        BY <2>3, <3>1 DEF Promises, RunsAlone
      <4>2. s \in left[w] /\ s # r /\ s \in Recipients
        BY <2>3, <3>1, <4>1 DEF TypeOK, LoopTyped, Running
      <4>3. QED
        BY <2>3, <3>1, <4>1, <4>2 DEF Promises, RecordedNotRepeated
    <3>2. QED
      BY <2>3, <2>4, <3>1 DEF RecordedNotRepeated
  <2>9. QED
    BY <2>5, <2>6, <2>7, <2>8 DEF Promises
<1>7. CASE EndRun(w)
  BY <1>1, <1>7, MovePromises DEF EndRun, Running, queueVars, requestVars
<1>8. CASE Complete(w)
  <2>1. left[w] = {} /\ w \in Running
    BY <1>8 DEF Complete, TypeOK, LoopTyped, Running
  <2>2. \A r \in Recipients : <<r, TRUE>> \notin owed
    BY <2>1 DEF Promises, OwedIsPending
  <2>3. QED
    BY <1>8, <2>2, IdlePromises DEF Complete, requestVars
<1>9. CASE HandlerFails(w)
  BY <1>9, FailPromises DEF HandlerFails
<1>10. CASE Crash(w)
  BY <1>10, IdlePromises DEF Crash, queueVars, requestVars, Promises, OwedIsPending
<1>11. CASE LoseLease(w)
  <2>1. job[w] = Send /\ Send \in Keys
    BY <1>11 DEF LoseLease, LoseRow, TypeOK, LoopTyped, Keys
  <2>2. row[Send] # "none" => row'[Send] # "none"
    BY <1>11, <2>1, ChargeTyped DEF LoseLease, LoseRow, queueVars, TypeOK, TablesTyped, QueueTyped
  <2>3. QED
    BY <1>11, <2>2, QuietLoop DEF LoseLease, Running, runVars, tableVars, requestVars, Promises, OwedIsPending
<1>12. QED
  BY <1>2, <1>3, <1>4, <1>5, <1>6, <1>7, <1>8, <1>9, <1>10, <1>11 DEF Step

LEMMA NextPromises == TypeOK /\ Promises /\ [Next]_vars => Promises'
<1> SUFFICES ASSUME TypeOK, Promises, [Next]_vars PROVE Promises'
  OBVIOUS
<1>1. CASE NoteReady \/ UNCHANGED vars
  BY <1>1, QuietLoop DEF NoteReady, vars, tableVars, requestVars, queueVars, runVars, Running,
                         Promises, OwedIsPending
<1>2. QED
  BY <1>1, RequestStepPromises, LoopStepPromises DEF Next

LEMMA PromisesHold == Safety => [](TypeOK /\ Promises)
<1>1. Init => Promises
  BY ShareAssumption DEF Init, Promises, OwedIsPending, RequestsPrepare, RunsAlone, RecordedNotRepeated, Running
<1>2. QED
  BY <1>1, InitTyped, NextTyped, NextPromises, PTL DEF Safety

\* share_meeting and send_share_emails: a share answered "queued" that overlapped no run of the handler
\* stands in a job row until its recipients are attempted, for any number of requests, loops,
\* failures, crashes and lost leases.
THEOREM NoShareLost == Safety => []SharesAreKept
<1>1. TypeOK /\ Promises => SharesAreKept
  BY DEF Promises, OwedIsPending, SharesAreKept
<1>2. QED
  BY <1>1, PromisesHold, PTL

\* README, sharing and playback: a run of the handler that overlaps no other never mails a recipient
\* whose delivery is recorded as sent.
THEOREM NoRecordedRepeat == Safety => []RecordedNotRepeated
<1>1. TypeOK /\ Promises => RecordedNotRepeated
  BY DEF Promises
<1>2. QED
  BY <1>1, PromisesHold, PTL

================================================================================
