---------------------------- MODULE ShareDelivery ----------------------------
(***************************************************************************)
(* Sharing one meeting by email: POST /meetings/{id}/share, which prepares *)
(* the recipients and queues a job, and the handler send_share_emails,     *)
(* which mails everybody that has no delivery recorded as sent.            *)
(*                                                                         *)
(* Requests run concurrently with the handler, statement by statement; a   *)
(* request may fail or be dropped with its connection, a handler may fail, *)
(* die or lose its lease (HandlerQueue).  Tokens, the mail's text and the  *)
(* auto-share after a note (nothing in the code turns it on) are left out. *)
(***************************************************************************)
EXTENDS HandlerQueue, FiniteSets

CONSTANTS
    Callers,      \* concurrent share requests
    Recipients,   \* email addresses
    MaxShares,    \* bound: requests in a behaviour
    MaxFaults     \* bound: failures, crashes and lost leases in a behaviour

\* The dedupe key: the meeting.
Send == "send"
Keys == {Send}

ASSUME ShareAssumption ==
    /\ IsFiniteSet(Workers) /\ Callers \cap Workers = {}
    /\ NoJob \notin Keys
    /\ MaxAttempts \in Nat \ {0} /\ MaxShares \in Nat /\ MaxFaults \in Nat

VARIABLES
    note,         \* the meeting has a ready note
    recipients,   \* share_recipients of the meeting
    records,      \* records[r]: the statuses in email_deliveries for r
    step, emails, todo, \* a request: its step, its addresses, those its loop has left
    left, mail,   \* a handler: its pending recipients not done yet, the attempt it is to record
    served,       \* history: the addresses of a request that were attempted since it began
    owed,         \* history: <<r, alone>>: r was promised (by a request that overlapped no run or
                  \* by another) and not attempted since
    alone,        \* history: a request or a run overlapped no (other) run of the handler
    shares, faults

requestVars == <<step, emails, todo, served>>
tableVars == <<recipients, records>>
runVars == <<left, mail>>
vars == <<note, tableVars, requestVars, queueVars, pc, job, lease, runVars, owed, alone, shares, faults>>

Init ==
    /\ note = FALSE
    /\ recipients = {}
    /\ records = [r \in Recipients |-> {}]
    /\ step = [c \in Callers |-> "none"]
    /\ emails = [c \in Callers |-> {}]
    /\ todo = [c \in Callers |-> {}]
    /\ served = [c \in Callers |-> {}]
    /\ row = [k \in Keys |-> "none"]
    /\ attempts = [k \in Keys |-> 0]
    /\ pc = [w \in Workers |-> "idle"]
    /\ job = [w \in Workers |-> NoJob]
    /\ lease = [w \in Workers |-> "none"]
    /\ left = [w \in Workers |-> {}]
    /\ mail = [w \in Workers |-> <<>>]
    /\ owed = {}
    /\ alone = [x \in Callers \cup Workers |-> TRUE]
    /\ shares = 0 /\ faults = 0

\* A request ends; its locals are gone.
Respond(c) ==
    /\ step' = [step EXCEPT ![c] = "none"]
    /\ emails' = [emails EXCEPT ![c] = {}]
    /\ todo' = [todo EXCEPT ![c] = {}]
    /\ served' = [served EXCEPT ![c] = {}]
    /\ alone' = [alone EXCEPT ![c] = TRUE]

Fault == faults < MaxFaults /\ faults' = faults + 1

\* Loops that have read the pending recipients and not reported yet.
Running == {w \in Workers : pc[w] \in {"mail", "record", "done"}}

-------------------------------------------------------------------------------
(* share_meeting *)

Share(c, addresses) ==
    /\ step[c] = "none" /\ shares < MaxShares
    /\ step' = [step EXCEPT ![c] = "reset"]
    /\ emails' = [emails EXCEPT ![c] = addresses]
    /\ todo' = [todo EXCEPT ![c] = addresses]
    /\ alone' = [alone EXCEPT ![c] = Running = {}]
    /\ shares' = shares + 1
    /\ UNCHANGED <<note, served, tableVars, queueVars, pc, job, lease, runVars, owed, faults>>

\* One address of a loop is done; after the last the request goes on.
Tick(c, r, next) ==
    /\ r \in todo[c]
    /\ IF todo[c] = {r}
       THEN step' = [step EXCEPT ![c] = next] /\ todo' = [todo EXCEPT ![c] = emails[c]]
       ELSE UNCHANGED step /\ todo' = [todo EXCEPT ![c] = @ \ {r}]
    /\ UNCHANGED <<note, emails, served, queueVars, pc, job, lease, runVars, owed, alone, shares, faults>>

\* Seeded fault: a delivery recorded before stays.
ResetNothing(c) ==
    step[c] = "reset" /\ \E r \in Recipients : Tick(c, r, "add") /\ UNCHANGED tableVars

\* reset_email_deliveries: DELETE by address, so that a repeated share is mailed again.
ResetDelivery(c) ==
    /\ step[c] = "reset"
    /\ \E r \in Recipients :
        /\ Tick(c, r, "add")
        /\ records' = [records EXCEPT ![r] = {}]
    /\ UNCHANGED recipients

\* add_share_recipients: INSERT OR IGNORE by address.
AddRecipient(c) ==
    /\ step[c] = "add"
    /\ \E r \in Recipients :
        /\ Tick(c, r, "enqueue")
        /\ recipients' = recipients \cup {r}
    /\ UNCHANGED records

\* enqueue_job, ignored while a job of the meeting is active; the caller reads "queued".
EnqueueSend(c) ==
    /\ step[c] = "enqueue"
    /\ Enqueue(Send)
    /\ owed' = owed \cup {<<r, alone[c]>> : r \in emails[c] \ served[c]}
    /\ Respond(c)
    /\ UNCHANGED <<note, tableVars, pc, job, runVars, shares, faults>>

\* A statement fails, the process dies, or the client's connection is gone.
ShareStops(c) ==
    /\ step[c] # "none"
    /\ Respond(c) /\ Fault
    /\ UNCHANGED <<note, tableVars, queueVars, pc, job, lease, runVars, owed, shares>>

-------------------------------------------------------------------------------
(* send_share_emails *)

\* replace_note (MeetingPipeline) makes the note ready.
NoteReady ==
    /\ ~note /\ note' = TRUE
    /\ UNCHANGED <<tableVars, requestVars, queueVars, pc, job, lease, runVars, owed, alone, shares, faults>>

Take(w) ==
    /\ LeaseRow(w, Send, "send")
    /\ UNCHANGED <<note, tableVars, requestVars, runVars, owed, alone, shares, faults>>

Idle(w) ==
    /\ Leave(w)
    /\ left' = [left EXCEPT ![w] = {}]
    /\ mail' = [mail EXCEPT ![w] = <<>>]
    /\ alone' = [alone EXCEPT ![w] = TRUE]

\* The handler returned Err.
Fail(w) ==
    /\ FailRow(w) /\ Idle(w)
    /\ UNCHANGED <<note, tableVars, requestVars, owed, shares>>

\* Without a ready note the handler fails.
ReadNote(w) ==
    /\ pc[w] = "send"
    /\ \/ ~note /\ Fail(w) /\ UNCHANGED faults
       \/ /\ note
          /\ GoTo(w, "pending")
          /\ UNCHANGED <<note, tableVars, requestVars, queueVars, job, lease, runVars, owed, alone, shares, faults>>

Pending == {r \in recipients : "sent" \notin records[r]}

\* Reading the recipients starts the run that others may overlap.
StartRun(w, whom) ==
    /\ pc[w] = "pending"
    /\ left' = [left EXCEPT ![w] = whom]
    /\ alone' = [x \in Callers \cup Workers |->
                    IF x = w THEN Running = {}
                    ELSE alone[x] /\ (x \in Callers => step[x] = "none") /\ x \notin Running]
    /\ GoTo(w, "mail")
    /\ UNCHANGED <<note, tableVars, requestVars, queueVars, job, lease, mail, owed, shares, faults>>

\* Seeded fault: the retry of a job mails every recipient again.
SelectEverybody(w) == StartRun(w, recipients)

\* get_pending_share_recipients, read once.
SelectPending(w) == StartRun(w, Pending)

\* The next recipient is mailed, or found invalid, or Resend reports an error.
Attempt(w) ==
    /\ pc[w] = "mail"
    /\ \E r \in left[w], status \in {"sent", "failed"} :
        /\ mail' = [mail EXCEPT ![w] = <<r, status>>]
        /\ served' = [c \in Callers |-> IF step[c] = "none" THEN served[c] ELSE served[c] \cup {r}]
        /\ owed' = owed \ ({r} \X BOOLEAN)
    /\ GoTo(w, "record")
    /\ UNCHANGED <<note, tableVars, step, emails, todo, queueVars, job, lease, left, alone, shares, faults>>

\* record_email_delivery
RecordDelivery(w) ==
    /\ pc[w] = "record"
    /\ records' = [records EXCEPT ![mail[w][1]] = @ \cup {mail[w][2]}]
    /\ left' = [left EXCEPT ![w] = @ \ {mail[w][1]}]
    /\ mail' = [mail EXCEPT ![w] = <<>>]
    /\ GoTo(w, "mail")
    /\ UNCHANGED <<note, recipients, requestVars, queueVars, job, lease, owed, alone, shares, faults>>

\* Seeded fault: the handler returns Ok before its last recipient.
EndRunEarly(w) ==
    /\ pc[w] = "mail"
    /\ GoTo(w, "done")
    /\ UNCHANGED <<note, tableVars, requestVars, queueVars, job, lease, runVars, owed, alone, shares, faults>>

\* Whatever failed, the handler returns Ok after the last recipient.
EndRun(w) ==
    /\ pc[w] = "mail" /\ left[w] = {}
    /\ GoTo(w, "done")
    /\ UNCHANGED <<note, tableVars, requestVars, queueVars, job, lease, runVars, owed, alone, shares, faults>>

Complete(w) ==
    /\ pc[w] = "done"
    /\ DeleteRow(w) /\ Idle(w)
    /\ UNCHANGED <<note, tableVars, requestVars, owed, shares, faults>>

\* A statement of the handler fails.
HandlerFails(w) ==
    /\ pc[w] \in {"send", "pending", "record"}
    /\ Fail(w) /\ Fault

\* Seeded fault: nothing ever frees the row of a process that died.
CrashWithoutRecovery(w) ==
    /\ pc[w] # "idle"
    /\ pc' = [pc EXCEPT ![w] = "idle"]
    /\ Fault
    /\ UNCHANGED <<note, tableVars, requestVars, queueVars, job, lease, runVars, owed, alone, shares>>

\* The process dies; start-up recovery frees the row.
Crash(w) ==
    /\ pc[w] # "idle"
    /\ lease' = [lease EXCEPT ![w] = "none"]
    /\ Idle(w) /\ Fault
    /\ UNCHANGED <<note, tableVars, requestVars, queueVars, owed, shares>>

LoseLease(w) ==
    /\ LoseRow(w) /\ Fault
    /\ UNCHANGED <<note, tableVars, requestVars, pc, job, runVars, owed, alone, shares>>

-------------------------------------------------------------------------------

Step(w) ==
    \/ ReadNote(w) \/ SelectPending(w) \/ Attempt(w) \/ RecordDelivery(w) \/ EndRun(w)
    \/ Complete(w)

Next ==
    \/ \E c \in Callers : \/ \E addresses \in SUBSET Recipients \ {{}} : Share(c, addresses)
                          \/ ResetDelivery(c) \/ AddRecipient(c) \/ EnqueueSend(c) \/ ShareStops(c)
    \/ NoteReady
    \/ \E w \in Workers : Take(w) \/ Step(w) \/ HandlerFails(w) \/ Crash(w) \/ LoseLease(w)

Safety == Init /\ [][Next]_vars

\* The loops poll and their handlers advance.
Fairness == \A w \in Workers : WF_vars(Step(w)) /\ WF_vars(Take(w))

Spec == Safety /\ Fairness

-------------------------------------------------------------------------------
(* Properties *)

RequestTyped ==
    /\ step \in [Callers -> {"none", "reset", "add", "enqueue"}]
    /\ emails \in [Callers -> SUBSET Recipients]
    /\ todo \in [Callers -> SUBSET Recipients]
    /\ served \in [Callers -> SUBSET Recipients]
    /\ shares \in 0..MaxShares

TablesTyped ==
    /\ note \in BOOLEAN
    /\ recipients \subseteq Recipients
    /\ records \in [Recipients -> SUBSET {"sent", "failed"}]
    /\ row \in [Keys -> {"none", "active", "dead"}]
    /\ attempts \in [Keys -> Nat]

LoopTyped ==
    /\ pc \in [Workers -> {"idle", "send", "pending", "mail", "record", "done"}]
    /\ job \in [Workers -> Keys \cup {NoJob}]
    /\ lease \in [Workers -> {"none", "held", "lost", "gone"}]
    /\ left \in [Workers -> SUBSET Recipients]
    /\ mail \in [Workers -> {<<>>} \cup (Recipients \X {"sent", "failed"})]
    /\ \A w \in Workers : /\ pc[w] = "idle" <=> job[w] = NoJob
                          /\ pc[w] = "idle" <=> lease[w] = "none"
                          /\ pc[w] = "record" <=> mail[w] # <<>>
                          /\ pc[w] \notin {"mail", "record"} => left[w] = {}

HistoryTyped ==
    /\ owed \subseteq Recipients \X BOOLEAN
    /\ alone \in [Callers \cup Workers -> BOOLEAN]
    /\ faults \in 0..MaxFaults

\* Types, and what the step of a loop says of the rest of its state.
TypeOK == RequestTyped /\ TablesTyped /\ LoopTyped /\ HistoryTyped

\* README, sharing and playback: recipients whose delivery is recorded as sent are not sent the
\* same share again, however often the job is retried, unless two runs of the handler overlap.
RecordedNotRepeated ==
    \A w \in Running : alone[w] => \A r \in left[w] : "sent" \notin records[r]

\* A share answered "queued" that overlapped no run of the handler is never lost: until its
\* recipients are attempted, a job row stands for them, whatever fails or runs twice meanwhile.
SharesAreKept ==
    \A r \in Recipients : <<r, TRUE>> \in owed => row[Send] # "none"

\* share_meeting: "Reset old delivery records so re-shares actually send": every share answered
\* "queued" is attempted or still has its job.
SharesActuallySend ==
    \A o \in owed : row[Send] # "none"

-------------------------------------------------------------------------------
(* The parts of the inductive invariant. *)

\* Who was promised a mail by an undisturbed request is still to be mailed, and every run that is
\* going on will do it.
OwedIsPending ==
    \A r \in Recipients : <<r, TRUE>> \in owed =>
        /\ row[Send] # "none" /\ r \in Pending
        /\ \A w \in Running : r \in left[w] /\ (pc[w] = "record" => mail[w][1] # r)

\* What an undisturbed request has done to an address stays done.
Prepared(c) ==
    /\ Running = {}
    /\ \A r \in emails[c] :
        /\ step[c] # "reset" \/ r \notin todo[c] => "sent" \notin records[r]
        /\ step[c] = "enqueue" \/ (step[c] = "add" /\ r \notin todo[c]) => r \in recipients

RequestsPrepare == \A c \in Callers : step[c] # "none" /\ alone[c] => Prepared(c)

\* A run that overlapped no other is the only one.
RunsAlone == \A v, w \in Running : alone[w] => v = w

ShareInvariant == TypeOK /\ OwedIsPending /\ RequestsPrepare /\ RunsAlone /\ RecordedNotRepeated

-------------------------------------------------------------------------------
(* Liveness. *)

\* A share that overlapped no run is attempted, or its job is dead, in the end.
SharesSettle ==
    \A r \in Recipients : <<r, TRUE>> \in owed ~> <<r, TRUE>> \notin owed \/ row[Send] = "dead"

================================================================================
