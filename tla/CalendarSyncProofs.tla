-------------------------- MODULE CalendarSyncProofs --------------------------
(***************************************************************************)
(* Proofs about CalendarSync for any number of connections, requests,      *)
(* loops, revisions, watches, attempts and faults.                         *)
(***************************************************************************)
EXTENDS CalendarSync, TLAPS

-------------------------------------------------------------------------------
(* The parts of the type invariant, and what makes it inductive. *)

LoopSteps == {"idle", "open", "refresh", "reject", "read", "done"} \cup Syncing

ItemSteps == {"find", "update", "insert", "meeting", "shift", "get", "link"}

QueueTyped ==
    /\ row \in [Keys -> {"none", "active", "dead"}]
    /\ attempts \in [Keys -> Nat]

LocalsTyped ==
    /\ user \in [Workers -> Conns \cup {None}]
    /\ since \in [Workers -> Nat \cup {-1}]
    /\ seen \in [Workers -> Nat]
    /\ holds \in [Workers -> BOOLEAN]
    /\ found \in [Workers -> Times \cup {None}]

LoopsTyped ==
    /\ pc \in [Workers -> LoopSteps]
    /\ job \in [Workers -> Keys \cup {NoJob}]
    /\ lease \in [Workers -> {"none", "held", "lost", "gone"}]

\* What loop w has at its step.
Fits(w) ==
    /\ pc[w] = "idle" <=> job[w] = NoJob
    /\ pc[w] = "idle" => lease[w] = "none"
    /\ pc[w] \in {"refresh", "reject", "read", "list"} => user[w] \in Conns
    /\ ItemFits(w)

\* A job that has the id of an event row is syncing, and the row is there.
HoldsRow(w) == holds[w] => pc[w] \in Syncing /\ event[Owner(w)] # None

Typed == TypeOK /\ \A w \in Workers : HoldsRow(w)

LEMMA JobsParts == JobsTyped <=> QueueTyped /\ LocalsTyped /\ LoopsTyped /\ \A w \in Workers : Fits(w)
  BY DEF JobsTyped, QueueTyped, LocalsTyped, LoopsTyped, Fits, LoopSteps

LEMMA JobsPartsNext == JobsTyped' <=> QueueTyped' /\ LocalsTyped' /\ LoopsTyped' /\ \A w \in Workers : Fits(w)'
  BY DEF JobsTyped, QueueTyped, LocalsTyped, LoopsTyped, Fits, LoopSteps

LEMMA KeyOwner ==
  ASSUME NEW k \in Keys
  PROVE  k[2] \in Conns
  BY DEF Keys

LEMMA BusyOwner ==
  ASSUME JobsTyped, NEW w \in Workers, pc[w] # "idle"
  PROVE  job[w] \in Keys /\ Owner(w) \in Conns
<1>1. job[w] \in Keys
  BY DEF JobsTyped
<1>2. QED
  BY <1>1, KeyOwner DEF Owner

LEMMA FaultTyped ==
  ASSUME faults \in 0..MaxFaults, Fault \/ UNCHANGED faults
  PROVE  faults' \in 0..MaxFaults
  BY CalendarAssumption DEF Fault

-------------------------------------------------------------------------------
(* The loops. *)

\* Loop v stays where it is.
LoopRests(v) == pc'[v] = pc[v] /\ job'[v] = job[v] /\ user'[v] = user[v] /\ seen'[v] = seen[v] /\ found'[v] = found[v]

LEMMA RestFits ==
  ASSUME NEW v \in Workers, Fits(v), LoopRests(v), UNCHANGED log, pc[v] = "idle" => lease'[v] = "none"
  PROVE  Fits(v)'
  BY DEF Fits, ItemFits, LoopRests

\* A handler goes on.
LEMMA GoTyped ==
  ASSUME JobsTyped, NEW w \in Workers, pc[w] # "idle", NEW s \in LoopSteps \ {"idle"}, Go(w, s), UNCHANGED log,
         LocalsTyped', \A v \in Workers \ {w} : user'[v] = user[v] /\ seen'[v] = seen[v] /\ found'[v] = found[v],
         s \in {"refresh", "reject", "read", "list"} => user'[w] \in Conns,
         s \in ItemSteps => seen'[w] \in 1..Len(log) /\ log[seen'[w]] \in Times,
         s = "cancel" => found'[w] \in Times
  PROVE  JobsTyped'
<1> USE JobsParts, JobsPartsNext
<1>1. pc'[w] = s /\ \A v \in Workers \ {w} : pc'[v] = pc[v]
  BY DEF Go, GoTo, LoopsTyped
<1>2. QueueTyped' /\ LoopsTyped'
  BY DEF Go, GoTo, queueVars, QueueTyped, LoopsTyped
<1>3. Fits(w)'
  BY <1>1 DEF Go, Fits, ItemFits, ItemSteps, LoopSteps
<1>4. ASSUME NEW v \in Workers \ {w} PROVE Fits(v)'
  BY <1>1, RestFits DEF LoopRests, Go, Fits
<1>5. QED
  BY <1>2, <1>3, <1>4

\* The same with the locals left alone.
LEMMA MoveTyped ==
  ASSUME JobsTyped, NEW w \in Workers, pc[w] # "idle", NEW s \in LoopSteps \ {"idle"}, Go(w, s), UNCHANGED <<log, jobVars>>,
         s \in {"refresh", "reject", "read", "list"} => user[w] \in Conns,
         s \in ItemSteps => seen[w] \in 1..Len(log) /\ log[seen[w]] \in Times,
         s = "cancel" => found[w] \in Times
  PROVE  JobsTyped'
<1>1. LocalsTyped'
  BY JobsParts DEF jobVars, LocalsTyped
<1>2. UNCHANGED <<user, seen, found>>
  BY DEF jobVars
<1>3. QED
  BY <1>1, <1>2, GoTyped

LEMMA IdleTyped ==
  ASSUME JobsTyped, NEW w \in Workers, Idle(w), QueueTyped', UNCHANGED log,
         lease' \in [Workers -> {"none", "held", "lost", "gone"}], lease'[w] = "none",
         \A v \in Workers \ {w} : pc[v] = "idle" => lease'[v] = "none"
  PROVE  JobsTyped'
<1> USE JobsParts, JobsPartsNext
<1>1. LocalsTyped'
  BY CalendarAssumption DEF Idle, LocalsTyped
<1>2. pc'[w] = "idle" /\ job'[w] = NoJob /\ LoopsTyped'
  BY DEF Idle, Leave, LoopsTyped, LoopSteps
<1>3. \A v \in Workers \ {w} : LoopRests(v)
  BY DEF Idle, Leave, LoopsTyped, LocalsTyped, LoopRests
<1>4. Fits(w)'
  BY <1>2 DEF Fits, ItemFits
<1>5. ASSUME NEW v \in Workers \ {w} PROVE Fits(v)'
  BY <1>3, RestFits
<1>6. QED
  BY <1>1, <1>2, <1>4, <1>5

LEMMA ChargeTyped ==
  ASSUME QueueTyped, NEW k \in Keys, Charge(k)
  PROVE  QueueTyped'
  BY DEF QueueTyped, Charge

LEMMA FailTyped ==
  ASSUME JobsTyped, NEW w \in Workers, pc[w] # "idle", Fail(w), UNCHANGED log
  PROVE  JobsTyped'
<1>1. job[w] \in Keys /\ QueueTyped /\ LoopsTyped /\ \A v \in Workers : Fits(v)
  BY BusyOwner, JobsParts
<1>2. QueueTyped'
  BY <1>1, ChargeTyped DEF Fail, FailRow, queueVars, QueueTyped
<1>3. /\ lease' \in [Workers -> {"none", "held", "lost", "gone"}] /\ lease'[w] = "none"
      /\ \A v \in Workers \ {w} : pc[v] = "idle" => lease'[v] = "none"
  BY <1>1 DEF Fail, FailRow, LoopsTyped, Fits
<1>4. QED
  BY <1>2, <1>3, IdleTyped DEF Fail

LEMMA CompleteTyped ==
  ASSUME JobsTyped, NEW w \in Workers, pc[w] # "idle", DeleteRow(w), Idle(w), UNCHANGED log
  PROVE  JobsTyped'
<1>1. job[w] \in Keys /\ QueueTyped /\ LoopsTyped /\ \A v \in Workers : Fits(v)
  BY BusyOwner, JobsParts
<1>2. QueueTyped'
  BY <1>1 DEF DeleteRow, queueVars, QueueTyped
<1>3. lease' \in [Workers -> {"none", "held", "lost", "gone"}] /\ lease'[w] = "none"
  BY <1>1 DEF DeleteRow, LoopsTyped
<1>4. \A v \in Workers \ {w} : pc[v] = "idle" => lease'[v] = "none"
  BY <1>1, CalendarAssumption DEF DeleteRow, LoopsTyped, Fits
<1>5. QED
  BY <1>2, <1>3, <1>4, IdleTyped

LEMMA EnqueueTyped ==
  ASSUME JobsTyped, NEW k \in Keys, Enqueue(k), UNCHANGED <<log, pc, job, jobVars>>
  PROVE  JobsTyped'
<1>1. QueueTyped /\ LocalsTyped /\ LoopsTyped /\ \A v \in Workers : Fits(v)
  BY JobsParts
<1>2. QueueTyped' /\ LocalsTyped'
  BY <1>1 DEF Enqueue, QueueTyped, LocalsTyped, jobVars
<1>3. LoopsTyped' /\ \A v \in Workers : pc[v] = "idle" => lease'[v] = "none"
  BY <1>1, CalendarAssumption DEF Enqueue, LoopsTyped, Fits
<1>4. ASSUME NEW v \in Workers PROVE Fits(v)'
  BY <1>1, <1>3, RestFits DEF LoopRests, jobVars
<1>5. QED
  BY <1>2, <1>3, <1>4, JobsPartsNext

LEMMA TakeTyped ==
  ASSUME JobsTyped, NEW w \in Workers, NEW k \in Keys, LeaseRow(w, k, "open"), UNCHANGED <<log, jobVars>>
  PROVE  JobsTyped'
<1>1. QueueTyped /\ LocalsTyped /\ LoopsTyped /\ \A v \in Workers : Fits(v)
  BY JobsParts
<1>2. QueueTyped' /\ LocalsTyped' /\ LoopsTyped'
  BY <1>1 DEF LeaseRow, queueVars, QueueTyped, LocalsTyped, LoopsTyped, LoopSteps, jobVars
<1>3. pc'[w] = "open" /\ job'[w] = k
  BY <1>1 DEF LeaseRow, LoopsTyped
<1>4. Fits(w)'
  BY <1>3, CalendarAssumption DEF Fits, ItemFits
<1>5. ASSUME NEW v \in Workers \ {w} PROVE Fits(v)'
  <2>1. LoopRests(v) /\ lease'[v] = lease[v]
    BY <1>1 DEF LeaseRow, LoopRests, LoopsTyped, jobVars
  <2>2. QED
    BY <1>1, <2>1, RestFits DEF Fits
<1>6. QED
  BY <1>2, <1>4, <1>5, JobsPartsNext

LEMMA JobsRest ==
  ASSUME JobsTyped, UNCHANGED <<log, queueVars, loopVars, jobVars>>
  PROVE  JobsTyped'
<1>1. UNCHANGED <<log, row, attempts, pc, job, lease, user, since, seen, holds, found>>
  BY DEF queueVars, loopVars, jobVars
<1>2. QED
  BY <1>1 DEF JobsTyped, ItemFits

LEMMA LogGrows ==
  ASSUME GoogleTyped, NEW v \in Values, log' = Append(log, v)
  PROVE  /\ log' \in Seq(Values) /\ Len(log') = Len(log) + 1 /\ log' # <<>>
         /\ \A i \in 1..Len(log) : i \in 1..Len(log') /\ log'[i] = log[i]
         /\ log'[Len(log) + 1] = v
  BY DEF GoogleTyped

LEMMA JobsRestAsLogGrows ==
  ASSUME GoogleTyped, JobsTyped, NEW v \in Values, log' = Append(log, v),
         UNCHANGED <<queueVars, loopVars, jobVars>>
  PROVE  JobsTyped'
<1>1. UNCHANGED <<row, attempts, pc, job, lease, user, since, seen, holds, found>>
  BY DEF queueVars, loopVars, jobVars
<1>2. ASSUME NEW w \in Workers PROVE Fits(w)'
  <2>1. Fits(w) /\ \A i \in 1..Len(log) : i \in 1..Len(log') /\ log'[i] = log[i]
    BY JobsParts, LogGrows
  <2>2. ItemFits(w)'
    BY <1>1, <2>1 DEF Fits, ItemFits
  <2>3. QED
    BY <1>1, <2>1, <2>2 DEF Fits
<1>3. QueueTyped' /\ LocalsTyped' /\ LoopsTyped'
  BY <1>1, JobsParts DEF QueueTyped, LocalsTyped, LoopsTyped
<1>4. QED
  BY <1>2, <1>3, JobsPartsNext

LEMMA HoldsRest ==
  ASSUME \A w \in Workers : HoldsRow(w), UNCHANGED <<pc, job, holds, event>>
  PROVE  (\A w \in Workers : HoldsRow(w))'
<1>1. ASSUME NEW w \in Workers PROVE HoldsRow(w)'
  BY DEF HoldsRow, Owner
<1>2. QED
  BY <1>1

\* A loop that goes on holds the row it held, or none.
LEMMA HoldsGo ==
  ASSUME \A v \in Workers : HoldsRow(v), JobsTyped, NEW w \in Workers, NEW s, GoTo(w, s), UNCHANGED job,
         \A v \in Workers \ {w} : holds'[v] => holds[v] /\ event'[Owner(v)] # None,
         holds'[w] => s \in Syncing /\ event'[Owner(w)] # None
  PROVE  (\A v \in Workers : HoldsRow(v))'
<1>1. pc'[w] = s /\ \A v \in Workers \ {w} : pc'[v] = pc[v]
  BY DEF GoTo, JobsTyped
<1>2. ASSUME NEW v \in Workers PROVE HoldsRow(v)'
  BY <1>1 DEF HoldsRow, Owner
<1>3. QED
  BY <1>2

\* A loop that ends its job holds none.
LEMMA HoldsEnd ==
  ASSUME \A v \in Workers : HoldsRow(v), JobsTyped, NEW w \in Workers, Idle(w), UNCHANGED event
  PROVE  (\A v \in Workers : HoldsRow(v))'
<1>1. ~holds'[w] /\ \A v \in Workers \ {w} : pc'[v] = pc[v] /\ job'[v] = job[v] /\ holds'[v] = holds[v]
  BY DEF Idle, Leave, JobsTyped
<1>2. ASSUME NEW v \in Workers PROVE HoldsRow(v)'
  BY <1>1 DEF HoldsRow, Owner
<1>3. QED
  BY <1>2

-------------------------------------------------------------------------------
(* The requests. *)

Stages == {"none", "list", "enqueue", "watch", "record", "stop", "revoke", "events", "calendars",
           "close", "check", "reopen", "queue", "refuse"}

StepsTyped ==
    /\ step \in [Callers -> Stages]
    /\ target \in [Callers -> Conns \cup {None}]
    /\ \A r \in Callers : step[r] # "none" => target[r] \in Conns
    /\ requests \in 0..MaxRequests

RenewalTyped ==
    /\ renewal \in {"idle", "refresh", "reject", "stop", "watch", "record"}
    /\ renews \in Conns \cup {None} /\ (renewal # "idle" => renews \in Conns)

SignsTyped == disturbed \subseteq Conns /\ severed \subseteq Conns /\ intact \subseteq Callers

LEMMA RequestsParts ==
    /\ RequestsTyped <=> StepsTyped /\ RenewalTyped /\ SignsTyped /\ faults \in 0..MaxFaults
    /\ RequestsTyped' <=> StepsTyped' /\ RenewalTyped' /\ SignsTyped' /\ faults' \in 0..MaxFaults
  BY DEF RequestsTyped, StepsTyped, RenewalTyped, SignsTyped, Stages

\* What happens to request r: it begins, goes on or is answered.
LEMMA BeginTyped ==
  ASSUME StepsTyped, NEW r \in Callers, NEW s \in Stages, NEW c \in Conns, Begin(r, s, c)
  PROVE  StepsTyped'
  BY CalendarAssumption DEF StepsTyped, Begin

LEMMA GoOnTyped ==
  ASSUME StepsTyped, NEW r \in Callers, step[r] # "none", NEW s \in Stages, GoOn(r, s)
  PROVE  StepsTyped'
  BY DEF StepsTyped, GoOn

LEMMA RespondTyped ==
  ASSUME StepsTyped, NEW r \in Callers, Respond(r)
  PROVE  StepsTyped'
  BY DEF StepsTyped, Respond, Stages

LEMMA RenewalRests ==
  ASSUME RenewalTyped, UNCHANGED renewalVars
  PROVE  RenewalTyped'
  BY DEF RenewalTyped, renewalVars

LEMMA SignsRest ==
  ASSUME SignsTyped, UNCHANGED signVars
  PROVE  SignsTyped'
  BY DEF SignsTyped, signVars

LEMMA EventsRest ==
  ASSUME EventsTyped, UNCHANGED <<eventVars, meetingVars, calendar>>
  PROVE  EventsTyped'
  BY DEF EventsTyped, eventVars, meetingVars

LEMMA ConnectionsRest ==
  ASSUME ConnectionsTyped, UNCHANGED connVars
  PROVE  ConnectionsTyped'
  BY DEF ConnectionsTyped, connVars

LEMMA GoogleRests ==
  ASSUME GoogleTyped, UNCHANGED googleVars
  PROVE  GoogleTyped'
  BY DEF GoogleTyped, googleVars

-------------------------------------------------------------------------------
(* Every step keeps the types. *)

LEMMA OutsideTyped ==
  ASSUME Typed, EventChanges \/ WatchAges \/ Push \/ DeleteMeeting
  PROVE  Typed'
<1> USE DEF Typed, TypeOK
<1>0. StepsTyped /\ RenewalTyped /\ SignsTyped /\ faults \in 0..MaxFaults
  BY RequestsParts
<1>1. CASE EventChanges
  <2>1. PICK v \in Values : log' = Append(log, v)
    BY <1>1 DEF EventChanges
  <2>2. GoogleTyped'
    BY <1>1, <2>1, LogGrows DEF EventChanges, GoogleTyped
  <2>3. JobsTyped'
    BY <1>1, <2>1, JobsRestAsLogGrows DEF EventChanges
  <2>4. ConnectionsTyped' /\ EventsTyped'
    BY <1>1, ConnectionsRest, EventsRest DEF EventChanges, connVars
  <2>5. RequestsTyped'
    BY <1>1 DEF EventChanges, RequestsTyped, requestVars, renewalVars, signVars
  <2>6. (\A w \in Workers : HoldsRow(w))'
    BY <1>1, HoldsRest DEF EventChanges, loopVars, jobVars, eventVars
  <2>7. QED
    BY <2>2, <2>3, <2>4, <2>5, <2>6
<1>2. CASE WatchAges
  <2>1. PICK c \in Conns :
        \/ expiring' = [expiring EXCEPT ![c] = TRUE] /\ UNCHANGED live
        \/ live' = live \ {<<c, channel[c]>>} /\ UNCHANGED expiring
    BY <1>2 DEF WatchAges
  <2>2. GoogleTyped'
    BY <1>2, <2>1 DEF WatchAges, GoogleTyped
  <2>3. ConnectionsTyped'
    BY <1>2, <2>1 DEF WatchAges, ConnectionsTyped
  <2>4. JobsTyped' /\ EventsTyped'
    BY <1>2, JobsRest, EventsRest DEF WatchAges
  <2>5. RequestsTyped'
    BY <1>2 DEF WatchAges, RequestsTyped, requestVars, renewalVars, signVars
  <2>6. (\A w \in Workers : HoldsRow(w))'
    BY <1>2, HoldsRest DEF WatchAges, loopVars, jobVars, eventVars
  <2>7. QED
    BY <2>2, <2>3, <2>4, <2>5, <2>6
<1>3. CASE Push
  <2>1. PICK ch \in unsent :
        /\ unsent' = unsent \ {ch}
        /\ \/ Enqueue(<<"push", ch[1], ch[2]>>)
           \/ UNCHANGED <<queueVars, lease>>
    BY <1>3 DEF Push
  <2>2. <<"push", ch[1], ch[2]>> \in Keys
    BY <2>1 DEF GoogleTyped, Keys
  <2>3. JobsTyped'
    <3>1. UNCHANGED <<log, pc, job, jobVars>>
      BY <1>3 DEF Push
    <3>2. CASE Enqueue(<<"push", ch[1], ch[2]>>)
      BY <2>2, <3>1, <3>2, EnqueueTyped
    <3>3. CASE UNCHANGED <<queueVars, lease>>
      BY <3>1, <3>3, JobsRest DEF loopVars
    <3>4. QED
      BY <2>1, <3>2, <3>3
  <2>4. GoogleTyped'
    BY <1>3, <2>1 DEF Push, GoogleTyped
  <2>5. ConnectionsTyped' /\ EventsTyped'
    BY <1>3, ConnectionsRest, EventsRest DEF Push, connVars
  <2>6. RequestsTyped'
    BY <1>3 DEF Push, RequestsTyped, requestVars, renewalVars, signVars
  <2>7. (\A w \in Workers : HoldsRow(w))'
    BY <1>3, HoldsRest DEF Push, jobVars, eventVars
  <2>8. QED
    BY <2>3, <2>4, <2>5, <2>6, <2>7
<1>4. CASE DeleteMeeting
  <2>1. PICK t \in Times : deleted' = deleted \cup {t}
    BY <1>4 DEF DeleteMeeting
  <2>2. EventsTyped'
    BY <1>4, <2>1 DEF DeleteMeeting, EventsTyped, eventVars, connVars
  <2>3. GoogleTyped' /\ ConnectionsTyped' /\ JobsTyped'
    BY <1>4, GoogleRests, ConnectionsRest, JobsRest DEF DeleteMeeting, googleVars
  <2>4. requests' \in 0..MaxRequests
    BY <1>0, <1>4, CalendarAssumption DEF DeleteMeeting, StepsTyped
  <2>5. RequestsTyped'
    BY <1>4, <2>4 DEF DeleteMeeting, RequestsTyped, requestVars, renewalVars, signVars
  <2>6. (\A w \in Workers : HoldsRow(w))'
    BY <1>4, HoldsRest DEF DeleteMeeting, loopVars, jobVars, eventVars
  <2>7. QED
    BY <2>2, <2>3, <2>5, <2>6
<1>5. QED
  BY <1>1, <1>2, <1>3, <1>4

\* A step of a job that leaves Google, the connections and the requests alone.
LEMMA JobTyped ==
  ASSUME Typed, UNCHANGED <<googleVars, requestVars, renewalVars, requests>>, Fault \/ UNCHANGED faults,
         ConnectionsTyped', EventsTyped', JobsTyped', SignsTyped', (\A v \in Workers : HoldsRow(v))'
  PROVE  Typed'
<1>1. GoogleTyped'
  BY GoogleRests DEF Typed, TypeOK
<1>2. faults' \in 0..MaxFaults
  BY FaultTyped, RequestsParts DEF Typed, TypeOK
<1>3. StepsTyped' /\ RenewalTyped'
  BY RequestsParts DEF Typed, TypeOK, StepsTyped, RenewalTyped, requestVars, renewalVars
<1>4. QED
  BY <1>1, <1>2, <1>3, RequestsParts DEF Typed, TypeOK

\* One that also leaves the events and the signs alone and goes on with its locals as they are.
LEMMA PassTyped ==
  ASSUME Typed, NEW w \in Workers, pc[w] # "idle", NEW s \in LoopSteps \ {"idle"}, Go(w, s),
         UNCHANGED <<googleVars, connVars, eventVars, meetingVars, jobVars, requestVars, renewalVars, signVars, requests>>,
         Fault \/ UNCHANGED faults,
         s \in {"refresh", "reject", "read", "list"} => user[w] \in Conns,
         s \in ItemSteps => seen[w] \in 1..Len(log) /\ log[seen[w]] \in Times,
         s = "cancel" => found[w] \in Times,
         pc[w] \in Syncing => s \in Syncing
  PROVE  Typed'
<1> USE DEF Typed, TypeOK
<1>1. JobsTyped'
  BY MoveTyped DEF googleVars
<1>2. ConnectionsTyped' /\ EventsTyped' /\ SignsTyped'
  BY RequestsParts, ConnectionsRest, EventsRest, SignsRest DEF connVars
<1>3. (\A v \in Workers : HoldsRow(v))'
  <2>1. \A v \in Workers : holds'[v] => holds[v] /\ event'[Owner(v)] # None /\ pc[v] \in Syncing
    BY DEF HoldsRow, jobVars, eventVars
  <2>2. QED
    BY <2>1, HoldsGo DEF Go
<1>4. QED
  BY <1>1, <1>2, <1>3, JobTyped

\* One that ends its job.
LEMMA EndTyped ==
  ASSUME Typed, NEW w \in Workers, Idle(w), JobsTyped', Fault \/ UNCHANGED faults,
         UNCHANGED <<googleVars, connVars, eventVars, meetingVars, requestVars, renewalVars, signVars, requests>>
  PROVE  Typed'
<1> USE DEF Typed, TypeOK
<1>1. ConnectionsTyped' /\ EventsTyped' /\ SignsTyped'
  BY RequestsParts, ConnectionsRest, EventsRest, SignsRest DEF connVars
<1>2. (\A v \in Workers : HoldsRow(v))'
  BY HoldsEnd DEF eventVars
<1>3. QED
  BY <1>1, <1>2, JobTyped

LEMMA FailEnds ==
  ASSUME Typed, NEW w \in Workers, pc[w] # "idle", Fail(w), Fault \/ UNCHANGED faults,
         UNCHANGED <<googleVars, connVars, eventVars, meetingVars, requestVars, renewalVars, signVars, requests>>
  PROVE  Typed'
<1>1. JobsTyped'
  BY FailTyped DEF Typed, TypeOK, googleVars
<1>2. QED
  BY <1>1, EndTyped DEF Fail

LEMMA OpenTyped ==
  ASSUME Typed, NEW w \in Workers, OpenConnection(w) \/ RefreshToken(w) \/ RejectToken(w)
  PROVE  Typed'
<1> USE DEF Typed, TypeOK
<1>1. CASE OpenConnection(w)
  <2>1. CASE Fail(w)
    BY <1>1, <2>1, FailEnds DEF OpenConnection
  <2>2. CASE ~Fail(w)
    <3>1. PICK u \in Usable : user' = [user EXCEPT ![w] = u]
      BY <1>1, <2>2 DEF OpenConnection
    <3>2. u \in Conns /\ pc[w] = "open" /\ Go(w, "refresh") /\ UNCHANGED <<since, seen, holds, found>>
      BY <1>1, <2>2 DEF OpenConnection, Usable
    <3>3. LocalsTyped' /\ user'[w] \in Conns /\ \A v \in Workers \ {w} : user'[v] = user[v]
      BY <3>1, <3>2, JobsParts DEF LocalsTyped
    <3>4. JobsTyped'
      BY <1>1, <3>2, <3>3, GoTyped DEF OpenConnection, googleVars, LoopSteps, ItemSteps
    <3>5. ConnectionsTyped' /\ EventsTyped' /\ SignsTyped'
      BY <1>1, RequestsParts, ConnectionsRest, EventsRest, SignsRest DEF OpenConnection, connVars
    <3>6. (\A v \in Workers : HoldsRow(v))'
      <4>1. \A v \in Workers : holds'[v] => holds[v] /\ event'[Owner(v)] # None /\ pc[v] \in Syncing
        BY <1>1, <3>2 DEF HoldsRow, OpenConnection, eventVars
      <4>2. ~holds'[w]
        BY <3>2, <4>1 DEF Syncing
      <4>3. QED
        BY <3>2, <4>1, <4>2, HoldsGo DEF Go
    <3>7. QED
      BY <1>1, <3>4, <3>5, <3>6, JobTyped DEF OpenConnection
  <2>3. QED
    BY <2>1, <2>2
<1>2. CASE RefreshToken(w)
  <2>1. PICK s \in {"read", "reject"} : Go(w, s)
    BY <1>2 DEF RefreshToken
  <2>2. pc[w] = "refresh" /\ user[w] \in Conns /\ (Fault \/ UNCHANGED faults)
    BY <1>2 DEF RefreshToken, JobsTyped
  <2>3. QED
    BY <1>2, <2>1, <2>2, PassTyped DEF RefreshToken, LoopSteps, ItemSteps, Syncing
<1>3. CASE RejectToken(w)
  <2>1. pc[w] = "reject" /\ user[w] \in Conns
    BY <1>3 DEF RejectToken, JobsTyped
  <2>2. ConnectionsTyped'
    BY <1>3, <2>1 DEF RejectToken, ConnectionsTyped
  <2>3. JobsTyped'
    BY <1>3, <2>1, MoveTyped DEF RejectToken, googleVars, LoopSteps, ItemSteps
  <2>4. EventsTyped' /\ SignsTyped'
    BY <1>3, RequestsParts, EventsRest, SignsRest DEF RejectToken
  <2>5. (\A v \in Workers : HoldsRow(v))'
    <3>1. \A v \in Workers : holds'[v] => holds[v] /\ event'[Owner(v)] # None /\ pc[v] \in Syncing
      BY <1>3 DEF HoldsRow, RejectToken, jobVars, eventVars
    <3>2. ~holds'[w]
      BY <2>1, <3>1 DEF Syncing
    <3>3. Go(w, "done")
      BY <1>3 DEF RejectToken
    <3>4. QED
      BY <3>1, <3>2, <3>3, HoldsGo DEF Go
  <2>6. QED
    BY <1>3, <2>2, <2>3, <2>4, <2>5, JobTyped DEF RejectToken
<1>4. QED
  BY <1>1, <1>2, <1>3

LEMMA DisturbTyped ==
  ASSUME SignsTyped, NEW c \in Conns, NEW how, Disturb(c, how), UNCHANGED <<intact, severed>>
  PROVE  SignsTyped'
  BY DEF SignsTyped, Disturb

LEMMA NewestRevision ==
  ASSUME GoogleTyped
  PROVE  Len(log) \in 1..Len(log) /\ Len(log) \in Nat /\ log[Len(log)] \in Values
  BY DEF GoogleTyped

\* The steps of a job that listing leads to.
LEMMA ListingTyped ==
  ASSUME Typed, NEW w \in Workers, pc[w] = "list", ListChanges(w) \/ ListAll(w)
  PROVE  /\ \E s \in {"find", "look", "cursor"} : Go(w, s) /\ (s = "find" => log[Len(log)] \in Times)
         /\ missed' \in {missed, missed \cup {Owner(w)}}
<1>1. CASE Handle(w, log[Len(log)])
  BY <1>1 DEF Handle, PassOver
<1>2. CASE PassOver(w, log[Len(log)]) \/ (Go(w, "cursor") /\ UNCHANGED missed)
  BY <1>2 DEF PassOver
<1>3. QED
  BY <1>1, <1>2 DEF ListChanges, ListAll

LEMMA ReadTyped ==
  ASSUME Typed, NEW w \in Workers, ReadCalendar(w) \/ ListEvents(w)
  PROVE  Typed'
<1> USE DEF Typed, TypeOK
<1>1. CASE ReadCalendar(w)
  <2>1. pc[w] = "read" /\ user[w] \in Conns /\ Owner(w) \in Conns
    BY <1>1, BusyOwner DEF ReadCalendar, JobsTyped
  <2>2. PICK s \in {"list", "done"} : Go(w, s)
    BY <1>1 DEF ReadCalendar
  <2>3. LocalsTyped'
    <3>1. since' = [since EXCEPT ![w] = cursor[Owner(w)]] \/ since' = since
      BY <1>1 DEF ReadCalendar
    <3>2. cursor[Owner(w)] \in Nat \cup {-1}
      BY <2>1 DEF ConnectionsTyped
    <3>3. QED
      BY <1>1, <3>1, <3>2, JobsParts DEF ReadCalendar, LocalsTyped
  <2>4. JobsTyped'
    BY <1>1, <2>1, <2>2, <2>3, GoTyped DEF ReadCalendar, googleVars, LoopSteps, ItemSteps, Syncing
  <2>5. SignsTyped'
    BY <1>1, <2>1, RequestsParts DEF ReadCalendar, Disturb, SignsTyped
  <2>6. ConnectionsTyped' /\ EventsTyped'
    BY <1>1, ConnectionsRest, EventsRest DEF ReadCalendar, connVars
  <2>7. (\A v \in Workers : HoldsRow(v))'
    <3>1. \A v \in Workers : holds'[v] => holds[v] /\ event'[Owner(v)] # None /\ pc[v] \in Syncing
      BY <1>1 DEF HoldsRow, ReadCalendar, eventVars
    <3>2. ~holds'[w]
      BY <2>1, <3>1 DEF Syncing
    <3>3. QED
      BY <2>2, <3>1, <3>2, HoldsGo DEF Go
  <2>8. QED
    BY <1>1, <2>4, <2>5, <2>6, <2>7, JobTyped DEF ReadCalendar
<1>2. CASE ListEvents(w)
  <2>1. pc[w] = "list" /\ Owner(w) \in Conns
    BY <1>2, BusyOwner DEF ListEvents
  <2>2. CASE user[w] \in granted
    <3>1. /\ ListChanges(w) \/ ListAll(w)
          /\ seen' = [seen EXCEPT ![w] = Len(log)]
          /\ since' = [since EXCEPT ![w] = -1] /\ user' = [user EXCEPT ![w] = None]
          /\ UNCHANGED <<holds, found>>
      BY <1>2, <2>2 DEF ListEvents
    <3>2. PICK s \in {"find", "look", "cursor"} : Go(w, s) /\ (s = "find" => log[Len(log)] \in Times)
      BY <2>1, <3>1, ListingTyped
    <3>3. missed' \subseteq Conns
      BY <2>1, <3>1, ListingTyped DEF EventsTyped
    <3>4. LocalsTyped' /\ seen'[w] = Len(log)
      BY <3>1, NewestRevision, JobsParts DEF LocalsTyped
    <3>5. \A v \in Workers \ {w} : user'[v] = user[v] /\ seen'[v] = seen[v] /\ found'[v] = found[v]
      BY <3>1, JobsParts DEF LocalsTyped
    <3>6. UNCHANGED log
      BY <1>2 DEF ListEvents, googleVars
    <3>7. JobsTyped'
      BY <2>1, <3>2, <3>4, <3>5, <3>6, NewestRevision, GoTyped DEF LoopSteps, ItemSteps, Syncing
    <3>8. SignsTyped'
      BY <1>2, RequestsParts, SignsRest DEF ListEvents
    <3>9. ConnectionsTyped' /\ EventsTyped'
      BY <1>2, <3>3, ConnectionsRest DEF ListEvents, EventsTyped, meetingVars, connVars
    <3>10. (\A v \in Workers : HoldsRow(v))'
      <4>1. \A v \in Workers : holds'[v] => holds[v] /\ event'[Owner(v)] # None
        BY <1>2, <3>1 DEF HoldsRow, ListEvents, eventVars
      <4>2. s \in Syncing
        BY DEF Syncing
      <4>3. QED
        BY <3>2, <4>1, <4>2, HoldsGo DEF Go
    <3>11. QED
      BY <1>2, <3>7, <3>8, <3>9, <3>10, JobTyped DEF ListEvents
  <2>3. CASE user[w] \notin granted
    BY <1>2, <2>1, <2>3, FailEnds DEF ListEvents, eventVars
  <2>4. QED
    BY <2>2, <2>3
<1>3. QED
  BY <1>1, <1>2

\* A loop that works on an item has one, and a calendar to file it under.
LEMMA AtItem ==
  ASSUME Typed, NEW w \in Workers, pc[w] \in ItemSteps
  PROVE  seen[w] \in 1..Len(log) /\ log[seen[w]] \in Times /\ Item(w) \in Times /\ Owner(w) \in Conns /\ pc[w] # "idle"
<1>1. seen[w] \in 1..Len(log) /\ log[seen[w]] \in Times
  BY DEF Typed, TypeOK, JobsTyped, ItemFits, ItemSteps
<1>2. pc[w] # "idle"
  BY DEF ItemSteps
<1>3. QED
  BY <1>1, <1>2, BusyOwner DEF Typed, TypeOK, Item

\* A step of a sync that changes the events or the meetings.
LEMMA ItemTyped ==
  ASSUME Typed, NEW w \in Workers, pc[w] # "idle", NEW s \in LoopSteps \ {"idle"}, Go(w, s),
         UNCHANGED <<googleVars, connVars, user, since, seen, requestVars, renewalVars, signVars, requests, faults>>,
         holds' \in [Workers -> BOOLEAN], found' \in [Workers -> Times \cup {None}],
         \A v \in Workers \ {w} : found'[v] = found[v],
         s \notin {"refresh", "reject", "read", "list"},
         s \in ItemSteps => seen[w] \in 1..Len(log) /\ log[seen[w]] \in Times,
         s = "cancel" => found'[w] \in Times,
         EventsTyped', (\A v \in Workers : HoldsRow(v))'
  PROVE  Typed'
<1> USE DEF Typed, TypeOK
<1>1. LocalsTyped'
  BY JobsParts DEF LocalsTyped
<1>2. UNCHANGED log
  BY DEF googleVars
<1>3. JobsTyped'
  BY <1>1, <1>2, GoTyped
<1>4. ConnectionsTyped' /\ SignsTyped'
  BY RequestsParts, ConnectionsRest, SignsRest
<1>5. QED
  BY <1>3, <1>4, JobTyped

LEMMA FindTyped ==
  ASSUME Typed, NEW w \in Workers, FindEvent(w) \/ LookEvent(w)
  PROVE  Typed'
<1>1. pc[w] \in {"find", "look"} /\ pc[w] # "idle" /\ Owner(w) \in Conns
  BY BusyOwner DEF FindEvent, LookEvent, Typed, TypeOK
<1>2. holds' = [holds EXCEPT ![w] = event[Owner(w)] # None] /\ UNCHANGED <<event, link>>
  BY DEF FindEvent, LookEvent, eventVars
<1>3. holds' \in [Workers -> BOOLEAN] /\ EventsTyped'
  <2>1. missed' \subseteq missed
    BY DEF FindEvent, LookEvent, Applied, eventVars
  <2>2. QED
    BY <1>2, <2>1 DEF FindEvent, LookEvent, Typed, TypeOK, JobsTyped, EventsTyped, connVars, meetingVars
<1>4. PICK s \in {"update", "insert", "cursor", "cancel", "drop"} :
        /\ Go(w, s)
        /\ s \in {"update", "insert"} => pc[w] = "find"
        /\ s = "cancel" => LookEvent(w) /\ link[Owner(w)] # None
  BY DEF FindEvent, LookEvent
<1>5. (\A v \in Workers : HoldsRow(v))'
  <2>1. \A v \in Workers \ {w} : holds'[v] => holds[v] /\ event'[Owner(v)] # None
    BY <1>2 DEF HoldsRow, Typed, TypeOK, JobsTyped
  <2>2. holds'[w] => event'[Owner(w)] # None
    BY <1>2 DEF Typed, TypeOK, JobsTyped
  <2>3. s \in Syncing
    BY DEF Syncing
  <2>4. QED
    BY <1>4, <2>1, <2>2, <2>3, HoldsGo DEF Go, Typed, TypeOK
<1>6. /\ found' \in [Workers -> Times \cup {None}] /\ \A v \in Workers \ {w} : found'[v] = found[v]
      /\ s = "cancel" => found'[w] \in Times
  <2>1. link[Owner(w)] \in Times \cup {None}
    BY <1>1 DEF Typed, TypeOK, EventsTyped
  <2>2. found \in [Workers -> Times \cup {None}]
    BY DEF Typed, TypeOK, JobsTyped
  <2>3. found' = [found EXCEPT ![w] = link[Owner(w)]] \/ (found' = found /\ ~LookEvent(w))
    BY <1>1 DEF FindEvent, LookEvent
  <2>4. QED
    BY <1>4, <2>1, <2>2, <2>3
<1>7. pc[w] = "find" => seen[w] \in 1..Len(log) /\ log[seen[w]] \in Times
  BY AtItem DEF ItemSteps
<1>8. QED
  BY <1>1, <1>3, <1>4, <1>5, <1>6, <1>7, ItemTyped DEF FindEvent, LookEvent, LoopSteps, ItemSteps, Syncing

\* A step that leaves the locals and the rows of other loops as they are.
LEMMA WriteTyped ==
  ASSUME Typed, NEW w \in Workers, pc[w] \in Syncing, NEW s \in Syncing, Go(w, s),
         UNCHANGED <<googleVars, connVars, jobVars, requestVars, renewalVars, signVars, requests, faults>>,
         s # "list", s # "cancel",
         s \in ItemSteps => pc[w] \in ItemSteps,
         EventsTyped', \A c \in Conns : event[c] # None => event'[c] # None
  PROVE  Typed'
<1>1. pc[w] # "idle" /\ s \in LoopSteps \ {"idle"} /\ s \notin {"refresh", "reject", "read", "list"}
  BY DEF Syncing, LoopSteps
<1>2. UNCHANGED <<user, since, seen, holds, found>>
  BY DEF jobVars
<1>3. (\A v \in Workers : HoldsRow(v))'
  <2>1. ASSUME NEW v \in Workers, holds'[v] PROVE holds[v] /\ event'[Owner(v)] # None
    <3>1. holds[v] /\ pc[v] \in Syncing /\ event[Owner(v)] # None
      BY <1>2, <2>1 DEF Typed, HoldsRow
    <3>2. pc[v] # "idle"
      BY <3>1 DEF Syncing
    <3>3. Owner(v) \in Conns
      BY <3>2, BusyOwner DEF Typed, TypeOK
    <3>4. QED
      BY <3>1, <3>3
  <2>2. QED
    BY <2>1, HoldsGo DEF Go, Typed, TypeOK
<1>4. s \in ItemSteps => seen[w] \in 1..Len(log) /\ log[seen[w]] \in Times
  BY AtItem
<1>5. holds \in [Workers -> BOOLEAN] /\ found \in [Workers -> Times \cup {None}]
  BY DEF Typed, TypeOK, JobsTyped
<1>6. QED
  BY <1>1, <1>2, <1>3, <1>4, <1>5, ItemTyped

LEMMA StoreTyped ==
  ASSUME Typed, NEW w \in Workers, UpdateEvent(w) \/ LinkEvent(w) \/ GetMeeting(w) \/ CancelMeeting(w) \/ ShiftMeeting(w)
  PROVE  Typed'
<1>1. CASE UpdateEvent(w)
  <2>1. Item(w) \in Times /\ Owner(w) \in Conns
    BY <1>1, AtItem DEF UpdateEvent, ItemSteps
  <2>2. holds[w] => calendar[Owner(w)]
    BY <2>1 DEF Typed, TypeOK, EventsTyped, HoldsRow
  <2>3. event' \in [Conns -> Times \cup {None}] /\ \A c \in Conns : event'[c] = event[c] \/ (c = Owner(w) /\ holds[w] /\ event'[c] = Item(w))
    BY <1>1, <2>1 DEF UpdateEvent, Typed, TypeOK, EventsTyped
  <2>4. EventsTyped'
    BY <1>1, <2>2, <2>3 DEF UpdateEvent, Typed, TypeOK, EventsTyped, meetingVars, connVars
  <2>5. \A c \in Conns : event[c] # None => event'[c] # None
    BY <2>1, <2>3, CalendarAssumption
  <2>6. QED
    BY <1>1, <2>4, <2>5, WriteTyped DEF UpdateEvent, Syncing, ItemSteps
<1>2. CASE LinkEvent(w)
  <2>1. Item(w) \in Times /\ Owner(w) \in Conns
    BY <1>2, AtItem DEF LinkEvent, ItemSteps
  <2>2. EventsTyped'
    BY <1>2, <2>1 DEF LinkEvent, Applied, Typed, TypeOK, EventsTyped, meetingVars, connVars
  <2>3. QED
    BY <1>2, <2>2, WriteTyped DEF LinkEvent, Syncing, ItemSteps
<1>3. CASE GetMeeting(w)
  <2>1. Item(w) \in Times /\ pc[w] = "get" /\ pc[w] # "idle"
    BY <1>3, AtItem DEF GetMeeting, ItemSteps
  <2>2. CASE Item(w) \in deleted
    BY <1>3, <2>1, <2>2, FailEnds DEF GetMeeting, meetingVars
  <2>3. CASE Item(w) \notin deleted
    <3>1. Go(w, "link") /\ UNCHANGED jobVars /\ meeting' \in [Times -> {"absent", "open", "cancelled"}]
      BY <1>3, <2>1, <2>3 DEF GetMeeting, Typed, TypeOK, EventsTyped
    <3>2. EventsTyped'
      BY <1>3, <3>1 DEF GetMeeting, Typed, TypeOK, EventsTyped, eventVars, connVars
    <3>3. QED
      BY <1>3, <2>1, <3>1, <3>2, WriteTyped DEF GetMeeting, Syncing, ItemSteps, eventVars
  <2>4. QED
    BY <2>2, <2>3
<1>4. CASE CancelMeeting(w)
  <2>1. EventsTyped'
    BY <1>4 DEF CancelMeeting, Typed, TypeOK, EventsTyped, eventVars, connVars
  <2>2. QED
    BY <1>4, <2>1, WriteTyped DEF CancelMeeting, Syncing, ItemSteps, eventVars
<1>5. CASE ShiftMeeting(w)
  <2>1. Item(w) \in Times
    BY <1>5, AtItem DEF ShiftMeeting, ItemSteps
  <2>2. EventsTyped'
    BY <1>5, <2>1 DEF ShiftMeeting, Typed, TypeOK, EventsTyped, eventVars, connVars
  <2>3. QED
    BY <1>5, <2>2, WriteTyped DEF ShiftMeeting, Syncing, ItemSteps, eventVars
<1>6. QED
  BY <1>1, <1>2, <1>3, <1>4, <1>5

LEMMA InsertTyped ==
  ASSUME Typed, NEW w \in Workers, InsertEvent(w)
  PROVE  Typed'
<1>1. Item(w) \in Times /\ Owner(w) \in Conns /\ pc[w] = "insert" /\ pc[w] # "idle"
  BY AtItem DEF InsertEvent, ItemSteps
<1>2. CASE ~(calendar[Owner(w)] /\ event[Owner(w)] = None)
  BY <1>1, <1>2, FailEnds DEF InsertEvent, eventVars
<1>3. CASE calendar[Owner(w)] /\ event[Owner(w)] = None
  <2>1. /\ event' = [event EXCEPT ![Owner(w)] = Item(w)]
        /\ holds' = [holds EXCEPT ![w] = TRUE]
        /\ Go(w, "meeting") /\ UNCHANGED <<user, since, seen, found>>
    BY <1>3 DEF InsertEvent
  <2>2. EventsTyped'
    BY <1>1, <1>3, <2>1 DEF InsertEvent, Typed, TypeOK, EventsTyped, meetingVars, connVars
  <2>3. holds' \in [Workers -> BOOLEAN] /\ found \in [Workers -> Times \cup {None}]
    BY <2>1 DEF Typed, TypeOK, JobsTyped
  <2>4. (\A v \in Workers : HoldsRow(v))'
    <3>1. ASSUME NEW v \in Workers \ {w}, holds'[v] PROVE holds[v] /\ event'[Owner(v)] # None
      <4>1. holds[v] /\ pc[v] \in Syncing /\ event[Owner(v)] # None
        BY <2>1, <3>1 DEF Typed, TypeOK, JobsTyped, HoldsRow
      <4>2. Owner(v) \in Conns /\ Owner(v) # Owner(w)
        BY <1>3, <4>1, BusyOwner DEF Syncing, Typed, TypeOK
      <4>3. QED
        BY <2>1, <4>1, <4>2 DEF Typed, TypeOK, EventsTyped
    <3>2. event'[Owner(w)] # None
      BY <1>1, <2>1, CalendarAssumption DEF Typed, TypeOK, EventsTyped
    <3>3. QED
      BY <2>1, <3>1, <3>2, HoldsGo DEF Go, Syncing, Typed, TypeOK
  <2>5. seen[w] \in 1..Len(log) /\ log[seen[w]] \in Times
    BY <1>1, AtItem DEF ItemSteps
  <2>6. QED
    BY <1>1, <2>1, <2>2, <2>3, <2>4, <2>5, ItemTyped DEF InsertEvent, LoopSteps, ItemSteps, Syncing
<1>4. QED
  BY <1>2, <1>3

LEMMA FindMeetingTyped ==
  ASSUME Typed, NEW w \in Workers, FindMeeting(w)
  PROVE  Typed'
<1>1. PICK s \in {"get", "shift", "cursor"} : Go(w, s)
  BY DEF FindMeeting
<1>2. EventsTyped'
  <2>1. missed' \subseteq missed
    BY DEF FindMeeting, Applied
  <2>2. QED
    BY <2>1 DEF FindMeeting, Typed, TypeOK, EventsTyped, meetingVars, connVars
<1>3. QED
  BY <1>1, <1>2, WriteTyped DEF FindMeeting, Syncing, ItemSteps

\* Removing an event row keeps the types, and nobody holds it any more.
LEMMA RemoveTyped ==
  ASSUME Typed, NEW c \in Conns, RemoveEvent(c), UNCHANGED <<meetingVars, calendar>>
  PROVE  /\ EventsTyped' /\ holds' \in [Workers -> BOOLEAN]
         /\ \A v \in Workers : holds'[v] => holds[v] /\ event'[Owner(v)] # None
<1>1. EventsTyped'
  BY DEF Typed, TypeOK, EventsTyped, RemoveEvent, meetingVars
<1>2. holds' \in [Workers -> BOOLEAN]
  BY DEF Typed, TypeOK, JobsTyped, RemoveEvent
<1>3. ASSUME NEW v \in Workers, holds'[v] PROVE holds[v] /\ event'[Owner(v)] # None
  <2>1. holds[v] /\ ~(pc[v] \in Syncing /\ Owner(v) = c)
    BY <1>3 DEF RemoveEvent
  <2>2. pc[v] \in Syncing /\ event[Owner(v)] # None
    BY <2>1 DEF Typed, HoldsRow
  <2>3. Owner(v) \in Conns
    BY <2>2, BusyOwner DEF Syncing, Typed, TypeOK
  <2>4. QED
    BY <2>1, <2>2, <2>3 DEF RemoveEvent, Typed, TypeOK, EventsTyped
<1>4. QED
  BY <1>1, <1>2, <1>3

LEMMA DropTyped ==
  ASSUME Typed, NEW w \in Workers, DropEvent(w)
  PROVE  Typed'
<1>1. pc[w] = "drop" /\ Owner(w) \in Conns /\ Go(w, "cursor") /\ UNCHANGED <<meetingVars, calendar>>
  BY BusyOwner DEF DropEvent, Typed, TypeOK, connVars
<1>2. /\ EventsTyped' /\ holds' \in [Workers -> BOOLEAN]
      /\ \A v \in Workers : holds'[v] => holds[v] /\ event'[Owner(v)] # None
  <2>1. CASE holds[w]
    BY <1>1, <2>1, RemoveTyped DEF DropEvent
  <2>2. CASE ~holds[w]
    BY <1>1, <2>2, EventsRest DEF DropEvent, eventVars, Typed, TypeOK, JobsTyped, HoldsRow
  <2>3. QED
    BY <2>1, <2>2
<1>3. (\A v \in Workers : HoldsRow(v))'
  BY <1>1, <1>2, HoldsGo DEF Go, Syncing, Typed, TypeOK
<1>4. found \in [Workers -> Times \cup {None}]
  BY DEF Typed, TypeOK, JobsTyped
<1>5. QED
  BY <1>1, <1>2, <1>3, <1>4, ItemTyped DEF DropEvent, LoopSteps, ItemSteps, Syncing

LEMMA CursorTyped ==
  ASSUME Typed, NEW w \in Workers, StoreCursor(w)
  PROVE  Typed'
<1> USE DEF Typed, TypeOK
<1>1. pc[w] = "cursor" /\ pc[w] # "idle" /\ Owner(w) \in Conns /\ seen[w] \in Nat
  BY BusyOwner DEF StoreCursor, JobsTyped
<1>2. ConnectionsTyped'
  BY <1>1 DEF StoreCursor, ConnectionsTyped
<1>3. LocalsTyped' /\ \A v \in Workers \ {w} : user'[v] = user[v] /\ seen'[v] = seen[v] /\ found'[v] = found[v]
  BY CalendarAssumption, JobsParts DEF StoreCursor, LocalsTyped
<1>4. JobsTyped'
  BY <1>1, <1>3, GoTyped DEF StoreCursor, googleVars, LoopSteps, ItemSteps, Syncing
<1>5. EventsTyped' /\ SignsTyped'
  BY RequestsParts, EventsRest, SignsRest DEF StoreCursor
<1>6. (\A v \in Workers : HoldsRow(v))'
  <2>1. ~holds'[w] /\ \A v \in Workers \ {w} : holds'[v] => holds[v] /\ event'[Owner(v)] # None
    BY DEF StoreCursor, eventVars, HoldsRow, JobsTyped
  <2>2. Go(w, "done")
    BY DEF StoreCursor
  <2>3. QED
    BY <2>1, <2>2, HoldsGo DEF Go
<1>7. QED
  BY <1>2, <1>4, <1>5, <1>6, JobTyped DEF StoreCursor

LEMMA LoopTyped ==
  ASSUME Typed, NEW w \in Workers, Take(w) \/ Complete(w) \/ HandlerFails(w) \/ Crash(w) \/ LoseLease(w)
  PROVE  Typed'
<1> USE DEF Typed, TypeOK
<1>1. CASE Take(w)
  <2>1. PICK k \in Keys : LeaseRow(w, k, "open")
    BY <1>1 DEF Take
  <2>2. JobsTyped'
    BY <1>1, <2>1, TakeTyped DEF Take, googleVars
  <2>3. SignsTyped'
    BY <1>1, RequestsParts DEF Take, SignsTyped
  <2>4. ConnectionsTyped' /\ EventsTyped'
    BY <1>1, ConnectionsRest, EventsRest DEF Take, connVars
  <2>5. (\A v \in Workers : HoldsRow(v))'
    <3>1. pc[w] = "idle" /\ \A v \in Workers \ {w} : pc'[v] = pc[v] /\ job'[v] = job[v]
      BY <2>1 DEF LeaseRow, JobsTyped
    <3>2. UNCHANGED <<holds, event>> /\ ~holds[w]
      BY <1>1, <3>1 DEF Take, jobVars, eventVars, HoldsRow, Syncing
    <3>3. ASSUME NEW v \in Workers PROVE HoldsRow(v)'
      BY <3>1, <3>2 DEF HoldsRow, Owner
    <3>4. QED
      BY <3>3
  <2>6. QED
    BY <1>1, <2>2, <2>3, <2>4, <2>5, JobTyped DEF Take
<1>2. CASE Complete(w)
  <2>1. JobsTyped'
    BY <1>2, CompleteTyped DEF Complete, googleVars
  <2>2. QED
    BY <1>2, <2>1, EndTyped DEF Complete
<1>3. CASE HandlerFails(w)
  BY <1>3, FailEnds DEF HandlerFails
<1>4. CASE Crash(w)
  <2>1. QueueTyped /\ LoopsTyped /\ \A v \in Workers : Fits(v)
    BY JobsParts
  <2>2. QueueTyped' /\ UNCHANGED log
    BY <1>4, <2>1 DEF Crash, queueVars, googleVars, QueueTyped
  <2>3. /\ lease' \in [Workers -> {"none", "held", "lost", "gone"}] /\ lease'[w] = "none"
        /\ \A v \in Workers \ {w} : pc[v] = "idle" => lease'[v] = "none"
    BY <1>4, <2>1 DEF Crash, LoopsTyped, Fits
  <2>4. JobsTyped'
    BY <1>4, <2>2, <2>3, IdleTyped DEF Crash
  <2>5. QED
    BY <1>4, <2>4, EndTyped DEF Crash
<1>5. CASE LoseLease(w)
  <2>1. QueueTyped /\ LocalsTyped /\ LoopsTyped /\ \A v \in Workers : Fits(v)
    BY JobsParts
  <2>2. pc[w] # "idle"
    BY <1>5, <2>1 DEF LoseLease, LoseRow, Fits
  <2>3. QueueTyped'
    BY <1>5, <2>1, <2>2, BusyOwner, ChargeTyped DEF LoseLease, LoseRow, queueVars, QueueTyped
  <2>4. LocalsTyped' /\ LoopsTyped' /\ \A v \in Workers : pc[v] = "idle" => lease'[v] = "none"
    BY <1>5, <2>1, <2>2 DEF LoseLease, LoseRow, jobVars, LocalsTyped, LoopsTyped, Fits
  <2>5. ASSUME NEW v \in Workers PROVE Fits(v)'
    BY <1>5, <2>1, <2>4, RestFits DEF LoopRests, LoseLease, jobVars, googleVars
  <2>6. JobsTyped'
    BY <2>3, <2>4, <2>5, JobsPartsNext
  <2>7. ConnectionsTyped' /\ EventsTyped' /\ SignsTyped'
    BY <1>5, RequestsParts, ConnectionsRest, EventsRest, SignsRest DEF LoseLease, connVars
  <2>8. (\A v \in Workers : HoldsRow(v))'
    BY <1>5, HoldsRest DEF LoseLease, jobVars, eventVars
  <2>9. QED
    BY <1>5, <2>6, <2>7, <2>8, JobTyped DEF LoseLease
<1>6. QED
  BY <1>1, <1>2, <1>3, <1>4, <1>5

\* A step of a request that leaves the jobs and the events alone.
LEMMA RequestKeeps ==
  ASSUME Typed, UNCHANGED others, StepsTyped', SignsTyped', Fault \/ UNCHANGED faults,
         granted' \subseteq Conns, live' \subseteq Conns \X (1..MaxWatches), ConnectionsTyped',
         \A c \in Conns : calendar[c] => calendar'[c] \/ event[c] = None
  PROVE  Typed'
<1> USE DEF Typed, TypeOK
<1>1. GoogleTyped' /\ EventsTyped'
  BY DEF others, GoogleTyped, EventsTyped, eventVars, meetingVars
<1>2. JobsTyped'
  BY JobsRest DEF others
<1>3. RequestsTyped'
  <2>1. RenewalTyped'
    BY RenewalRests, RequestsParts DEF others
  <2>2. faults' \in 0..MaxFaults
    BY FaultTyped, RequestsParts
  <2>3. QED
    BY <2>1, <2>2, RequestsParts
<1>4. (\A w \in Workers : HoldsRow(w))'
  BY HoldsRest DEF others, loopVars, jobVars, eventVars
<1>5. QED
  BY <1>1, <1>2, <1>3, <1>4

LEMMA TargetTyped ==
  ASSUME Typed, NEW r \in Callers, step[r] # "none"
  PROVE  target[r] \in Conns
  BY DEF Typed, TypeOK, RequestsTyped

\* The parts of the types that steps of requests rely on.
LEMMA TypedParts ==
  ASSUME Typed
  PROVE  StepsTyped /\ RenewalTyped /\ SignsTyped /\ GoogleTyped /\ ConnectionsTyped /\ faults \in 0..MaxFaults
  BY RequestsParts DEF Typed, TypeOK

LEMMA WatchTyped ==
  ASSUME Typed, NEW c \in Conns, Watch(c)
  PROVE  issued' \in [Conns -> 0..MaxWatches] /\ live' \subseteq Conns \X (1..MaxWatches)
<1>1. issued[c] \in 0..MaxWatches /\ issued[c] + 1 \in 1..MaxWatches
  BY CalendarAssumption DEF Typed, TypeOK, ConnectionsTyped, Watch
<1>2. QED
  BY <1>1 DEF Typed, TypeOK, ConnectionsTyped, GoogleTyped, Watch

LEMMA RecordTyped ==
  ASSUME Typed, NEW c \in Conns, Record(c), UNCHANGED <<status, calendar, cursor, issued>>
  PROVE  ConnectionsTyped'
  BY DEF Typed, TypeOK, ConnectionsTyped, Record

LEMMA ConnectTyped ==
  ASSUME Typed, NEW r \in Callers,
         StoreConnection(r) \/ StoreCalendar(r) \/ RegisterWatch(r) \/ RecordWatch(r)
  PROVE  Typed'
<1> USE TypedParts
<1>1. CASE StoreConnection(r)
  <2>1. PICK c \in Conns : /\ Begin(r, "list", c) /\ status' = [status EXCEPT ![c] = "connected"]
                           /\ granted' = granted \cup {c}
    BY <1>1 DEF StoreConnection
  <2>2. StepsTyped' /\ SignsTyped'
    BY <1>1, <2>1, BeginTyped DEF StoreConnection, Stages, SignsTyped
  <2>3. ConnectionsTyped' /\ granted' \subseteq Conns /\ live' \subseteq Conns \X (1..MaxWatches)
    BY <1>1, <2>1 DEF StoreConnection, ConnectionsTyped, GoogleTyped
  <2>4. QED
    BY <1>1, <2>2, <2>3, RequestKeeps DEF StoreConnection
<1>2. CASE StoreCalendar(r)
  <2>1. target[r] \in Conns /\ StepsTyped' /\ SignsTyped'
    BY <1>2, TargetTyped, GoOnTyped, SignsRest DEF StoreCalendar, Stages
  <2>2. ConnectionsTyped' /\ granted' \subseteq Conns /\ live' \subseteq Conns \X (1..MaxWatches)
        /\ \A c \in Conns : calendar[c] => calendar'[c]
    BY <1>2, <2>1 DEF StoreCalendar, ConnectionsTyped, GoogleTyped
  <2>3. QED
    BY <1>2, <2>1, <2>2, RequestKeeps DEF StoreCalendar
<1>3. CASE RegisterWatch(r)
  <2>1. target[r] \in Conns /\ SignsTyped' /\ granted' \subseteq Conns /\ (Fault \/ UNCHANGED faults)
    BY <1>3, TargetTyped, SignsRest DEF RegisterWatch, GoogleTyped
  <2>2. GoOn(r, "record") \/ Respond(r)
    BY <1>3 DEF RegisterWatch
  <2>3. StepsTyped'
    BY <1>3, <2>2, GoOnTyped, RespondTyped DEF RegisterWatch, Stages
  <2>4. issued' \in [Conns -> 0..MaxWatches] /\ live' \subseteq Conns \X (1..MaxWatches)
    BY <1>3, <2>1, WatchTyped DEF RegisterWatch, ConnectionsTyped, GoogleTyped
  <2>5. ConnectionsTyped'
    BY <1>3, <2>4 DEF RegisterWatch, ConnectionsTyped
  <2>6. QED
    BY <1>3, <2>1, <2>3, <2>4, <2>5, RequestKeeps DEF RegisterWatch
<1>4. CASE RecordWatch(r)
  <2>1. target[r] \in Conns /\ StepsTyped' /\ SignsTyped' /\ granted' \subseteq Conns /\ live' \subseteq Conns \X (1..MaxWatches)
    BY <1>4, TargetTyped, RespondTyped, SignsRest DEF RecordWatch, GoogleTyped
  <2>2. ConnectionsTyped'
    BY <1>4, <2>1, RecordTyped DEF RecordWatch
  <2>3. QED
    BY <1>4, <2>1, <2>2, RequestKeeps DEF RecordWatch
<1>5. QED
  BY <1>1, <1>2, <1>3, <1>4

LEMMA QueueSyncTyped ==
  ASSUME Typed, NEW r \in Callers, EnqueueInitial(r) \/ EnqueueResync(r)
  PROVE  Typed'
<1> USE DEF Typed, TypeOK
<1>1. target[r] \in Conns
  BY TargetTyped DEF EnqueueInitial, EnqueueResync
<1>2. PICK kind \in {"initial", "resync"} : Enqueue(<<kind, target[r], 0>>)
  BY DEF EnqueueInitial, EnqueueResync
<1>3. <<kind, target[r], 0>> \in Keys
  BY <1>1 DEF Keys
<1>4. PICK k \in Keys : k = <<kind, target[r], 0>>
  BY <1>3
<1>5. JobsTyped'
  BY <1>2, <1>4, EnqueueTyped DEF EnqueueInitial, EnqueueResync, googleVars
<1>6. StepsTyped'
  BY TypedParts, GoOnTyped, RespondTyped DEF EnqueueInitial, EnqueueResync, Stages
<1>7. ConnectionsTyped' /\ EventsTyped' /\ GoogleTyped'
  BY ConnectionsRest, EventsRest, GoogleRests DEF EnqueueInitial, EnqueueResync, connVars
<1>8. RequestsTyped'
  <2>1. RenewalTyped' /\ SignsTyped' /\ faults' \in 0..MaxFaults
    BY TypedParts, RenewalRests, SignsRest DEF EnqueueInitial, EnqueueResync
  <2>2. QED
    BY <1>6, <2>1, RequestsParts
<1>9. (\A w \in Workers : HoldsRow(w))'
  BY HoldsRest DEF EnqueueInitial, EnqueueResync, jobVars, eventVars
<1>10. QED
  BY <1>5, <1>7, <1>8, <1>9

LEMMA DisconnectTyped ==
  ASSUME Typed, NEW r \in Callers,
         PostDisconnect(r) \/ StopWatches(r) \/ RevokeToken(r) \/ DeleteCalendars(r) \/ CloseConnection(r)
  PROVE  Typed'
<1> USE TypedParts
<1>1. CASE PostDisconnect(r)
  <2>1. PICK c \in Usable : Begin(r, "stop", c)
    BY <1>1 DEF PostDisconnect
  <2>2. StepsTyped' /\ SignsTyped'
    BY <1>1, <2>1, BeginTyped DEF PostDisconnect, Usable, Stages, SignsTyped
  <2>3. ConnectionsTyped' /\ granted' \subseteq Conns /\ live' \subseteq Conns \X (1..MaxWatches) /\ UNCHANGED calendar
    BY <1>1, ConnectionsRest DEF PostDisconnect, GoogleTyped, connVars
  <2>4. QED
    BY <1>1, <2>2, <2>3, RequestKeeps DEF PostDisconnect
<1>2. CASE StopWatches(r)
  <2>1. StepsTyped' /\ granted' \subseteq Conns /\ live' \subseteq Conns \X (1..MaxWatches) /\ SignsTyped' /\ (Fault \/ UNCHANGED faults)
    BY <1>2, GoOnTyped DEF StopWatches, Attempt, Stages, GoogleTyped, SignsTyped
  <2>2. ConnectionsTyped' /\ UNCHANGED calendar
    BY <1>2, ConnectionsRest DEF StopWatches, connVars
  <2>3. QED
    BY <1>2, <2>1, <2>2, RequestKeeps DEF StopWatches
<1>3. CASE RevokeToken(r)
  <2>1. StepsTyped' /\ granted' \subseteq Conns /\ live' \subseteq Conns \X (1..MaxWatches) /\ SignsTyped' /\ (Fault \/ UNCHANGED faults)
    BY <1>3, GoOnTyped DEF RevokeToken, Attempt, Stages, GoogleTyped, SignsTyped
  <2>2. ConnectionsTyped' /\ UNCHANGED calendar
    BY <1>3, ConnectionsRest DEF RevokeToken, connVars
  <2>3. QED
    BY <1>3, <2>1, <2>2, RequestKeeps DEF RevokeToken
<1>4. CASE DeleteCalendars(r)
  <2>1. StepsTyped' /\ granted' \subseteq Conns /\ live' \subseteq Conns \X (1..MaxWatches) /\ SignsTyped' /\ (Fault \/ UNCHANGED faults)
    BY <1>4, GoOnTyped DEF DeleteCalendars, Attempt, Stages, GoogleTyped, SignsTyped
  <2>2. target[r] \in Conns
    BY <1>4, TargetTyped DEF DeleteCalendars
  <2>3. ConnectionsTyped' /\ \A c \in Conns : calendar[c] => calendar'[c] \/ event[c] = None
    <3>1. CASE RemoveCalendar(target[r])
      <4>1. UNCHANGED <<status, issued>> /\ 0 \in 0..MaxWatches
        BY <1>4, CalendarAssumption DEF DeleteCalendars
      <4>2. PICK c \in Conns : c = target[r]
        BY <2>2
      <4>3. CASE event[c] = None
        BY <3>1, <4>1, <4>2, <4>3 DEF RemoveCalendar, ConnectionsTyped
      <4>4. CASE event[c] # None
        BY <3>1, <4>1, <4>2, <4>4 DEF RemoveCalendar, ConnectionsTyped
      <4>5. QED
        BY <4>3, <4>4
    <3>2. CASE UNCHANGED <<calendar, cursor, channel, expiring>>
      BY <1>4, <3>2 DEF DeleteCalendars, ConnectionsTyped
    <3>3. QED
      BY <1>4, <3>1, <3>2 DEF DeleteCalendars, Attempt
  <2>4. QED
    BY <1>4, <2>1, <2>3, RequestKeeps DEF DeleteCalendars
<1>5. CASE CloseConnection(r)
  <2>1. StepsTyped' /\ granted' \subseteq Conns /\ live' \subseteq Conns \X (1..MaxWatches)
    BY <1>5, RespondTyped DEF CloseConnection, GoogleTyped
  <2>2. target[r] \in Conns
    BY <1>5, TargetTyped DEF CloseConnection
  <2>3. ConnectionsTyped' /\ SignsTyped'
    BY <1>5, <2>2 DEF CloseConnection, ConnectionsTyped, SignsTyped
  <2>4. QED
    BY <1>5, <2>1, <2>3, RequestKeeps DEF CloseConnection
<1>6. QED
  BY <1>1, <1>2, <1>3, <1>4, <1>5

LEMMA DeleteEventsTyped ==
  ASSUME Typed, NEW r \in Callers, DeleteEvents(r)
  PROVE  Typed'
<1> USE DEF Typed, TypeOK
<1>1. target[r] \in Conns /\ (Fault \/ UNCHANGED faults) /\ UNCHANGED <<meetingVars, calendar>>
  BY TargetTyped DEF DeleteEvents, Attempt, connVars
<1>2. PICK c \in Conns : c = target[r]
  BY <1>1
<1>3. /\ EventsTyped' /\ holds' \in [Workers -> BOOLEAN]
      /\ \A v \in Workers : holds'[v] => holds[v] /\ event'[Owner(v)] # None
  <2>1. CASE RemoveEvent(c)
    BY <1>1, <2>1, RemoveTyped
  <2>2. CASE UNCHANGED <<eventVars, holds>>
    BY <1>1, <2>2, EventsRest DEF eventVars, JobsTyped, HoldsRow
  <2>3. QED
    BY <1>2, <2>1, <2>2 DEF DeleteEvents, Attempt
<1>4. UNCHANGED <<log, row, attempts, pc, job, lease, user, since, seen, found>>
  BY DEF DeleteEvents, googleVars, queueVars, loopVars
<1>5. JobsTyped'
  BY <1>3, <1>4 DEF JobsTyped, ItemFits
<1>6. (\A w \in Workers : HoldsRow(w))'
  <2>1. ASSUME NEW w \in Workers PROVE HoldsRow(w)'
    BY <1>3, <1>4 DEF HoldsRow, Owner
  <2>2. QED
    BY <2>1
<1>7. SignsTyped' /\ StepsTyped' /\ RenewalTyped'
  BY <1>1, TypedParts, GoOnTyped, RenewalRests DEF DeleteEvents, Disturb, Attempt, SignsTyped, Stages
<1>8. ConnectionsTyped' /\ GoogleTyped'
  BY ConnectionsRest, GoogleRests DEF DeleteEvents
<1>9. faults' \in 0..MaxFaults
  BY <1>1, TypedParts, FaultTyped
<1>10. QED
  BY <1>3, <1>5, <1>6, <1>7, <1>8, <1>9, RequestsParts

LEMMA ResyncTyped ==
  ASSUME Typed, NEW r \in Callers,
         PostResync(r) \/ CheckToken(r) \/ Reopen(r) \/ Refuse(r) \/ RequestStops(r)
  PROVE  Typed'
<1> USE TypedParts
<1>1. granted' \subseteq Conns /\ live' \subseteq Conns \X (1..MaxWatches) /\ UNCHANGED calendar
  BY DEF PostResync, CheckToken, Reopen, Refuse, RequestStops, GoogleTyped, connVars
<1>2. SignsTyped' /\ (Fault \/ UNCHANGED faults) /\ UNCHANGED others
  BY SignsRest DEF PostResync, CheckToken, Reopen, Refuse, RequestStops, SignsTyped
<1>3. StepsTyped'
  <2>1. CASE PostResync(r)
    BY <2>1, BeginTyped DEF PostResync, Usable, Stages
  <2>2. CASE CheckToken(r)
    BY <2>2, GoOnTyped DEF CheckToken, Stages
  <2>3. CASE Reopen(r)
    BY <2>3, GoOnTyped DEF Reopen, Stages
  <2>4. CASE Refuse(r) \/ RequestStops(r)
    BY <2>4, RespondTyped DEF Refuse, RequestStops
  <2>5. QED
    BY <2>1, <2>2, <2>3, <2>4
<1>4. ConnectionsTyped'
  <2>1. CASE UNCHANGED connVars
    BY <2>1, ConnectionsRest
  <2>2. CASE Reopen(r) \/ Refuse(r)
    BY <2>2 DEF Reopen, Refuse, ConnectionsTyped
  <2>3. QED
    BY <2>1, <2>2 DEF PostResync, CheckToken, RequestStops
<1>5. QED
  BY <1>1, <1>2, <1>3, <1>4, RequestKeeps

-------------------------------------------------------------------------------
(* The renewal of watches. *)

LEMMA RenewalKeeps ==
  ASSUME Typed, UNCHANGED renewing, RenewalTyped', requests' \in 0..MaxRequests, Fault \/ UNCHANGED faults,
         intact' \subseteq Callers, granted' \subseteq Conns, live' \subseteq Conns \X (1..MaxWatches), UNCHANGED calendar,
         ConnectionsTyped'
  PROVE  Typed'
<1> USE DEF Typed, TypeOK
<1>1. GoogleTyped' /\ EventsTyped'
  BY EventsRest DEF renewing, GoogleTyped
<1>2. JobsTyped'
  BY JobsRest DEF renewing
<1>3. StepsTyped' /\ SignsTyped' /\ faults' \in 0..MaxFaults
  BY TypedParts, FaultTyped DEF renewing, requestVars, StepsTyped, SignsTyped
<1>4. (\A w \in Workers : HoldsRow(w))'
  BY HoldsRest DEF renewing, loopVars, jobVars, eventVars
<1>5. QED
  BY <1>1, <1>2, <1>3, <1>4, RequestsParts

LEMMA RenewTyped ==
  ASSUME Typed, Renew \/ RenewalStops
  PROVE  Typed'
<1> USE TypedParts
<1>1. UNCHANGED renewing /\ (Fault \/ UNCHANGED faults) /\ granted' \subseteq Conns /\ UNCHANGED calendar
      /\ intact' \subseteq Callers
  BY DEF Renew, FindExpiring, RenewToken, RejectRenewal, StopOldWatch, NewWatch, RecordNewWatch, RenewalStops,
         GoogleTyped, SignsTyped, connVars
<1>2. RenewalTyped'
  BY DEF Renew, FindExpiring, RenewToken, RejectRenewal, StopOldWatch, NewWatch, RecordNewWatch, RenewalStops,
         RenewalTyped, Proceed, Rest
<1>3. requests' \in 0..MaxRequests
  BY CalendarAssumption
     DEF Renew, FindExpiring, RenewToken, RejectRenewal, StopOldWatch, NewWatch, RecordNewWatch, RenewalStops, StepsTyped
<1>4. CASE NewWatch
  <2>1. renews \in Conns
    BY <1>4 DEF NewWatch, RenewalTyped
  <2>2. issued' \in [Conns -> 0..MaxWatches] /\ live' \subseteq Conns \X (1..MaxWatches)
    BY <1>4, <2>1, WatchTyped DEF NewWatch, ConnectionsTyped, GoogleTyped
  <2>3. ConnectionsTyped'
    BY <1>4, <2>2 DEF NewWatch, ConnectionsTyped
  <2>4. QED
    BY <1>1, <1>2, <1>3, <2>2, <2>3, RenewalKeeps
<1>5. CASE RecordNewWatch
  <2>1. renews \in Conns
    BY <1>5 DEF RecordNewWatch, RenewalTyped
  <2>2. ConnectionsTyped' /\ live' \subseteq Conns \X (1..MaxWatches)
    BY <1>5, <2>1, RecordTyped DEF RecordNewWatch, GoogleTyped
  <2>3. QED
    BY <1>1, <1>2, <1>3, <2>2, RenewalKeeps
<1>6. CASE RejectRenewal
  <2>1. ConnectionsTyped' /\ live' \subseteq Conns \X (1..MaxWatches)
    BY <1>6 DEF RejectRenewal, RenewalTyped, ConnectionsTyped, GoogleTyped
  <2>2. QED
    BY <1>1, <1>2, <1>3, <2>1, RenewalKeeps
<1>7. CASE FindExpiring \/ RenewToken \/ StopOldWatch \/ RenewalStops
  <2>1. ConnectionsTyped' /\ live' \subseteq Conns \X (1..MaxWatches)
    BY <1>7, ConnectionsRest DEF FindExpiring, RenewToken, StopOldWatch, RenewalStops, GoogleTyped
  <2>2. QED
    BY <1>1, <1>2, <1>3, <2>1, RenewalKeeps
<1>8. QED
  BY <1>4, <1>5, <1>6, <1>7 DEF Renew

-------------------------------------------------------------------------------

LEMMA InitTyped == Init => Typed
<1> SUFFICES ASSUME Init PROVE Typed
  OBVIOUS
<1>1. PICK v \in Values : log = <<v>>
  BY CalendarAssumption DEF Init
<1>2. log \in Seq(Values) /\ log # <<>>
  BY <1>1
<1>3. GoogleTyped
  BY <1>2 DEF Init, GoogleTyped
<1>4. ConnectionsTyped /\ EventsTyped
  BY CalendarAssumption DEF Init, ConnectionsTyped, EventsTyped
<1>5. JobsTyped
  BY CalendarAssumption DEF Init, JobsTyped, ItemFits
<1>6. RequestsTyped
  BY CalendarAssumption DEF Init, RequestsTyped
<1>7. \A w \in Workers : HoldsRow(w)
  BY DEF Init, HoldsRow
<1>8. QED
  BY <1>3, <1>4, <1>5, <1>6, <1>7 DEF Typed, TypeOK

LEMMA NextTyped == Typed /\ [Next]_vars => Typed'
<1> SUFFICES ASSUME Typed, [Next]_vars PROVE Typed'
  OBVIOUS
<1>1. CASE UNCHANGED vars
  <2>1. JobsTyped' /\ GoogleTyped' /\ ConnectionsTyped' /\ EventsTyped'
    BY <1>1, JobsRest, GoogleRests, ConnectionsRest, EventsRest DEF Typed, TypeOK, vars, googleVars, connVars
  <2>2. RequestsTyped'
    BY <1>1 DEF Typed, TypeOK, vars, RequestsTyped, requestVars, renewalVars, signVars
  <2>3. (\A w \in Workers : HoldsRow(w))'
    BY <1>1, HoldsRest DEF Typed, vars, loopVars, jobVars, eventVars
  <2>4. QED
    BY <2>1, <2>2, <2>3 DEF Typed, TypeOK
<1>2. CASE EventChanges \/ WatchAges \/ Push \/ DeleteMeeting
  BY <1>2, OutsideTyped
<1>3. ASSUME NEW w \in Workers, Take(w) \/ Step(w) \/ HandlerFails(w) \/ Crash(w) \/ LoseLease(w)
      PROVE  Typed'
  BY <1>3, OpenTyped, ReadTyped, FindTyped, StoreTyped, InsertTyped, FindMeetingTyped, DropTyped, CursorTyped, LoopTyped
     DEF Step
<1>4. ASSUME NEW r \in Callers, Request(r)
      PROVE  Typed'
  BY <1>4, ConnectTyped, QueueSyncTyped, DisconnectTyped, DeleteEventsTyped, ResyncTyped DEF Request
<1>5. CASE Renew \/ RenewalStops
  BY <1>5, RenewTyped
<1>6. QED
  BY <1>1, <1>2, <1>3, <1>4, <1>5 DEF Next

\* Types, that an idle loop has neither a job nor a claim, that a job past its listing has an item,
\* and the foreign key: an event row has its calendar (read_operations/calendar.rs:354).
THEOREM CalendarTyped == Spec => []TypeOK
<1>1. Spec => []Typed
  BY InitTyped, NextTyped, PTL DEF Spec
<1>2. Typed => TypeOK
  BY DEF Typed
<1>3. QED
  BY <1>1, <1>2, PTL

-------------------------------------------------------------------------------
(* A disconnect is final. *)

\* Nothing is left of connection c, and nobody is at work on it.
Gone(c) ==
    /\ status[c] = "disconnected" /\ ~calendar[c] /\ event[c] = None
    /\ \A w \in Workers : user[w] # c /\ (pc[w] \in Syncing => Owner(w) # c)
    /\ \A r \in Callers : target[r] # c
    /\ renews # c

\* Disconnect r is alone, and what it has deleted stays so.
Alone(r) ==
    /\ Quiet(r) /\ step[r] \in {"stop", "revoke", "events", "calendars", "close"}
    /\ step[r] \in {"calendars", "close"} => event[target[r]] = None
    /\ step[r] = "close" => ~calendar[target[r]]

\* Whoever rests is at no connection.
Rested ==
    /\ \A w \in Workers : pc[w] = "idle" => user[w] = None
    /\ \A r \in Callers : step[r] = "none" => target[r] = None
    /\ renewal = "idle" => renews = None

FinalInv == (\A c \in severed : Gone(c)) /\ (\A r \in intact : Alone(r)) /\ Rested

\* The other loops stay where they are.
OthersStay(w) == \A v \in Workers \ {w} : pc'[v] = pc[v] /\ job'[v] = job[v] /\ user'[v] = user[v]

\* A step of a job: no disconnect is alone.
LEMMA JobStaysAway ==
  ASSUME Typed, FinalInv, NEW w \in Workers, pc[w] # "idle", OthersStay(w),
         UNCHANGED <<calendar, requestVars, renewalVars, severed, intact>>,
         \A c \in severed : status'[c] = status[c] /\ event'[c] = event[c] /\ user'[w] # c,
         pc'[w] \in Syncing => job'[w] = job[w] /\ (pc[w] \in Syncing \/ calendar[Owner(w)]),
         pc'[w] = "idle" => user'[w] = None
  PROVE  FinalInv'
<1>1. intact = {}
  BY DEF FinalInv, Alone, Quiet
<1>2. ASSUME NEW c \in severed PROVE Gone(c)'
  <2>1. Gone(c) /\ UNCHANGED <<target, renews>>
    BY DEF FinalInv, requestVars, renewalVars
  <2>2. ASSUME NEW v \in Workers PROVE user'[v] # c /\ (pc'[v] \in Syncing => Owner(v)' # c)
    BY <2>1 DEF Gone, Owner, OthersStay
  <2>3. QED
    BY <2>1, <2>2 DEF Gone
<1>3. Rested'
  BY DEF FinalInv, Rested, OthersStay, requestVars, renewalVars
<1>4. QED
  BY <1>1, <1>2, <1>3 DEF FinalInv

\* What a job knows of severed connections.
LEMMA JobIsElsewhere ==
  ASSUME FinalInv, NEW w \in Workers
  PROVE  \A c \in severed : user[w] # c /\ (pc[w] \in Syncing => Owner(w) # c)
  BY DEF FinalInv, Gone

LEMMA GoStays ==
  ASSUME Typed, NEW w \in Workers, NEW s, Go(w, s), \A v \in Workers \ {w} : user'[v] = user[v]
  PROVE  OthersStay(w) /\ pc'[w] = s /\ job' = job
  BY DEF Typed, TypeOK, JobsTyped, Go, GoTo, OthersStay

LEMMA IdleStays ==
  ASSUME Typed, NEW w \in Workers, Idle(w)
  PROVE  OthersStay(w) /\ pc'[w] = "idle" /\ user'[w] = None
  BY DEF Typed, TypeOK, JobsTyped, Idle, Leave, OthersStay

LEMMA EndFinal ==
  ASSUME Typed, FinalInv, NEW w \in Workers, pc[w] # "idle", Idle(w),
         UNCHANGED <<calendar, requestVars, renewalVars, severed, intact, status, event>>
  PROVE  FinalInv'
<1>1. OthersStay(w) /\ pc'[w] = "idle" /\ user'[w] = None
  BY IdleStays
<1>2. \A c \in severed : None # c
  BY CalendarAssumption DEF Typed, TypeOK, RequestsTyped
<1>3. "idle" \notin Syncing
  BY DEF Syncing
<1>4. QED
  BY <1>1, <1>2, <1>3, JobStaysAway

\* A step within a sync, or one that does not begin one.
LEMMA GoFinal ==
  ASSUME Typed, FinalInv, NEW w \in Workers, pc[w] # "idle", NEW s, Go(w, s), s # "idle",
         s \in Syncing => pc[w] \in Syncing \/ calendar[Owner(w)],
         UNCHANGED <<calendar, requestVars, renewalVars, severed, intact>>,
         \A v \in Workers \ {w} : user'[v] = user[v],
         \A c \in severed : status'[c] = status[c] /\ event'[c] = event[c] /\ user'[w] # c
  PROVE  FinalInv'
<1>1. OthersStay(w) /\ pc'[w] = s /\ job' = job
  BY GoStays
<1>2. QED
  BY <1>1, JobStaysAway

LEMMA SeveredTyped ==
  ASSUME Typed, FinalInv, NEW c \in severed
  PROVE  c \in Conns /\ c # None /\ status[c] = "disconnected" /\ c \notin Usable /\ ~calendar[c]
  BY CalendarAssumption DEF Typed, TypeOK, RequestsTyped, FinalInv, Gone, Usable

LEMMA JobFinal ==
  ASSUME Typed, FinalInv, NEW w \in Workers, Step(w)
  PROVE  FinalInv'
<1> USE JobIsElsewhere, SeveredTyped
<1>0. pc[w] # "idle"
  BY DEF Step, OpenConnection, RefreshToken, RejectToken, ReadCalendar, ListEvents, FindEvent, UpdateEvent, InsertEvent,
         FindMeeting, ShiftMeeting, GetMeeting, LinkEvent, LookEvent, CancelMeeting, DropEvent, StoreCursor, Complete
<1>1. CASE OpenConnection(w)
  <2>1. CASE Fail(w)
    BY <1>0, <1>1, <2>1, EndFinal DEF OpenConnection, Fail, connVars, eventVars, signVars
  <2>2. CASE ~Fail(w)
    <3>1. PICK u \in Usable : user' = [user EXCEPT ![w] = u] /\ Go(w, "refresh")
      BY <1>1, <2>2 DEF OpenConnection
    <3>2. user'[w] = u /\ \A v \in Workers \ {w} : user'[v] = user[v]
      BY <3>1 DEF Typed, TypeOK, JobsTyped
    <3>3. QED
      BY <1>0, <1>1, <3>1, <3>2, GoFinal DEF OpenConnection, connVars, eventVars, signVars, Syncing
  <2>3. QED
    BY <2>1, <2>2
<1>2. CASE RefreshToken(w)
  <2>1. PICK s \in {"read", "reject"} : Go(w, s)
    BY <1>2 DEF RefreshToken
  <2>2. QED
    BY <1>0, <1>2, <2>1, GoFinal DEF RefreshToken, connVars, eventVars, signVars, jobVars, Syncing
<1>3. CASE RejectToken(w)
  <2>1. \A c \in severed : status'[c] = status[c]
    BY <1>3 DEF RejectToken, Typed, TypeOK, ConnectionsTyped
  <2>2. QED
    BY <1>0, <1>3, <2>1, GoFinal DEF RejectToken, eventVars, signVars, jobVars, Syncing
<1>4. CASE ReadCalendar(w)
  <2>1. PICK s \in {"list", "done"} : Go(w, s) /\ (s = "list" => calendar[Owner(w)])
    BY <1>4 DEF ReadCalendar
  <2>2. QED
    BY <1>0, <1>4, <2>1, GoFinal DEF ReadCalendar, connVars, eventVars, signVars, Syncing
<1>5. CASE ListEvents(w)
  <2>1. CASE user[w] \in granted
    <3>1. (ListChanges(w) \/ ListAll(w)) /\ user' = [user EXCEPT ![w] = None] /\ pc[w] = "list"
      BY <1>5, <2>1 DEF ListEvents
    <3>2. PICK s \in {"find", "look", "cursor"} : Go(w, s)
      BY <3>1, ListingTyped
    <3>3. user'[w] = None /\ \A v \in Workers \ {w} : user'[v] = user[v]
      BY <3>1 DEF Typed, TypeOK, JobsTyped
    <3>4. QED
      BY <1>0, <1>5, <3>1, <3>2, <3>3, GoFinal DEF ListEvents, connVars, signVars, Syncing
  <2>2. CASE user[w] \notin granted
    BY <1>0, <1>5, <2>2, EndFinal DEF ListEvents, Fail, connVars, signVars
  <2>3. QED
    BY <2>1, <2>2
<1>6. CASE FindEvent(w) \/ LookEvent(w)
  <2>1. PICK s \in {"update", "insert", "cursor", "cancel", "drop"} : Go(w, s)
    BY <1>6 DEF FindEvent, LookEvent
  <2>2. pc[w] \in Syncing /\ UNCHANGED user
    BY <1>6 DEF FindEvent, LookEvent, Syncing
  <2>3. QED
    BY <1>0, <1>6, <2>1, <2>2, GoFinal DEF FindEvent, LookEvent, connVars, eventVars, signVars
<1>7. CASE UpdateEvent(w) \/ DropEvent(w)
  <2>1. PICK s \in {"meeting", "cursor"} : Go(w, s)
    BY <1>7 DEF UpdateEvent, DropEvent
  <2>2. pc[w] \in Syncing /\ UNCHANGED user
    BY <1>7 DEF UpdateEvent, DropEvent, Syncing, jobVars
  <2>3. \A c \in severed : event'[c] = event[c]
    BY <1>7, <2>2 DEF UpdateEvent, DropEvent, RemoveEvent, eventVars, Typed, TypeOK, EventsTyped
  <2>4. QED
    BY <1>0, <1>7, <2>1, <2>2, <2>3, GoFinal DEF UpdateEvent, DropEvent, connVars, signVars
<1>8. CASE InsertEvent(w)
  <2>1. CASE calendar[Owner(w)] /\ event[Owner(w)] = None
    <3>1. Go(w, "meeting") /\ pc[w] \in Syncing /\ UNCHANGED user
      BY <1>8, <2>1 DEF InsertEvent, Syncing
    <3>2. \A c \in severed : event'[c] = event[c]
      BY <1>8, <2>1, <3>1 DEF InsertEvent, Typed, TypeOK, EventsTyped
    <3>3. QED
      BY <1>0, <1>8, <3>1, <3>2, GoFinal DEF InsertEvent, connVars, signVars
  <2>2. CASE ~(calendar[Owner(w)] /\ event[Owner(w)] = None)
    BY <1>0, <1>8, <2>2, EndFinal DEF InsertEvent, Fail, connVars, signVars
  <2>3. QED
    BY <2>1, <2>2
<1>9. CASE FindMeeting(w) \/ ShiftMeeting(w) \/ LinkEvent(w) \/ CancelMeeting(w)
  <2>1. PICK s \in {"get", "shift", "cursor", "drop"} : Go(w, s)
    BY <1>9 DEF FindMeeting, ShiftMeeting, LinkEvent, CancelMeeting
  <2>2. pc[w] \in Syncing /\ UNCHANGED <<user, event>>
    BY <1>9 DEF FindMeeting, ShiftMeeting, LinkEvent, CancelMeeting, Syncing, jobVars, eventVars
  <2>3. QED
    BY <1>0, <1>9, <2>1, <2>2, GoFinal DEF FindMeeting, ShiftMeeting, LinkEvent, CancelMeeting, connVars, signVars
<1>10. CASE GetMeeting(w)
  <2>1. CASE Item(w) \in deleted
    BY <1>0, <1>10, <2>1, EndFinal DEF GetMeeting, Fail, connVars, eventVars, signVars
  <2>2. CASE Item(w) \notin deleted
    <3>1. Go(w, "link") /\ pc[w] \in Syncing /\ UNCHANGED <<user, event>>
      BY <1>10, <2>2 DEF GetMeeting, Syncing, jobVars, eventVars
    <3>2. QED
      BY <1>0, <1>10, <3>1, GoFinal DEF GetMeeting, connVars, signVars
  <2>3. QED
    BY <2>1, <2>2
<1>11. CASE StoreCursor(w)
  BY <1>0, <1>11, GoFinal DEF StoreCursor, eventVars, signVars, Syncing
<1>12. CASE Complete(w)
  BY <1>0, <1>12, EndFinal DEF Complete, connVars, eventVars, signVars
<1>13. QED
  BY <1>1, <1>2, <1>3, <1>4, <1>5, <1>6, <1>7, <1>8, <1>9, <1>10, <1>11, <1>12 DEF Step

\* A step of somebody else.
LEMMA LoopsStayFinal ==
  ASSUME FinalInv, UNCHANGED <<pc, job, user>>, severed' \subseteq severed,
         \A c \in severed : /\ status'[c] = status[c] /\ calendar'[c] = calendar[c] /\ event'[c] = event[c]
                            /\ renews' # c /\ \A r \in Callers : target'[r] # c,
         \A r \in intact' : Alone(r)',
         \A r \in Callers : step'[r] = "none" => target'[r] = None,
         renewal' = "idle" => renews' = None
  PROVE  FinalInv'
<1>1. ASSUME NEW c \in severed PROVE Gone(c)'
  <2>1. Gone(c)
    BY DEF FinalInv
  <2>2. QED
    BY <2>1 DEF Gone, Owner
<1>2. Rested'
  BY DEF FinalInv, Rested
<1>3. QED
  BY <1>1, <1>2 DEF FinalInv

LEMMA OutsideFinal ==
  ASSUME Typed, FinalInv, EventChanges \/ WatchAges \/ Push \/ DeleteMeeting \/ \E w \in Workers : LoseLease(w)
  PROVE  FinalInv'
<1>1. UNCHANGED <<pc, job, user, severed, intact, status, calendar, event, step, target, renewal, renews>>
  BY DEF EventChanges, WatchAges, Push, DeleteMeeting, LoseLease, loopVars, jobVars, signVars, connVars, eventVars,
         requestVars, renewalVars
<1>2. \A c \in severed : renews # c /\ \A r \in Callers : target[r] # c
  BY DEF FinalInv, Gone
<1>3. ASSUME NEW r \in intact PROVE Alone(r)'
  BY <1>1 DEF FinalInv, Alone, Quiet
<1>4. QED
  BY <1>1, <1>2, <1>3, LoopsStayFinal DEF FinalInv, Rested

LEMMA LoopFinal ==
  ASSUME Typed, FinalInv, NEW w \in Workers, Take(w) \/ HandlerFails(w) \/ Crash(w)
  PROVE  FinalInv'
<1>1. CASE Take(w)
  <2>1. pc[w] = "idle" /\ pc' = [pc EXCEPT ![w] = "open"] /\ \E k \in Keys : job' = [job EXCEPT ![w] = k]
    BY <1>1 DEF Take, LeaseRow
  <2>2. UNCHANGED <<user, severed, status, calendar, event, step, target, renewal, renews>> /\ intact' = {}
    BY <1>1 DEF Take, jobVars, connVars, eventVars, requestVars, renewalVars
  <2>3. pc'[w] = "open" /\ \A v \in Workers \ {w} : pc'[v] = pc[v] /\ job'[v] = job[v]
    BY <2>1 DEF Typed, TypeOK, JobsTyped
  <2>4. ASSUME NEW c \in severed PROVE Gone(c)'
    <3>1. Gone(c)
      BY DEF FinalInv
    <3>2. ASSUME NEW v \in Workers PROVE pc'[v] \in Syncing => Owner(v)' # c
      BY <2>3, <3>1 DEF Gone, Owner, Syncing
    <3>3. QED
      BY <2>2, <3>1, <3>2 DEF Gone
  <2>5. Rested'
    BY <2>2, <2>3 DEF FinalInv, Rested
  <2>6. QED
    BY <2>2, <2>4, <2>5 DEF FinalInv
<1>2. CASE HandlerFails(w)
  BY <1>2, EndFinal DEF HandlerFails, Fail, connVars, eventVars, signVars
<1>3. CASE Crash(w)
  BY <1>3, EndFinal DEF Crash, connVars, eventVars, signVars
<1>4. QED
  BY <1>1, <1>2, <1>3

\* A step of the renewal: no disconnect is alone.
LEMMA RenewalFinal ==
  ASSUME Typed, FinalInv, Renew \/ RenewalStops
  PROVE  FinalInv'
<1>1. UNCHANGED <<pc, job, user, severed, calendar, event, step, target>> /\ intact' = {}
  BY DEF Renew, FindExpiring, RenewToken, RejectRenewal, StopOldWatch, NewWatch, RecordNewWatch, RenewalStops, Proceed,
         Rest, renewing, connVars, eventVars, jobVars, requestVars, loopVars, Record, FinalInv, Alone, Quiet
<1>2. ASSUME NEW c \in severed PROVE status'[c] = status[c] /\ renews' # c
  <2>1. renews # c /\ status[c] = "disconnected" /\ None # c
    BY SeveredTyped DEF FinalInv, Gone
  <2>2. renews' # c
    BY <2>1 DEF Renew, FindExpiring, RenewToken, RejectRenewal, StopOldWatch, NewWatch, RecordNewWatch, RenewalStops,
                Proceed, Rest
  <2>3. CASE RejectRenewal
    BY <2>1, <2>2, <2>3 DEF RejectRenewal, Typed, TypeOK, ConnectionsTyped
  <2>4. CASE ~RejectRenewal
    BY <2>2, <2>4 DEF Renew, FindExpiring, RenewToken, StopOldWatch, NewWatch, RecordNewWatch, RenewalStops, connVars
  <2>5. QED
    BY <2>3, <2>4
<1>3. renewal' = "idle" => renews' = None
  BY DEF Renew, FindExpiring, RenewToken, RejectRenewal, StopOldWatch, NewWatch, RecordNewWatch, RenewalStops, Proceed,
         Rest
<1>4. \A c \in severed : \A r \in Callers : target[r] # c
  BY DEF FinalInv, Gone
<1>5. QED
  BY <1>1, <1>2, <1>3, <1>4, LoopsStayFinal DEF FinalInv, Rested

\* A request that goes on is the only disconnect that may be alone, and not at a severed connection.
LEMMA RequestIsAlone ==
  ASSUME FinalInv, NEW r \in Callers, step[r] # "none"
  PROVE  /\ intact \subseteq {r}
         /\ \A c \in severed : target[r] # c /\ renews # c /\ \A q \in Callers : target[q] # c
<1>1. ASSUME NEW q \in intact PROVE q = r
  BY DEF FinalInv, Alone, Quiet
<1>2. QED
  BY <1>1 DEF FinalInv, Gone

LEMMA BeginFinal ==
  ASSUME Typed, FinalInv, NEW r \in Callers, NEW first, first # "none", NEW c \in Conns \ severed, Begin(r, first, c),
         UNCHANGED <<pc, job, user, severed, calendar, event, renewal, renews>>,
         \A d \in severed : status'[d] = status[d],
         intact' \subseteq {r}, intact' = {} \/ (Quiet(r) /\ first = "stop")
  PROVE  FinalInv'
<1>1. /\ step'[r] = first /\ target'[r] = c
      /\ \A q \in Callers \ {r} : step'[q] = step[q] /\ target'[q] = target[q]
  BY DEF Begin, Typed, TypeOK, RequestsTyped
<1>2. \A d \in severed : renews' # d /\ \A q \in Callers : target'[q] # d
  BY <1>1 DEF FinalInv, Gone
<1>3. ASSUME NEW q \in intact' PROVE Alone(q)'
  BY <1>1, <1>3 DEF Alone, Quiet
<1>4. \A q \in Callers : step'[q] = "none" => target'[q] = None
  BY <1>1 DEF FinalInv, Rested
<1>5. QED
  BY <1>2, <1>3, <1>4, LoopsStayFinal DEF FinalInv, Rested

LEMMA RespondFinal ==
  ASSUME Typed, FinalInv, NEW r \in Callers, step[r] # "none", Respond(r),
         UNCHANGED <<pc, job, user, calendar, event, renewal, renews>>,
         severed' \subseteq severed, \A d \in severed : status'[d] = status[d], intact' \subseteq intact \ {r}
  PROVE  FinalInv'
<1>1. step'[r] = "none" /\ target'[r] = None
      /\ \A q \in Callers \ {r} : step'[q] = step[q] /\ target'[q] = target[q]
  BY DEF Respond, Typed, TypeOK, RequestsTyped
<1>2. intact' = {}
  BY RequestIsAlone
<1>3. ASSUME NEW d \in severed PROVE renews' # d /\ \A q \in Callers : target'[q] # d
  BY <1>1, RequestIsAlone, SeveredTyped
<1>4. \A q \in Callers : step'[q] = "none" => target'[q] = None
  BY <1>1 DEF FinalInv, Rested
<1>5. QED
  BY <1>1, <1>2, <1>3, <1>4, LoopsStayFinal DEF FinalInv, Rested

LEMMA GoOnFinal ==
  ASSUME Typed, FinalInv, NEW r \in Callers, step[r] # "none", NEW next, next # "none", GoOn(r, next),
         UNCHANGED <<pc, job, user, renewal, renews, severed>>,
         \A d \in severed : status'[d] = status[d] /\ calendar'[d] = calendar[d] /\ event'[d] = event[d],
         intact' \subseteq intact,
         r \in intact' => /\ next \in {"revoke", "events", "calendars", "close"}
                          /\ next \in {"calendars", "close"} => event'[target[r]] = None
                          /\ next = "close" => ~calendar'[target[r]]
  PROVE  FinalInv'
<1>1. step'[r] = next /\ target' = target /\ \A q \in Callers \ {r} : step'[q] = step[q]
  BY DEF GoOn, Typed, TypeOK, RequestsTyped
<1>2. ASSUME NEW q \in intact' PROVE Alone(q)'
  <2>1. q = r /\ Quiet(r)
    BY RequestIsAlone DEF FinalInv, Alone
  <2>2. Quiet(r)'
    BY <1>1, <2>1 DEF Quiet
  <2>3. QED
    BY <1>1, <1>2, <2>1, <2>2 DEF Alone
<1>3. \A d \in severed : renews' # d /\ \A q \in Callers : target'[q] # d
  BY <1>1, RequestIsAlone
<1>4. \A q \in Callers : step'[q] = "none" => target'[q] = None
  BY <1>1 DEF FinalInv, Rested
<1>5. QED
  BY <1>2, <1>3, <1>4, LoopsStayFinal DEF FinalInv, Rested

LEMMA ConnectFinal ==
  ASSUME Typed, FinalInv, NEW r \in Callers,
         \/ StoreConnection(r) \/ StoreCalendar(r) \/ EnqueueInitial(r) \/ RegisterWatch(r) \/ RecordWatch(r)
         \/ PostResync(r) \/ CheckToken(r) \/ Reopen(r) \/ Refuse(r) \/ EnqueueResync(r) \/ RequestStops(r)
  PROVE  FinalInv'
<1> USE SeveredTyped DEF others, jobVars, renewalVars, loopVars, eventVars, connVars, signVars
<1>1. CASE StoreConnection(r)
  <2>1. PICK c \in Conns : /\ status[c] = "none" /\ Begin(r, "list", c)
                           /\ status' = [status EXCEPT ![c] = "connected"]
    BY <1>1 DEF StoreConnection
  <2>2. c \in Conns \ severed /\ \A d \in severed : status'[d] = status[d]
    BY <2>1 DEF Typed, TypeOK, ConnectionsTyped
  <2>3. QED
    BY <1>1, <2>1, <2>2, BeginFinal DEF StoreConnection
<1>2. CASE PostResync(r)
  <2>1. PICK c \in Usable : Begin(r, "check", c)
    BY <1>2 DEF PostResync
  <2>2. c \in Conns \ severed
    BY <2>1 DEF Usable
  <2>3. QED
    BY <1>2, <2>1, <2>2, BeginFinal DEF PostResync
<1>3. CASE StoreCalendar(r) \/ Reopen(r)
  <2>1. step[r] \in {"list", "reopen"} /\ target[r] \in Conns
    BY <1>3, TargetTyped DEF StoreCalendar, Reopen
  <2>2. intact = {}
    BY <2>1, RequestIsAlone DEF FinalInv, Alone
  <2>3. \A d \in severed : status'[d] = status[d] /\ calendar'[d] = calendar[d] /\ target[r] # d
    BY <1>3, <2>1, RequestIsAlone DEF StoreCalendar, Reopen, Typed, TypeOK, ConnectionsTyped
  <2>4. PICK next \in {"enqueue", "queue"} : GoOn(r, next)
    BY <1>3 DEF StoreCalendar, Reopen
  <2>5. QED
    BY <1>3, <2>1, <2>2, <2>3, <2>4, GoOnFinal DEF StoreCalendar, Reopen
<1>4. CASE EnqueueInitial(r) \/ CheckToken(r)
  <2>1. step[r] \in {"enqueue", "check"}
    BY <1>4 DEF EnqueueInitial, CheckToken
  <2>2. intact = {}
    BY <2>1, RequestIsAlone DEF FinalInv, Alone
  <2>3. PICK next \in {"watch", "reopen", "refuse"} : GoOn(r, next)
    BY <1>4 DEF EnqueueInitial, CheckToken
  <2>4. QED
    BY <1>4, <2>1, <2>2, <2>3, GoOnFinal DEF EnqueueInitial, CheckToken
<1>5. CASE RegisterWatch(r)
  <2>1. step[r] = "watch" /\ intact = {}
    BY <1>5, RequestIsAlone DEF RegisterWatch, FinalInv, Alone
  <2>2. CASE GoOn(r, "record")
    BY <1>5, <2>1, <2>2, GoOnFinal DEF RegisterWatch
  <2>3. CASE Respond(r)
    BY <1>5, <2>1, <2>3, RespondFinal DEF RegisterWatch
  <2>4. QED
    BY <1>5, <2>2, <2>3 DEF RegisterWatch
<1>6. CASE RecordWatch(r) \/ Refuse(r) \/ EnqueueResync(r)
  <2>1. step[r] \in {"record", "refuse", "queue"} /\ target[r] \in Conns
    BY <1>6, TargetTyped DEF RecordWatch, Refuse, EnqueueResync
  <2>2. intact = {}
    BY <2>1, RequestIsAlone DEF FinalInv, Alone
  <2>3. \A d \in severed : status'[d] = status[d]
    BY <1>6, <2>1, RequestIsAlone DEF RecordWatch, Refuse, EnqueueResync, Typed, TypeOK, ConnectionsTyped
  <2>4. QED
    BY <1>6, <2>1, <2>2, <2>3, RespondFinal DEF RecordWatch, Refuse, EnqueueResync, Record
<1>7. CASE RequestStops(r)
  BY <1>7, RespondFinal DEF RequestStops
<1>8. QED
  BY <1>1, <1>2, <1>3, <1>4, <1>5, <1>6, <1>7

LEMMA DisconnectFinal ==
  ASSUME Typed, FinalInv, NEW r \in Callers,
         \/ PostDisconnect(r) \/ StopWatches(r) \/ RevokeToken(r) \/ DeleteEvents(r) \/ DeleteCalendars(r)
         \/ CloseConnection(r)
  PROVE  FinalInv'
<1> USE SeveredTyped DEF others, jobVars, renewalVars, loopVars, connVars
<1>1. CASE PostDisconnect(r)
  <2>1. PICK c \in Usable : Begin(r, "stop", c)
    BY <1>1 DEF PostDisconnect
  <2>2. c \in Conns \ severed
    BY <2>1 DEF Usable
  <2>3. QED
    BY <1>1, <2>1, <2>2, BeginFinal DEF PostDisconnect, eventVars
<1>2. CASE StopWatches(r) \/ RevokeToken(r)
  <2>1. PICK next \in {"revoke", "events"} : GoOn(r, next)
    BY <1>2 DEF StopWatches, RevokeToken
  <2>2. step[r] # "none" /\ intact' \subseteq intact
    BY <1>2 DEF StopWatches, RevokeToken, Attempt
  <2>3. QED
    BY <1>2, <2>1, <2>2, GoOnFinal DEF StopWatches, RevokeToken, eventVars
<1>3. CASE DeleteEvents(r)
  <2>1. step[r] # "none" /\ GoOn(r, "calendars") /\ target[r] \in Conns
    BY <1>3, TargetTyped DEF DeleteEvents
  <2>2. CASE RemoveEvent(target[r]) /\ UNCHANGED intact
    <3>1. event' = [event EXCEPT ![target[r]] = None]
      BY <2>2 DEF RemoveEvent
    <3>2. event'[target[r]] = None /\ \A d \in severed : event'[d] = event[d]
      BY <2>1, <3>1, RequestIsAlone DEF Typed, TypeOK, EventsTyped
    <3>3. QED
      BY <1>3, <2>1, <2>2, <3>2, GoOnFinal DEF DeleteEvents
  <2>3. CASE UNCHANGED eventVars /\ intact' = intact \ {r}
    BY <1>3, <2>1, <2>3, GoOnFinal DEF DeleteEvents, eventVars
  <2>4. QED
    BY <1>3, <2>2, <2>3 DEF DeleteEvents, Attempt
<1>4. CASE DeleteCalendars(r)
  <2>1. step[r] = "calendars" /\ GoOn(r, "close") /\ target[r] \in Conns
    BY <1>4, TargetTyped DEF DeleteCalendars
  <2>2. CASE RemoveCalendar(target[r]) /\ UNCHANGED intact
    <3>1. \A d \in severed : calendar'[d] = calendar[d]
      BY <2>1, <2>2, RequestIsAlone DEF RemoveCalendar, Typed, TypeOK, ConnectionsTyped
    <3>2. ASSUME r \in intact PROVE ~calendar'[target[r]] /\ event[target[r]] = None
      BY <2>1, <2>2, <3>2 DEF RemoveCalendar, FinalInv, Alone, Typed, TypeOK, ConnectionsTyped
    <3>3. QED
      BY <1>4, <2>1, <2>2, <3>1, <3>2, GoOnFinal DEF DeleteCalendars, eventVars
  <2>3. CASE UNCHANGED calendar /\ intact' = intact \ {r}
    BY <1>4, <2>1, <2>3, GoOnFinal DEF DeleteCalendars, eventVars
  <2>4. QED
    BY <1>4, <2>2, <2>3 DEF DeleteCalendars, Attempt
<1>5. CASE CloseConnection(r)
  <2>1. step[r] = "close" /\ target[r] \in Conns /\ Respond(r) /\ status' = [status EXCEPT ![target[r]] = "disconnected"]
    BY <1>5, TargetTyped DEF CloseConnection
  <2>2. \A d \in severed : status'[d] = status[d]
    BY <2>1, RequestIsAlone DEF Typed, TypeOK, ConnectionsTyped
  <2>3. CASE r \notin intact
    BY <1>5, <2>1, <2>2, <2>3, RespondFinal DEF CloseConnection, eventVars
  <2>4. CASE r \in intact
    <3>1. Alone(r) /\ intact' = {} /\ severed' = severed \cup {target[r]}
      BY <1>5, <2>1, <2>4, RequestIsAlone DEF CloseConnection, FinalInv
    <3>2. UNCHANGED <<pc, job, user, calendar, event, renewal, renews>>
      BY <1>5 DEF CloseConnection, eventVars
    <3>3. \A w \in Workers : pc[w] = "idle" /\ user[w] = None
      BY <3>1 DEF Alone, Quiet, FinalInv, Rested
    <3>4. \A q \in Callers : target'[q] = None
      BY <2>1, <3>1 DEF Alone, Quiet, FinalInv, Rested, Respond, Typed, TypeOK, RequestsTyped
    <3>5. renews = None
      BY <3>1 DEF Alone, Quiet, FinalInv, Rested
    <3>6. \A d \in severed' : d # None /\ status'[d] = "disconnected" /\ ~calendar[d] /\ event[d] = None
      BY <2>1, <2>2, <3>1, CalendarAssumption DEF Alone, FinalInv, Gone, Typed, TypeOK, ConnectionsTyped
    <3>7. ASSUME NEW d \in severed' PROVE Gone(d)'
      BY <3>2, <3>3, <3>4, <3>5, <3>6, <3>7 DEF Gone, Syncing
    <3>8. Rested'
      BY <3>2, <3>4 DEF FinalInv, Rested
    <3>9. QED
      BY <3>1, <3>7, <3>8 DEF FinalInv
  <2>5. QED
    BY <2>3, <2>4
<1>6. QED
  BY <1>1, <1>2, <1>3, <1>4, <1>5

LEMMA NextFinal == Typed /\ FinalInv /\ [Next]_vars => FinalInv'
<1> SUFFICES ASSUME Typed, FinalInv, [Next]_vars PROVE FinalInv'
  OBVIOUS
<1>1. CASE UNCHANGED vars
  <2>1. UNCHANGED <<pc, job, user, severed, intact, status, calendar, event, step, target, renewal, renews>>
    BY <1>1 DEF vars, loopVars, jobVars, signVars, connVars, eventVars, requestVars, renewalVars
  <2>2. \A c \in severed : renews # c /\ \A r \in Callers : target[r] # c
    BY DEF FinalInv, Gone
  <2>3. ASSUME NEW r \in intact PROVE Alone(r)'
    BY <2>1 DEF FinalInv, Alone, Quiet
  <2>4. QED
    BY <2>1, <2>2, <2>3, LoopsStayFinal DEF FinalInv, Rested
<1>2. CASE EventChanges \/ WatchAges \/ Push \/ DeleteMeeting \/ \E w \in Workers : LoseLease(w)
  BY <1>2, OutsideFinal
<1>3. ASSUME NEW w \in Workers, Take(w) \/ Step(w) \/ HandlerFails(w) \/ Crash(w)
      PROVE  FinalInv'
  BY <1>3, LoopFinal, JobFinal
<1>4. ASSUME NEW r \in Callers, Request(r)
      PROVE  FinalInv'
  BY <1>4, ConnectFinal, DisconnectFinal DEF Request
<1>5. CASE Renew \/ RenewalStops
  BY <1>5, RenewalFinal
<1>6. QED
  BY <1>1, <1>2, <1>3, <1>4, <1>5 DEF Next

\* A disconnect during which nobody else was at work and no call failed is complete when it is answered,
\* and stays so, whatever jobs are queued and whatever Google pushes (routes/calendar.rs:201-289).
THEOREM DisconnectStays == Spec => []DisconnectIsFinal
<1>1. Init => FinalInv
  BY DEF Init, FinalInv, Rested
<1>2. Spec => [](Typed /\ FinalInv)
  BY <1>1, InitTyped, NextTyped, NextFinal, PTL DEF Spec
<1>3. FinalInv => DisconnectIsFinal
  BY DEF FinalInv, Gone, DisconnectIsFinal
<1>4. QED
  BY <1>2, <1>3, PTL

-------------------------------------------------------------------------------
(* The cursor claims no more than was stored. *)

\* The values the event has had from revision n on.
From(n) == {log[i] : i \in {j \in 1..Len(log) : j >= n}}

\* What is stored of the event is what Google had at revision n or later.
Good(c, n) ==
    IF event[c] = None THEN From(n) \cap Meetingless # {}
    ELSE event[c] \in From(n) /\ (n = Len(log) => link[c] # None)

Honest(c) ==
    /\ cursor[c] \in {-1} \cup 1..Len(log)
    /\ c \notin missed => \A n \in 1..Len(log) : cursor[c] = n => Good(c, n)

Syncs(w, c) == pc[w] \in Syncing /\ Owner(w) = c

\* What a job that is the only one to sync connection c has got to.
Progress(w, c) ==
    /\ pc[w] = "list" => since[w] = cursor[c]
    /\ pc[w] # "list" => seen[w] \in 1..Len(log) /\ cursor[c] <= seen[w]
    /\ pc[w] \in {"update", "meeting", "shift", "get", "link", "cancel", "drop"} => holds[w]
    /\ pc[w] = "insert" => event[c] = None
    /\ pc[w] \in {"meeting", "shift", "get", "link"} => event[c] = log[seen[w]]
    /\ pc[w] = "shift" => link[c] # None
    /\ pc[w] \in {"look", "cancel", "drop"} => log[seen[w]] = "cancelled"
    /\ pc[w] = "cancel" => found[w] = link[c]
    /\ pc[w] = "drop" => link[c] = None \/ meeting[link[c]] = "cancelled"
    /\ pc[w] = "cursor" /\ c \notin missed => \A n \in 1..Len(log) : seen[w] = n => Good(c, n)

Sound(c) ==
    /\ Honest(c)
    /\ \A v, w \in Workers : Syncs(v, c) /\ Syncs(w, c) => v = w
    /\ \A w \in Workers : Syncs(w, c) => Progress(w, c)

CursorInv ==
    /\ \A c \in Conns \ disturbed : Sound(c)
    /\ \A r \in Callers : step[r] = "calendars" => target[r] \in disturbed

\* Only newer values are added to what Google has had.
LogKept ==
    /\ Len(log) <= Len(log') /\ Len(log) \in Nat /\ Len(log') \in Nat
    /\ \A i \in 1..Len(log) : log'[i] = log[i]

LEMMA LogRests ==
  ASSUME Typed, UNCHANGED log
  PROVE  LogKept
  BY DEF Typed, TypeOK, GoogleTyped, LogKept

LEMMA LogAppended ==
  ASSUME Typed, NEW v, log' = Append(log, v)
  PROVE  LogKept
  BY DEF Typed, TypeOK, GoogleTyped, LogKept

LEMMA GoodRests ==
  ASSUME LogKept, NEW c, NEW n \in 1..Len(log), Good(c, n), event'[c] = event[c], link'[c] = link[c]
  PROVE  Good(c, n)'
<1>1. \A v \in From(n) : v \in From(n)'
  BY DEF From, LogKept
<1>2. n = Len(log') => n = Len(log)
  BY DEF LogKept
<1>3. QED
  BY <1>1, <1>2 DEF Good

LEMMA HonestRests ==
  ASSUME LogKept, NEW c, Honest(c), cursor'[c] = cursor[c], event'[c] = event[c], link'[c] = link[c],
         c \in missed => c \in missed'
  PROVE  Honest(c)'
<1>1. cursor'[c] \in {-1} \cup 1..Len(log')
  BY DEF Honest, LogKept
<1>2. ASSUME c \notin missed', NEW n \in 1..Len(log'), cursor'[c] = n PROVE Good(c, n)'
  <2>1. n \in 1..Len(log) /\ Good(c, n)
    BY <1>2 DEF Honest
  <2>2. QED
    BY <2>1, GoodRests
<1>3. QED
  BY <1>1, <1>2 DEF Honest

\* The locals of loop w.
LocalsRest(w) ==
    /\ pc'[w] = pc[w] /\ job'[w] = job[w]
    /\ since'[w] = since[w] /\ seen'[w] = seen[w] /\ holds'[w] = holds[w] /\ found'[w] = found[w]

CancelledStays == \A t \in Times : meeting[t] = "cancelled" => meeting'[t] = "cancelled"

LEMMA ProgressRests ==
  ASSUME Typed, LogKept, CancelledStays, NEW c \in Conns, NEW w \in Workers, LocalsRest(w), Progress(w, c),
         cursor'[c] = cursor[c], event'[c] = event[c], link'[c] = link[c], c \in missed => c \in missed'
  PROVE  Progress(w, c)'
<1>1. link[c] \in Times \cup {None}
  BY DEF Typed, TypeOK, EventsTyped
<1>2. seen[w] \in 1..Len(log) => seen[w] \in 1..Len(log') /\ log'[seen[w]] = log[seen[w]]
  BY DEF LogKept
<1>3. ASSUME pc[w] = "cursor", c \notin missed', NEW n \in 1..Len(log'), seen'[w] = n PROVE Good(c, n)'
  <2>1. n \in 1..Len(log) /\ Good(c, n)
    BY <1>3 DEF Progress, LocalsRest
  <2>2. QED
    BY <2>1, GoodRests
<1>4. QED
  BY <1>1, <1>2, <1>3 DEF Progress, LocalsRest, CancelledStays

\* A step that is no step of a sync of connection c.
LEMMA SoundRests ==
  ASSUME Typed, LogKept, CancelledStays, NEW c \in Conns, Sound(c),
         cursor'[c] = cursor[c], event'[c] = event[c], link'[c] = link[c], c \in missed => c \in missed',
         \A w \in Workers : Syncs(w, c)' => Syncs(w, c) /\ LocalsRest(w)
  PROVE  Sound(c)'
<1>1. Honest(c)'
  BY HonestRests DEF Sound
<1>2. ASSUME NEW w \in Workers, Syncs(w, c)' PROVE Progress(w, c)'
  BY <1>2, ProgressRests DEF Sound
<1>3. QED
  BY <1>1, <1>2 DEF Sound

\* A step of no sync, or one that ends a sync.
LEMMA ElsewhereSound ==
  ASSUME Typed, CursorInv, LogKept, CancelledStays, disturbed \subseteq disturbed',
         \A c \in Conns \ disturbed' : cursor'[c] = cursor[c] /\ event'[c] = event[c] /\ link'[c] = link[c],
         \A c \in Conns \ disturbed' : c \in missed => c \in missed',
         \A c \in Conns \ disturbed' : \A w \in Workers : Syncs(w, c)' => Syncs(w, c) /\ LocalsRest(w),
         \A r \in Callers : step'[r] = "calendars" => target'[r] \in disturbed'
  PROVE  CursorInv'
<1>1. ASSUME NEW c \in Conns \ disturbed' PROVE Sound(c)'
  <2>1. Sound(c)
    BY DEF CursorInv
  <2>2. QED
    BY <2>1, SoundRests
<1>2. QED
  BY <1>1 DEF CursorInv

\* The locals of the other loops, as a sync of loop w sees them.
OthersAt(w) ==
    \A v \in Workers \ {w} :
        /\ pc'[v] = pc[v] /\ job'[v] = job[v]
        /\ since'[v] = since[v] /\ seen'[v] = seen[v] /\ found'[v] = found[v]
        /\ Owner(v) # Owner(w) => holds'[v] = holds[v]

\* A step of a sync: what it does to its own connection is all there is to show.
LEMMA SyncSound ==
  ASSUME Typed, CursorInv, NEW w \in Workers, pc[w] \in Syncing, OthersAt(w), job'[w] = job[w],
         UNCHANGED <<log, step, target>>, CancelledStays, disturbed \subseteq disturbed',
         \A c \in Conns \ {Owner(w)} : cursor'[c] = cursor[c] /\ event'[c] = event[c] /\ link'[c] = link[c],
         \A c \in Conns \ {Owner(w)} : c \in missed => c \in missed',
         \A c \in Conns \ disturbed' :
             c = Owner(w) /\ Honest(c) /\ Progress(w, c) => Honest(c)' /\ (pc'[w] \in Syncing => Progress(w, c)')
  PROVE  CursorInv'
<1>1. ASSUME NEW c \in Conns \ disturbed', c # Owner(w) PROVE Sound(c)'
  <2>1. Sound(c)
    BY DEF CursorInv
  <2>2. \A v \in Workers : Syncs(v, c)' => Syncs(v, c) /\ LocalsRest(v)
    BY <1>1 DEF Syncs, Owner, OthersAt, LocalsRest
  <2>3. QED
    BY <1>1, <2>1, <2>2, LogRests, SoundRests
<1>2. ASSUME NEW c \in Conns \ disturbed', c = Owner(w) PROVE Sound(c)'
  <2>1. Sound(c) /\ Syncs(w, c)
    BY <1>2 DEF CursorInv, Syncs
  <2>2. Honest(c)' /\ (pc'[w] \in Syncing => Progress(w, c)')
    BY <1>2, <2>1 DEF Sound
  <2>3. \A v \in Workers : Syncs(v, c)' => v = w
    BY <2>1 DEF Sound, Syncs, Owner, OthersAt
  <2>4. QED
    BY <2>2, <2>3 DEF Sound, Syncs
<1>3. QED
  BY <1>1, <1>2 DEF CursorInv

LEMMA GoOthers ==
  ASSUME Typed, NEW w \in Workers, NEW s, Go(w, s),
         \A v \in Workers \ {w} : since'[v] = since[v] /\ seen'[v] = seen[v] /\ found'[v] = found[v],
         \A v \in Workers \ {w} : Owner(v) # Owner(w) => holds'[v] = holds[v]
  PROVE  OthersAt(w) /\ pc'[w] = s /\ job'[w] = job[w]
  BY DEF Typed, TypeOK, JobsTyped, Go, GoTo, OthersAt

\* A job that ends, well or not.
LEMMA EndSound ==
  ASSUME Typed, CursorInv, NEW w \in Workers, Idle(w), CancelledStays, disturbed \subseteq disturbed',
         UNCHANGED <<log, cursor, event, link, missed, step, target>>
  PROVE  CursorInv'
<1>1. ASSUME NEW v \in Workers \ {w} PROVE LocalsRest(v)
  BY DEF Typed, TypeOK, JobsTyped, Idle, Leave, LocalsRest
<1>2. pc'[w] \notin Syncing
  BY DEF Typed, TypeOK, JobsTyped, Idle, Leave, Syncing
<1>3. \A c \in Conns : \A v \in Workers : Syncs(v, c)' => Syncs(v, c) /\ LocalsRest(v)
  BY <1>1, <1>2 DEF Syncs, Owner, LocalsRest
<1>4. QED
  BY <1>3, LogRests, ElsewhereSound DEF CursorInv

LEMMA ReadSound ==
  ASSUME Typed, CursorInv, NEW w \in Workers, ReadCalendar(w)
  PROVE  CursorInv'
<1>1. UNCHANGED <<log, cursor, event, link, missed, meeting, step, target, seen, holds, found, job>> /\ pc[w] = "read"
  BY DEF ReadCalendar, googleVars, connVars, eventVars, meetingVars, requestVars, Go
<1>2. CASE ~calendar[Owner(w)]
  <2>1. Go(w, "done") /\ UNCHANGED <<since, disturbed>>
    BY <1>2 DEF ReadCalendar
  <2>2. \A v \in Workers : pc'[v] \in Syncing => LocalsRest(v)
    BY <1>1, <2>1 DEF Go, GoTo, LocalsRest, Syncing, Typed, TypeOK, JobsTyped
  <2>3. \A c \in Conns : \A v \in Workers : Syncs(v, c)' => Syncs(v, c) /\ LocalsRest(v)
    BY <2>2 DEF Syncs, Owner, LocalsRest
  <2>4. QED
    BY <1>1, <2>1, <2>3, LogRests, ElsewhereSound DEF CursorInv, CancelledStays
<1>3. CASE calendar[Owner(w)]
  <2>1. /\ Go(w, "list") /\ since' = [since EXCEPT ![w] = cursor[Owner(w)]]
        /\ Disturb(Owner(w), \E v \in Workers : pc[v] \in Syncing /\ Owner(v) = Owner(w))
    BY <1>3 DEF ReadCalendar
  <2>2. disturbed \subseteq disturbed'
    BY <2>1 DEF Disturb
  <2>3. \A v \in Workers \ {w} : LocalsRest(v)
    BY <1>1, <2>1 DEF Go, GoTo, LocalsRest, Typed, TypeOK, JobsTyped
  <2>4. pc'[w] = "list" /\ since'[w] = cursor[Owner(w)]
    BY <2>1 DEF Go, GoTo, Typed, TypeOK, JobsTyped
  <2>5. ASSUME NEW c \in Conns \ disturbed', c # Owner(w) PROVE Sound(c)'
    <3>1. Sound(c)
      BY <2>2 DEF CursorInv
    <3>2. \A v \in Workers : Syncs(v, c)' => Syncs(v, c) /\ LocalsRest(v)
      BY <1>1, <2>3, <2>5 DEF Syncs, Owner, LocalsRest
    <3>3. QED
      BY <1>1, <3>1, <3>2, LogRests, SoundRests DEF CancelledStays
  <2>6. ASSUME NEW c \in Conns \ disturbed', c = Owner(w) PROVE Sound(c)'
    <3>1. Sound(c)
      BY <2>2 DEF CursorInv
    <3>2. Honest(c)'
      BY <1>1, <3>1, LogRests, HonestRests DEF Sound
    <3>3. \A v \in Workers : ~Syncs(v, c)
      BY <2>1, <2>6 DEF Disturb, Syncs
    <3>4. \A v \in Workers : Syncs(v, c)' => v = w
      BY <2>3, <3>3 DEF Syncs, Owner, LocalsRest
    <3>5. Progress(w, c)'
      BY <1>1, <2>4, <2>6 DEF Progress
    <3>6. QED
      BY <3>2, <3>4, <3>5 DEF Sound
  <2>7. QED
    BY <1>1, <2>2, <2>5, <2>6 DEF CursorInv
<1>4. QED
  BY <1>2, <1>3

\* What a listing does with the newest value of the event.
LEMMA ListingShape ==
  ASSUME Typed, NEW w \in Workers, pc[w] = "list", ListChanges(w) \/ ListAll(w), NEW v, v = log[Len(log)]
  PROVE  \/ pc'[w] = "find"
         \/ pc'[w] = "look" /\ v = "cancelled"
         \/ pc'[w] = "cursor" /\ PassOver(w, v)
         \/ pc'[w] = "cursor" /\ UNCHANGED missed /\ since[w] >= 0 /\ Len(log) <= since[w]
<1>1. \A s : Go(w, s) => pc'[w] = s
  BY DEF Go, GoTo, Typed, TypeOK, JobsTyped
<1>2. CASE Handle(w, v)
  BY <1>1, <1>2 DEF Handle, PassOver
<1>3. CASE PassOver(w, v)
  BY <1>1, <1>3 DEF PassOver
<1>4. CASE Len(log) <= since[w] /\ Go(w, "cursor") /\ UNCHANGED missed /\ since[w] >= 0
  BY <1>1, <1>4
<1>5. QED
  BY <1>2, <1>3, <1>4 DEF ListChanges, ListAll

LEMMA ListSound ==
  ASSUME Typed, CursorInv, NEW w \in Workers, ListEvents(w)
  PROVE  CursorInv'
<1>1. UNCHANGED <<log, cursor, event, link, meeting, step, target, disturbed>> /\ pc[w] = "list" /\ pc[w] \in Syncing
  BY DEF ListEvents, googleVars, connVars, meetingVars, requestVars, signVars, Syncing
<1>2. CASE user[w] \notin granted
  BY <1>1, <1>2, EndSound DEF ListEvents, Fail, CancelledStays
<1>3. CASE user[w] \in granted
  <2>1. /\ ListChanges(w) \/ ListAll(w)
        /\ seen' = [seen EXCEPT ![w] = Len(log)] /\ since' = [since EXCEPT ![w] = -1] /\ UNCHANGED <<holds, found>>
    BY <1>3 DEF ListEvents
  <2>2. PICK s \in {"find", "look", "cursor"} : Go(w, s)
    BY <1>1, <2>1, ListingTyped
  <2>3. seen'[w] = Len(log) /\ Len(log) \in 1..Len(log)
        /\ \A v \in Workers \ {w} : since'[v] = since[v] /\ seen'[v] = seen[v]
    BY <2>1 DEF Typed, TypeOK, JobsTyped, GoogleTyped
  <2>4. OthersAt(w) /\ pc'[w] = s /\ job'[w] = job[w]
    BY <2>1, <2>2, <2>3, GoOthers
  <2>5. missed \subseteq missed'
    BY <2>1 DEF ListChanges, ListAll, Handle, PassOver
  <2>6. PICK v : v = log[Len(log)]
    OBVIOUS
  <2>7. \/ pc'[w] = "find"
        \/ pc'[w] = "look" /\ v = "cancelled"
        \/ pc'[w] = "cursor" /\ PassOver(w, v)
        \/ pc'[w] = "cursor" /\ UNCHANGED missed /\ since[w] >= 0 /\ Len(log) <= since[w]
    BY <1>1, <2>1, <2>6, ListingShape
  <2>8. ASSUME NEW c \in Conns \ disturbed', c = Owner(w), Honest(c), Progress(w, c)
        PROVE  Honest(c)' /\ Progress(w, c)'
    <3>1. Honest(c)' /\ cursor[c] <= Len(log)
      BY <1>1, <2>3, <2>5, <2>8, LogRests, HonestRests DEF Honest
    <3>2. since[w] = cursor[c]
      BY <1>1, <2>8 DEF Progress
    <3>3. pc'[w] = "look" => log[Len(log)] = "cancelled"
      BY <2>6, <2>7
    <3>4. ASSUME pc'[w] = "cursor", c \notin missed' PROVE Good(c, Len(log))
      <4>1. log[Len(log)] \in From(Len(log)) /\ v \in Values
        <5>1. Len(log) \in {j \in 1..Len(log) : j >= Len(log)}
          BY <2>3
        <5>2. log[Len(log)] \in From(Len(log))
          BY <5>1 DEF From
        <5>3. GoogleTyped
          BY DEF Typed, TypeOK
        <5>4. QED
          BY <2>6, <5>2, <5>3, NewestRevision
      <4>2. CASE PassOver(w, v)
        <5>1. Agrees(c, v)
          BY <2>8, <3>4, <4>2 DEF PassOver
        <5>2. CASE v \in Times
          BY <2>6, <4>1, <5>1, <5>2, CalendarAssumption DEF Agrees, Good
        <5>3. CASE v \in Meetingless
          BY <2>6, <4>1, <5>1, <5>3, CalendarAssumption DEF Agrees, Good
        <5>4. QED
          BY <4>1, <5>2, <5>3 DEF Values
      <4>3. CASE UNCHANGED missed /\ since[w] >= 0 /\ Len(log) <= since[w]
        <5>1. cursor[c] = Len(log)
          BY <2>3, <3>1, <3>2, <2>8, <4>3 DEF Honest
        <5>2. QED
          BY <2>3, <2>8, <3>4, <4>3, <5>1 DEF Honest
      <4>4. QED
        BY <2>7, <3>4, <4>2, <4>3
    <3>5. ASSUME pc'[w] = "cursor", c \notin missed', NEW n \in 1..Len(log'), seen'[w] = n PROVE Good(c, n)'
      BY <1>1, <2>3, <3>4, <3>5, LogRests, GoodRests
    <3>6. pc'[w] \in {"find", "look", "cursor"}
      BY <2>7
    <3>7. QED
      BY <1>1, <2>3, <3>1, <3>3, <3>5, <3>6 DEF Progress
  <2>9. QED
    BY <1>1, <2>4, <2>5, <2>8, SyncSound DEF CancelledStays
<1>4. QED
  BY <1>2, <1>3

\* The reads of an item's rows.
LEMMA FindSound ==
  ASSUME Typed, CursorInv, NEW w \in Workers, FindEvent(w) \/ LookEvent(w) \/ FindMeeting(w)
  PROVE  CursorInv'
<1>1. UNCHANGED <<log, cursor, event, link, meeting, step, target, since, seen, disturbed>> /\ pc[w] \in Syncing
  BY DEF FindEvent, LookEvent, FindMeeting, googleVars, connVars, eventVars, meetingVars, requestVars, signVars, jobVars, Syncing
<1>2. PICK s \in {"update", "insert", "cursor", "cancel", "drop", "get", "shift"} : Go(w, s)
  BY DEF FindEvent, LookEvent, FindMeeting
<1>3. \A v \in Workers \ {w} : holds'[v] = holds[v] /\ found'[v] = found[v]
  BY DEF FindEvent, LookEvent, FindMeeting, jobVars, Typed, TypeOK, JobsTyped
<1>4. OthersAt(w) /\ pc'[w] = s /\ job'[w] = job[w]
  BY <1>1, <1>2, <1>3, GoOthers
<1>5. missed' \in {missed, missed \ {Owner(w)}}
  BY DEF FindEvent, LookEvent, FindMeeting, Applied, eventVars
<1>6. ASSUME NEW c \in Conns, c = Owner(w), Honest(c), Progress(w, c)
      PROVE  Honest(c)' /\ Progress(w, c)'
  <2>1. seen[w] \in 1..Len(log) /\ cursor[c] <= seen[w] /\ cursor[c] \in {-1} \cup 1..Len(log)
    BY <1>1, <1>6 DEF Progress, Honest, FindEvent, LookEvent, FindMeeting
  <2>2. CASE FindEvent(w)
    <3>1. holds'[w] = (event[c] # None) /\ s = (IF event[c] # None THEN "update" ELSE "insert") /\ UNCHANGED missed
      BY <1>4, <1>6, <2>2 DEF FindEvent, eventVars, Go, GoTo, Typed, TypeOK, JobsTyped
    <3>2. Honest(c)'
      BY <1>1, <1>6, <3>1, LogRests, HonestRests
    <3>3. QED
      BY <1>1, <1>4, <2>1, <3>1, <3>2 DEF Progress
  <2>3. CASE LookEvent(w)
    <3>1. /\ holds'[w] = (event[c] # None) /\ found'[w] = link[c]
          /\ s = (IF event[c] = None THEN "cursor" ELSE IF link[c] # None THEN "cancel" ELSE "drop")
          /\ log[seen[w]] = "cancelled" /\ (event[c] # None => UNCHANGED missed)
      BY <1>4, <1>6, <2>3 DEF LookEvent, Go, GoTo, Typed, TypeOK, JobsTyped, Progress
    <3>2. ASSUME event[c] = None, NEW n \in 1..Len(log'), n <= seen[w] PROVE Good(c, n)'
      BY <1>1, <2>1, <3>1, <3>2 DEF Good, From, Meetingless
    <3>3. Honest(c)'
      <4>1. CASE event[c] = None
        <5>1. cursor'[c] \in {-1} \cup 1..Len(log') /\ cursor'[c] <= seen[w]
          BY <1>1, <2>1
        <5>2. \A n \in 1..Len(log') : cursor'[c] = n => Good(c, n)'
          BY <3>2, <4>1, <5>1
        <5>3. QED
          BY <5>1, <5>2 DEF Honest
      <4>2. CASE event[c] # None
        BY <1>1, <1>6, <3>1, <4>2, LogRests, HonestRests
      <4>3. QED
        BY <4>1, <4>2
    <3>4. s = "cursor" => event[c] = None
      BY <3>1
    <3>5. ASSUME s = "cursor", NEW n \in 1..Len(log'), seen'[w] = n PROVE Good(c, n)'
      BY <1>1, <2>1, <3>2, <3>4, <3>5
    <3>6. s \in {"cursor", "cancel", "drop"} /\ (s # "cursor" => holds'[w]) /\ (s = "cancel" => found'[w] = link[c])
          /\ (s = "drop" => link[c] = None)
      BY <3>1
    <3>7. QED
      BY <1>1, <1>4, <2>1, <3>1, <3>3, <3>5, <3>6 DEF Progress
  <2>4. CASE FindMeeting(w)
    <3>1. /\ UNCHANGED <<holds, found>> /\ holds[w] /\ event[c] = log[seen[w]] /\ event[c] # None
          /\ s \in {"get", "shift", "cursor"} /\ (s # "get" => link[c] # None)
          /\ (link[c] = None => UNCHANGED missed)
      BY <1>2, <1>4, <1>6, <2>4
         DEF FindMeeting, Go, GoTo, Typed, TypeOK, JobsTyped, Progress, jobVars, HoldsRow
    <3>2. ASSUME link[c] # None, NEW n \in 1..Len(log'), n <= seen[w] PROVE Good(c, n)'
      BY <1>1, <2>1, <3>1, <3>2 DEF Good, From
    <3>3. Honest(c)'
      <4>1. CASE link[c] # None
        BY <1>1, <2>1, <3>2, <4>1 DEF Honest
      <4>2. CASE link[c] = None
        BY <1>1, <1>6, <3>1, <4>2, LogRests, HonestRests
      <4>3. QED
        BY <4>1, <4>2
    <3>4. QED
      BY <1>1, <1>4, <2>1, <3>1, <3>2, <3>3 DEF Progress
  <2>5. QED
    BY <2>2, <2>3, <2>4
<1>7. \A c \in Conns \ {Owner(w)} : c \in missed => c \in missed'
  BY <1>5
<1>8. QED
  BY <1>1, <1>4, <1>6, <1>7, SyncSound DEF CancelledStays

\* A sync stores a value of the event that is as new as its cursor.
LEMMA StoredHonest ==
  ASSUME Typed, UNCHANGED <<log, cursor, link, missed>>, NEW c \in Conns, NEW i \in 1..Len(log), Honest(c), cursor[c] <= i,
         log[i] \in Times, event'[c] = log[i],
         c \notin missed /\ cursor[c] = Len(log) => link[c] # None
  PROVE  Honest(c)'
<1>1. ASSUME c \notin missed, NEW n \in 1..Len(log), cursor[c] = n PROVE Good(c, n)'
  BY <1>1, CalendarAssumption DEF Good, From
<1>2. QED
  BY <1>1 DEF Honest

LEMMA WriteSound ==
  ASSUME Typed, CursorInv, NEW w \in Workers, UpdateEvent(w) \/ InsertEvent(w)
  PROVE  CursorInv'
<1>1. UNCHANGED <<log, cursor, link, missed, meeting, step, target, disturbed>>
  BY DEF UpdateEvent, InsertEvent, googleVars, connVars, meetingVars, requestVars, signVars
<1>2. pc[w] \in {"update", "insert"} /\ pc[w] \in Syncing /\ pc[w] \in ItemSteps
  BY DEF UpdateEvent, InsertEvent, Syncing, ItemSteps
<1>3. seen[w] \in 1..Len(log) /\ log[seen[w]] \in Times /\ Item(w) = log[seen[w]] /\ Owner(w) \in Conns
  BY <1>2, AtItem DEF Item
<1>4. CASE InsertEvent(w) /\ ~(calendar[Owner(w)] /\ event[Owner(w)] = None)
  BY <1>1, <1>4, EndSound DEF InsertEvent, Fail, CancelledStays
<1>5. CASE UpdateEvent(w) \/ (InsertEvent(w) /\ calendar[Owner(w)] /\ event[Owner(w)] = None)
  <2>1. Go(w, "meeting") /\ UNCHANGED <<since, seen, found>> /\ \A v \in Workers \ {w} : holds'[v] = holds[v]
    BY <1>5 DEF UpdateEvent, InsertEvent, jobVars, Typed, TypeOK, JobsTyped
  <2>2. OthersAt(w) /\ pc'[w] = "meeting" /\ job'[w] = job[w]
    BY <2>1, GoOthers
  <2>3. \A c \in Conns \ {Owner(w)} : event'[c] = event[c]
    BY <1>5 DEF UpdateEvent, InsertEvent, Typed, TypeOK, EventsTyped
  <2>4. ASSUME NEW c \in Conns, c = Owner(w), Honest(c), Progress(w, c)
        PROVE  Honest(c)' /\ Progress(w, c)'
    <3>1. holds'[w] /\ event'[c] = log[seen[w]] /\ cursor[c] <= seen[w]
      BY <1>2, <1>3, <1>5, <2>4 DEF UpdateEvent, InsertEvent, Progress, jobVars, Typed, TypeOK, JobsTyped, EventsTyped
    <3>2. ASSUME c \notin missed, cursor[c] = Len(log) PROVE link[c] # None
      <4>1. seen[w] = Len(log) /\ Good(c, Len(log))
        BY <1>3, <2>4, <3>1, <3>2 DEF Honest, Typed, TypeOK, GoogleTyped
      <4>2. event[c] # None
        <5>1. CASE pc[w] = "update"
          BY <2>4, <5>1 DEF Progress, Typed, HoldsRow
        <5>2. CASE pc[w] = "insert" /\ event[c] = None
          <6>1. \E i \in 1..Len(log) : i >= Len(log) /\ log[i] \in Meetingless
            BY <4>1, <5>2 DEF Good, From
          <6>2. log[Len(log)] \in Meetingless
            BY <6>1
          <6>3. QED
            BY <1>3, <4>1, <6>2, CalendarAssumption
        <5>3. QED
          BY <1>2, <5>1, <5>2
      <4>3. QED
        BY <4>1, <4>2 DEF Good
    <3>3. Honest(c)'
      BY <1>1, <1>3, <2>4, <3>1, <3>2, StoredHonest
    <3>4. QED
      BY <1>1, <1>3, <2>1, <2>2, <3>1, <3>3 DEF Progress
  <2>5. QED
    BY <1>1, <1>2, <2>2, <2>3, <2>4, SyncSound DEF CancelledStays
<1>6. QED
  BY <1>4, <1>5

\* The writes of the meeting of an item.
LEMMA MeetSound ==
  ASSUME Typed, CursorInv, NEW w \in Workers, ShiftMeeting(w) \/ GetMeeting(w) \/ LinkEvent(w)
  PROVE  CursorInv'
<1>1. UNCHANGED <<log, cursor, event, step, target, disturbed>>
  BY DEF ShiftMeeting, GetMeeting, LinkEvent, googleVars, connVars, eventVars, requestVars, signVars
<1>2. pc[w] \in {"shift", "get", "link"} /\ pc[w] \in Syncing /\ pc[w] \in ItemSteps
  BY DEF ShiftMeeting, GetMeeting, LinkEvent, Syncing, ItemSteps
<1>3. seen[w] \in 1..Len(log) /\ log[seen[w]] \in Times /\ Item(w) = log[seen[w]] /\ Owner(w) \in Conns
  BY <1>2, AtItem DEF Item
<1>4. CancelledStays
  BY <1>3 DEF ShiftMeeting, GetMeeting, LinkEvent, CancelledStays, meetingVars, Typed, TypeOK, EventsTyped
<1>5. missed' \in {missed, missed \ {Owner(w)}} /\ (~LinkEvent(w) => UNCHANGED missed)
  BY DEF ShiftMeeting, GetMeeting, LinkEvent, Applied, eventVars
<1>6. CASE GetMeeting(w) /\ Item(w) \in deleted
  BY <1>1, <1>4, <1>6, EndSound DEF GetMeeting, Fail, eventVars
<1>7. CASE ~(GetMeeting(w) /\ Item(w) \in deleted)
  <2>1. PICK s \in {"cursor", "link"} : Go(w, s) /\ (GetMeeting(w) => s = "link")
    BY <1>7 DEF ShiftMeeting, GetMeeting, LinkEvent
  <2>2. UNCHANGED <<since, seen, holds, found>>
    BY <1>7 DEF ShiftMeeting, GetMeeting, LinkEvent, jobVars
  <2>3. OthersAt(w) /\ pc'[w] = s /\ job'[w] = job[w]
    BY <2>1, <2>2, GoOthers
  <2>4. \A c \in Conns \ {Owner(w)} : link'[c] = link[c]
    BY DEF ShiftMeeting, GetMeeting, LinkEvent, eventVars, Typed, TypeOK, EventsTyped
  <2>5. ASSUME NEW c \in Conns, c = Owner(w), Honest(c), Progress(w, c)
        PROVE  Honest(c)' /\ Progress(w, c)'
    <3>1. holds[w] /\ event[c] = log[seen[w]] /\ event[c] # None /\ cursor[c] <= seen[w]
      BY <1>2, <2>5 DEF Progress, Typed, HoldsRow
    <3>2. (s = "cursor" => link'[c] # None) /\ (link[c] # None => link'[c] # None)
      <4>1. CASE ShiftMeeting(w)
        BY <2>5, <4>1 DEF ShiftMeeting, eventVars, Progress
      <4>2. CASE GetMeeting(w)
        BY <2>1, <4>2 DEF GetMeeting, eventVars
      <4>3. CASE LinkEvent(w)
        <5>1. link'[c] = Item(w)
          BY <2>5, <3>1, <4>3 DEF LinkEvent, Typed, TypeOK, EventsTyped
        <5>2. QED
          BY <1>3, <5>1, CalendarAssumption
      <4>4. QED
        BY <4>1, <4>2, <4>3
    <3>3. ASSUME link'[c] # None, NEW n \in 1..Len(log), n <= seen[w] PROVE Good(c, n)'
      BY <1>1, <1>3, <3>1, <3>3 DEF Good, From
    <3>4. Honest(c)'
      <4>1. CASE LinkEvent(w)
        <5>1. link'[c] # None /\ cursor[c] \in {-1} \cup 1..Len(log)
          BY <2>1, <2>3, <2>5, <3>2, <4>1 DEF Honest, LinkEvent, Go, GoTo, Typed, TypeOK, JobsTyped
        <5>2. QED
          BY <1>1, <1>3, <3>1, <3>3, <5>1 DEF Honest
      <4>2. CASE ~LinkEvent(w)
        <5>1. UNCHANGED <<link, missed>>
          BY <1>5, <4>2 DEF ShiftMeeting, GetMeeting, eventVars
        <5>2. QED
          BY <1>1, <2>5, <5>1, LogRests, HonestRests
      <4>3. QED
        BY <4>1, <4>2
    <3>5. QED
      BY <1>1, <1>3, <2>2, <2>3, <2>5, <3>1, <3>2, <3>3, <3>4 DEF Progress
  <2>6. \A c \in Conns \ {Owner(w)} : c \in missed => c \in missed'
    BY <1>5
  <2>7. QED
    BY <1>1, <1>2, <1>4, <2>3, <2>4, <2>5, <2>6, SyncSound
<1>8. QED
  BY <1>6, <1>7

\* A cancelled event: its meeting is cancelled, then it goes.
LEMMA CancelSound ==
  ASSUME Typed, CursorInv, NEW w \in Workers, CancelMeeting(w)
  PROVE  CursorInv'
<1>1. UNCHANGED <<log, cursor, event, link, missed, step, target, disturbed, since, seen, holds, found>> /\ pc[w] = "cancel"
      /\ pc[w] \in Syncing
  BY DEF CancelMeeting, googleVars, connVars, eventVars, requestVars, signVars, jobVars, Syncing
<1>2. CancelledStays /\ found[w] \in Times /\ meeting'[found[w]] = "cancelled"
  BY <1>1 DEF CancelMeeting, CancelledStays, Typed, TypeOK, EventsTyped, JobsTyped, ItemFits
<1>3. OthersAt(w) /\ pc'[w] = "drop" /\ job'[w] = job[w]
  BY <1>1, GoOthers DEF CancelMeeting
<1>4. ASSUME NEW c \in Conns, c = Owner(w), Honest(c), Progress(w, c)
      PROVE  Honest(c)' /\ Progress(w, c)'
  <2>1. Honest(c)'
    BY <1>1, <1>4, LogRests, HonestRests
  <2>2. QED
    BY <1>1, <1>2, <1>3, <1>4, <2>1 DEF Progress
<1>5. QED
  BY <1>1, <1>2, <1>3, <1>4, SyncSound

LEMMA DropSound ==
  ASSUME Typed, CursorInv, NEW w \in Workers, DropEvent(w)
  PROVE  CursorInv'
<1>1. UNCHANGED <<log, cursor, meeting, step, target, disturbed, since, seen, found>> /\ pc[w] = "drop"
      /\ pc[w] \in Syncing /\ Owner(w) \in Conns
  BY BusyOwner DEF DropEvent, googleVars, connVars, meetingVars, requestVars, signVars, Syncing, Typed, TypeOK
<1>2. \A v \in Workers : Owner(v) # Owner(w) => holds'[v] = holds[v]
  BY DEF DropEvent, RemoveEvent, Typed, TypeOK, JobsTyped
<1>3. OthersAt(w) /\ pc'[w] = "cursor" /\ job'[w] = job[w]
  BY <1>1, <1>2, GoOthers DEF DropEvent
<1>4. \A c \in Conns \ {Owner(w)} : event'[c] = event[c] /\ link'[c] = link[c] /\ (c \in missed => c \in missed')
  BY DEF DropEvent, RemoveEvent, eventVars, Typed, TypeOK, EventsTyped
<1>5. ASSUME NEW c \in Conns, c = Owner(w), Honest(c), Progress(w, c)
      PROVE  Honest(c)' /\ Progress(w, c)'
  <2>1. holds[w] /\ log[seen[w]] = "cancelled" /\ seen[w] \in 1..Len(log) /\ cursor[c] <= seen[w]
    BY <1>1, <1>5 DEF Progress
  <2>2. event'[c] = None
    BY <1>1, <1>5, <2>1 DEF DropEvent, RemoveEvent, Typed, TypeOK, EventsTyped
  <2>3. ASSUME NEW n \in 1..Len(log), n <= seen[w] PROVE Good(c, n)'
    BY <1>1, <2>1, <2>2, <2>3 DEF Good, From, Meetingless
  <2>4. Honest(c)'
    BY <1>1, <1>5, <2>1, <2>3 DEF Honest
  <2>5. QED
    BY <1>1, <1>3, <2>1, <2>3, <2>4 DEF Progress
<1>6. QED
  BY <1>1, <1>3, <1>4, <1>5, SyncSound DEF CancelledStays

LEMMA CursorSound ==
  ASSUME Typed, CursorInv, NEW w \in Workers, StoreCursor(w)
  PROVE  CursorInv'
<1>1. UNCHANGED <<log, event, link, missed, meeting, step, target, disturbed, since>> /\ pc[w] = "cursor"
      /\ pc[w] \in Syncing /\ Owner(w) \in Conns
  BY BusyOwner
     DEF StoreCursor, googleVars, eventVars, meetingVars, requestVars, signVars, Syncing, Typed, TypeOK
<1>2. \A v \in Workers \ {w} : seen'[v] = seen[v] /\ holds'[v] = holds[v] /\ found'[v] = found[v]
  BY DEF StoreCursor, Typed, TypeOK, JobsTyped
<1>3. OthersAt(w) /\ pc'[w] = "done" /\ job'[w] = job[w]
  BY <1>1, <1>2, GoOthers DEF StoreCursor
<1>4. \A c \in Conns \ {Owner(w)} : cursor'[c] = cursor[c]
  BY DEF StoreCursor, Typed, TypeOK, ConnectionsTyped
<1>5. ASSUME NEW c \in Conns, c = Owner(w), Honest(c), Progress(w, c)
      PROVE  Honest(c)'
  <2>1. seen[w] \in 1..Len(log) /\ (c \notin missed => Good(c, seen[w]))
    BY <1>1, <1>5 DEF Progress
  <2>2. cursor'[c] \in {cursor[c], seen[w]}
    BY <1>5 DEF StoreCursor, Typed, TypeOK, ConnectionsTyped
  <2>3. ASSUME c \notin missed, NEW n \in 1..Len(log'), cursor'[c] = n PROVE Good(c, n)'
    <3>1. n \in 1..Len(log) /\ Good(c, n)
      BY <1>1, <1>5, <2>1, <2>2, <2>3 DEF Honest
    <3>2. QED
      BY <1>1, <3>1, LogRests, GoodRests
  <2>4. QED
    BY <1>1, <1>5, <2>1, <2>2, <2>3 DEF Honest
<1>6. "done" \notin Syncing
  BY DEF Syncing
<1>7. QED
  BY <1>1, <1>3, <1>4, <1>5, <1>6, SyncSound DEF CancelledStays

\* The steps of a job before and after its sync.
LEMMA AroundSound ==
  ASSUME Typed, CursorInv, NEW w \in Workers,
         OpenConnection(w) \/ RefreshToken(w) \/ RejectToken(w) \/ Complete(w)
  PROVE  CursorInv'
<1>1. UNCHANGED <<log, cursor, event, link, missed, meeting, step, target, disturbed>>
  BY DEF OpenConnection, RefreshToken, RejectToken, Complete, googleVars, connVars, eventVars, meetingVars, requestVars, signVars
<1>2. CASE Idle(w)
  BY <1>1, <1>2, EndSound DEF CancelledStays
<1>3. CASE ~Idle(w)
  <2>1. UNCHANGED <<since, seen, holds, found>> /\ \E s \in {"refresh", "read", "reject", "done"} : Go(w, s)
    BY <1>3 DEF OpenConnection, RefreshToken, RejectToken, Complete, Fail, jobVars
  <2>2. PICK s \in {"refresh", "read", "reject", "done"} : Go(w, s)
    BY <2>1
  <2>3. \A v \in Workers : pc'[v] \in Syncing => LocalsRest(v)
    BY <2>1, <2>2 DEF Go, GoTo, LocalsRest, Syncing, Typed, TypeOK, JobsTyped
  <2>4. \A c \in Conns : \A v \in Workers : Syncs(v, c)' => Syncs(v, c) /\ LocalsRest(v)
    BY <2>3 DEF Syncs, Owner, LocalsRest
  <2>5. QED
    BY <1>1, <2>4, LogRests, ElsewhereSound DEF CursorInv, CancelledStays
<1>4. QED
  BY <1>2, <1>3

\* A step that stores nothing of the event.
LEMMA StillSound ==
  ASSUME Typed, CursorInv, LogKept,
         UNCHANGED <<cursor, event, link, missed, meeting, disturbed, pc, job, since, seen, holds, found>>,
         \A r \in Callers : step'[r] = "calendars" => target'[r] \in disturbed
  PROVE  CursorInv'
<1>1. \A c \in Conns : \A w \in Workers : Syncs(w, c)' => Syncs(w, c) /\ LocalsRest(w)
  BY DEF Syncs, Owner, LocalsRest
<1>2. QED
  BY <1>1, ElsewhereSound DEF CancelledStays

LEMMA OutsideSound ==
  ASSUME Typed, CursorInv, EventChanges \/ WatchAges \/ Push \/ DeleteMeeting \/ \E w \in Workers : LoseLease(w)
  PROVE  CursorInv'
<1>1. UNCHANGED <<cursor, event, link, missed, meeting, disturbed, pc, job, since, seen, holds, found, step, target>>
  BY DEF EventChanges, WatchAges, Push, DeleteMeeting, LoseLease, connVars, eventVars, meetingVars, signVars, loopVars, jobVars,
         requestVars
<1>2. LogKept
  <2>1. CASE EventChanges
    BY <2>1, LogAppended DEF EventChanges
  <2>2. CASE ~EventChanges
    BY <2>2, LogRests DEF WatchAges, Push, DeleteMeeting, LoseLease, googleVars
  <2>3. QED
    BY <2>1, <2>2
<1>3. QED
  BY <1>1, <1>2, StillSound DEF CursorInv

LEMMA LoopSound ==
  ASSUME Typed, CursorInv, NEW w \in Workers, Take(w) \/ HandlerFails(w) \/ Crash(w)
  PROVE  CursorInv'
<1>1. UNCHANGED <<log, cursor, event, link, missed, meeting, step, target, disturbed>>
  BY DEF Take, HandlerFails, Crash, googleVars, connVars, eventVars, meetingVars, requestVars, signVars
<1>2. CASE Take(w)
  <2>1. /\ pc[w] = "idle" /\ pc' = [pc EXCEPT ![w] = "open"] /\ \E k \in Keys : job' = [job EXCEPT ![w] = k]
        /\ UNCHANGED <<since, seen, holds, found>>
    BY <1>2 DEF Take, LeaseRow, jobVars
  <2>2. \A v \in Workers : pc'[v] \in Syncing => LocalsRest(v)
    BY <2>1 DEF LocalsRest, Syncing, Typed, TypeOK, JobsTyped
  <2>3. \A c \in Conns : \A v \in Workers : Syncs(v, c)' => Syncs(v, c) /\ LocalsRest(v)
    BY <2>2 DEF Syncs, Owner, LocalsRest
  <2>4. QED
    BY <1>1, <2>3, LogRests, ElsewhereSound DEF CursorInv, CancelledStays
<1>3. CASE HandlerFails(w) \/ Crash(w)
  BY <1>1, <1>3, EndSound DEF HandlerFails, Crash, Fail, CancelledStays
<1>4. QED
  BY <1>2, <1>3

LEMMA RenewalSound ==
  ASSUME Typed, CursorInv, Renew \/ RenewalStops
  PROVE  CursorInv'
<1>1. UNCHANGED <<log, cursor, event, link, missed, meeting, disturbed, pc, job, since, seen, holds, found, step, target>>
  BY DEF Renew, FindExpiring, RenewToken, RejectRenewal, StopOldWatch, NewWatch, RecordNewWatch, RenewalStops,
         renewing, connVars, eventVars, meetingVars, jobVars, requestVars, loopVars
<1>2. QED
  BY <1>1, LogRests, StillSound DEF CursorInv

\* A request but for the two that delete rows.
LEMMA RequestSound ==
  ASSUME Typed, CursorInv, NEW r \in Callers, Request(r), ~DeleteEvents(r), ~DeleteCalendars(r)
  PROVE  CursorInv'
<1>1. UNCHANGED <<log, cursor, event, link, missed, meeting, disturbed, pc, job, since, seen, holds, found>>
  BY DEF Request, StoreConnection, StoreCalendar, EnqueueInitial, RegisterWatch, RecordWatch, PostDisconnect, StopWatches,
         RevokeToken, CloseConnection, PostResync, CheckToken, Reopen, Refuse, EnqueueResync, RequestStops,
         others, googleVars, connVars, eventVars, meetingVars, jobVars, loopVars, signVars
<1>2. PICK s \in Stages \ {"calendars"} : step' = [step EXCEPT ![r] = s]
  BY DEF Request, StoreConnection, StoreCalendar, EnqueueInitial, RegisterWatch, RecordWatch, PostDisconnect, StopWatches,
         RevokeToken, CloseConnection, PostResync, CheckToken, Reopen, Refuse, EnqueueResync, RequestStops,
         Begin, GoOn, Respond, Stages
<1>3. \A q \in Callers \ {r} : target'[q] = target[q]
  BY DEF Request, StoreConnection, StoreCalendar, EnqueueInitial, RegisterWatch, RecordWatch, PostDisconnect, StopWatches,
         RevokeToken, CloseConnection, PostResync, CheckToken, Reopen, Refuse, EnqueueResync, RequestStops,
         Begin, GoOn, Respond, Typed, TypeOK, RequestsTyped
<1>4. \A q \in Callers : step'[q] = "calendars" => target'[q] \in disturbed
  BY <1>2, <1>3 DEF CursorInv, Typed, TypeOK, RequestsTyped
<1>5. QED
  BY <1>1, <1>4, LogRests, StillSound

LEMMA DeletionSound ==
  ASSUME Typed, CursorInv, NEW r \in Callers, DeleteEvents(r) \/ DeleteCalendars(r)
  PROVE  CursorInv'
<1>1. target[r] \in Conns /\ UNCHANGED <<log, meeting, pc, job, since, seen, found, target>>
  BY TargetTyped DEF DeleteEvents, DeleteCalendars, others, googleVars, meetingVars, loopVars, jobVars, GoOn
<1>2. CASE DeleteEvents(r)
  <2>1. disturbed' = disturbed \cup {target[r]} /\ UNCHANGED cursor /\ GoOn(r, "calendars")
    BY <1>2 DEF DeleteEvents, Disturb, connVars
  <2>2. ASSUME NEW c \in Conns \ disturbed'
        PROVE  /\ event'[c] = event[c] /\ link'[c] = link[c] /\ (c \in missed => c \in missed')
               /\ \A w \in Workers : Syncs(w, c)' => Syncs(w, c) /\ LocalsRest(w)
    <3>1. CASE RemoveEvent(target[r])
      <4>1. event'[c] = event[c] /\ link'[c] = link[c] /\ (c \in missed => c \in missed')
        BY <1>1, <2>1, <3>1 DEF RemoveEvent, Typed, TypeOK, EventsTyped
      <4>2. \A w \in Workers : Owner(w) = c => holds'[w] = holds[w]
        BY <1>1, <2>1, <2>2, <3>1 DEF RemoveEvent, Typed, TypeOK, JobsTyped
      <4>3. QED
        BY <1>1, <4>1, <4>2 DEF Syncs, Owner, LocalsRest
    <3>2. CASE UNCHANGED <<eventVars, holds>>
      BY <1>1, <3>2 DEF Syncs, Owner, LocalsRest, eventVars
    <3>3. QED
      BY <1>2, <3>1, <3>2 DEF DeleteEvents, Attempt
  <2>3. \A q \in Callers : step'[q] = "calendars" => target'[q] \in disturbed'
    BY <1>1, <2>1 DEF GoOn, CursorInv, Typed, TypeOK, RequestsTyped
  <2>4. QED
    BY <1>1, <2>1, <2>2, <2>3, LogRests, ElsewhereSound DEF CancelledStays
<1>3. CASE DeleteCalendars(r)
  <2>1. step[r] = "calendars" /\ target[r] \in disturbed /\ UNCHANGED <<event, link, missed, holds, disturbed>> /\ GoOn(r, "close")
    BY <1>3 DEF DeleteCalendars, CursorInv, others, eventVars, jobVars
  <2>2. \A c \in Conns \ disturbed : cursor'[c] = cursor[c]
    BY <1>1, <1>3, <2>1 DEF DeleteCalendars, Attempt, RemoveCalendar, Typed, TypeOK, ConnectionsTyped
  <2>3. \A q \in Callers : step'[q] = "calendars" => target'[q] \in disturbed
    BY <1>1, <2>1 DEF GoOn, CursorInv, Typed, TypeOK, RequestsTyped
  <2>4. \A c \in Conns : \A w \in Workers : Syncs(w, c)' => Syncs(w, c) /\ LocalsRest(w)
    BY <1>1, <2>1 DEF Syncs, Owner, LocalsRest
  <2>5. QED
    BY <1>1, <2>1, <2>2, <2>3, <2>4, LogRests, ElsewhereSound DEF CancelledStays
<1>4. QED
  BY <1>2, <1>3

LEMMA NextSound == Typed /\ CursorInv /\ [Next]_vars => CursorInv'
<1> SUFFICES ASSUME Typed, CursorInv, [Next]_vars PROVE CursorInv'
  OBVIOUS
<1>1. CASE UNCHANGED vars
  <2>1. UNCHANGED <<log, cursor, event, link, missed, meeting, disturbed, pc, job, since, seen, holds, found, step, target>>
    BY <1>1 DEF vars, googleVars, loopVars, jobVars, signVars, connVars, eventVars, meetingVars, requestVars
  <2>2. QED
    BY <2>1, LogRests, StillSound DEF CursorInv
<1>2. CASE EventChanges \/ WatchAges \/ Push \/ DeleteMeeting \/ \E w \in Workers : LoseLease(w)
  BY <1>2, OutsideSound
<1>3. ASSUME NEW w \in Workers, Take(w) \/ Step(w) \/ HandlerFails(w) \/ Crash(w)
      PROVE  CursorInv'
  BY <1>3, LoopSound, AroundSound, ReadSound, ListSound, FindSound, WriteSound, MeetSound, CancelSound, DropSound, CursorSound
     DEF Step
<1>4. ASSUME NEW r \in Callers, Request(r)
      PROVE  CursorInv'
  BY <1>4, RequestSound, DeletionSound
<1>5. CASE Renew \/ RenewalStops
  BY <1>5, RenewalSound
<1>6. QED
  BY <1>1, <1>2, <1>3, <1>4, <1>5 DEF Next

LEMMA InitSound == Init => CursorInv
<1> SUFFICES ASSUME Init PROVE CursorInv
  OBVIOUS
<1>1. ASSUME NEW c \in Conns PROVE Sound(c)
  BY DEF Init, Sound, Honest, Syncs, Syncing
<1>2. QED
  BY <1>1 DEF Init, CursorInv

\* A cursor never claims more of the event than was stored, though the values of a listing are stored one
\* by one, jobs fail or die anywhere, a listing may bring no token and Google goes on; for connections no
\* two syncs meet on, whose events were not deleted by a disconnect, and whose row no listing has missed
\* since an item was last applied in full (google_calendar/sync.rs:41-77, 111-115, 126-212).
THEOREM CursorStaysHonest == Spec => []CursorHonest
<1>1. Spec => [](Typed /\ CursorInv)
  BY InitTyped, NextTyped, InitSound, NextSound, PTL DEF Spec
<1>2. CursorInv => CursorHonest
  BY DEF CursorInv, Sound, Honest, Good, From, CursorHonest, Since
<1>3. QED
  BY <1>1, <1>2, PTL

\* A sync of such a connection forgets an event only after its meeting has been cancelled
\* (google_calendar/sync.rs:92-109).
THEOREM CancelComesFirst == Spec => CancelBeforeDrop
<1>1. Spec => [](Typed /\ CursorInv)
  BY InitTyped, NextTyped, InitSound, NextSound, PTL DEF Spec
<1>2. ASSUME Typed, CursorInv, [Next]_vars, NEW c \in Conns \ disturbed', event[c] # None, event'[c] = None
      PROVE  link[c] = None \/ meeting[link[c]] = "cancelled"
  <2>1. PICK w \in Workers : UpdateEvent(w) \/ InsertEvent(w) \/ DropEvent(w)
    <3>1. ASSUME NEW r \in Callers, DeleteEvents(r) PROVE FALSE
      <4>1. target[r] \in Conns /\ disturbed' = disturbed \cup {target[r]}
        BY <1>2, <3>1, TargetTyped DEF DeleteEvents, Disturb
      <4>2. event'[c] = event[c]
        BY <1>2, <3>1, <4>1 DEF DeleteEvents, Attempt, RemoveEvent, eventVars, Typed, TypeOK, EventsTyped
      <4>3. QED
        BY <1>2, <4>2
    <3>2. QED
      BY <1>2, <3>1
         DEF Next, Step, Request, Renew, vars, EventChanges, WatchAges, Push, DeleteMeeting, Take, HandlerFails, Crash, LoseLease,
             OpenConnection, RefreshToken, RejectToken, ReadCalendar, ListEvents, FindEvent, FindMeeting, ShiftMeeting,
             GetMeeting, LinkEvent, LookEvent, CancelMeeting, StoreCursor, Complete,
             StoreConnection, StoreCalendar, EnqueueInitial, RegisterWatch, RecordWatch, PostDisconnect, StopWatches,
             RevokeToken, DeleteCalendars, CloseConnection, PostResync, CheckToken, Reopen, Refuse, EnqueueResync,
             RequestStops, FindExpiring, RenewToken, RejectRenewal, StopOldWatch, NewWatch, RecordNewWatch, RenewalStops,
             others, renewing, eventVars
  <2>2. CASE UpdateEvent(w) \/ InsertEvent(w)
    <3>1. pc[w] \in ItemSteps
      BY <2>2 DEF UpdateEvent, InsertEvent, ItemSteps
    <3>2. Item(w) # None /\ Owner(w) \in Conns
      BY <1>2, <3>1, AtItem, CalendarAssumption
    <3>3. event'[c] # None
      BY <1>2, <2>2, <3>2 DEF UpdateEvent, InsertEvent, Typed, TypeOK, EventsTyped
    <3>4. QED
      BY <1>2, <3>3
  <2>3. CASE DropEvent(w)
    <3>1. pc[w] = "drop" /\ pc[w] \in Syncing /\ Owner(w) \in Conns /\ UNCHANGED disturbed
      BY <1>2, <2>3, BusyOwner DEF DropEvent, Syncing, Typed, TypeOK, signVars
    <3>2. Owner(w) = c
      BY <1>2, <2>3, <3>1 DEF DropEvent, RemoveEvent, eventVars, Typed, TypeOK, EventsTyped
    <3>3. Progress(w, c)
      BY <1>2, <3>1, <3>2 DEF CursorInv, Sound, Syncs
    <3>4. QED
      BY <3>1, <3>3 DEF Progress
  <2>4. QED
    BY <2>1, <2>2, <2>3
<1>3. Typed /\ CursorInv /\ [Next]_vars =>
          [\A c \in Conns \ disturbed' : event[c] # None /\ event'[c] = None =>
              link[c] = None \/ meeting[link[c]] = "cancelled"]_vars
  BY <1>2
<1>4. QED
  BY <1>1, <1>3, PTL DEF Spec, CancelBeforeDrop

===============================================================================
