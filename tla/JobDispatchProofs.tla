------------------------- MODULE JobDispatchProofs -------------------------
(***************************************************************************)
(* The safety of JobDispatch for any finite set of jobs and dispatchers,   *)
(* any limits and any number of faults: the outbox rows keep their table   *)
(* constraint, what is acknowledged was delivered, settled rows stay, and  *)
(* every overlap has a lease that ran out or a process that died behind    *)
(* it.                                                                     *)
(***************************************************************************)
EXTENDS JobDispatch, FiniteSetTheorems, TLAPS

\* An event row is inserted once: with its job, or with the job's cancellation.
CreatedInv ==
    \A j \in Jobs :
        /\ job[j] = "none" => event[<<j, "start">>].state = "none"
        /\ job[j] # "cancelled" => event[<<j, "cancel">>].state = "none"

\* A dispatcher that is delivering knows what, and what it has done of it.
DeliveryInv(d) ==
    LET me == dispatcher[d] IN
    /\ me.pc \in {"checkpoint", "temporal", "publish", "commit"} => me.at \in Events
    /\ me.pc \in {"temporal", "publish", "commit"} /\ me.at[2] = "cancel" =>
          checkpoint[me.at[1]] = "cancelled"
    /\ me.pc \in {"publish", "commit"} /\ me.at[2] = "start" => execution[me.at[1]] # "none"

\* The row lock of publish_job_outbox: nobody takes the row of a dispatcher that
\* is committing, lease or no lease.
LockInv(d) ==
    dispatcher[d].pc = "commit" =>
        /\ event[dispatcher[d].at].state = "queued"
        /\ event[dispatcher[d].at].owner = d

\* A delivery beyond the first was paid for; the next one is, once the lease has run out.
PaidInv ==
    \A e \in Events :
        /\ event[e].deliveries <= 1 + faults
        /\ event[e].state = "queued" /\ ~ event[e].live => event[e].deliveries <= faults

\* The dispatchers in the scope without its lease: each has a fault behind it.
Orphans == {d \in Dispatchers : dispatcher[d].pc # "idle" /\ ~ (lease.live /\ lease.owner = d)}

OrphanInv == Cardinality(Orphans) <= faults

DispatchInv ==
    /\ CreatedInv
    /\ AcknowledgedWasDelivered
    /\ \A d \in Dispatchers : DeliveryInv(d) /\ LockInv(d)

-----------------------------------------------------------------------------
(***************************************************************************)
(* Rows.                                                                   *)
(***************************************************************************)
\* An event is a job and a kind.
LEMMA EventFacts ==
    ASSUME NEW e \in Events
    PROVE  e[1] \in Jobs /\ e[2] \in {"start", "cancel"} /\ e = <<e[1], e[2]>>
BY DEF Events

\* There are finitely many events.
LEMMA EventsFinite == IsFiniteSet(Events) /\ Cardinality(Events) \in Nat
<1>1. IsFiniteSet({"start", "cancel"})
  <2>1. IsFiniteSet({"cancel"})
    BY FS_Singleton
  <2>2. {"start", "cancel"} = {"cancel"} \cup {"start"}
    OBVIOUS
  <2> QED  BY <2>1, <2>2, FS_AddElement
<1>2. IsFiniteSet(Events)
  BY <1>1, JobDispatchAssumption, FS_Product DEF Events
<1> QED  BY <1>2, FS_CardinalityType

\* A row that does not exist yet has an identity left for it.
LEMMA KnownBound ==
    ASSUME NEW e \in Events, event[e].state = "none"
    PROVE  Known + 1 \in 0..Cardinality(Events)
<1> DEFINE K == {f \in Events : event[f].state # "none"}
<1>1. K \subseteq Events \ {e}
  OBVIOUS
<1>2. IsFiniteSet(Events \ {e}) /\ Cardinality(Events \ {e}) = Cardinality(Events) - 1
  BY EventsFinite, FS_RemoveElement
<1>3. IsFiniteSet(K) /\ Cardinality(K) <= Cardinality(Events \ {e})
  BY <1>1, <1>2, FS_Subset
<1>4. Cardinality(K) \in Nat
  BY <1>3, FS_CardinalityType
<1>5. Known = Cardinality(K)
  BY DEF Known
<1> HIDE DEF K
<1> QED  BY <1>2, <1>3, <1>4, <1>5, EventsFinite

\* A new row keeps the table constraint.
LEMMA NewRow ==
    ASSUME NEW n \in 0..Cardinality(Events)
    PROVE  LET row == [NoEvent EXCEPT !.state = "queued", !.id = n]
           IN  row \in Row /\ DeliveryShape(row)
<1> DEFINE row == [NoEvent EXCEPT !.state = "queued", !.id = n]
<1>1. NoEvent \in Row
  BY EventsFinite, JobDispatchAssumption DEF NoEvent, Row
<1>2. row \in Row
  BY <1>1 DEF Row
<1>3. row.state = "queued" /\ row.deliveries = 0 /\ row.owner = NoOwner /\ row.live = FALSE
  BY DEF NoEvent
<1> HIDE DEF row
<1>4. DeliveryShape(row)
  BY <1>3 DEF DeliveryShape
<1> QED  BY <1>2, <1>4 DEF row

\* A lease on a row with deliveries left keeps the table constraint.
LEMMA LeasedRow ==
    ASSUME NEW row \in Row, DeliveryShape(row), NEW d \in Dispatchers,
           row.state = "queued", row.deliveries < MaxDeliveries
    PROVE  Leased(d, row) \in Row /\ DeliveryShape(Leased(d, row))
<1> DEFINE n == IF row.owner = d /\ row.live THEN row.deliveries ELSE row.deliveries + 1
           new == [row EXCEPT !.owner = d, !.live = TRUE, !.deliveries = n]
<1>1. Leased(d, row) = new
  BY DEF Leased
<1>2. n \in 0..MaxDeliveries /\ n > 0
  BY JobDispatchAssumption DEF DeliveryShape, Row
<1> HIDE DEF n
<1>3. new \in Row
  BY <1>2 DEF Row
<1>4. new.state = "queued" /\ new.deliveries = n /\ new.owner = d
  BY DEF Row
<1> HIDE DEF new
<1>5. DeliveryShape(new)
  BY <1>2, <1>4, JobDispatchAssumption DEF DeliveryShape
<1> QED  BY <1>1, <1>3, <1>5

\* So does dead-lettering a row at its limit.
LEMMA DeadRow ==
    ASSUME NEW row \in Row, row.deliveries = MaxDeliveries
    PROVE  DeadLettered(row) \in Row /\ DeliveryShape(DeadLettered(row))
BY JobDispatchAssumption DEF DeadLettered, Row, DeliveryShape

\* A row as CommitPublished leaves it.
PublishedRow(row) == [row EXCEPT !.state = "published", !.owner = NoOwner, !.live = FALSE]

\* So does publishing a row that somebody owns.
LEMMA PublishRow ==
    ASSUME NEW row \in Row, DeliveryShape(row), row.state = "queued", row.owner # NoOwner
    PROVE  PublishedRow(row) \in Row /\ DeliveryShape(PublishedRow(row))
BY JobDispatchAssumption DEF PublishedRow, Row, DeliveryShape

\* And so does the end of a lease.
LEMMA ExpiredRow ==
    ASSUME NEW row \in Row, DeliveryShape(row)
    PROVE  LET expired == [row EXCEPT !.live = FALSE]
           IN  expired \in Row /\ DeliveryShape(expired)
BY JobDispatchAssumption DEF Row, DeliveryShape

-----------------------------------------------------------------------------
(***************************************************************************)
(* The five ways a step can touch the rows.                                *)
(***************************************************************************)
Inserted ==
    \E e \in Events :
        /\ event[e].state = "none"
        /\ event' = [event EXCEPT ![e] = [NoEvent EXCEPT !.state = "queued", !.id = Known + 1]]

\* A row in the hands of a dispatcher that is committing is passed over.
Claimed ==
    \E d \in Dispatchers :
        /\ event' \in [Events -> {event'[e] : e \in Events}]
        /\ \A e \in Events :
              \/ event'[e] = event[e]
              \/ /\ event[e].state = "queued"
                 /\ event[e].deliveries = MaxDeliveries
                 /\ ~ Publishing(e)
                 /\ event'[e] = DeadLettered(event[e])
              \/ /\ event[e].state = "queued"
                 /\ event[e].deliveries < MaxDeliveries
                 /\ event[e].owner = d \/ ~ event[e].live
                 /\ ~ Publishing(e)
                 /\ event'[e] = Leased(d, event[e])

Committed ==
    \E d \in Dispatchers :
        /\ CommitPublished(d)
        /\ dispatcher[d].at \in Events
        /\ event[dispatcher[d].at].state = "queued"
        /\ event[dispatcher[d].at].owner = d
        /\ event' = [event EXCEPT ![dispatcher[d].at] = PublishedRow(@)]

Expired ==
    \E e \in Events :
        /\ event[e].live
        /\ faults' = faults + 1
        /\ event' = [event EXCEPT ![e] = [@ EXCEPT !.live = FALSE]]

\* A claim is a Claimed step.
LEMMA ClaimRows ==
    ASSUME NEW d \in Dispatchers, ClaimEvents(d)
    PROVE  Claimed
<1>1. event' = [e \in Events |-> IF e \in Exhausted THEN DeadLettered(event[e])
                                 ELSE IF e \in Batch(d) THEN Leased(d, event[e])
                                 ELSE event[e]]
  BY DEF ClaimEvents
<1>2. \A e \in Exhausted : /\ event[e].state = "queued" /\ event[e].deliveries = MaxDeliveries
                           /\ ~ Publishing(e)
  BY DEF Exhausted
<1>3. \A e \in Batch(d) : /\ event[e].state = "queued" /\ event[e].deliveries < MaxDeliveries
                          /\ event[e].owner = d \/ ~ event[e].live
                          /\ ~ Publishing(e)
  BY DEF Batch, Candidates, Undelivered
<1>4. event' \in [Events -> {event'[e] : e \in Events}]
  BY <1>1
<1> QED  BY <1>1, <1>2, <1>3, <1>4 DEF Claimed

\* The five ways.
LEMMA RowStep ==
    ASSUME TypeOK, DispatchInv, [Next]_vars
    PROVE  UNCHANGED event \/ Inserted \/ Claimed \/ Committed \/ Expired
<1>1. CASE UNCHANGED vars
  BY <1>1 DEF vars
<1>2. ASSUME NEW j \in Jobs, CreateJob(j) \/ CancelJob(j) PROVE Inserted
  <2>1. CASE CreateJob(j)
    <3>1. <<j, "start">> \in Events /\ event[<<j, "start">>].state = "none"
      BY <2>1 DEF CreateJob, DispatchInv, CreatedInv, Events
    <3> QED  BY <2>1, <3>1 DEF CreateJob, Enqueue, Inserted
  <2>2. CASE CancelJob(j)
    <3>1. <<j, "cancel">> \in Events /\ event[<<j, "cancel">>].state = "none"
      BY <2>2 DEF CancelJob, DispatchInv, CreatedInv, Events
    <3> QED  BY <2>2, <3>1 DEF CancelJob, Enqueue, Inserted
  <2> QED  BY <1>2, <2>1, <2>2
<1>3. ASSUME NEW j \in Jobs, Progress(j) \/ Finish(j) PROVE UNCHANGED event
  BY <1>3 DEF Progress, Finish
<1>4. ASSUME NEW d \in Dispatchers, CommitPublished(d) PROVE Committed
  <2>1. /\ dispatcher[d].at \in Events
        /\ event[dispatcher[d].at].state = "queued" /\ event[dispatcher[d].at].owner = d
    BY <1>4 DEF CommitPublished, DispatchInv, DeliveryInv, LockInv
  <2>2. event[dispatcher[d].at] \in Row
    BY <2>1 DEF TypeOK
  <2>3. event' = [event EXCEPT ![dispatcher[d].at] = PublishedRow(@)]
    BY <1>4, <2>1, <2>2 DEF CommitPublished, PublishedRow, TypeOK, Row
  <2> QED  BY <1>4, <2>1, <2>3 DEF Committed
<1>5. ASSUME NEW d \in Dispatchers,
             \/ ClaimScope(d) \/ SetFlag(d) \/ \E e \in Events : NextEvent(d, e)
             \/ WriteCheckpoint(d) \/ CallTemporal(d) \/ Acknowledge(d)
             \/ BatchDone(d) \/ ReleaseScope(d) \/ Outage(d) \/ Restart(d)
      PROVE  UNCHANGED event
  BY <1>5 DEF ClaimScope, SetFlag, NextEvent, WriteCheckpoint, CallTemporal, Acknowledge, BatchDone,
              ReleaseScope, Outage, Restart
<1>6. ScopeLeaseExpires => UNCHANGED event
  BY DEF ScopeLeaseExpires
<1>7. ASSUME NEW e \in Events, EventLeaseExpires(e) PROVE Expired
  BY <1>7 DEF EventLeaseExpires, Expired, TypeOK, Row
<1> QED
  BY <1>1, <1>2, <1>3, <1>4, <1>5, <1>6, <1>7, ClaimRows DEF Next, Dispatch

\* Every row keeps its type and the table constraint.
LEMMA RowsTyped ==
    ASSUME TypeOK, DispatchInv, [Next]_vars
    PROVE  event' \in [Events -> Row] /\ \A e \in Events : DeliveryShape(event'[e])
<1>1. event \in [Events -> Row] /\ \A e \in Events : DeliveryShape(event[e])
  BY DEF TypeOK
<1>2. CASE UNCHANGED event
  BY <1>1, <1>2
<1>3. CASE Inserted
  <2>1. PICK e \in Events :
          /\ event[e].state = "none"
          /\ event' = [event EXCEPT ![e] = [NoEvent EXCEPT !.state = "queued", !.id = Known + 1]]
    BY <1>3 DEF Inserted
  <2> DEFINE row == [NoEvent EXCEPT !.state = "queued", !.id = Known + 1]
  <2>2. row \in Row /\ DeliveryShape(row)
    BY <2>1, KnownBound, NewRow
  <2>3. event' = [event EXCEPT ![e] = row]
    BY <2>1
  <2> HIDE DEF row
  <2> QED  BY <1>1, <2>2, <2>3
<1>4. CASE Claimed
  <2>1. PICK d \in Dispatchers :
        /\ event' \in [Events -> {event'[e] : e \in Events}]
        /\ \A e \in Events :
              \/ event'[e] = event[e]
              \/ /\ event[e].state = "queued"
                 /\ event[e].deliveries = MaxDeliveries
                 /\ ~ Publishing(e)
                 /\ event'[e] = DeadLettered(event[e])
              \/ /\ event[e].state = "queued"
                 /\ event[e].deliveries < MaxDeliveries
                 /\ event[e].owner = d \/ ~ event[e].live
                 /\ ~ Publishing(e)
                 /\ event'[e] = Leased(d, event[e])
    BY <1>4 DEF Claimed
  <2>2. \A e \in Events : event'[e] \in Row /\ DeliveryShape(event'[e])
    BY <1>1, <2>1, LeasedRow, DeadRow
  <2> QED  BY <2>1, <2>2
<1>5. CASE Committed
  <2>1. PICK d \in Dispatchers :
        /\ dispatcher[d].at \in Events
        /\ event[dispatcher[d].at].state = "queued"
        /\ event[dispatcher[d].at].owner = d
        /\ event' = [event EXCEPT ![dispatcher[d].at] = PublishedRow(@)]
    BY <1>5 DEF Committed
  <2> DEFINE row == PublishedRow(event[dispatcher[d].at])
  <2>2. row \in Row /\ DeliveryShape(row)
    BY <1>1, <2>1, PublishRow, JobDispatchAssumption
  <2>3. event' = [event EXCEPT ![dispatcher[d].at] = row]
    BY <2>1
  <2> HIDE DEF row
  <2> QED  BY <1>1, <2>1, <2>2, <2>3
<1>6. CASE Expired
  <2>1. PICK e \in Events : event' = [event EXCEPT ![e] = [@ EXCEPT !.live = FALSE]]
    BY <1>6 DEF Expired
  <2> DEFINE row == [event[e] EXCEPT !.live = FALSE]
  <2>2. row \in Row /\ DeliveryShape(row)
    BY <1>1, ExpiredRow
  <2>3. event' = [event EXCEPT ![e] = row]
    BY <2>1
  <2> HIDE DEF row
  <2> QED  BY <1>1, <2>2, <2>3
<1> QED  BY <1>2, <1>3, <1>4, <1>5, <1>6, RowStep

-----------------------------------------------------------------------------
(***************************************************************************)
(* The invariant.                                                          *)
(***************************************************************************)
\* The steps in which no dispatcher moves.
Elsewhere ==
    \/ UNCHANGED vars
    \/ \E j \in Jobs : CreateJob(j) \/ CancelJob(j) \/ Progress(j) \/ Finish(j)
    \/ ScopeLeaseExpires
    \/ \E e \in Events : EventLeaseExpires(e)

\* The other steps are a dispatcher's.
LEMMA Movers ==
    ASSUME [Next]_vars
    PROVE  \/ Elsewhere
           \/ \E d \in Dispatchers : Dispatch(d) \/ Outage(d) \/ Restart(d)
BY DEF Next, Elsewhere

\* A step in which no dispatcher moves leaves the dispatchers alone.
LEMMA ElsewhereStill == Elsewhere => UNCHANGED dispatcher
BY DEF Elsewhere, vars, CreateJob, CancelJob, Progress, Finish, ScopeLeaseExpires, EventLeaseExpires

\* Where a step takes the dispatcher that makes it.
LEMMA MoveStep ==
    ASSUME TypeOK, DispatchInv, NEW d \in Dispatchers, Dispatch(d) \/ Outage(d) \/ Restart(d)
    PROVE  /\ dispatcher' = [dispatcher EXCEPT ![d] = dispatcher'[d]]
           /\ dispatcher'[d] \in DispatcherRecord
           /\ DeliveryInv(d)'
           /\ LockInv(d)'
<1> DEFINE me == dispatcher[d]
           next == dispatcher'[d]
<1>t. dispatcher \in [Dispatchers -> DispatcherRecord] /\ me \in DispatcherRecord
  BY DEF TypeOK
<1>i. Idle \in DispatcherRecord /\ \A label \in DispatcherPcs : [Idle EXCEPT !.pc = label] \in DispatcherRecord
  BY DEF Idle, DispatcherRecord, DispatcherPcs
<1>j. Idle \in DispatcherRecord
  BY <1>i
<1>m. ASSUME NEW rec \in DispatcherRecord, Move(d, rec)
      PROVE  dispatcher' = [dispatcher EXCEPT ![d] = dispatcher'[d]] /\ next = rec
  BY <1>m, <1>t DEF Move
<1>f. ASSUME NEW rec \in DispatcherRecord, Move(d, rec),
             rec.pc \in {"idle", "claim", "flag", "next", "release"}
      PROVE  /\ dispatcher' = [dispatcher EXCEPT ![d] = dispatcher'[d]]
             /\ dispatcher'[d] \in DispatcherRecord
             /\ DeliveryInv(d)'
             /\ LockInv(d)'
  BY <1>f, <1>m DEF DeliveryInv, LockInv
<1>l. ASSUME LeaveScope(d)
      PROVE  /\ dispatcher' = [dispatcher EXCEPT ![d] = dispatcher'[d]]
             /\ dispatcher'[d] \in DispatcherRecord
             /\ DeliveryInv(d)'
             /\ LockInv(d)'
  <2> DEFINE rec == [Idle EXCEPT !.pc = "release"]
  <2>1. rec \in DispatcherRecord /\ rec.pc = "release" /\ Move(d, rec)
    BY <1>l, <1>i DEF Idle, DispatcherPcs, LeaveScope
  <2> HIDE DEF rec
  <2> QED  BY <2>1, <1>f
<1>1. CASE ClaimScope(d)
  <2> DEFINE rec == [Idle EXCEPT !.pc = "claim"]
  <2>1. rec \in DispatcherRecord /\ rec.pc = "claim" /\ Move(d, rec)
    BY <1>1, <1>i DEF Idle, DispatcherPcs, ClaimScope
  <2> HIDE DEF rec
  <2> QED  BY <2>1, <1>f
<1>2. CASE ClaimEvents(d)
  <2>1. CASE Batch(d) = {}
    <3> DEFINE more == \E e \in Events : Undelivered(e)
               rec == [Idle EXCEPT !.pc = "flag", !.more = more]
    <3>1. Move(d, rec)
      BY <1>2, <2>1 DEF ClaimEvents
    <3>2. more \in BOOLEAN
      OBVIOUS
    <3> HIDE DEF more
    <3>3. rec \in DispatcherRecord /\ rec.pc = "flag"
      BY <1>j, <3>2 DEF DispatcherRecord, DispatcherPcs
    <3> HIDE DEF rec
    <3> QED  BY <3>1, <3>3, <1>f
  <2>2. CASE Batch(d) # {}
    <3> DEFINE rec == [Idle EXCEPT !.pc = "next", !.batch = Batch(d)]
    <3>1. Move(d, rec)
      BY <1>2, <2>2 DEF ClaimEvents
    <3>2. Batch(d) \subseteq Events
      BY DEF Batch, Candidates
    <3>3. rec \in DispatcherRecord /\ rec.pc = "next"
      BY <1>j, <3>2 DEF DispatcherRecord, DispatcherPcs
    <3> HIDE DEF rec
    <3> QED  BY <3>1, <3>3, <1>f
  <2> QED  BY <2>1, <2>2
<1>3. CASE SetFlag(d) \/ BatchDone(d) \/ Outage(d)
  BY <1>3, <1>l DEF SetFlag, BatchDone, Outage
<1>4. CASE ReleaseScope(d) \/ Restart(d)
  <2>1. Move(d, Idle) /\ Idle.pc = "idle"
    BY <1>4 DEF ReleaseScope, Restart, Idle
  <2> QED  BY <2>1, <1>i, <1>f
<1>5. ASSUME NEW e \in Events, NextEvent(d, e)
      PROVE  /\ dispatcher' = [dispatcher EXCEPT ![d] = dispatcher'[d]]
             /\ dispatcher'[d] \in DispatcherRecord
             /\ DeliveryInv(d)'
             /\ LockInv(d)'
  <2> DEFINE rec == At(d, "checkpoint", e)
  <2>1. rec \in DispatcherRecord /\ rec.pc = "checkpoint" /\ rec.at = e
    BY <1>t DEF At, DispatcherRecord, DispatcherPcs
  <2>2. Move(d, rec)
    BY <1>5 DEF NextEvent
  <2> HIDE DEF rec
  <2>3. dispatcher' = [dispatcher EXCEPT ![d] = next] /\ next = rec
    BY <1>m, <2>1, <2>2
  <2> QED  BY <2>1, <2>3 DEF DeliveryInv, LockInv
<1>6. CASE WriteCheckpoint(d)
  <2> DEFINE rec == [me EXCEPT !.pc = "temporal"]
             j == me.at[1]
  <2>1. me.at \in Events /\ j \in Jobs
    BY <1>6, EventFacts DEF WriteCheckpoint, DispatchInv, DeliveryInv
  <2>2. CASE me.at[2] = "start" /\ ~ StartAccepted(j)
    <3>1. LeaveScope(d)
      BY <1>6, <2>2 DEF WriteCheckpoint
    <3> QED  BY <3>1, <1>l
  <2>3. CASE ~ (me.at[2] = "start" /\ ~ StartAccepted(j))
    <3>1. Move(d, rec)
      BY <1>6, <2>3 DEF WriteCheckpoint
    <3>2. rec \in DispatcherRecord /\ rec.pc = "temporal" /\ rec.at = me.at
      BY <1>t DEF DispatcherRecord, DispatcherPcs
    <3>3. me.at[2] = "cancel" => checkpoint'[j] = "cancelled"
      BY <1>6, <2>1 DEF WriteCheckpoint, TypeOK
    <3> HIDE DEF rec
    <3>4. dispatcher' = [dispatcher EXCEPT ![d] = next] /\ next = rec
      BY <1>m, <3>1, <3>2
    <3> QED  BY <2>1, <3>2, <3>3, <3>4 DEF DeliveryInv, LockInv
  <2> QED  BY <2>2, <2>3
<1>7. CASE CallTemporal(d)
  <2> DEFINE rec == [me EXCEPT !.pc = "publish"]
             j == me.at[1]
  <2>1. me.at \in Events /\ j \in Jobs /\ (me.at[2] = "cancel" => checkpoint[j] = "cancelled")
    BY <1>7, EventFacts DEF CallTemporal, DispatchInv, DeliveryInv
  <2>2. Move(d, rec) /\ UNCHANGED checkpoint
    BY <1>7 DEF CallTemporal
  <2>3. rec \in DispatcherRecord /\ rec.pc = "publish" /\ rec.at = me.at
    BY <1>t DEF DispatcherRecord, DispatcherPcs
  <2>4. me.at[2] = "start" => execution'[j] # "none"
    BY <1>7, <2>1 DEF CallTemporal, TypeOK
  <2> HIDE DEF rec
  <2>5. dispatcher' = [dispatcher EXCEPT ![d] = next] /\ next = rec
    BY <1>m, <2>2, <2>3
  <2> QED  BY <2>1, <2>2, <2>3, <2>4, <2>5 DEF DeliveryInv, LockInv
<1>8. CASE Acknowledge(d)
  <2> DEFINE more == \E f \in Events \ {me.at} : Undelivered(f)
             rec == [me EXCEPT !.pc = "commit", !.more = more]
             done == [Idle EXCEPT !.pc = "next", !.batch = me.batch]
  <2>1. CASE event[me.at].state = "queued" /\ event[me.at].owner = d /\ event[me.at].live
    <3>1. Move(d, rec) /\ UNCHANGED <<checkpoint, execution, event>> /\ me.pc = "publish"
      BY <1>8, <2>1 DEF Acknowledge
    <3>2. more \in BOOLEAN
      OBVIOUS
    <3> HIDE DEF more
    <3>3. rec \in DispatcherRecord /\ rec.pc = "commit" /\ rec.at = me.at
      BY <1>t, <3>2 DEF DispatcherRecord, DispatcherPcs
    <3> HIDE DEF rec
    <3>4. dispatcher' = [dispatcher EXCEPT ![d] = next] /\ next = rec
      BY <1>m, <3>1, <3>3
    <3>5. DeliveryInv(d)'
      BY <3>1, <3>3, <3>4 DEF DeliveryInv, DispatchInv
    <3>6. LockInv(d)'
      BY <2>1, <3>1, <3>3, <3>4 DEF LockInv
    <3> QED  BY <3>3, <3>4, <3>5, <3>6
  <2>2. CASE event[me.at].state = "published"
    <3>1. Move(d, done)
      BY <1>8, <2>2 DEF Acknowledge
    <3>2. done \in DispatcherRecord /\ done.pc = "next"
      BY <1>j, <1>t DEF DispatcherRecord, DispatcherPcs
    <3> HIDE DEF done
    <3> QED  BY <3>1, <3>2, <1>f
  <2>3. CASE /\ ~ (event[me.at].state = "queued" /\ event[me.at].owner = d /\ event[me.at].live)
             /\ event[me.at].state # "published"
    BY <1>8, <2>3, <1>l DEF Acknowledge
  <2> QED  BY <2>1, <2>2, <2>3
<1>9. CASE CommitPublished(d)
  <2> DEFINE done == [Idle EXCEPT !.pc = "next", !.batch = me.batch]
  <2>1. Move(d, done)
    BY <1>9 DEF CommitPublished
  <2>2. done \in DispatcherRecord /\ done.pc = "next"
    BY <1>j, <1>t DEF DispatcherRecord, DispatcherPcs
  <2> HIDE DEF done
  <2> QED  BY <2>1, <2>2, <1>f
<1> QED  BY <1>1, <1>2, <1>3, <1>4, <1>5, <1>6, <1>7, <1>8, <1>9 DEF Dispatch

\* A checkpoint stays cancelled and a workflow stays started.
LEMMA DoneStays ==
    ASSUME TypeOK, DispatchInv, [Next]_vars, NEW j \in Jobs
    PROVE  /\ checkpoint[j] = "cancelled" => checkpoint'[j] = "cancelled"
           /\ execution[j] # "none" => execution'[j] # "none"
<1>1. CASE Elsewhere
  BY <1>1 DEF Elsewhere, vars, CreateJob, CancelJob, Progress, Finish, ScopeLeaseExpires,
              EventLeaseExpires, TypeOK
<1>2. ASSUME NEW d \in Dispatchers, WriteCheckpoint(d)
      PROVE  (checkpoint[j] = "cancelled" => checkpoint'[j] = "cancelled") /\ UNCHANGED execution
  BY <1>2 DEF WriteCheckpoint, TypeOK
<1>3. ASSUME NEW d \in Dispatchers, CallTemporal(d)
      PROVE  (execution[j] # "none" => execution'[j] # "none") /\ UNCHANGED checkpoint
  BY <1>3 DEF CallTemporal, TypeOK
<1>4. ASSUME NEW d \in Dispatchers, Dispatch(d) \/ Outage(d) \/ Restart(d),
             ~ WriteCheckpoint(d), ~ CallTemporal(d)
      PROVE  UNCHANGED <<checkpoint, execution>>
  BY <1>4 DEF Dispatch, ClaimScope, ClaimEvents, SetFlag, NextEvent, Acknowledge, CommitPublished,
              BatchDone, ReleaseScope, Outage, Restart
<1> QED  BY <1>1, <1>2, <1>3, <1>4, Movers

\* A dispatcher that does not move keeps what it relies on.
LEMMA RestStep ==
    ASSUME TypeOK, DispatchInv, [Next]_vars, NEW d \in Dispatchers, dispatcher'[d] = dispatcher[d]
    PROVE  DeliveryInv(d)' /\ LockInv(d)'
<1> DEFINE me == dispatcher[d]
<1>1. DeliveryInv(d) /\ LockInv(d)
  BY DEF DispatchInv
<1>2. DeliveryInv(d)'
  BY <1>1, DoneStays, EventFacts DEF DeliveryInv
<1>3. ASSUME me.pc = "commit"
      PROVE  event'[me.at].state = "queued" /\ event'[me.at].owner = d
  <2>1. me.at \in Events /\ event[me.at].state = "queued" /\ event[me.at].owner = d
    BY <1>1, <1>3 DEF DeliveryInv, LockInv
  <2>2. Publishing(me.at)
    BY <1>3 DEF Publishing
  <2>3. CASE UNCHANGED event
    BY <2>1, <2>3
  <2>4. CASE Inserted
    BY <2>1, <2>4 DEF Inserted, TypeOK
  <2>5. CASE Claimed
    BY <2>1, <2>2, <2>5 DEF Claimed
  <2>6. CASE Committed
    <3>1. PICK c \in Dispatchers :
            /\ CommitPublished(c)
            /\ dispatcher[c].at \in Events
            /\ event[dispatcher[c].at].owner = c
            /\ event' = [event EXCEPT ![dispatcher[c].at] = PublishedRow(@)]
      BY <2>6 DEF Committed
    <3>2. dispatcher'[c].pc = "next"
      BY <3>1 DEF CommitPublished, Move, Idle, TypeOK
    <3>3. c # d
      BY <1>3, <3>2
    <3>4. dispatcher[c].at # me.at
      BY <2>1, <3>1, <3>3
    <3> QED  BY <2>1, <3>1, <3>4 DEF TypeOK
  <2>7. CASE Expired
    BY <2>1, <2>7 DEF Expired, TypeOK, Row
  <2> QED  BY <2>3, <2>4, <2>5, <2>6, <2>7, RowStep
<1> QED  BY <1>2, <1>3 DEF LockInv

\* So every dispatcher keeps its type and its invariant.
LEMMA DispatcherStep ==
    ASSUME TypeOK, DispatchInv, [Next]_vars
    PROVE  /\ dispatcher' \in [Dispatchers -> DispatcherRecord]
           /\ \A d \in Dispatchers : DeliveryInv(d)' /\ LockInv(d)'
<1>t. dispatcher \in [Dispatchers -> DispatcherRecord]
  BY DEF TypeOK
<1>1. CASE Elsewhere
  <2>1. dispatcher' = dispatcher
    BY <1>1, ElsewhereStill
  <2>2. \A d \in Dispatchers : dispatcher'[d] = dispatcher[d]
    BY <2>1
  <2> QED  BY <1>t, <2>1, <2>2, RestStep
<1>2. ASSUME NEW c \in Dispatchers, Dispatch(c) \/ Outage(c) \/ Restart(c)
      PROVE  /\ dispatcher' \in [Dispatchers -> DispatcherRecord]
             /\ \A d \in Dispatchers : DeliveryInv(d)' /\ LockInv(d)'
  <2>1. /\ dispatcher' = [dispatcher EXCEPT ![c] = dispatcher'[c]]
        /\ dispatcher'[c] \in DispatcherRecord /\ DeliveryInv(c)' /\ LockInv(c)'
    BY <1>2, MoveStep
  <2>2. \A d \in Dispatchers \ {c} : dispatcher'[d] = dispatcher[d]
    BY <1>t, <2>1
  <2>3. \A d \in Dispatchers \ {c} : DeliveryInv(d)' /\ LockInv(d)'
    BY <2>2, RestStep
  <2>4. dispatcher' \in [Dispatchers -> DispatcherRecord]
    BY <1>t, <2>1
  <2> QED  BY <2>1, <2>3, <2>4
<1> QED  BY <1>1, <1>2, Movers

\* The initial states have their types.
LEMMA TypeInit == Init => TypeOK /\ DispatchInv
<1> SUFFICES ASSUME Init PROVE TypeOK /\ DispatchInv
  OBVIOUS
<1>1. NoEvent \in Row /\ DeliveryShape(NoEvent)
  BY EventsFinite, JobDispatchAssumption DEF NoEvent, Row, DeliveryShape
<1>2. Idle \in DispatcherRecord /\ Idle.pc = "idle"
  BY DEF Idle, DispatcherRecord, DispatcherPcs
<1>3. NoEvent.state = "none"
  BY DEF NoEvent
<1>4. event \in [Events -> Row] /\ \A e \in Events : DeliveryShape(event[e]) /\ event[e].state = "none"
  BY <1>1, <1>3 DEF Init
<1>5. dispatcher \in [Dispatchers -> DispatcherRecord] /\ \A d \in Dispatchers : dispatcher[d].pc = "idle"
  BY <1>2 DEF Init
<1>6. TypeOK
  <2>1. /\ job \in [Jobs -> {"none", "accepted", "processing", "cancelled", "published"}]
        /\ checkpoint \in [Jobs -> {"none", "fresh", "progressed", "cancelled"}]
        /\ execution \in [Jobs -> {"none", "running", "closed"}]
    BY DEF Init
  <2>2. faults \in 0..MaxFaults
    BY JobDispatchAssumption DEF Init
  <2>3. pending \in BOOLEAN
    BY DEF Init
  <2>4. lease \in [owner : Dispatchers \cup {NoOwner}, live : BOOLEAN]
    BY DEF Init, Free
  <2> QED  BY <1>4, <1>5, <2>1, <2>2, <2>3, <2>4 DEF TypeOK
<1>7. \A j \in Jobs : event[<<j, "start">>].state = "none" /\ event[<<j, "cancel">>].state = "none"
  BY <1>4 DEF Events
<1>8. CreatedInv /\ AcknowledgedWasDelivered
  BY <1>7 DEF CreatedInv, AcknowledgedWasDelivered
<1>9. \A d \in Dispatchers : DeliveryInv(d) /\ LockInv(d)
  BY <1>5 DEF DeliveryInv, LockInv
<1> QED  BY <1>6, <1>8, <1>9 DEF DispatchInv

\* A step keeps the types.
LEMMA TypeStep ==
    ASSUME TypeOK, DispatchInv, [Next]_vars
    PROVE  TypeOK'
<1>t. /\ job \in [Jobs -> {"none", "accepted", "processing", "cancelled", "published"}]
      /\ checkpoint \in [Jobs -> {"none", "fresh", "progressed", "cancelled"}]
      /\ execution \in [Jobs -> {"none", "running", "closed"}]
  BY DEF TypeOK
<1>s. /\ pending \in BOOLEAN
      /\ lease \in [owner : Dispatchers \cup {NoOwner}, live : BOOLEAN]
      /\ faults \in 0..MaxFaults
  BY DEF TypeOK
<1>1. job' \in [Jobs -> {"none", "accepted", "processing", "cancelled", "published"}]
  <2>1. CASE Elsewhere
    <3>1. ASSUME NEW j \in Jobs, CreateJob(j) \/ CancelJob(j) \/ Finish(j)
          PROVE  job' \in [Jobs -> {"none", "accepted", "processing", "cancelled", "published"}]
      BY <1>t, <3>1 DEF CreateJob, CancelJob, Finish
    <3>2. ASSUME \/ UNCHANGED vars \/ ScopeLeaseExpires \/ \E e \in Events : EventLeaseExpires(e)
                 \/ \E j \in Jobs : Progress(j)
          PROVE  UNCHANGED job
      BY <3>2 DEF vars, Progress, ScopeLeaseExpires, EventLeaseExpires
    <3> QED  BY <1>t, <2>1, <3>1, <3>2 DEF Elsewhere
  <2>2. ASSUME NEW d \in Dispatchers, Dispatch(d) \/ Outage(d) \/ Restart(d)
        PROVE  UNCHANGED job \/ WriteCheckpoint(d)
    BY <2>2 DEF Dispatch, ClaimScope, ClaimEvents, SetFlag, NextEvent, CallTemporal, Acknowledge,
                CommitPublished, BatchDone, ReleaseScope, Outage, Restart
  <2>3. ASSUME NEW d \in Dispatchers, WriteCheckpoint(d)
        PROVE  job' \in [Jobs -> {"none", "accepted", "processing", "cancelled", "published"}]
    BY <1>t, <2>3 DEF WriteCheckpoint
  <2> QED  BY <1>t, <2>1, <2>2, <2>3, Movers
<1>2. /\ checkpoint' \in [Jobs -> {"none", "fresh", "progressed", "cancelled"}]
      /\ execution' \in [Jobs -> {"none", "running", "closed"}]
  <2>1. CASE Elsewhere
    BY <2>1 DEF Elsewhere, vars, CreateJob, CancelJob, Progress, Finish, ScopeLeaseExpires,
                EventLeaseExpires, TypeOK
  <2>2. ASSUME NEW d \in Dispatchers, Dispatch(d) \/ Outage(d) \/ Restart(d)
        PROVE  UNCHANGED <<checkpoint, execution>> \/ WriteCheckpoint(d) \/ CallTemporal(d)
    BY <2>2 DEF Dispatch, ClaimScope, ClaimEvents, SetFlag, NextEvent, Acknowledge,
                CommitPublished, BatchDone, ReleaseScope, Outage, Restart
  <2>3. ASSUME NEW d \in Dispatchers, WriteCheckpoint(d)
        PROVE  checkpoint' \in [Jobs -> {"none", "fresh", "progressed", "cancelled"}] /\ UNCHANGED execution
    BY <2>3 DEF WriteCheckpoint, TypeOK
  <2>4. ASSUME NEW d \in Dispatchers, CallTemporal(d)
        PROVE  execution' \in [Jobs -> {"none", "running", "closed"}] /\ UNCHANGED checkpoint
    BY <2>4 DEF CallTemporal, TypeOK
  <2> QED  BY <2>1, <2>2, <2>3, <2>4, Movers DEF TypeOK
<1>3. /\ pending' \in BOOLEAN
      /\ lease' \in [owner : Dispatchers \cup {NoOwner}, live : BOOLEAN]
      /\ faults' \in 0..MaxFaults
  <2>1. CASE Elsewhere
    <3>1. \A j \in Jobs : CreateJob(j) \/ CancelJob(j) => pending' = TRUE /\ UNCHANGED <<lease, faults>>
      BY DEF CreateJob, CancelJob, Enqueue
    <3>2. \A j \in Jobs : Progress(j) \/ Finish(j) => UNCHANGED <<pending, lease, faults>>
      BY DEF Progress, Finish
    <3>3. UNCHANGED vars => UNCHANGED <<pending, lease, faults>>
      BY DEF vars
    <3>4. ScopeLeaseExpires => /\ UNCHANGED pending
                               /\ lease' \in [owner : Dispatchers \cup {NoOwner}, live : BOOLEAN]
                               /\ faults' \in 0..MaxFaults
      <4>1. [lease EXCEPT !.live = FALSE] \in [owner : Dispatchers \cup {NoOwner}, live : BOOLEAN]
        BY <1>s
      <4> QED  BY <1>s, <4>1, JobDispatchAssumption DEF ScopeLeaseExpires
    <3>5. \A e \in Events : EventLeaseExpires(e) => UNCHANGED <<pending, lease>> /\ faults' \in 0..MaxFaults
      BY <1>s, JobDispatchAssumption DEF EventLeaseExpires
    <3> QED  BY <1>s, <2>1, <3>1, <3>2, <3>3, <3>4, <3>5 DEF Elsewhere
  <2>2. ASSUME NEW d \in Dispatchers, Dispatch(d) \/ Outage(d) \/ Restart(d)
        PROVE  /\ pending' \in BOOLEAN
               /\ lease' \in [owner : Dispatchers \cup {NoOwner}, live : BOOLEAN]
               /\ faults' \in 0..MaxFaults
    <3>1. CASE SetFlag(d) \/ CommitPublished(d)
      <4>1. dispatcher[d].more \in BOOLEAN
        BY DEF TypeOK, DispatcherRecord
      <4> QED  BY <3>1, <4>1 DEF SetFlag, CommitPublished, TypeOK
    <3>2. CASE ClaimScope(d) \/ ReleaseScope(d)
      <4>1. lease' \in [owner : Dispatchers \cup {NoOwner}, live : BOOLEAN]
        <5>1. lease' \in {lease, [owner |-> d, live |-> TRUE], [owner |-> NoOwner, live |-> FALSE]}
          BY <3>2 DEF ClaimScope, ReleaseScope, Free
        <5>2. [owner |-> d, live |-> TRUE] \in [owner : Dispatchers \cup {NoOwner}, live : BOOLEAN]
          OBVIOUS
        <5>3. [owner |-> NoOwner, live |-> FALSE] \in [owner : Dispatchers \cup {NoOwner}, live : BOOLEAN]
          OBVIOUS
        <5> QED  BY <1>s, <5>1, <5>2, <5>3, Zenon
      <4> QED  BY <1>s, <3>2, <4>1 DEF ClaimScope, ReleaseScope
    <3>3. CASE Outage(d) \/ Restart(d)
      BY <3>3, JobDispatchAssumption DEF Outage, Restart, TypeOK
    <3>4. CASE \/ ClaimEvents(d) \/ \E e \in Events : NextEvent(d, e)
               \/ WriteCheckpoint(d) \/ CallTemporal(d) \/ Acknowledge(d) \/ BatchDone(d)
      BY <3>4 DEF ClaimEvents, NextEvent, WriteCheckpoint, CallTemporal, Acknowledge, BatchDone, TypeOK
    <3> QED  BY <2>2, <3>1, <3>2, <3>3, <3>4 DEF Dispatch
  <2> QED  BY <2>1, <2>2, Movers
<1> QED  BY <1>1, <1>2, <1>3, RowsTyped, DispatcherStep DEF TypeOK

\* A step keeps the events in line with their jobs.
LEMMA CreatedStep ==
    ASSUME TypeOK, DispatchInv, [Next]_vars
    PROVE  CreatedInv'
<1>1. \A j \in Jobs : <<j, "start">> \in Events /\ <<j, "cancel">> \in Events
  BY DEF Events
<1>2. ASSUME NEW j \in Jobs, CreateJob(j) \/ CancelJob(j) PROVE CreatedInv'
  <2>1. CASE CreateJob(j)
    BY <1>1, <2>1 DEF CreateJob, Enqueue, DispatchInv, CreatedInv, TypeOK
  <2>2. CASE CancelJob(j)
    BY <1>1, <2>2 DEF CancelJob, Enqueue, DispatchInv, CreatedInv, TypeOK
  <2> QED  BY <1>2, <2>1, <2>2
<1>3. ASSUME \A e \in Events : event[e].state = "none" => event'[e].state = "none",
             \A j \in Jobs : /\ job[j] # "none" => job'[j] # "none"
                             /\ job[j] = "cancelled" => job'[j] = "cancelled"
      PROVE  CreatedInv'
  BY <1>1, <1>3 DEF DispatchInv, CreatedInv
<1>4. ASSUME NEW j \in Jobs, Progress(j) \/ Finish(j) PROVE CreatedInv'
  BY <1>4, <1>3 DEF Progress, Finish, TypeOK
<1>5. ASSUME UNCHANGED vars \/ ScopeLeaseExpires \/ \E e \in Events : EventLeaseExpires(e)
      PROVE  CreatedInv'
  <2>1. UNCHANGED job
    BY <1>5 DEF vars, ScopeLeaseExpires, EventLeaseExpires
  <2>2. \A e \in Events : event[e].state = "none" => event'[e].state = "none"
    BY <1>5 DEF vars, ScopeLeaseExpires, EventLeaseExpires, TypeOK, Row
  <2> QED  BY <2>1, <2>2, <1>3
<1>6. ASSUME NEW d \in Dispatchers, Dispatch(d) \/ Outage(d) \/ Restart(d) PROVE CreatedInv'
  <2>1. \A j \in Jobs : /\ job[j] # "none" => job'[j] # "none"
                        /\ job[j] = "cancelled" => job'[j] = "cancelled"
    <3>1. CASE WriteCheckpoint(d)
      BY <3>1 DEF WriteCheckpoint, StartAccepted, TypeOK
    <3>2. CASE ~ WriteCheckpoint(d)
      BY <1>6, <3>2 DEF Dispatch, ClaimScope, ClaimEvents, SetFlag, NextEvent, CallTemporal, Acknowledge,
                  CommitPublished, BatchDone, ReleaseScope, Outage, Restart
    <3> QED  BY <3>1, <3>2
  <2>2. \A e \in Events : event[e].state = "none" => event'[e].state = "none"
    <3>1. CASE CommitPublished(d)
      <4>1. dispatcher[d].at \in Events /\ event[dispatcher[d].at].state = "queued"
        BY <3>1 DEF CommitPublished, DispatchInv, DeliveryInv, LockInv
      <4> QED  BY <3>1, <4>1 DEF CommitPublished, TypeOK
    <3>2. CASE ClaimEvents(d)
      BY <3>2, ClaimRows DEF Claimed
    <3>3. CASE ~ CommitPublished(d) /\ ~ ClaimEvents(d)
      BY <1>6, <3>3 DEF Dispatch, ClaimScope, SetFlag, NextEvent, WriteCheckpoint, CallTemporal,
                  Acknowledge, BatchDone, ReleaseScope, Outage, Restart
    <3> QED  BY <3>1, <3>2, <3>3
  <2> QED  BY <2>1, <2>2, <1>3
<1> QED  BY <1>2, <1>4, <1>5, <1>6 DEF Next

\* A row that is published in a step was delivered by the dispatcher committing it.
LEMMA DeliveredStep ==
    ASSUME TypeOK, DispatchInv, [Next]_vars
    PROVE  AcknowledgedWasDelivered'
<1> SUFFICES ASSUME NEW j \in Jobs
             PROVE  /\ event'[<<j, "start">>].state = "published" => execution'[j] # "none"
                    /\ event'[<<j, "cancel">>].state = "published" => checkpoint'[j] = "cancelled"
  BY DEF AcknowledgedWasDelivered
<1> DEFINE Delivered(e) == /\ e[2] = "start" => execution[e[1]] # "none"
                           /\ e[2] = "cancel" => checkpoint[e[1]] = "cancelled"
<1>1. <<j, "start">> \in Events /\ <<j, "cancel">> \in Events
  BY DEF Events
<1>2. ASSUME NEW e \in Events, e[1] = j, event'[e].state = "published" PROVE Delivered(e)
  <2>1. CASE event[e].state = "published"
    BY <1>2, <2>1, EventFacts DEF DispatchInv, AcknowledgedWasDelivered
  <2>2. CASE event[e].state # "published"
    <3>1. ~ UNCHANGED event
      BY <1>2, <2>2
    <3>2. ~ Inserted
      <4>1. \A n : [NoEvent EXCEPT !.state = "queued", !.id = n].state = "queued"
        BY DEF NoEvent
      <4> QED  BY <1>2, <2>2, <4>1 DEF Inserted, TypeOK
    <3>3. ~ Claimed
      <4>1. \A row \in Row : DeadLettered(row).state = "dead"
        BY DEF DeadLettered, Row
      <4>2. \A row \in Row, d \in Dispatchers : Leased(d, row).state = row.state
        BY DEF Leased, Row
      <4> QED  BY <1>2, <2>2, <4>1, <4>2 DEF Claimed, TypeOK
    <3>4. ~ Expired
      BY <1>2, <2>2 DEF Expired, TypeOK, Row
    <3>5. PICK d \in Dispatchers :
            /\ CommitPublished(d)
            /\ event' = [event EXCEPT ![dispatcher[d].at] = PublishedRow(@)]
      BY <3>1, <3>2, <3>3, <3>4, RowStep DEF Committed
    <3>6. dispatcher[d].at = e
      BY <1>2, <2>2, <3>5 DEF TypeOK
    <3> QED  BY <3>5, <3>6, EventFacts DEF CommitPublished, DispatchInv, DeliveryInv
  <2> QED  BY <2>1, <2>2
<1>3. event'[<<j, "start">>].state = "published" => execution[j] # "none"
  BY <1>1, <1>2
<1>4. event'[<<j, "cancel">>].state = "published" => checkpoint[j] = "cancelled"
  BY <1>1, <1>2
<1> QED  BY <1>3, <1>4, DoneStays

\* What is acknowledged has been delivered, the outbox keeps its table constraint,
\* whatever leases run out and whichever processes die.
THEOREM Dispatching == Spec => [](TypeOK /\ DispatchInv)
<1>1. TypeOK /\ DispatchInv /\ [Next]_vars => (TypeOK /\ DispatchInv)'
  BY TypeStep, CreatedStep, DeliveredStep, DispatcherStep DEF DispatchInv
<1> QED  BY TypeInit, <1>1, PTL DEF Spec

\* The type invariant, with ocr_outbox_delivery_shape.
THEOREM TypeCorrect == Spec => []TypeOK
BY Dispatching, PTL

\* An outbox row is acknowledged only after Temporal, or the checkpoint, has it.
THEOREM Delivered == Spec => []AcknowledgedWasDelivered
<1>1. DispatchInv => AcknowledgedWasDelivered
  BY DEF DispatchInv
<1> QED  BY Dispatching, <1>1, PTL

\* A published or dead-lettered row is final.
THEOREM SettledRows == Spec => SettledRowsStay
<1> DEFINE P == \A e \in Events : event[e].state \in {"published", "dead"} => event'[e] = event[e]
<1>1. TypeOK /\ DispatchInv /\ [Next]_vars => P
  <2> SUFFICES ASSUME TypeOK, DispatchInv, [Next]_vars,
                      NEW e \in Events, event[e].state \in {"published", "dead"}
               PROVE  event'[e] = event[e]
    OBVIOUS
  <2>1. CASE UNCHANGED event
    BY <2>1
  <2>2. CASE Inserted
    BY <2>2 DEF Inserted, TypeOK
  <2>3. CASE Claimed
    BY <2>3 DEF Claimed
  <2>4. CASE Committed
    BY <2>4 DEF Committed, TypeOK
  <2>5. CASE Expired
    <3>1. ~ event[e].live
      BY DEF TypeOK, DeliveryShape
    <3> QED  BY <2>5, <3>1 DEF Expired, TypeOK
  <2> QED  BY <2>1, <2>2, <2>3, <2>4, <2>5, RowStep
<1>2. TypeOK /\ DispatchInv /\ [Next]_vars => [P]_vars
  BY <1>1
<1> QED  BY Dispatching, <1>2, PTL DEF Spec, SettledRowsStay

-----------------------------------------------------------------------------
(***************************************************************************)
(* Overlap.                                                                *)
(***************************************************************************)
\* The only steps that count a fault, and what no other does to the leases.
LEMMA FaultStep ==
    ASSUME TypeOK, [Next]_vars
    PROVE  faults \in Nat /\ faults' \in Nat /\ faults <= faults'
<1>1. faults \in Nat
  BY JobDispatchAssumption DEF TypeOK
<1>2. faults' = faults \/ faults' = faults + 1
  BY DEF Next, Dispatch, vars, CreateJob, CancelJob, Progress, Finish, ClaimScope, ClaimEvents, SetFlag,
     NextEvent, WriteCheckpoint, CallTemporal, Acknowledge, CommitPublished, BatchDone, ReleaseScope,
     Outage, Restart, ScopeLeaseExpires, EventLeaseExpires
<1> QED  BY <1>1, <1>2

\* A delivery is counted when a lease is taken over that has run out, not when
\* it is renewed.
LEMMA PaidStep ==
    ASSUME TypeOK, DispatchInv, PaidInv, [Next]_vars
    PROVE  PaidInv'
<1>f. faults \in Nat /\ faults' \in Nat /\ faults <= faults'
  BY FaultStep
<1> DEFINE Paid(row, n) == /\ row.deliveries <= 1 + n
                           /\ row.state = "queued" /\ ~ row.live => row.deliveries <= n
<1> SUFFICES ASSUME NEW e \in Events PROVE Paid(event'[e], faults')
  BY DEF PaidInv
<1>1. event[e] \in Row /\ event[e].deliveries \in Nat /\ Paid(event[e], faults)
  BY JobDispatchAssumption DEF TypeOK, Row, PaidInv
<1>2. Paid(event[e], faults')
  BY <1>1, <1>f
<1>3. CASE UNCHANGED event
  BY <1>2, <1>3
<1>4. CASE Inserted
  <2>1. \A n : [NoEvent EXCEPT !.state = "queued", !.id = n].deliveries = 0
    BY DEF NoEvent
  <2>2. event'[e] = event[e] \/ event'[e].deliveries = 0
    BY <1>4, <2>1 DEF Inserted, TypeOK
  <2> QED  BY <1>2, <1>f, <2>2
<1>5. CASE Claimed
  <2>1. DeadLettered(event[e]).deliveries = event[e].deliveries /\ DeadLettered(event[e]).state = "dead"
    BY <1>1 DEF DeadLettered, Row
  <2>2. ASSUME NEW d \in Dispatchers, event[e].state = "queued", event[e].owner = d \/ ~ event[e].live
        PROVE  Leased(d, event[e]).live /\ Leased(d, event[e]).deliveries <= 1 + faults
    <3>1. Leased(d, event[e]).live
      BY <1>1 DEF Leased, Row
    <3>2. CASE event[e].owner = d /\ event[e].live
      <4>1. Leased(d, event[e]).deliveries = event[e].deliveries
        BY <1>1, <3>2 DEF Leased, Row
      <4> QED  BY <1>1, <3>1, <4>1
    <3>3. CASE ~ (event[e].owner = d /\ event[e].live)
      <4>1. Leased(d, event[e]).deliveries = event[e].deliveries + 1
        BY <1>1, <3>3 DEF Leased, Row
      <4>2. event[e].deliveries <= faults
        BY <1>1, <2>2, <3>3
      <4> QED  BY <1>1, <1>f, <3>1, <4>1, <4>2
    <3> QED  BY <3>2, <3>3
  <2>3. ASSUME NEW d \in Dispatchers, event[e].state = "queued", event[e].owner = d \/ ~ event[e].live
        PROVE  Paid(Leased(d, event[e]), faults')
    <3>1. Leased(d, event[e]).deliveries \in Nat
      BY <1>1 DEF Leased, Row
    <3> QED  BY <1>f, <2>2, <2>3, <3>1
  <2>4. Paid(DeadLettered(event[e]), faults')
    BY <1>2, <2>1
  <2> HIDE DEF Paid
  <2> QED  BY <1>2, <1>5, <2>3, <2>4 DEF Claimed
<1>6. CASE Committed
  <2>1. PublishedRow(event[e]).deliveries = event[e].deliveries /\ PublishedRow(event[e]).state = "published"
    BY <1>1 DEF PublishedRow, Row
  <2>2. event'[e] = event[e] \/ event'[e] = PublishedRow(event[e])
    BY <1>6 DEF Committed, TypeOK
  <2> QED  BY <1>2, <2>1, <2>2
<1>7. CASE Expired
  <2>1. faults' = faults + 1
    BY <1>7 DEF Expired
  <2>2. event'[e].deliveries = event[e].deliveries
    BY <1>1, <1>7 DEF Expired, TypeOK, Row
  <2> QED  BY <1>1, <1>f, <2>1, <2>2
<1> QED  BY <1>3, <1>4, <1>5, <1>6, <1>7, RowStep

\* Sets of dispatchers are finite, and compare by their size.
LEMMA DispatcherSets ==
    ASSUME NEW S \in SUBSET Dispatchers, NEW T \in SUBSET Dispatchers
    PROVE  /\ Cardinality(S) \in Nat /\ Cardinality(T) \in Nat
           /\ T \subseteq S => Cardinality(T) <= Cardinality(S)
           /\ \A d \in Dispatchers : T \subseteq S \cup {d} => Cardinality(T) <= Cardinality(S) + 1
<1>1. IsFiniteSet(S) /\ IsFiniteSet(T)
  BY JobDispatchAssumption, FS_Subset
<1>2. Cardinality(S) \in Nat /\ Cardinality(T) \in Nat
  BY <1>1, FS_CardinalityType
<1>3. T \subseteq S => Cardinality(T) <= Cardinality(S)
  BY <1>1, FS_Subset
<1>4. ASSUME NEW d \in Dispatchers, T \subseteq S \cup {d}
      PROVE  Cardinality(T) <= Cardinality(S) + 1
  <2>1. /\ IsFiniteSet(S \cup {d})
        /\ Cardinality(S \cup {d}) = Cardinality(S) \/ Cardinality(S \cup {d}) = Cardinality(S) + 1
    BY <1>1, FS_AddElement
  <2>2. Cardinality(T) <= Cardinality(S \cup {d})
    BY <1>4, <2>1, FS_Subset
  <2> QED  BY <1>2, <2>1, <2>2
<1> QED  BY <1>2, <1>3, <1>4

\* A dispatcher that enters takes the lease; one that loses the lease has been
\* paid for; one that leaves gives it back.
LEMMA OrphanStep ==
    ASSUME TypeOK, DispatchInv, OrphanInv, [Next]_vars
    PROVE  OrphanInv'
<1>f. faults \in Nat /\ faults' \in Nat /\ faults <= faults'
  BY FaultStep
<1>s. Orphans \in SUBSET Dispatchers /\ Orphans' \in SUBSET Dispatchers
  BY DEF Orphans
<1>c. Cardinality(Orphans) \in Nat /\ Cardinality(Orphans') \in Nat
  BY <1>s, DispatcherSets
<1>o. Cardinality(Orphans)' = Cardinality(Orphans')
  OBVIOUS
<1>1. ASSUME Orphans' \subseteq Orphans PROVE OrphanInv'
  <2>1. Cardinality(Orphans') <= Cardinality(Orphans)
    BY <1>1, <1>s, DispatcherSets
  <2> QED  BY <1>c, <1>f, <2>1 DEF OrphanInv
<1>2. CASE ScopeLeaseExpires
  <2>1. lease.owner \in Dispatchers \/ Orphans' \subseteq Orphans
    BY <1>2 DEF ScopeLeaseExpires, Orphans, TypeOK
  <2>2. Orphans' \subseteq Orphans \cup {lease.owner} /\ faults' = faults + 1
    BY <1>2 DEF ScopeLeaseExpires, Orphans, TypeOK
  <2>3. CASE lease.owner \in Dispatchers
    <3>1. Cardinality(Orphans') <= Cardinality(Orphans) + 1
      BY <1>s, <2>2, <2>3, DispatcherSets
    <3> QED  BY <1>c, <1>f, <2>2, <3>1 DEF OrphanInv
  <2> QED  BY <1>1, <2>1, <2>3
<1>3. CASE Elsewhere /\ ~ ScopeLeaseExpires
  <2>1. UNCHANGED <<dispatcher, lease>>
    BY <1>3 DEF Elsewhere, vars, CreateJob, CancelJob, Progress, Finish, EventLeaseExpires
  <2> QED  BY <1>1, <2>1 DEF Orphans
<1>4. ASSUME NEW d \in Dispatchers, Dispatch(d) \/ Outage(d) \/ Restart(d) PROVE OrphanInv'
  <2>1. \A c \in Dispatchers : c # d => dispatcher'[c] = dispatcher[c]
    BY <1>4, MoveStep DEF TypeOK
  <2>2. CASE ClaimScope(d)
    <3>1. lease' = [owner |-> d, live |-> TRUE]
      BY <2>2 DEF ClaimScope
    <3>2. lease'.owner = d /\ lease'.live
      BY <3>1
    <3>3. lease.owner = d \/ ~ lease.live
      BY <2>2 DEF ClaimScope
    <3>4. Orphans' \subseteq Orphans
      BY <2>1, <3>2, <3>3 DEF Orphans
    <3> QED  BY <1>1, <3>4
  <2>3. CASE ReleaseScope(d)
    <3>1. dispatcher'[d].pc = "idle" /\ (lease' = lease \/ lease.owner = d)
      BY <2>3 DEF ReleaseScope, Move, Idle, TypeOK
    <3>2. Orphans' \subseteq Orphans
      BY <2>1, <3>1 DEF Orphans
    <3> QED  BY <1>1, <3>2
  <2>4. CASE ~ ClaimScope(d) /\ ~ ReleaseScope(d)
    <3>1. UNCHANGED lease /\ dispatcher[d].pc # "idle"
      BY <1>4, <2>4 DEF Dispatch, ClaimEvents, SetFlag, NextEvent, WriteCheckpoint, CallTemporal,
         Acknowledge, CommitPublished, BatchDone, Outage, Restart
    <3>2. Orphans' \subseteq Orphans
      BY <2>1, <3>1 DEF Orphans
    <3> QED  BY <1>1, <3>2
  <2> QED  BY <2>2, <2>3, <2>4
<1> QED  BY <1>2, <1>3, <1>4, Movers

\* A second dispatcher in the scope, and a second delivery of a row, has a fault
\* behind it: neither polling nor renewal eats the delivery budget.
THEOREM Overlap == Spec => []OverlapIsPaidFor
<1>1. Init => PaidInv /\ OrphanInv
  <2> SUFFICES ASSUME Init PROVE PaidInv /\ OrphanInv
    OBVIOUS
  <2>1. \A e \in Events : event[e].deliveries = 0
    BY DEF Init, NoEvent
  <2>2. Orphans = {}
    BY DEF Init, Orphans, Idle
  <2> QED  BY <2>1, <2>2, FS_EmptySet DEF Init, PaidInv, OrphanInv
<1>2. TypeOK /\ DispatchInv /\ PaidInv /\ OrphanInv /\ [Next]_vars => (PaidInv /\ OrphanInv)'
  BY PaidStep, OrphanStep
<1>3. TypeOK /\ PaidInv /\ OrphanInv => OverlapIsPaidFor
  <2> SUFFICES ASSUME TypeOK, PaidInv, OrphanInv PROVE OverlapIsPaidFor
    OBVIOUS
  <2> DEFINE Busy == {d \in Dispatchers : dispatcher[d].pc # "idle"}
  <2>1. faults \in Nat
    BY JobDispatchAssumption DEF TypeOK
  <2>2. Busy \in SUBSET Dispatchers /\ Orphans \in SUBSET Dispatchers
    BY DEF Orphans
  <2>3. Cardinality(Busy) \in Nat /\ Cardinality(Orphans) \in Nat
    BY <2>2, DispatcherSets
  <2>4. Cardinality(Busy) <= Cardinality(Orphans) + 1
    <3>1. CASE lease.owner \in Dispatchers
      <4>1. Busy \subseteq Orphans \cup {lease.owner}
        BY DEF Orphans
      <4> QED  BY <2>2, <3>1, <4>1, DispatcherSets
    <3>2. CASE lease.owner \notin Dispatchers
      <4>1. Busy \subseteq Orphans
        BY <3>2 DEF Orphans
      <4>2. Cardinality(Busy) <= Cardinality(Orphans)
        BY <2>2, <4>1, DispatcherSets
      <4> QED  BY <2>3, <4>2
    <3> QED  BY <3>1, <3>2
  <2>5. Cardinality(Busy) <= 1 + faults
    BY <2>1, <2>3, <2>4 DEF OrphanInv
  <2> QED  BY <2>5 DEF OverlapIsPaidFor, PaidInv
<1> QED  BY Dispatching, <1>1, <1>2, <1>3, PTL DEF Spec
-----------------------------------------------------------------------------
(***************************************************************************)
(* The refinement of Outbox.                                               *)
(***************************************************************************)
Delivering == {"checkpoint", "temporal", "publish", "commit"}

\* What a dispatcher works on has been inserted.
HeldInv ==
    \A d \in Dispatchers :
        /\ \A e \in dispatcher[d].batch : event[e].state # "none"
        /\ dispatcher[d].pc \in Delivering => event[dispatcher[d].at].state # "none"

\* What the five ways of touching the rows do to their states.
LEMMA StateStep ==
    ASSUME TypeOK, DispatchInv, [Next]_vars
    PROVE  \/ \A e \in Events : event'[e].state = event[e].state
           \/ \E e \in Events :
                 /\ event[e].state = "none" /\ event'[e].state = "queued"
                 /\ \A f \in Events \ {e} : event'[f] = event[f]
           \/ \E e \in Events :
                 /\ event[e].state = "queued" /\ event'[e].state = "published"
                 /\ \E d \in Dispatchers : dispatcher[d].pc = "commit" /\ dispatcher[d].at = e
                 /\ \A f \in Events \ {e} : event'[f] = event[f]
           \/ \A e \in Events :
                 \/ event'[e].state = event[e].state
                 \/ event[e].state = "queued" /\ event'[e].state = "dead"
<1>1. event \in [Events -> Row]
  BY DEF TypeOK
<1>2. CASE UNCHANGED event
  BY <1>2
<1>3. CASE Inserted
  <2>1. PICK e \in Events :
          /\ event[e].state = "none"
          /\ event' = [event EXCEPT ![e] = [NoEvent EXCEPT !.state = "queued", !.id = Known + 1]]
    BY <1>3 DEF Inserted
  <2>2. \A n : [NoEvent EXCEPT !.state = "queued", !.id = n].state = "queued"
    BY DEF NoEvent
  <2>3. event'[e].state = "queued" /\ \A f \in Events \ {e} : event'[f] = event[f]
    BY <1>1, <2>1, <2>2
  <2> QED  BY <2>1, <2>3
<1>4. CASE Claimed
  <2>1. \A row \in Row : DeadLettered(row).state = "dead"
    BY DEF DeadLettered, Row
  <2>2. \A row \in Row, d \in Dispatchers : Leased(d, row).state = row.state
    BY DEF Leased, Row
  <2>3. \A e \in Events : \/ event'[e].state = event[e].state
                          \/ event[e].state = "queued" /\ event'[e].state = "dead"
    BY <1>1, <1>4, <2>1, <2>2 DEF Claimed
  <2> QED  BY <2>3
<1>5. CASE Committed
  <2>1. PICK d \in Dispatchers :
          /\ CommitPublished(d)
          /\ dispatcher[d].at \in Events
          /\ event[dispatcher[d].at].state = "queued"
          /\ event' = [event EXCEPT ![dispatcher[d].at] = PublishedRow(@)]
    BY <1>5 DEF Committed
  <2>2. \A row \in Row : PublishedRow(row).state = "published"
    BY DEF PublishedRow, Row
  <2>3. dispatcher[d].pc = "commit"
    BY <2>1 DEF CommitPublished
  <2>4. /\ event'[dispatcher[d].at].state = "published"
        /\ \A f \in Events \ {dispatcher[d].at} : event'[f] = event[f]
    BY <1>1, <2>1, <2>2
  <2> QED  BY <2>1, <2>3, <2>4
<1>6. CASE Expired
  <2>1. \A e \in Events : event'[e].state = event[e].state
    BY <1>1, <1>6 DEF Expired, Row
  <2> QED  BY <2>1
<1> QED  BY <1>2, <1>3, <1>4, <1>5, <1>6, RowStep

\* A row is not taken away.
LEMMA RowsRemain ==
    ASSUME TypeOK, DispatchInv, [Next]_vars, NEW e \in Events, event[e].state # "none"
    PROVE  event'[e].state # "none"
BY StateStep

\* A dispatcher works on what it has claimed.
LEMMA TakenStep ==
    ASSUME TypeOK, NEW d \in Dispatchers, Dispatch(d) \/ Outage(d) \/ Restart(d)
    PROVE  /\ dispatcher'[d].batch \subseteq dispatcher[d].batch \cup Batch(d)
           /\ dispatcher'[d].pc \in Delivering =>
                 \/ dispatcher'[d].at \in dispatcher[d].batch
                 \/ dispatcher[d].pc \in Delivering /\ dispatcher'[d].at = dispatcher[d].at
<1> DEFINE me == dispatcher[d]
           P(rec) == /\ rec.batch \subseteq me.batch \cup Batch(d)
                     /\ rec.pc \in Delivering => \/ rec.at \in me.batch
                                                 \/ me.pc \in Delivering /\ rec.at = me.at
<1>1. dispatcher \in [Dispatchers -> DispatcherRecord] /\ me \in DispatcherRecord
  BY DEF TypeOK
<1>2. ASSUME NEW rec, Move(d, rec) PROVE dispatcher'[d] = rec
  BY <1>1, <1>2 DEF Move
<1>3. \A label : [Idle EXCEPT !.pc = label].batch = {} /\ [Idle EXCEPT !.pc = label].pc = label
  BY DEF Idle
<1>4. CASE ClaimScope(d)
  BY <1>2, <1>3, <1>4 DEF ClaimScope, Delivering
<1>5. CASE ClaimEvents(d)
  <2>1. CASE Batch(d) = {}
    <3> DEFINE more == \E e \in Events : Undelivered(e)
    <3>1. Move(d, [Idle EXCEPT !.pc = "flag", !.more = more])
      BY <1>5, <2>1 DEF ClaimEvents
    <3> HIDE DEF more
    <3> QED  BY <1>2, <3>1 DEF Idle, Delivering
  <2>2. CASE Batch(d) # {}
    <3>1. Move(d, [Idle EXCEPT !.pc = "next", !.batch = Batch(d)])
      BY <1>5, <2>2 DEF ClaimEvents
    <3> QED  BY <1>2, <3>1 DEF Idle, Delivering
  <2> QED  BY <2>1, <2>2
<1>6. CASE SetFlag(d) \/ BatchDone(d) \/ Outage(d)
  BY <1>2, <1>3, <1>6 DEF SetFlag, BatchDone, Outage, LeaveScope, Delivering
<1>7. CASE ReleaseScope(d) \/ Restart(d)
  BY <1>2, <1>7 DEF ReleaseScope, Restart, Idle, Delivering
<1>8. ASSUME NEW e \in Events, NextEvent(d, e) PROVE P(dispatcher'[d])
  BY <1>2, <1>8 DEF NextEvent, At
<1>9. CASE WriteCheckpoint(d)
  <2>1. \/ LeaveScope(d)
        \/ Move(d, [me EXCEPT !.pc = "temporal"])
    BY <1>9 DEF WriteCheckpoint
  <2>2. me.pc \in Delivering
    BY <1>9 DEF WriteCheckpoint, Delivering
  <2> QED  BY <1>1, <1>2, <1>3, <2>1, <2>2 DEF LeaveScope, DispatcherRecord, Delivering
<1>10. CASE CallTemporal(d)
  <2>1. Move(d, [me EXCEPT !.pc = "publish"]) /\ me.pc \in Delivering
    BY <1>10 DEF CallTemporal, Delivering
  <2> QED  BY <1>1, <1>2, <2>1 DEF DispatcherRecord
<1>11. CASE Acknowledge(d)
  <2> DEFINE more == \E f \in Events \ {me.at} : Undelivered(f)
  <2>1. \/ Move(d, [me EXCEPT !.pc = "commit", !.more = more])
        \/ Move(d, [Idle EXCEPT !.pc = "next", !.batch = me.batch])
        \/ LeaveScope(d)
    BY <1>11 DEF Acknowledge
  <2>2. me.pc \in Delivering
    BY <1>11 DEF Acknowledge, Delivering
  <2> HIDE DEF more
  <2>3. CASE Move(d, [me EXCEPT !.pc = "commit", !.more = more])
    BY <1>1, <1>2, <2>2, <2>3 DEF DispatcherRecord
  <2>4. CASE Move(d, [Idle EXCEPT !.pc = "next", !.batch = me.batch])
    BY <1>2, <2>4 DEF Idle, Delivering
  <2>5. CASE LeaveScope(d)
    BY <1>2, <1>3, <2>5 DEF LeaveScope, Delivering
  <2> QED  BY <2>1, <2>3, <2>4, <2>5
<1>12. CASE CommitPublished(d)
  BY <1>2, <1>12 DEF CommitPublished, Idle, Delivering
<1> QED
  BY <1>4, <1>5, <1>6, <1>7, <1>8, <1>9, <1>10, <1>11, <1>12 DEF Dispatch

\* So what it works on stays inserted.
LEMMA HeldStep == TypeOK /\ DispatchInv /\ HeldInv /\ [Next]_vars => HeldInv'
<1> SUFFICES ASSUME TypeOK, DispatchInv, HeldInv, [Next]_vars, NEW d \in Dispatchers
             PROVE  /\ \A e \in dispatcher'[d].batch : event'[e].state # "none"
                    /\ dispatcher'[d].pc \in Delivering => event'[dispatcher'[d].at].state # "none"
  BY DEF HeldInv
<1> DEFINE me == dispatcher[d]
<1>1. me.batch \subseteq Events /\ (me.pc \in Delivering => me.at \in Events)
  BY DEF TypeOK, DispatcherRecord, DispatchInv, DeliveryInv, Delivering
<1>2. Batch(d) \subseteq Events /\ \A e \in Batch(d) : event[e].state # "none"
  BY DEF Batch, Candidates, Undelivered
<1>3. \A e \in me.batch : event[e].state # "none"
  BY DEF HeldInv
<1>4. me.pc \in Delivering => event[me.at].state # "none"
  BY DEF HeldInv
<1>5. CASE dispatcher'[d] = dispatcher[d]
  BY <1>1, <1>3, <1>4, <1>5, RowsRemain
<1>6. CASE Dispatch(d) \/ Outage(d) \/ Restart(d)
  <2>1. dispatcher'[d].batch \subseteq me.batch \cup Batch(d)
    BY <1>6, TakenStep
  <2>2. dispatcher'[d].pc \in Delivering =>
           dispatcher'[d].at \in me.batch \/ (me.pc \in Delivering /\ dispatcher'[d].at = me.at)
    BY <1>6, TakenStep
  <2> QED  BY <1>1, <1>2, <1>3, <1>4, <2>1, <2>2, RowsRemain
<1>7. ASSUME NEW c \in Dispatchers, c # d, Dispatch(c) \/ Outage(c) \/ Restart(c)
      PROVE  dispatcher'[d] = dispatcher[d]
  BY <1>7, MoveStep DEF TypeOK
<1> QED  BY <1>5, <1>6, <1>7, Movers, ElsewhereStill

\* A step moves a row or an effect, and an effect is that of the event a
\* dispatcher is delivering.
LEMMA EffectStep ==
    ASSUME TypeOK, DispatchInv, [Next]_vars
    PROVE  \/ \A e \in Events : Effective(e)' = Effective(e)
           \/ /\ UNCHANGED event
              /\ \E d \in Dispatchers :
                    /\ dispatcher[d].pc \in Delivering
                    /\ \A e \in Events : Effective(e)' = (Effective(e) \/ e = dispatcher[d].at)
<1> DEFINE Still == \A e \in Events : Effective(e)' = Effective(e)
<1>1. ASSUME UNCHANGED <<checkpoint, execution>> PROVE Still
  BY <1>1 DEF Effective
<1>2. CASE Elsewhere
  <2>1. ASSUME NEW j \in Jobs, Progress(j) PROVE Still
    BY <2>1, EventFacts DEF Progress, Effective, TypeOK
  <2>2. ASSUME NEW j \in Jobs, Finish(j) PROVE Still
    BY <2>2, EventFacts DEF Finish, Effective, TypeOK
  <2>3. ASSUME NEW j \in Jobs, CreateJob(j) \/ CancelJob(j) PROVE UNCHANGED <<checkpoint, execution>>
    BY <2>3 DEF CreateJob, CancelJob
  <2>4. ASSUME ScopeLeaseExpires \/ UNCHANGED vars \/ \E e \in Events : EventLeaseExpires(e)
        PROVE  UNCHANGED <<checkpoint, execution>>
    BY <2>4 DEF ScopeLeaseExpires, EventLeaseExpires, vars
  <2> QED  BY <1>1, <1>2, <2>1, <2>2, <2>3, <2>4 DEF Elsewhere
<1>3. ASSUME NEW d \in Dispatchers, WriteCheckpoint(d)
      PROVE  \/ Still
             \/ /\ UNCHANGED event
                /\ dispatcher[d].pc \in Delivering
                /\ \A e \in Events : Effective(e)' = (Effective(e) \/ e = dispatcher[d].at)
  <2> DEFINE at == dispatcher[d].at
  <2>1. at \in Events /\ at[1] \in Jobs /\ at = <<at[1], at[2]>> /\ at[2] \in {"start", "cancel"}
    BY <1>3, EventFacts DEF WriteCheckpoint, DispatchInv, DeliveryInv
  <2>2. UNCHANGED <<event, execution>> /\ dispatcher[d].pc \in Delivering
    BY <1>3 DEF WriteCheckpoint, Delivering
  <2>3. CASE at[2] = "start"
    <3>1. \A j \in Jobs : checkpoint'[j] = "cancelled" <=> checkpoint[j] = "cancelled"
      BY <1>3, <2>1, <2>3 DEF WriteCheckpoint, TypeOK
    <3> QED  BY <2>2, <3>1, EventFacts DEF Effective
  <2>4. CASE at[2] = "cancel"
    <3>1. \A j \in Jobs : checkpoint'[j] = "cancelled" <=> checkpoint[j] = "cancelled" \/ j = at[1]
      BY <1>3, <2>1, <2>4 DEF WriteCheckpoint, TypeOK
    <3>2. \A e \in Events : Effective(e)' = (Effective(e) \/ e = at)
      BY <2>1, <2>2, <2>4, <3>1, EventFacts DEF Effective
    <3> QED  BY <2>2, <3>2
  <2> QED  BY <2>1, <2>3, <2>4
<1>4. ASSUME NEW d \in Dispatchers, CallTemporal(d)
      PROVE  \/ Still
             \/ /\ UNCHANGED event
                /\ dispatcher[d].pc \in Delivering
                /\ \A e \in Events : Effective(e)' = (Effective(e) \/ e = dispatcher[d].at)
  <2> DEFINE at == dispatcher[d].at
  <2>1. at \in Events /\ at[1] \in Jobs /\ at = <<at[1], at[2]>> /\ at[2] \in {"start", "cancel"}
    BY <1>4, EventFacts DEF CallTemporal, DispatchInv, DeliveryInv
  <2>2. UNCHANGED <<event, checkpoint>> /\ dispatcher[d].pc \in Delivering
    BY <1>4 DEF CallTemporal, Delivering
  <2>3. CASE at[2] = "cancel"
    <3>1. \A j \in Jobs : execution'[j] # "none" <=> execution[j] # "none"
      BY <1>4, <2>1, <2>3 DEF CallTemporal, TypeOK
    <3> QED  BY <2>2, <3>1, EventFacts DEF Effective
  <2>4. CASE at[2] = "start"
    <3>1. \A j \in Jobs : execution'[j] # "none" <=> execution[j] # "none" \/ j = at[1]
      BY <1>4, <2>1, <2>4 DEF CallTemporal, TypeOK
    <3>2. \A e \in Events : Effective(e)' = (Effective(e) \/ e = at)
      BY <2>1, <2>2, <2>4, <3>1, EventFacts DEF Effective
    <3> QED  BY <2>2, <3>2
  <2> QED  BY <2>1, <2>3, <2>4
<1>5. ASSUME NEW d \in Dispatchers, Dispatch(d) \/ Outage(d) \/ Restart(d),
             ~ WriteCheckpoint(d), ~ CallTemporal(d)
      PROVE  UNCHANGED <<checkpoint, execution>>
  BY <1>5 DEF Dispatch, ClaimScope, ClaimEvents, SetFlag, NextEvent, Acknowledge, CommitPublished,
              BatchDone, ReleaseScope, Outage, Restart
<1> QED  BY <1>1, <1>2, <1>3, <1>4, <1>5, Movers

\* Every step of the dispatchers and their environment is a step of Outbox or none.
LEMMA RefinementStep ==
    TypeOK /\ DispatchInv /\ HeldInv /\ [Next]_vars => [Promise!Next]_(Promise!outboxVars)
<1> SUFFICES ASSUME TypeOK, DispatchInv, HeldInv, [Next]_vars
             PROVE  [Promise!Next]_(Promise!outboxVars)
  OBVIOUS
<1> DEFINE stage == [e \in Events |-> event[e].state]
           effective == {e \in Events : Effective(e)}
<1> USE DEF Promise!outboxVars
<1>1. CASE \A e \in Events : Effective(e)' = Effective(e)
  <2>1. effective' = effective
    BY <1>1
  <2>2. CASE \A e \in Events : event'[e].state = event[e].state
    BY <2>1, <2>2
  <2>3. ASSUME NEW e \in Events, event[e].state = "none", event'[e].state = "queued",
               \A f \in Events \ {e} : event'[f] = event[f]
        PROVE  Promise!Insert(e)
    <3>1. stage' = [stage EXCEPT ![e] = "queued"]
      BY <2>3
    <3> QED  BY <2>1, <2>3, <3>1 DEF Promise!Insert
  <2>4. ASSUME NEW e \in Events, event[e].state = "queued", event'[e].state = "published",
               NEW d \in Dispatchers, dispatcher[d].pc = "commit", dispatcher[d].at = e,
               \A f \in Events \ {e} : event'[f] = event[f]
        PROVE  Promise!Acknowledge(e)
    <3>1. stage' = [stage EXCEPT ![e] = "published"]
      BY <2>4
    <3>2. Effective(e)
      BY <2>4, EventFacts DEF DispatchInv, DeliveryInv, Effective
    <3> QED  BY <2>1, <2>4, <3>1, <3>2 DEF Promise!Acknowledge
  <2>5. ASSUME \A e \in Events : \/ event'[e].state = event[e].state
                                 \/ event[e].state = "queued" /\ event'[e].state = "dead"
        PROVE  \E spent \in SUBSET Events : Promise!GiveUp(spent)
    <3>1. PICK spent \in SUBSET Events : \A e \in Events : e \in spent <=> event'[e].state # event[e].state
      <4>1. {e \in Events : event'[e].state # event[e].state} \in SUBSET Events
        OBVIOUS
      <4> QED  BY <4>1
    <3>2. \A e \in spent : stage[e] = "queued"
      BY <2>5, <3>1
    <3>3. stage' = [e \in Events |-> IF e \in spent THEN "dead" ELSE stage[e]]
      BY <2>5, <3>1
    <3>4. Promise!GiveUp(spent)
      BY <2>1, <3>2, <3>3 DEF Promise!GiveUp
    <3> QED  BY <3>4
  <2> QED  BY <2>2, <2>3, <2>4, <2>5, StateStep DEF Promise!Next
<1>2. ASSUME UNCHANGED event, NEW d \in Dispatchers, dispatcher[d].pc \in Delivering,
             \A e \in Events : Effective(e)' = (Effective(e) \/ e = dispatcher[d].at)
      PROVE  Promise!Next
  <2> DEFINE at == dispatcher[d].at
  <2>1. at \in Events /\ event[at].state # "none"
    BY <1>2 DEF DispatchInv, DeliveryInv, HeldInv, Delivering
  <2>2. effective' = effective \cup {at}
    BY <1>2, <2>1
  <2>3. Promise!Deliver(at)
    BY <1>2, <2>1, <2>2 DEF Promise!Deliver
  <2> QED  BY <2>1, <2>3 DEF Promise!Next
<1> QED  BY <1>1, <1>2, EffectStep

\* Whatever leases run out and whichever dispatchers die or come back late, the
\* workflow events behave as Outbox says.
THEOREM Implementation == Spec => ImplementsOutbox
<1>1. Init => HeldInv
  BY DEF Init, HeldInv, Idle, Delivering
<1>2. Init => Promise!Init
  <2> SUFFICES ASSUME Init PROVE Promise!Init
    OBVIOUS
  <2>1. \A e \in Events : event[e].state = "none"
    BY DEF Init, NoEvent
  <2>2. \A e \in Events : ~ Effective(e)
    BY EventFacts DEF Init, Effective
  <2> QED  BY <2>1, <2>2 DEF Promise!Init
<1>3. Spec => []HeldInv
  BY <1>1, HeldStep, Dispatching, PTL DEF Spec
<1> QED
  BY <1>2, <1>3, RefinementStep, Dispatching, PTL DEF Spec, ImplementsOutbox, Promise!Spec
=============================================================================
