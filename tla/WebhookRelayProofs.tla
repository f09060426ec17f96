------------------------- MODULE WebhookRelayProofs ------------------------
(***************************************************************************)
(* The safety of WebhookRelay for any rows, relays, limits and faults: the *)
(* rows keep their table constraint, an acknowledged terminal event has    *)
(* been heard, every repetition has a lost lease or a fault behind it, no  *)
(* row is given up under a live lease, and the terminal events behave as   *)
(* Outbox says.                                                            *)
(***************************************************************************)
EXTENDS WebhookRelay, FiniteSetTheorems, TLAPS

Owners == Relays \cup {Dispatcher}

\* What holds of a row: only a queued one is leased, and its deliveries are the
\* leases that ran out and the one that has not.
RowInv(e) ==
    /\ row[e].state = "none" => row[e].deliveries = 0 /\ row[e].owner = NoOwner
    /\ row[e].live => row[e].state = "queued" /\ row[e].owner \in Owners
    /\ row[e].deliveries = expired[e] + IF row[e].live \/ row[e].state = "published" THEN 1 ELSE 0
    /\ e \in Terminals => row[e].type \in Published \cup {"none"}

\* A relay holds rows that exist, and has delivered the one it acknowledges.
RelayInv(r) ==
    /\ \A e \in relay[r].batch : row[e].state # "none"
    /\ relay[r].pc = "idle" => relay[r].batch = {}
    /\ relay[r].pc = "acknowledge" => /\ relay[r].at \in Terminals
                                      /\ received[relay[r].at][2] > 0

\* What a subscriber has heard is about a row that exists.
HeardInv(e) ==
    /\ row[e].state = "published" => received[e][2] > 0
    /\ received[e][2] > 0 => received[e][1] = row[e].type /\ row[e].state # "none"

WebhookInv ==
    /\ \A e \in Rows : RowInv(e)
    /\ \A r \in Relays : RelayInv(r)
    /\ \A e \in Terminals : HeardInv(e)

-----------------------------------------------------------------------------
(***************************************************************************)
(* Rows.  A row stays, or is inserted, leased, dead-lettered, published,   *)
(* or its lease runs out.                                                  *)
(***************************************************************************)
Inserted(e) ==
    /\ row[e].state = "none"
    /\ \E type \in IF e \in Terminals THEN Published ELSE {"workflow"} :
          row'[e] = [NoRow EXCEPT !.state = "queued", !.type = type]
    /\ expired'[e] = expired[e]

Taken(e) ==
    /\ row[e].state = "queued" /\ row[e].deliveries < MaxDeliveries /\ ~ row[e].live
    /\ \E owner \in Owners :
          row'[e] = [row[e] EXCEPT !.owner = owner, !.live = TRUE, !.deliveries = @ + 1]
    /\ expired'[e] = expired[e]

Dead(e) ==
    /\ row[e].state = "queued" /\ row[e].deliveries = MaxDeliveries /\ ~ row[e].live
    /\ row'[e] = [row[e] EXCEPT !.state = "dead", !.owner = NoOwner, !.live = FALSE]
    /\ expired'[e] = expired[e]

Acknowledged(e) ==
    /\ row[e].live
    /\ row'[e] = [row[e] EXCEPT !.state = "published", !.owner = NoOwner, !.live = FALSE]
    /\ expired'[e] = expired[e]

RunOut(e) ==
    /\ row[e].live
    /\ row'[e] = [row[e] EXCEPT !.live = FALSE]
    /\ expired'[e] = expired[e] + 1

Stays(e) == row'[e] = row[e] /\ expired'[e] = expired[e]

RowMove(e) ==
    Stays(e) \/ Inserted(e) \/ Taken(e) \/ Dead(e) \/ Acknowledged(e) \/ RunOut(e)

\* A renewed lease leaves the row as it is.
LEMMA Renewed ==
    ASSUME NEW x \in Row, NEW r, x.owner = r, x.live = TRUE
    PROVE  [x EXCEPT !.owner = r, !.live = TRUE, !.deliveries = x.deliveries] = x
BY DEF Row

\* The rows a claim may lease.
Claimable(owner, batch) ==
    \A f \in batch : /\ row[f].state = "queued" /\ row[f].deliveries < MaxDeliveries
                     /\ row[f].owner = owner \/ ~ row[f].live

\* What a claim of either consumer does to a row: its own rows are leased to it.
LEMMA ClaimedRow ==
    ASSUME TypeOK, NEW owner \in Owners, NEW batch \in SUBSET Rows, Claimable(owner, batch),
           row' = Claimed(owner, batch), UNCHANGED expired, NEW e \in Rows
    PROVE  /\ Stays(e) \/ (Taken(e) /\ e \in batch) \/ Dead(e)
           /\ e \in batch => row'[e].live /\ row'[e].owner = owner /\ row'[e].state = "queued"
<1>1. row[e] \in Row
  BY DEF TypeOK
<1>2. row'[e] = IF e \in Exhausted
                THEN [row[e] EXCEPT !.state = "dead", !.owner = NoOwner, !.live = FALSE]
                ELSE IF e \in batch THEN Leased(owner, e) ELSE row[e]
  BY DEF Claimed
<1>3. expired' = expired
  OBVIOUS
<1>4. CASE e \in Exhausted
  <2>1. Dead(e)
    BY <1>2, <1>3, <1>4 DEF Exhausted, Dead
  <2>2. e \notin batch
    BY <1>1, <1>4, WebhookRelayAssumption DEF Exhausted, Row, Claimable
  <2> QED  BY <2>1, <2>2
<1>5. CASE e \notin Exhausted /\ e \in batch
  <2>1. /\ row[e].state = "queued" /\ row[e].deliveries < MaxDeliveries
        /\ row[e].owner = owner \/ ~ row[e].live
    BY <1>5 DEF Claimable
  <2>2. row'[e] = Leased(owner, e)
    BY <1>2, <1>5
  <2>3. Leased(owner, e).live /\ Leased(owner, e).owner = owner /\ Leased(owner, e).state = row[e].state
    BY <1>1 DEF Leased, Row
  <2>4. CASE row[e].live
    <3>1. row[e].live = TRUE /\ row[e].owner = owner
      BY <1>1, <2>1, <2>4 DEF Row
    <3>2. Leased(owner, e) =
            [row[e] EXCEPT !.owner = owner, !.live = TRUE, !.deliveries = row[e].deliveries]
      BY <2>1, <3>1 DEF Leased
    <3>3. Leased(owner, e) = row[e]
      BY <1>1, <3>1, <3>2, Renewed
    <3> QED  BY <1>3, <2>1, <2>2, <2>3, <3>3 DEF Stays
  <2>5. CASE ~ row[e].live
    <3>1. Leased(owner, e) =
            [row[e] EXCEPT !.owner = owner, !.live = TRUE, !.deliveries = row[e].deliveries + 1]
      BY <2>5 DEF Leased
    <3> QED  BY <1>3, <1>5, <2>1, <2>2, <2>3, <2>5, <3>1 DEF Taken
  <2> QED  BY <2>4, <2>5
<1>6. CASE e \notin Exhausted /\ e \notin batch
  BY <1>2, <1>3, <1>6 DEF Stays
<1> QED  BY <1>4, <1>5, <1>6

\* What a relay's claim does to a row.
LEMMA ClaimRow ==
    ASSUME TypeOK, NEW r \in Relays, Claim(r), NEW e \in Rows
    PROVE  /\ Stays(e) \/ (Taken(e) /\ e \in Batch(r)) \/ Dead(e)
           /\ e \in Batch(r) => row'[e].live /\ row'[e].owner = r /\ row'[e].state = "queued"
<1>1. PICK batch \in SUBSET Rows : batch = Batch(r)
  BY DEF Batch, Candidates, Rows
<1>2. r \in Owners /\ row' = Claimed(r, batch) /\ UNCHANGED expired
  BY <1>1 DEF Owners, Claim
<1>3. Claimable(r, batch)
  BY <1>1 DEF Claimable, Batch, Candidates
<1>4. /\ Stays(e) \/ (Taken(e) /\ e \in batch) \/ Dead(e)
      /\ e \in batch => row'[e].live /\ row'[e].owner = r /\ row'[e].state = "queued"
  BY <1>2, <1>3, ClaimedRow
<1> QED  BY <1>1, <1>4

\* What a claim of the workflow consumer does to a row, and to a terminal one.
LEMMA WorkflowClaimRow ==
    ASSUME TypeOK, ClearFlag \/ \E f \in Workflows : LeaseWorkflow(f), NEW e \in Rows
    PROVE  /\ Stays(e) \/ Taken(e) \/ Dead(e)
           /\ e \in Terminals => Stays(e) \/ Dead(e)
<1>1. PICK batch \in SUBSET Workflows :
        row' = Claimed(Dispatcher, batch) /\ Claimable(Dispatcher, batch)
  <2>1. CASE ClearFlag
    <3>1. row' = Claimed(Dispatcher, {}) /\ Claimable(Dispatcher, {})
      BY <2>1 DEF ClearFlag, Claimable
    <3> QED  BY <3>1
  <2>2. ASSUME NEW f \in Workflows, LeaseWorkflow(f)
        PROVE  row' = Claimed(Dispatcher, {f}) /\ Claimable(Dispatcher, {f})
    BY <2>2 DEF LeaseWorkflow, Undelivered, Claimable
  <2> QED  BY <2>1, <2>2
<1>2. Dispatcher \in Owners /\ UNCHANGED expired /\ batch \in SUBSET Rows
  BY DEF Owners, ClearFlag, LeaseWorkflow, Rows
<1>3. Stays(e) \/ (Taken(e) /\ e \in batch) \/ Dead(e)
  BY <1>1, <1>2, ClaimedRow
<1>4. e \in Terminals => e \notin batch
  BY <1>1, WebhookRelayAssumption
<1> QED  BY <1>3, <1>4

\* What an acknowledgement does to a row.
LEMMA PublishedRow ==
    ASSUME TypeOK, NEW f \in Rows, row[f].live, SetPublished(f), UNCHANGED expired, NEW e \in Rows
    PROVE  Stays(e) \/ Acknowledged(e)
<1>1. row[f] \in Row /\ row \in [Rows -> Row]
  BY DEF TypeOK
<1>2. row' = [row EXCEPT ![f] = [row[f] EXCEPT !.state = "published", !.owner = NoOwner, !.live = FALSE]]
  BY <1>1 DEF SetPublished
<1> QED  BY <1>1, <1>2 DEF Stays, Acknowledged

\* The ways of a row.
LEMMA RowStep ==
    ASSUME TypeOK, WebhookInv, [Next]_vars
    PROVE  /\ \A e \in Rows : RowMove(e)
           /\ DOMAIN row' = Rows /\ row' = [e \in Rows |-> row'[e]]
           /\ DOMAIN expired' = Rows /\ expired' = [e \in Rows |-> expired'[e]]
<1>t. row \in [Rows -> Row] /\ expired \in [Rows -> 0..MaxDeliveries]
  BY DEF TypeOK
<1> DEFINE Goal == /\ \A e \in Rows : RowMove(e)
                   /\ DOMAIN row' = Rows /\ row' = [e \in Rows |-> row'[e]]
                   /\ DOMAIN expired' = Rows /\ expired' = [e \in Rows |-> expired'[e]]
<1>1. ASSUME UNCHANGED <<row, expired>> PROVE Goal
  BY <1>t, <1>1 DEF RowMove, Stays
<1>2. ASSUME NEW f \in Rows, NEW type \in IF f \in Terminals THEN Published ELSE {"workflow"},
             Insert(f, type), UNCHANGED expired
      PROVE  Goal
  <2>1. /\ row[f].state = "none"
        /\ row' = [row EXCEPT ![f] = [NoRow EXCEPT !.state = "queued", !.type = type]]
    BY <1>2 DEF Insert
  <2>2. \A e \in Rows : Stays(e) \/ Inserted(e)
    BY <1>t, <1>2, <2>1 DEF Stays, Inserted
  <2> QED  BY <1>t, <1>2, <2>1, <2>2 DEF RowMove
<1>3. ASSUME NEW f \in Rows, row[f].live, SetPublished(f), UNCHANGED expired PROVE Goal
  <2>1. \A e \in Rows : Stays(e) \/ Acknowledged(e)
    BY <1>3, PublishedRow
  <2> QED  BY <1>t, <1>3, <2>1 DEF SetPublished, RowMove
<1>4. ASSUME NEW e \in Terminals, NEW status \in Published, CommitResult(e, status) PROVE Goal
  BY <1>2, <1>4 DEF CommitResult, Rows
<1>5. ASSUME NEW e \in Workflows, EnqueueWorkflow(e) PROVE Goal
  BY <1>2, <1>5, WebhookRelayAssumption DEF EnqueueWorkflow, Rows
<1>6. ASSUME ClearFlag \/ \E f \in Workflows : LeaseWorkflow(f) PROVE Goal
  <2>1. \A e \in Rows : RowMove(e)
    BY <1>6, WorkflowClaimRow DEF RowMove
  <2> QED  BY <1>6, <1>t, <2>1 DEF ClearFlag, LeaseWorkflow, Claimed
<1>7. ASSUME NEW e \in Workflows, AcknowledgeWorkflow(e) PROVE Goal
  BY <1>3, <1>7 DEF AcknowledgeWorkflow, Rows
<1>8. ASSUME NEW r \in Relays, Claim(r) PROVE Goal
  <2>1. \A e \in Rows : RowMove(e)
    BY <1>8, ClaimRow DEF RowMove
  <2> QED  BY <1>8, <1>t, <2>1 DEF Claim, Claimed
<1>9. ASSUME NEW r \in Relays, Acknowledge(r) PROVE Goal
  <2>1. relay[r].at \in Rows
    BY <1>9 DEF Acknowledge, WebhookInv, RelayInv, Rows
  <2> QED  BY <1>1, <1>3, <1>9, <2>1 DEF Acknowledge
<1>10. ASSUME NEW f \in Rows, LeaseExpires(f) PROVE Goal
  <2>1. row' = [row EXCEPT ![f] = [row[f] EXCEPT !.live = FALSE]]
    BY <1>10, <1>t DEF LeaseExpires
  <2>2. \A e \in Rows : Stays(e) \/ RunOut(e)
    BY <1>10, <1>t, <2>1 DEF LeaseExpires, Stays, RunOut
  <2> QED  BY <1>10, <1>t, <2>1, <2>2 DEF LeaseExpires, RowMove
<1>11. ASSUME \/ UNCHANGED vars
              \/ \E r \in Relays : PassEnds(r) \/ \E e \in Terminals : Publish(r, e) \/ PublishFails(r, e)
       PROVE  Goal
  BY <1>1, <1>11 DEF vars, PassEnds, Publish, PublishFails
<1> HIDE DEF Goal
<1>12. Goal
  BY <1>4, <1>5, <1>6, <1>7, <1>8, <1>9, <1>10, <1>11 DEF Next, RelayStep, WorkflowStep
<1> QED  BY <1>12 DEF Goal

\* Every move of a row keeps its type, its table constraint and its account.
LEMMA RowKept ==
    ASSUME TypeOK, WebhookInv, NEW e \in Rows, RowMove(e)
    PROVE  /\ row'[e] \in Row /\ DeliveryShape(e)'
           /\ expired'[e] \in 0..MaxDeliveries
           /\ RowInv(e)'
           /\ row[e].state # "none" => row'[e].type = row[e].type /\ row'[e].state # "none"
<1> DEFINE x == row[e]
           y == row'[e]
<1>1. x \in Row /\ DeliveryShape(e) /\ RowInv(e) /\ expired[e] \in 0..MaxDeliveries
  BY DEF TypeOK, WebhookInv
<1>2. /\ x.deliveries \in 0..MaxDeliveries /\ x.live \in BOOLEAN /\ x.owner \in Owners \cup {NoOwner}
      /\ x.type \in Published \cup {"none", "workflow"}
      /\ x.state \in {"none", "queued", "published", "dead"}
  BY <1>1 DEF Row, Owners
<1>n. NoOwner \notin Owners /\ MaxDeliveries \in Nat \ {0}
  BY WebhookRelayAssumption DEF Owners
<1>3. CASE Stays(e)
  BY <1>1, <1>3 DEF Stays, DeliveryShape, RowInv
<1>4. CASE Inserted(e)
  <2>1. PICK type \in IF e \in Terminals THEN Published ELSE {"workflow"} :
          y = [NoRow EXCEPT !.state = "queued", !.type = type]
    BY <1>4 DEF Inserted
  <2>2. /\ y.state = "queued" /\ y.type = type /\ y.deliveries = 0 /\ y.owner = NoOwner
        /\ y.live = FALSE
    BY <2>1 DEF NoRow
  <2>3. NoRow \in Row
    BY <1>n DEF NoRow, Row
  <2>4. y \in Row
    BY <2>1, <2>3 DEF Row
  <2>5. expired'[e] = expired[e] /\ x.state = "none"
    BY <1>4 DEF Inserted
  <2>6. expired[e] = 0
    BY <1>1, <1>2, <2>5 DEF RowInv
  <2>7. DeliveryShape(e)'
    BY <2>2 DEF DeliveryShape
  <2>8. RowInv(e)'
    BY <2>2, <2>5, <2>6 DEF RowInv
  <2> QED  BY <1>1, <2>4, <2>5, <2>7, <2>8
<1>5. CASE Taken(e)
  <2>1. PICK owner \in Owners : y = [x EXCEPT !.owner = owner, !.live = TRUE, !.deliveries = @ + 1]
    BY <1>5 DEF Taken
  <2>2. /\ y.state = x.state /\ y.type = x.type /\ y.deliveries = x.deliveries + 1 /\ y.owner = owner
        /\ y.live = TRUE
    BY <1>1, <2>1 DEF Row
  <2>3. x.deliveries + 1 \in 0..MaxDeliveries
    BY <1>2, <1>5, <1>n DEF Taken
  <2>4. y \in Row
    BY <1>1, <2>1, <2>3 DEF Row, Owners
  <2>5. expired'[e] = expired[e] /\ x.state = "queued" /\ ~ x.live
    BY <1>5 DEF Taken
  <2>6. x.deliveries = expired[e]
    BY <1>1, <2>5 DEF RowInv
  <2>7. DeliveryShape(e)'
    BY <1>2, <1>n, <2>2, <2>5 DEF DeliveryShape
  <2>8. RowInv(e)'
    BY <1>1, <2>2, <2>5, <2>6 DEF RowInv
  <2> QED  BY <1>1, <2>2, <2>4, <2>5, <2>7, <2>8
<1>6. CASE Dead(e)
  <2>1. y = [x EXCEPT !.state = "dead", !.owner = NoOwner, !.live = FALSE]
    BY <1>6 DEF Dead
  <2>2. /\ y.state = "dead" /\ y.type = x.type /\ y.deliveries = x.deliveries /\ y.owner = NoOwner
        /\ y.live = FALSE
    BY <1>1, <2>1 DEF Row
  <2>3. y \in Row
    BY <1>1, <2>1 DEF Row
  <2>4. /\ expired'[e] = expired[e] /\ x.state = "queued" /\ ~ x.live /\ x.deliveries = MaxDeliveries
    BY <1>6 DEF Dead
  <2>5. DeliveryShape(e)'
    BY <2>2, <2>4 DEF DeliveryShape
  <2>6. RowInv(e)'
    BY <1>1, <2>2, <2>4 DEF RowInv
  <2> QED  BY <1>1, <2>2, <2>3, <2>4, <2>5, <2>6
<1>7. CASE Acknowledged(e)
  <2>1. y = [x EXCEPT !.state = "published", !.owner = NoOwner, !.live = FALSE]
    BY <1>7 DEF Acknowledged
  <2>2. /\ y.state = "published" /\ y.type = x.type /\ y.deliveries = x.deliveries /\ y.owner = NoOwner
        /\ y.live = FALSE
    BY <1>1, <2>1 DEF Row
  <2>3. y \in Row
    BY <1>1, <2>1 DEF Row
  <2>4. expired'[e] = expired[e] /\ x.live
    BY <1>7 DEF Acknowledged
  <2>5. x.state = "queued" /\ x.owner \in Owners /\ x.deliveries = expired[e] + 1
    BY <1>1, <2>4 DEF RowInv
  <2>6. x.deliveries > 0
    BY <1>1, <1>n, <2>5 DEF DeliveryShape
  <2>7. DeliveryShape(e)'
    BY <2>2, <2>6 DEF DeliveryShape
  <2>8. RowInv(e)'
    BY <1>1, <2>2, <2>4, <2>5 DEF RowInv
  <2> QED  BY <1>1, <2>2, <2>3, <2>4, <2>7, <2>8
<1>8. CASE RunOut(e)
  <2>1. y = [x EXCEPT !.live = FALSE]
    BY <1>8 DEF RunOut
  <2>2. /\ y.state = x.state /\ y.type = x.type /\ y.deliveries = x.deliveries /\ y.owner = x.owner
        /\ y.live = FALSE
    BY <1>1, <2>1 DEF Row
  <2>3. y \in Row
    BY <1>1, <2>1 DEF Row
  <2>4. expired'[e] = expired[e] + 1 /\ x.live
    BY <1>8 DEF RunOut
  <2>5. x.state = "queued" /\ x.deliveries = expired[e] + 1
    BY <1>1, <2>4 DEF RowInv
  <2>6. expired'[e] \in 0..MaxDeliveries
    BY <1>2, <2>4, <2>5
  <2>7. DeliveryShape(e)'
    BY <1>1, <2>2 DEF DeliveryShape
  <2>8. RowInv(e)'
    BY <1>1, <2>2, <2>4, <2>5 DEF RowInv
  <2> QED  BY <2>2, <2>3, <2>5, <2>6, <2>7, <2>8
<1> QED  BY <1>3, <1>4, <1>5, <1>6, <1>7, <1>8 DEF RowMove

-----------------------------------------------------------------------------
(***************************************************************************)
(* Relays and subscribers.                                                 *)
(***************************************************************************)
\* What a step does with the subscribers' events: nothing, or one more delivery
\* of a row some relay holds.
Told(e) == \E r \in Relays : e \in relay[r].batch /\ Deliver(e)

\* Deliveries come from batches.
LEMMA HeardStep ==
    ASSUME TypeOK, [Next]_vars
    PROVE  UNCHANGED received \/ \E e \in Terminals : Told(e)
<1>1. ASSUME NEW r \in Relays, NEW e \in Terminals, Publish(r, e) \/ PublishFails(r, e)
      PROVE  UNCHANGED received \/ Told(e)
  BY <1>1 DEF Publish, Take, PublishFails, Told
<1>2. ASSUME NEW r \in Relays, Claim(r) \/ Acknowledge(r) \/ PassEnds(r) PROVE UNCHANGED received
  BY <1>2 DEF Claim, Acknowledge, PassEnds
<1>3. ASSUME WorkflowStep PROVE UNCHANGED received
  BY <1>3 DEF WorkflowStep, EnqueueWorkflow, LeaseWorkflow, AcknowledgeWorkflow, ClearFlag
<1>4. ASSUME NEW e \in Terminals, NEW status \in Published, CommitResult(e, status) PROVE UNCHANGED received
  BY <1>4 DEF CommitResult
<1>5. ASSUME NEW e \in Rows, LeaseExpires(e) PROVE UNCHANGED received
  BY <1>5 DEF LeaseExpires
<1>6. UNCHANGED vars => UNCHANGED received
  BY DEF vars
<1> QED  BY <1>1, <1>2, <1>3, <1>4, <1>5, <1>6 DEF Next, RelayStep

\* What is received only grows, and a subscriber is told of its own row.
LEMMA ReceivedKept ==
    ASSUME TypeOK, WebhookInv, [Next]_vars
    PROVE  /\ received' \in [Terminals -> (Published \cup {"none"}) \X Nat]
           /\ \A e \in Terminals :
                 /\ received[e][2] \in Nat /\ received'[e][2] \in Nat
                 /\ received[e][2] <= received'[e][2]
                 /\ \/ received'[e] = received[e]
                    \/ received'[e][1] = row[e].type /\ row[e].state # "none"
<1>1. received \in [Terminals -> (Published \cup {"none"}) \X Nat]
  BY DEF TypeOK
<1>2. CASE UNCHANGED received
  BY <1>1, <1>2
<1>3. ASSUME NEW f \in Terminals, Told(f)
      PROVE  /\ received' \in [Terminals -> (Published \cup {"none"}) \X Nat]
             /\ \A e \in Terminals :
                 /\ received[e][2] \in Nat /\ received'[e][2] \in Nat
                 /\ received[e][2] <= received'[e][2]
                 /\ \/ received'[e] = received[e]
                    \/ received'[e][1] = row[e].type /\ row[e].state # "none"
  <2>1. row[f].type \in Published \cup {"none"} /\ row[f].state # "none"
    BY <1>3 DEF Told, WebhookInv, RowInv, RelayInv, Rows
  <2>2. received' = [received EXCEPT ![f] = <<row[f].type, received[f][2] + 1>>]
    BY <1>3 DEF Told, Deliver
  <2>3. received[f][2] \in Nat
    BY <1>1
  <2> QED  BY <1>1, <2>1, <2>2, <2>3
<1> QED  BY <1>2, <1>3, HeardStep

\* Where a step takes a relay.
Moved(r) ==
    \/ relay'[r] = relay[r]
    \/ relay'[r] = Idle
    \/ /\ relay'[r].pc = "publish"
       /\ relay'[r].batch \in SUBSET Terminals
       /\ \A e \in relay'[r].batch : e \in relay[r].batch \/ row'[e].state = "queued"
    \/ \E e \in relay[r].batch :
          /\ relay'[r] = [pc |-> "acknowledge", batch |-> relay[r].batch \ {e}, at |-> e]
          /\ Deliver(e)

\* Every relay is where Moved says.
LEMMA RelayMoves ==
    ASSUME TypeOK, WebhookInv, [Next]_vars
    PROVE  relay' \in [Relays -> RelayRecord] /\ \A r \in Relays : Moved(r)
<1>t. relay \in [Relays -> RelayRecord]
  BY DEF TypeOK
<1>i. Idle \in RelayRecord
  BY DEF Idle, RelayRecord, None
<1>m. ASSUME NEW c \in Relays, NEW rec \in RelayRecord, Move(c, rec)
      PROVE  /\ relay' \in [Relays -> RelayRecord] /\ relay'[c] = rec
             /\ \A r \in Relays : r # c => relay'[r] = relay[r]
  BY <1>t, <1>m DEF Move
<1>g. ASSUME NEW rest \in SUBSET Terminals
      PROVE  /\ Go(rest) \in RelayRecord
             /\ Go(rest) = Idle \/ (Go(rest).pc = "publish" /\ Go(rest).batch = rest)
  <2>1. [Idle EXCEPT !.pc = "publish", !.batch = rest] \in RelayRecord
    BY <1>i DEF RelayRecord
  <2>2. LET x == [Idle EXCEPT !.pc = "publish", !.batch = rest] IN x.pc = "publish" /\ x.batch = rest
    BY DEF Idle
  <2> QED  BY <1>i, <2>1, <2>2 DEF Go
<1> DEFINE Goal == relay' \in [Relays -> RelayRecord] /\ \A r \in Relays : Moved(r)
<1>1. ASSUME UNCHANGED relay PROVE Goal
  BY <1>t, <1>1 DEF Moved
<1>2. ASSUME NEW c \in Relays, Move(c, Idle) PROVE Goal
  <2>1. /\ relay' \in [Relays -> RelayRecord] /\ relay'[c] = Idle
        /\ \A r \in Relays : r # c => relay'[r] = relay[r]
    BY <1>i, <1>m, <1>2
  <2> QED  BY <2>1 DEF Moved
<1>3. ASSUME NEW c \in Relays, Claim(c) PROVE Goal
  <2>1. Batch(c) \in SUBSET Terminals
    BY DEF Batch, Candidates
  <2>2. \A e \in Batch(c) : row'[e].state = "queued"
    BY <1>3, <2>1, ClaimRow DEF Rows
  <2>3. Go(Batch(c)) \in RelayRecord /\ Move(c, Go(Batch(c)))
    BY <1>3, <1>g, <2>1 DEF Claim
  <2>4. /\ relay' \in [Relays -> RelayRecord] /\ relay'[c] = Go(Batch(c))
        /\ \A r \in Relays : r # c => relay'[r] = relay[r]
    BY <1>m, <2>3
  <2>5. Moved(c)
    BY <1>g, <2>1, <2>2, <2>4 DEF Moved
  <2>6. \A r \in Relays : Moved(r)
    BY <2>4, <2>5 DEF Moved
  <2> QED  BY <2>4, <2>6
<1>4. ASSUME NEW c \in Relays, NEW e \in Terminals, Publish(c, e) PROVE Goal
  <2> DEFINE rec == [pc |-> "acknowledge", batch |-> relay[c].batch \ {e}, at |-> e]
  <2>1. e \in relay[c].batch /\ Move(c, rec) /\ Deliver(e)
    BY <1>4 DEF Publish, Take
  <2>2. rec \in RelayRecord
    BY <1>t DEF RelayRecord
  <2>3. /\ relay' \in [Relays -> RelayRecord] /\ relay'[c] = rec
        /\ \A r \in Relays : r # c => relay'[r] = relay[r]
    BY <1>m, <2>1, <2>2
  <2>4. Moved(c)
    BY <2>1, <2>3 DEF Moved
  <2>5. \A r \in Relays : Moved(r)
    BY <2>3, <2>4 DEF Moved
  <2> QED  BY <2>3, <2>5
<1>5. ASSUME NEW c \in Relays, Acknowledge(c) PROVE Goal
  <2>1. relay[c].batch \in SUBSET Terminals
    BY <1>t DEF RelayRecord
  <2>2. Move(c, Go(relay[c].batch)) \/ Move(c, Idle)
    BY <1>5 DEF Acknowledge
  <2>3. CASE Move(c, Go(relay[c].batch))
    <3>1. Go(relay[c].batch) \in RelayRecord
      BY <1>g, <2>1
    <3>2. /\ relay' \in [Relays -> RelayRecord] /\ relay'[c] = Go(relay[c].batch)
          /\ \A r \in Relays : r # c => relay'[r] = relay[r]
      BY <1>m, <2>3, <3>1
    <3>3. Moved(c)
      BY <1>g, <2>1, <3>2 DEF Moved
    <3>4. \A r \in Relays : Moved(r)
      BY <3>2, <3>3 DEF Moved
    <3> QED  BY <3>2, <3>4
  <2> QED  BY <1>2, <2>2, <2>3
<1>6. ASSUME \E r \in Relays : PassEnds(r) \/ \E e \in Terminals : PublishFails(r, e) PROVE Goal
  BY <1>2, <1>6 DEF PassEnds, PublishFails
<1>7. ASSUME \/ UNCHANGED vars \/ WorkflowStep \/ \E e \in Rows : LeaseExpires(e)
             \/ \E e \in Terminals, status \in Published : CommitResult(e, status)
      PROVE  UNCHANGED relay
  BY <1>7 DEF vars, WorkflowStep, EnqueueWorkflow, LeaseWorkflow, AcknowledgeWorkflow, ClearFlag,
              LeaseExpires, CommitResult
<1> HIDE DEF Goal
<1>8. Goal
  BY <1>1, <1>3, <1>4, <1>5, <1>6, <1>7 DEF Next, RelayStep
<1> QED  BY <1>8 DEF Goal

\* A step keeps what relays rely on.
LEMMA RelayKept ==
    ASSUME TypeOK, WebhookInv, [Next]_vars, NEW r \in Relays
    PROVE  RelayInv(r)'
<1>1. /\ \A e \in relay[r].batch : e \in Rows /\ row[e].state # "none"
      /\ relay[r] \in RelayRecord /\ relay[r].batch \subseteq Terminals
      /\ relay[r].pc = "idle" => relay[r].batch = {}
      /\ relay[r].pc = "acknowledge" => relay[r].at \in Terminals /\ received[relay[r].at][2] > 0
  BY DEF TypeOK, RelayRecord, WebhookInv, RelayInv, Rows
<1>2. \A e \in Rows : row[e].state # "none" => row'[e].state # "none"
  BY RowStep, RowKept
<1>3. \A e \in Terminals : received[e][2] > 0 => received'[e][2] > 0
  BY ReceivedKept
<1>4. CASE relay'[r] = relay[r]
  BY <1>1, <1>2, <1>3, <1>4 DEF RelayInv
<1>5. CASE relay'[r] = Idle
  BY <1>5 DEF RelayInv, Idle
<1>6. CASE /\ relay'[r].pc = "publish"
           /\ relay'[r].batch \in SUBSET Terminals
           /\ \A e \in relay'[r].batch : e \in relay[r].batch \/ row'[e].state = "queued"
  BY <1>1, <1>2, <1>6 DEF RelayInv
<1>7. ASSUME NEW e \in relay[r].batch, Deliver(e),
             relay'[r] = [pc |-> "acknowledge", batch |-> relay[r].batch \ {e}, at |-> e]
      PROVE  RelayInv(r)'
  <2>1. e \in Terminals /\ received[e][2] \in Nat
    BY <1>1, ReceivedKept
  <2>2. received'[e][2] > 0
    BY <1>7, <2>1 DEF Deliver, TypeOK
  <2> QED  BY <1>1, <1>2, <1>7, <2>1, <2>2 DEF RelayInv
<1> QED  BY <1>4, <1>5, <1>6, <1>7, RelayMoves DEF Moved

\* A row is published by a relay that has delivered it, or is a workflow row.
LEMMA PublishedByRelay ==
    ASSUME TypeOK, WebhookInv, [Next]_vars, NEW e \in Terminals,
           row[e].state # "published", row'[e].state = "published"
    PROVE  received[e][2] > 0
<1>t. row \in [Rows -> Row] /\ e \in Rows
  BY DEF TypeOK, Rows
<1>1. ASSUME NEW r \in Relays, Acknowledge(r) PROVE received[e][2] > 0
  <2>1. relay[r].at \in Terminals /\ received[relay[r].at][2] > 0
    BY <1>1 DEF Acknowledge, WebhookInv, RelayInv
  <2>2. relay[r].at = e
    BY <1>1, <1>t, <2>1 DEF Acknowledge, SetPublished, Rows
  <2> QED  BY <2>1, <2>2
<1>2. ~ \E r \in Relays : Claim(r)
  <2> SUFFICES ASSUME NEW r \in Relays, Claim(r) PROVE FALSE
    OBVIOUS
  <2>1. Stays(e) \/ Taken(e) \/ Dead(e)
    BY <1>t, ClaimRow
  <2>2. row[e] \in Row
    BY <1>t
  <2> QED  BY <2>1, <2>2 DEF Stays, Taken, Dead, Row
<1>3. ~ \E f \in Terminals, status \in Published : CommitResult(f, status)
  BY <1>t DEF CommitResult, Insert, NoRow
<1>4. ~ \E f \in Workflows : EnqueueWorkflow(f) \/ AcknowledgeWorkflow(f)
  BY <1>t, WebhookRelayAssumption DEF EnqueueWorkflow, Insert, AcknowledgeWorkflow, SetPublished, Rows
<1>7. ~ (ClearFlag \/ \E f \in Workflows : LeaseWorkflow(f))
  <2> SUFFICES ASSUME ClearFlag \/ \E f \in Workflows : LeaseWorkflow(f) PROVE FALSE
    OBVIOUS
  <2>1. Stays(e) \/ Dead(e)
    BY <1>t, WorkflowClaimRow
  <2>2. row[e] \in Row
    BY <1>t
  <2> QED  BY <2>1, <2>2 DEF Stays, Dead, Row
<1>5. ~ \E f \in Rows : LeaseExpires(f)
  BY <1>t DEF LeaseExpires, Row
<1>6. ~ (\/ UNCHANGED vars
         \/ \E r \in Relays : PassEnds(r) \/ \E f \in Terminals : Publish(r, f) \/ PublishFails(r, f))
  BY DEF vars, PassEnds, Publish, PublishFails
<1> QED  BY <1>1, <1>2, <1>3, <1>4, <1>5, <1>6, <1>7 DEF Next, RelayStep, WorkflowStep

\* A step keeps what subscribers have heard in line with the rows.
LEMMA HeardKept ==
    ASSUME TypeOK, WebhookInv, [Next]_vars, NEW e \in Terminals
    PROVE  HeardInv(e)'
<1>1. HeardInv(e) /\ e \in Rows
  BY DEF WebhookInv, Rows
<1>2. row[e].state # "none" => row'[e].type = row[e].type /\ row'[e].state # "none"
  BY <1>1, RowStep, RowKept
<1>3. /\ received[e][2] \in Nat /\ received'[e][2] \in Nat
      /\ received[e][2] <= received'[e][2]
      /\ received'[e] = received[e] \/ (received'[e][1] = row[e].type /\ row[e].state # "none")
  BY ReceivedKept
<1>4. row'[e].state = "published" => received[e][2] > 0
  BY <1>1, PublishedByRelay DEF HeardInv
<1> QED  BY <1>1, <1>2, <1>3, <1>4 DEF HeardInv

\* The initial states.
LEMMA InvInit == Init => TypeOK /\ WebhookInv
<1> SUFFICES ASSUME Init PROVE TypeOK /\ WebhookInv
  OBVIOUS
<1>1. /\ NoRow \in Row /\ NoRow.state = "none" /\ NoRow.deliveries = 0 /\ NoRow.owner = NoOwner
      /\ NoRow.live = FALSE /\ NoRow.type = "none"
  BY WebhookRelayAssumption DEF NoRow, Row
<1>2. Idle \in RelayRecord /\ Idle.pc = "idle" /\ Idle.batch = {}
  BY DEF Idle, RelayRecord
<1>3. Nothing \in (Published \cup {"none"}) \X Nat /\ Nothing[2] = 0
  BY DEF Nothing
<1>4. row \in [Rows -> Row] /\ \A e \in Rows : row[e] = NoRow
  BY <1>1 DEF Init
<1>5. relay \in [Relays -> RelayRecord] /\ \A r \in Relays : relay[r] = Idle
  BY <1>2 DEF Init
<1>6. /\ received \in [Terminals -> (Published \cup {"none"}) \X Nat]
      /\ \A e \in Terminals : received[e][2] = 0
  BY <1>3 DEF Init
<1>7. expired \in [Rows -> 0..MaxDeliveries] /\ \A e \in Rows : expired[e] = 0
  BY WebhookRelayAssumption DEF Init
<1>8. \A e \in Rows : DeliveryShape(e) /\ RowInv(e)
  BY <1>1, <1>4, <1>7 DEF DeliveryShape, RowInv
<1>9. faults \in 0..MaxFaults /\ pending \in BOOLEAN
  <2>1. faults \in 0..MaxFaults
    BY WebhookRelayAssumption DEF Init
  <2>2. pending \in BOOLEAN
    BY DEF Init
  <2> QED  BY <2>1, <2>2
<1>10. TypeOK
  BY <1>4, <1>5, <1>6, <1>7, <1>8, <1>9 DEF TypeOK
<1>11. \A r \in Relays : RelayInv(r)
  BY <1>2, <1>5 DEF RelayInv
<1>12. \A e \in Terminals : HeardInv(e)
  BY <1>1, <1>4, <1>6 DEF HeardInv, Rows
<1> QED  BY <1>8, <1>10, <1>11, <1>12 DEF WebhookInv

\* The flag and the faults.
LEMMA FlagKept ==
    ASSUME TypeOK, [Next]_vars
    PROVE  pending' \in BOOLEAN /\ faults' \in 0..MaxFaults /\ faults <= faults' /\ faults \in Nat
<1>1. pending \in BOOLEAN /\ faults \in 0..MaxFaults /\ MaxFaults \in Nat
  BY WebhookRelayAssumption DEF TypeOK
<1>2. pending' \in BOOLEAN
  <2>1. \A e \in Rows : SetPublished(e) => pending' \in BOOLEAN
    BY DEF SetPublished
  <2>2. \A e \in Workflows : EnqueueWorkflow(e) \/ LeaseWorkflow(e) \/ AcknowledgeWorkflow(e) => pending' \in BOOLEAN
    BY <1>1, <2>1 DEF EnqueueWorkflow, LeaseWorkflow, AcknowledgeWorkflow, Rows
  <2>3. \A r \in Relays : Acknowledge(r) => pending' \in BOOLEAN
    BY <1>1 DEF Acknowledge, SetPublished
  <2>4. \/ UNCHANGED vars \/ ClearFlag \/ \E e \in Rows : LeaseExpires(e)
        \/ \E e \in Terminals, status \in Published : CommitResult(e, status)
        \/ \E r \in Relays : Claim(r) \/ PassEnds(r) \/ \E e \in Terminals : Publish(r, e) \/ PublishFails(r, e)
        => pending' \in BOOLEAN
    BY <1>1 DEF vars, ClearFlag, LeaseExpires, CommitResult, Claim, PassEnds, Publish, PublishFails
  <2> QED  BY <2>2, <2>3, <2>4 DEF Next, RelayStep, WorkflowStep
<1>3. faults' = faults \/ (faults < MaxFaults /\ faults' = faults + 1)
  <2>1. \A r \in Relays : PassEnds(r) \/ (\E e \in Terminals : PublishFails(r, e)) =>
          faults < MaxFaults /\ faults' = faults + 1
    BY DEF PassEnds, PublishFails, Fault
  <2>2. \/ UNCHANGED vars \/ WorkflowStep \/ \E e \in Rows : LeaseExpires(e)
        \/ \E e \in Terminals, status \in Published : CommitResult(e, status)
        \/ \E r \in Relays : RelayStep(r)
        => UNCHANGED faults
    BY DEF vars, WorkflowStep, EnqueueWorkflow, LeaseWorkflow, AcknowledgeWorkflow, ClearFlag,
       LeaseExpires, CommitResult, RelayStep, Claim, Publish, Acknowledge
  <2> QED  BY <2>1, <2>2 DEF Next
<1> QED  BY <1>1, <1>2, <1>3

\* The invariant of the outbox and its relays.
THEOREM Relaying == Spec => [](TypeOK /\ WebhookInv)
<1>1. TypeOK /\ WebhookInv /\ [Next]_vars => (TypeOK /\ WebhookInv)'
  <2> SUFFICES ASSUME TypeOK, WebhookInv, [Next]_vars PROVE TypeOK' /\ WebhookInv'
    OBVIOUS
  <2>1. \A e \in Rows : /\ row'[e] \in Row /\ DeliveryShape(e)'
                        /\ expired'[e] \in 0..MaxDeliveries /\ RowInv(e)'
    BY RowStep, RowKept
  <2>2. row' \in [Rows -> Row] /\ expired' \in [Rows -> 0..MaxDeliveries]
    BY <2>1, RowStep
  <2>3. TypeOK'
    BY <2>1, <2>2, RelayMoves, ReceivedKept, FlagKept DEF TypeOK
  <2>4. WebhookInv'
    BY <2>1, RelayKept, HeardKept DEF WebhookInv
  <2> QED  BY <2>3, <2>4
<1> QED  BY InvInit, <1>1, PTL DEF Spec

\* The type invariant, with ocr_outbox_delivery_shape.
THEOREM TypeCorrect == Spec => []TypeOK
BY Relaying, PTL

\* A terminal row is acknowledged only when its subscriber has been told, and told
\* the status the job was published with.
THEOREM Received == Spec => []AcknowledgedWasReceived
<1>1. WebhookInv => AcknowledgedWasReceived
  BY DEF WebhookInv, HeardInv, AcknowledgedWasReceived
<1> QED  BY Relaying, <1>1, PTL

-----------------------------------------------------------------------------
(***************************************************************************)
(* Repetition.  A relay that holds a row may deliver it once more; the     *)
(* deliveries made and still to come are paid for by the leases that ran   *)
(* out, the faults, and the one lease that is being used.                  *)
(***************************************************************************)
Holders(e) == {r \in Relays : e \in relay[r].batch}

\* The relay is delivering the row, or has just done so.
Uses(r, e) == e \in relay[r].batch \/ (relay[r].pc = "acknowledge" /\ relay[r].at = e)

\* The live lease of the row is in use, or has been used up.
InUse(e) == \/ row[e].state = "published"
            \/ row[e].live /\ row[e].owner \in Relays /\ Uses(row[e].owner, e)

Account(e) ==
    received[e][2] + Cardinality(Holders(e)) <= expired[e] + faults + IF InUse(e) THEN 1 ELSE 0

BudgetInv == \A e \in Terminals : Account(e)

\* Sets of relays are finite, and compare by their size.
LEMMA RelaySets ==
    ASSUME NEW S \in SUBSET Relays, NEW T \in SUBSET Relays
    PROVE  /\ Cardinality(S) \in Nat /\ Cardinality(T) \in Nat
           /\ T \subseteq S => Cardinality(T) <= Cardinality(S)
           /\ \A r \in Relays : T \subseteq S \cup {r} => Cardinality(T) <= Cardinality(S) + 1
           /\ \A r \in S : T \subseteq S \ {r} => Cardinality(T) + 1 <= Cardinality(S)
<1>1. IsFiniteSet(S) /\ IsFiniteSet(T)
  BY WebhookRelayAssumption, FS_Subset
<1>2. Cardinality(S) \in Nat /\ Cardinality(T) \in Nat
  BY <1>1, FS_CardinalityType
<1>3. T \subseteq S => Cardinality(T) <= Cardinality(S)
  BY <1>1, FS_Subset
<1>4. ASSUME NEW r \in Relays, T \subseteq S \cup {r}
      PROVE  Cardinality(T) <= Cardinality(S) + 1
  <2>1. /\ IsFiniteSet(S \cup {r})
        /\ Cardinality(S \cup {r}) = Cardinality(S) \/ Cardinality(S \cup {r}) = Cardinality(S) + 1
    BY <1>1, FS_AddElement
  <2>2. Cardinality(T) <= Cardinality(S \cup {r})
    BY <1>4, <2>1, FS_Subset
  <2> QED  BY <1>2, <2>1, <2>2
<1>5. ASSUME NEW r \in S, T \subseteq S \ {r}
      PROVE  Cardinality(T) + 1 <= Cardinality(S)
  <2>1. IsFiniteSet(S \ {r}) /\ Cardinality(S \ {r}) = Cardinality(S) - 1
    BY <1>1, FS_RemoveElement
  <2>2. Cardinality(T) <= Cardinality(S \ {r})
    BY <1>5, <2>1, FS_Subset
  <2> QED  BY <1>2, <2>1, <2>2
<1> QED  BY <1>2, <1>3, <1>4, <1>5

\* The sum on the left and its parts are numbers.
LEMMA BudgetTypes ==
    ASSUME TypeOK, NEW e \in Terminals
    PROVE  /\ received[e][2] \in Nat /\ expired[e] \in Nat /\ faults \in Nat
           /\ Holders(e) \in SUBSET Relays /\ Cardinality(Holders(e)) \in Nat
           /\ e \in Rows /\ row[e] \in Row
<1>1. received[e][2] \in Nat /\ expired[e] \in Nat /\ faults \in Nat /\ e \in Rows /\ row[e] \in Row
  BY WebhookRelayAssumption DEF TypeOK, Rows
<1>2. Holders(e) \in SUBSET Relays
  BY DEF Holders
<1> QED  BY <1>1, <1>2, RelaySets

\* So are they after a step.
LEMMA BudgetTypesAfter ==
    ASSUME TypeOK', NEW e \in Terminals
    PROVE  /\ received'[e][2] \in Nat
           /\ Holders(e)' \in SUBSET Relays /\ Cardinality(Holders(e)') \in Nat
<1>1. received'[e][2] \in Nat
  BY DEF TypeOK
<1>2. Holders(e)' \in SUBSET Relays
  BY DEF Holders
<1> QED  BY <1>1, <1>2, RelaySets

\* The relays stay, and a row is inserted, loses its lease or is given up.
LEMMA RowBudget ==
    ASSUME TypeOK, TypeOK', WebhookInv, UNCHANGED <<relay, received, faults>>,
           NEW e \in Terminals, Account(e), Stays(e) \/ Inserted(e) \/ RunOut(e) \/ Dead(e)
    PROVE  Account(e)'
<1>1. /\ received[e][2] \in Nat /\ expired[e] \in Nat /\ faults \in Nat
      /\ Cardinality(Holders(e)) \in Nat /\ e \in Rows /\ row[e] \in Row
  BY BudgetTypes
<1>2. Holders(e)' = Holders(e)
  BY DEF Holders
<1>3. CASE Stays(e)
  <2>1. InUse(e)' = InUse(e)
    BY <1>3 DEF Stays, InUse, Uses
  <2> QED  BY <1>2, <1>3, <2>1 DEF Stays, Account
<1>4. CASE Inserted(e)
  <2>1. ~ InUse(e)
    BY <1>1, <1>4 DEF Inserted, InUse, WebhookInv, RowInv
  <2>2. expired'[e] = expired[e]
    BY <1>4 DEF Inserted
  <2>3. received[e][2] + Cardinality(Holders(e)) <= expired[e] + faults
    BY <1>1, <2>1 DEF Account
  <2> QED  BY <1>1, <1>2, <2>2, <2>3 DEF Account
<1>5. CASE RunOut(e)
  <2>1. expired'[e] = expired[e] + 1
    BY <1>5 DEF RunOut
  <2>2. received[e][2] + Cardinality(Holders(e)) <= expired[e] + faults + 1
    BY <1>1 DEF Account
  <2> QED  BY <1>1, <1>2, <2>1, <2>2 DEF Account
<1>6. CASE Dead(e)
  <2>1. ~ InUse(e)
    BY <1>1, <1>6 DEF Dead, InUse
  <2>2. expired'[e] = expired[e]
    BY <1>6 DEF Dead
  <2>3. received[e][2] + Cardinality(Holders(e)) <= expired[e] + faults
    BY <1>1, <2>1 DEF Account
  <2> QED  BY <1>1, <1>2, <2>2, <2>3 DEF Account
<1> QED  BY <1>3, <1>4, <1>5, <1>6

\* A claim adds a holder to the rows whose lease nobody is using.
LEMMA ClaimBudget ==
    ASSUME TypeOK, TypeOK', WebhookInv, NEW r \in Relays, Claim(r), NEW e \in Terminals, Account(e)
    PROVE  Account(e)'
<1>1. /\ received[e][2] \in Nat /\ expired[e] \in Nat /\ faults \in Nat
      /\ Holders(e) \in SUBSET Relays /\ Cardinality(Holders(e)) \in Nat /\ e \in Rows /\ row[e] \in Row
  BY BudgetTypes
<1>2. Holders(e)' \in SUBSET Relays /\ Cardinality(Holders(e)') \in Nat
  BY BudgetTypesAfter
<1>u. UNCHANGED <<received, expired, faults>>
  BY DEF Claim
<1>3. relay[r].pc = "idle" /\ relay[r].batch = {} /\ ~ Uses(r, e)
  BY DEF Claim, WebhookInv, RelayInv, Uses
<1>4. relay'[r] = Go(Batch(r)) /\ \A c \in Relays : c # r => relay'[c] = relay[c]
  BY DEF Claim, Move, TypeOK
<1>5. /\ Stays(e) \/ (Taken(e) /\ e \in Batch(r)) \/ Dead(e)
      /\ e \in Batch(r) => row'[e].live /\ row'[e].owner = r /\ row'[e].state = "queued"
  BY <1>1, ClaimRow
<1>6. relay'[r].batch = Batch(r)
  BY <1>4 DEF Go, Idle
<1>7. CASE e \in Batch(r)
  <2>1. ~ InUse(e)
    BY <1>3, <1>7 DEF Batch, Candidates, InUse
  <2>2. InUse(e)'
    BY <1>5, <1>6, <1>7 DEF InUse, Uses
  <2>3. Holders(e)' \subseteq Holders(e) \cup {r}
    BY <1>4 DEF Holders
  <2>4. Cardinality(Holders(e)') <= Cardinality(Holders(e)) + 1
    BY <1>1, <1>2, <2>3, RelaySets
  <2>5. received[e][2] + Cardinality(Holders(e)) <= expired[e] + faults
    BY <1>1, <2>1 DEF Account
  <2>6. received[e][2] + Cardinality(Holders(e)') <= expired[e] + faults + 1
    BY <1>1, <1>2, <2>4, <2>5
  <2> QED  BY <1>u, <2>2, <2>6 DEF Account
<1>8. CASE e \notin Batch(r)
  <2>1. Holders(e)' \subseteq Holders(e)
    BY <1>4, <1>6, <1>8 DEF Holders
  <2>2. Cardinality(Holders(e)') <= Cardinality(Holders(e))
    BY <1>1, <1>2, <2>1, RelaySets
  <2>3. InUse(e) => InUse(e)'
    <3>1. CASE Stays(e)
      BY <1>3, <1>4, <3>1 DEF Stays, InUse, Uses
    <3>2. CASE Dead(e)
      BY <3>2 DEF Dead, InUse
    <3> QED  BY <1>5, <1>8, <3>1, <3>2
  <2>4. CASE InUse(e)
    <3>1. received[e][2] + Cardinality(Holders(e)') <= expired[e] + faults + 1
      BY <1>1, <1>2, <2>2, <2>4 DEF Account
    <3> QED  BY <1>u, <2>3, <2>4, <3>1 DEF Account
  <2>5. CASE ~ InUse(e)
    <3>1. received[e][2] + Cardinality(Holders(e)') <= expired[e] + faults
      BY <1>1, <1>2, <2>2, <2>5 DEF Account
    <3> QED  BY <1>1, <1>2, <1>u, <3>1 DEF Account
  <2> QED  BY <2>4, <2>5
<1> QED  BY <1>7, <1>8

\* A relay's delivery uses up its hold on the row.
LEMMA PublishBudget ==
    ASSUME TypeOK, TypeOK', WebhookInv, NEW r \in Relays, NEW f \in Terminals, Publish(r, f),
           NEW e \in Terminals, Account(e)
    PROVE  Account(e)'
<1>1. /\ received[e][2] \in Nat /\ expired[e] \in Nat /\ faults \in Nat
      /\ Holders(e) \in SUBSET Relays /\ Cardinality(Holders(e)) \in Nat
  BY BudgetTypes
<1>2. Holders(e)' \in SUBSET Relays /\ Cardinality(Holders(e)') \in Nat /\ received'[e][2] \in Nat
  BY BudgetTypesAfter
<1>u. UNCHANGED <<row, expired, faults>>
  BY DEF Publish
<1>3. f \in relay[r].batch /\ relay[r].pc = "publish"
  BY DEF Publish, Take
<1>4. /\ relay'[r] = [pc |-> "acknowledge", batch |-> relay[r].batch \ {f}, at |-> f]
      /\ \A c \in Relays : c # r => relay'[c] = relay[c]
  BY DEF Publish, Take, Move, TypeOK
<1>5. relay'[r].pc = "acknowledge" /\ relay'[r].batch = relay[r].batch \ {f} /\ relay'[r].at = f
  BY <1>4
<1>6. InUse(e)' = InUse(e)
  <2>1. Uses(r, e)' <=> Uses(r, e)
    BY <1>3, <1>5 DEF Uses
  <2>2. \A c \in Relays : c # r => (Uses(c, e)' <=> Uses(c, e))
    BY <1>4 DEF Uses
  <2> QED  BY <1>u, <2>1, <2>2 DEF InUse
<1>7. received'[e][2] + Cardinality(Holders(e)') <= received[e][2] + Cardinality(Holders(e))
  <2>1. CASE e = f
    <3>1. received'[e][2] = received[e][2] + 1
      BY <2>1 DEF Publish, Deliver, TypeOK
    <3>2. r \in Holders(e) /\ Holders(e)' \subseteq Holders(e) \ {r}
      BY <1>3, <1>4, <1>5, <2>1 DEF Holders
    <3>3. Cardinality(Holders(e)') + 1 <= Cardinality(Holders(e))
      BY <1>1, <1>2, <3>2, RelaySets
    <3> QED  BY <1>1, <1>2, <3>1, <3>3
  <2>2. CASE e # f
    <3>1. received'[e] = received[e]
      BY <2>2 DEF Publish, Deliver, TypeOK
    <3>2. Holders(e)' \subseteq Holders(e)
      BY <1>4, <1>5 DEF Holders
    <3>3. Cardinality(Holders(e)') <= Cardinality(Holders(e))
      BY <1>1, <1>2, <3>2, RelaySets
    <3> QED  BY <1>1, <1>2, <3>1, <3>3
  <2> QED  BY <2>1, <2>2
<1> QED  BY <1>1, <1>2, <1>u, <1>6, <1>7 DEF Account

\* A pass that ends early is a fault.
LEMMA FaultBudget ==
    ASSUME TypeOK, TypeOK', WebhookInv, NEW r \in Relays,
           PassEnds(r) \/ \E f \in Terminals : PublishFails(r, f),
           NEW e \in Terminals, Account(e)
    PROVE  Account(e)'
<1>1. /\ received[e][2] \in Nat /\ expired[e] \in Nat /\ faults \in Nat
      /\ Holders(e) \in SUBSET Relays /\ Cardinality(Holders(e)) \in Nat
  BY BudgetTypes
<1>2. Holders(e)' \in SUBSET Relays /\ Cardinality(Holders(e)') \in Nat /\ received'[e][2] \in Nat
  BY BudgetTypesAfter
<1>u. UNCHANGED <<row, expired>> /\ faults' = faults + 1
  BY DEF PassEnds, PublishFails, Fault
<1>3. relay'[r] = Idle /\ \A c \in Relays : c # r => relay'[c] = relay[c]
  BY DEF PassEnds, PublishFails, Move, TypeOK
<1>4. relay'[r].batch = {}
  BY <1>3 DEF Idle
<1>5. received'[e][2] + Cardinality(Holders(e)') <= received[e][2] + Cardinality(Holders(e))
  <2>1. Holders(e)' \subseteq Holders(e) \ {r}
    BY <1>3, <1>4 DEF Holders
  <2>2. CASE r \in Holders(e)
    <3>1. received'[e][2] = received[e][2] + 1 \/ received'[e][2] = received[e][2]
      BY DEF PassEnds, PublishFails, Deliver, TypeOK
    <3>2. Cardinality(Holders(e)') + 1 <= Cardinality(Holders(e))
      BY <1>1, <1>2, <2>1, <2>2, RelaySets
    <3> QED  BY <1>1, <1>2, <3>1, <3>2
  <2>3. CASE r \notin Holders(e)
    <3>1. received'[e][2] = received[e][2]
      BY <2>3 DEF PassEnds, PublishFails, Deliver, TypeOK, Holders
    <3>2. Cardinality(Holders(e)') <= Cardinality(Holders(e))
      BY <1>1, <1>2, <2>1, RelaySets
    <3> QED  BY <1>1, <1>2, <3>1, <3>2
  <2> QED  BY <2>2, <2>3
<1>6. received[e][2] + Cardinality(Holders(e)) <= expired[e] + faults + 1
  BY <1>1 DEF Account
<1>7. received'[e][2] + Cardinality(Holders(e)') <= expired'[e] + faults'
  BY <1>1, <1>2, <1>u, <1>5, <1>6
<1>8. expired'[e] \in Nat /\ faults' \in Nat
  BY <1>1, <1>u
<1> QED  BY <1>2, <1>7, <1>8 DEF Account

\* An acknowledgement uses up the lease or, refused, finds it gone.
LEMMA AcknowledgeBudget ==
    ASSUME TypeOK, TypeOK', WebhookInv, NEW r \in Relays, Acknowledge(r), NEW e \in Terminals, Account(e)
    PROVE  Account(e)'
<1> DEFINE a == relay[r].at
<1>1. /\ received[e][2] \in Nat /\ expired[e] \in Nat /\ faults \in Nat
      /\ Holders(e) \in SUBSET Relays /\ Cardinality(Holders(e)) \in Nat /\ e \in Rows
  BY BudgetTypes
<1>2. Holders(e)' \in SUBSET Relays /\ Cardinality(Holders(e)') \in Nat
  BY BudgetTypesAfter
<1>u. UNCHANGED <<received, expired, faults>>
  BY DEF Acknowledge
<1>3. relay[r].pc = "acknowledge" /\ a \in Terminals
  BY DEF Acknowledge, WebhookInv, RelayInv
<1>4. \A c \in Relays : c # r => relay'[c] = relay[c]
  BY DEF Acknowledge, Move, TypeOK
<1>5. e # a => row'[e] = row[e]
  BY <1>1 DEF Acknowledge, SetPublished, TypeOK
<1>6. CASE row'[a].state = "published"
  <2>1. relay'[r] = Go(relay[r].batch)
    BY <1>6 DEF Acknowledge, Move, TypeOK
  <2>2. relay'[r].batch = relay[r].batch
    BY <2>1 DEF Go, Idle
  <2>3. Holders(e)' = Holders(e)
    BY <1>4, <2>2 DEF Holders
  <2>4. InUse(e) => InUse(e)'
    <3>1. CASE e = a
      BY <1>6, <3>1 DEF InUse
    <3>2. CASE e # a
      BY <1>4, <1>5, <2>2, <3>2 DEF InUse, Uses
    <3> QED  BY <3>1, <3>2
  <2> QED  BY <1>1, <1>u, <2>3, <2>4 DEF Account
<1>7. CASE row'[a].state # "published"
  <2>0. row \in [Rows -> Row] /\ a \in Rows
    BY <1>3 DEF TypeOK, Rows
  <2>1. ~ SetPublished(a)
    <3>1. SUFFICES ASSUME SetPublished(a) PROVE row'[a].state = "published"
      BY <1>7
    <3>2. row' = [row EXCEPT ![a].state = "published", ![a].owner = NoOwner, ![a].live = FALSE]
      BY <3>1 DEF SetPublished
    <3> QED  BY <2>0, <3>2 DEF Row
  <2>2. UNCHANGED row /\ ~ (row[a].state = "queued" /\ row[a].owner = r /\ row[a].live)
    BY <2>1 DEF Acknowledge
  <2>3. relay'[r].batch = {}
    BY <1>7 DEF Acknowledge, Move, Idle, TypeOK
  <2>4. Holders(e)' \subseteq Holders(e) \ {r}
    BY <1>4, <2>3 DEF Holders
  <2>5. CASE r \in Holders(e)
    <3>1. Cardinality(Holders(e)') + 1 <= Cardinality(Holders(e))
      BY <1>1, <1>2, <2>4, <2>5, RelaySets
    <3>2. received[e][2] + Cardinality(Holders(e)) <= expired[e] + faults + 1
      BY <1>1 DEF Account
    <3>3. received[e][2] + Cardinality(Holders(e)') <= expired[e] + faults
      BY <1>1, <1>2, <3>1, <3>2
    <3> QED  BY <1>1, <1>2, <1>u, <3>3 DEF Account
  <2>6. CASE r \notin Holders(e)
    <3>1. Cardinality(Holders(e)') <= Cardinality(Holders(e))
      BY <1>1, <1>2, <2>4, RelaySets
    <3>2. InUse(e) => InUse(e)'
      <4>1. row[e].live => row[e].state = "queued"
        BY <1>1 DEF WebhookInv, RowInv
      <4>2. row[e].live /\ row[e].owner = r => ~ Uses(r, e)
        BY <2>2, <2>6, <4>1 DEF Uses, Holders
      <4> QED  BY <1>4, <2>2, <4>2 DEF InUse, Uses
    <3>3. CASE InUse(e)
      <4>1. received[e][2] + Cardinality(Holders(e)') <= expired[e] + faults + 1
        BY <1>1, <1>2, <3>1, <3>3 DEF Account
      <4> QED  BY <1>u, <3>2, <3>3, <4>1 DEF Account
    <3>4. CASE ~ InUse(e)
      <4>1. received[e][2] + Cardinality(Holders(e)') <= expired[e] + faults
        BY <1>1, <1>2, <3>1, <3>4 DEF Account
      <4> QED  BY <1>1, <1>2, <1>u, <4>1 DEF Account
    <3> QED  BY <3>3, <3>4
  <2> QED  BY <2>5, <2>6
<1> QED  BY <1>6, <1>7

\* All the workflow consumer does to a terminal row is give it up.
LEMMA ElsewhereBudget ==
    ASSUME TypeOK, TypeOK', WebhookInv, [Next]_vars, NEW e \in Terminals, Account(e),
           \/ UNCHANGED vars \/ WorkflowStep \/ \E f \in Rows : LeaseExpires(f)
           \/ \E f \in Terminals, status \in Published : CommitResult(f, status)
    PROVE  Account(e)'
<1>1. e \in Rows /\ row[e] \in Row /\ row \in [Rows -> Row] /\ e \notin Workflows
  BY BudgetTypes, WebhookRelayAssumption DEF TypeOK
<1>2. UNCHANGED <<relay, received, faults>>
  BY DEF vars, WorkflowStep, EnqueueWorkflow, LeaseWorkflow, AcknowledgeWorkflow, ClearFlag,
     LeaseExpires, CommitResult
<1>3. Stays(e) \/ Inserted(e) \/ RunOut(e) \/ Dead(e)
  <2>1. RowMove(e)
    BY <1>1, RowStep
  <2>2. CASE WorkflowStep
    <3>1. ASSUME NEW f \in Workflows, EnqueueWorkflow(f) \/ AcknowledgeWorkflow(f) PROVE Stays(e)
      BY <1>1, <3>1 DEF EnqueueWorkflow, Insert, AcknowledgeWorkflow, SetPublished, Stays
    <3>2. ASSUME ClearFlag \/ \E f \in Workflows : LeaseWorkflow(f) PROVE Stays(e) \/ Dead(e)
      BY <1>1, <3>2, WorkflowClaimRow
    <3> QED  BY <2>2, <3>1, <3>2 DEF WorkflowStep
  <2>3. ASSUME NEW f \in Rows, LeaseExpires(f) PROVE Stays(e) \/ RunOut(e)
    <3>1. row[f] \in Row
      BY <1>1
    <3>2. row' = [row EXCEPT ![f] = [row[f] EXCEPT !.live = FALSE]]
      BY <1>1, <2>3 DEF LeaseExpires
    <3> QED  BY <1>1, <2>3, <3>2 DEF LeaseExpires, Stays, RunOut, TypeOK
  <2>4. ASSUME NEW f \in Terminals, NEW status \in Published, CommitResult(f, status)
        PROVE  Stays(e) \/ Inserted(e)
    BY <1>1, <2>4 DEF CommitResult, Insert, Stays, Inserted
  <2>5. UNCHANGED vars => Stays(e)
    BY DEF vars, Stays
  <2> QED  BY <2>2, <2>3, <2>4, <2>5
<1> QED  BY <1>2, <1>3, RowBudget

\* Two relays polling one scope do not repeat each other's deliveries: a second
\* one has an expired lease, a lost answer or an interrupted pass behind it.
THEOREM Repetition == Spec => []RepetitionIsPaidFor
<1>1. Init /\ TypeOK => BudgetInv
  <2> SUFFICES ASSUME Init, TypeOK, NEW e \in Terminals PROVE Account(e)
    BY DEF BudgetInv
  <2>1. received[e][2] = 0 /\ expired[e] \in Nat /\ faults \in Nat
    BY BudgetTypes DEF Init, Nothing
  <2>2. Holders(e) = {}
    BY DEF Init, Idle, Holders
  <2> QED  BY <2>1, <2>2, FS_EmptySet DEF Account
<1>2. TypeOK /\ TypeOK' /\ WebhookInv /\ BudgetInv /\ [Next]_vars => BudgetInv'
  <2> SUFFICES ASSUME TypeOK, TypeOK', WebhookInv, [Next]_vars, NEW e \in Terminals, Account(e)
               PROVE  Account(e)'
    BY DEF BudgetInv
  <2> QED
    BY ClaimBudget, PublishBudget, FaultBudget, AcknowledgeBudget, ElsewhereBudget DEF Next, RelayStep
<1>3. TypeOK /\ WebhookInv /\ BudgetInv => RepetitionIsPaidFor
  <2> SUFFICES ASSUME TypeOK, WebhookInv, BudgetInv, NEW e \in Terminals
               PROVE  /\ row[e].deliveries <= 1 + expired[e]
                      /\ received[e][2] <= 1 + expired[e] + faults
    BY DEF RepetitionIsPaidFor
  <2>1. /\ received[e][2] \in Nat /\ expired[e] \in Nat /\ faults \in Nat
        /\ Cardinality(Holders(e)) \in Nat /\ e \in Rows /\ Account(e)
    BY BudgetTypes DEF BudgetInv
  <2>2. row[e].deliveries = expired[e] + IF row[e].live \/ row[e].state = "published" THEN 1 ELSE 0
    BY <2>1 DEF WebhookInv, RowInv
  <2>3. row[e].deliveries <= 1 + expired[e]
    BY <2>1, <2>2
  <2>4. received[e][2] + Cardinality(Holders(e)) <= expired[e] + faults + 1
    BY <2>1 DEF Account
  <2>5. received[e][2] <= 1 + expired[e] + faults
    BY <2>1, <2>4
  <2> QED  BY <2>3, <2>5
<1> QED  BY Relaying, <1>1, <1>2, <1>3, PTL DEF Spec

\* Neither consumer gives up a row that is being delivered: claim_job_outbox and
\* claim_webhook_outbox dead-letter a row of either type only when the last of its
\* leases has run out.
THEOREM GivenUp == Spec => []DeadRowsRanOut
<1>1. TypeOK /\ WebhookInv => DeadRowsRanOut
  <2> SUFFICES ASSUME TypeOK, WebhookInv, NEW e \in Rows, row[e].state = "dead"
               PROVE  expired[e] = MaxDeliveries
    BY DEF DeadRowsRanOut
  <2>1. row[e].deliveries = MaxDeliveries /\ expired[e] \in 0..MaxDeliveries
    BY DEF TypeOK, DeliveryShape
  <2>2. ~ row[e].live /\ row[e].state # "published"
    BY DEF WebhookInv, RowInv
  <2>3. row[e].deliveries = expired[e] + 0
    BY <2>2 DEF WebhookInv, RowInv
  <2> QED  BY <2>1, <2>3
<1> QED  BY Relaying, <1>1, PTL
-----------------------------------------------------------------------------
(***************************************************************************)
(* The refinement of Outbox.                                               *)
(***************************************************************************)
\* What a step does to the states of the terminal rows: nothing, or an insertion,
\* an acknowledgement or a round of dead letters, and then nobody is told anything.
LEMMA StageStep ==
    ASSUME TypeOK, WebhookInv, [Next]_vars
    PROVE  \/ \A e \in Terminals : row'[e].state = row[e].state
           \/ /\ UNCHANGED received
              /\ \/ \E e \in Terminals :
                       /\ row[e].state = "none" /\ row'[e].state = "queued"
                       /\ \A f \in Terminals \ {e} : row'[f] = row[f]
                 \/ \E e \in Terminals :
                       /\ row[e].state = "queued" /\ row'[e].state = "published"
                       /\ \A f \in Terminals \ {e} : row'[f] = row[f]
                 \/ \A e \in Terminals :
                       \/ row'[e].state = row[e].state
                       \/ row[e].state = "queued" /\ row'[e].state = "dead"
<1> DEFINE Same == \A e \in Terminals : row'[e].state = row[e].state
<1>t. row \in [Rows -> Row] /\ Terminals \subseteq Rows /\ Workflows \subseteq Rows
  BY DEF TypeOK, Rows
<1>1. ASSUME NEW e \in Terminals, NEW status \in Published, CommitResult(e, status)
      PROVE  /\ UNCHANGED received
             /\ row[e].state = "none" /\ row'[e].state = "queued"
             /\ \A f \in Terminals \ {e} : row'[f] = row[f]
  BY <1>t, <1>1 DEF CommitResult, Insert, NoRow
<1>2. ASSUME NEW r \in Relays, Claim(r)
      PROVE  /\ UNCHANGED received
             /\ \A e \in Terminals : \/ row'[e].state = row[e].state
                                     \/ row[e].state = "queued" /\ row'[e].state = "dead"
  <2>1. \A e \in Terminals : Stays(e) \/ Taken(e) \/ Dead(e)
    BY <1>t, <1>2, ClaimRow
  <2>2. \A e \in Terminals : row[e] \in Row
    BY <1>t
  <2>3. UNCHANGED received
    BY <1>2 DEF Claim
  <2> QED  BY <2>1, <2>2, <2>3 DEF Stays, Taken, Dead, Row
<1>3. ASSUME NEW r \in Relays, Acknowledge(r)
      PROVE  \/ Same
             \/ \E e \in Terminals :
                   /\ UNCHANGED received
                   /\ row[e].state = "queued" /\ row'[e].state = "published"
                   /\ \A f \in Terminals \ {e} : row'[f] = row[f]
  <2> DEFINE at == relay[r].at
  <2>1. at \in Terminals /\ UNCHANGED received
    BY <1>3 DEF Acknowledge, WebhookInv, RelayInv
  <2>2. CASE row[at].state = "queued" /\ SetPublished(at)
    <3>1. row' = [row EXCEPT ![at] = [row[at] EXCEPT !.state = "published", !.owner = NoOwner, !.live = FALSE]]
      BY <1>t, <2>1, <2>2 DEF SetPublished
    <3>2. row[at] \in Row
      BY <1>t, <2>1
    <3>3. row'[at].state = "published" /\ \A f \in Terminals \ {at} : row'[f] = row[f]
      BY <1>t, <2>1, <3>1, <3>2 DEF Row
    <3> QED  BY <2>1, <2>2, <3>3
  <2>3. CASE UNCHANGED row
    BY <2>3
  <2> QED  BY <1>3, <2>2, <2>3 DEF Acknowledge
<1>4. ASSUME NEW e \in Workflows, EnqueueWorkflow(e) \/ AcknowledgeWorkflow(e) PROVE Same
  BY <1>t, <1>4, WebhookRelayAssumption DEF EnqueueWorkflow, Insert, AcknowledgeWorkflow, SetPublished
<1>7. ASSUME ClearFlag \/ \E f \in Workflows : LeaseWorkflow(f)
      PROVE  /\ UNCHANGED received
             /\ \A e \in Terminals : \/ row'[e].state = row[e].state
                                     \/ row[e].state = "queued" /\ row'[e].state = "dead"
  <2>1. \A e \in Terminals : Stays(e) \/ Dead(e)
    BY <1>t, <1>7, WorkflowClaimRow
  <2>2. \A e \in Terminals : row[e] \in Row
    BY <1>t
  <2>3. UNCHANGED received
    BY <1>7 DEF ClearFlag, LeaseWorkflow
  <2> QED  BY <2>1, <2>2, <2>3 DEF Stays, Dead, Row
<1>5. ASSUME NEW e \in Rows, LeaseExpires(e) PROVE Same
  BY <1>t, <1>5 DEF LeaseExpires, Row
<1>6. ASSUME \/ UNCHANGED vars
             \/ \E r \in Relays : PassEnds(r) \/ \E e \in Terminals : Publish(r, e) \/ PublishFails(r, e)
      PROVE  Same
  BY <1>6 DEF vars, PassEnds, Publish, PublishFails
<1> QED  BY <1>1, <1>2, <1>3, <1>4, <1>5, <1>6, <1>7 DEF Next, RelayStep, WorkflowStep

\* Every step of the relays and their environment is a step of Outbox or none.
LEMMA RefinementStep ==
    TypeOK /\ WebhookInv /\ [Next]_vars => [Promise!Next]_(Promise!outboxVars)
<1> SUFFICES ASSUME TypeOK, WebhookInv, [Next]_vars
             PROVE  [Promise!Next]_(Promise!outboxVars)
  OBVIOUS
<1> DEFINE stage == [e \in Terminals |-> row[e].state]
           effective == {e \in Terminals : received[e][2] > 0}
<1> USE DEF Promise!outboxVars
<1>1. ASSUME \A e \in Terminals : row'[e].state = row[e].state
      PROVE  [Promise!Next]_(Promise!outboxVars)
  <2>1. stage' = stage
    BY <1>1
  <2>2. CASE UNCHANGED received
    BY <2>1, <2>2
  <2>3. ASSUME NEW e \in Terminals, Told(e) PROVE Promise!Deliver(e)
    <3>1. received \in [Terminals -> (Published \cup {"none"}) \X Nat]
      BY DEF TypeOK
    <3>2. stage[e] # "none"
      BY <2>3 DEF Told, WebhookInv, RelayInv
    <3>3. received' = [received EXCEPT ![e] = <<row[e].type, received[e][2] + 1>>]
      BY <2>3 DEF Told, Deliver
    <3>4. received[e][2] \in Nat
      BY <3>1
    <3>5. received'[e][2] > 0 /\ \A f \in Terminals \ {e} : received'[f] = received[f]
      BY <3>1, <3>3, <3>4
    <3>6. effective' = effective \cup {e}
      BY <3>5
    <3> QED  BY <2>1, <3>2, <3>6 DEF Promise!Deliver
  <2> QED  BY <2>2, <2>3, HeardStep DEF Promise!Next
<1>2. ASSUME UNCHANGED received,
             NEW e \in Terminals, row[e].state = "none", row'[e].state = "queued",
             \A f \in Terminals \ {e} : row'[f] = row[f]
      PROVE  Promise!Insert(e)
  <2>1. stage' = [stage EXCEPT ![e] = "queued"]
    BY <1>2
  <2> QED  BY <1>2, <2>1 DEF Promise!Insert
<1>3. ASSUME UNCHANGED received,
             NEW e \in Terminals, row[e].state = "queued", row'[e].state = "published",
             \A f \in Terminals \ {e} : row'[f] = row[f]
      PROVE  Promise!Acknowledge(e)
  <2>1. stage' = [stage EXCEPT ![e] = "published"]
    BY <1>3
  <2>2. received[e][2] > 0
    BY <1>3, PublishedByRelay
  <2> QED  BY <1>3, <2>1, <2>2 DEF Promise!Acknowledge
<1>4. ASSUME UNCHANGED received,
             \A e \in Terminals : \/ row'[e].state = row[e].state
                                  \/ row[e].state = "queued" /\ row'[e].state = "dead"
      PROVE  \E spent \in SUBSET Terminals : Promise!GiveUp(spent)
  <2>1. PICK spent \in SUBSET Terminals :
          \A e \in Terminals : e \in spent <=> row'[e].state # row[e].state
    <3>1. {e \in Terminals : row'[e].state # row[e].state} \in SUBSET Terminals
      OBVIOUS
    <3> QED  BY <3>1
  <2>2. \A e \in spent : stage[e] = "queued"
    BY <1>4, <2>1
  <2>3. stage' = [e \in Terminals |-> IF e \in spent THEN "dead" ELSE stage[e]]
    BY <1>4, <2>1
  <2>4. Promise!GiveUp(spent)
    BY <1>4, <2>2, <2>3 DEF Promise!GiveUp
  <2> QED  BY <2>4
<1> QED  BY <1>1, <1>2, <1>3, <1>4, StageStep DEF Promise!Next

\* Whatever the publisher answers and whichever relays come back late, the
\* terminal events behave as Outbox says.
THEOREM Implementation == Spec => ImplementsOutbox
<1>1. Init => Promise!Init
  <2> SUFFICES ASSUME Init PROVE Promise!Init
    OBVIOUS
  <2>1. \A e \in Terminals : row[e].state = "none"
    BY DEF Init, NoRow, Rows
  <2>2. \A e \in Terminals : received[e][2] = 0
    BY DEF Init, Nothing
  <2> QED  BY <2>1, <2>2 DEF Promise!Init
<1> QED
  BY <1>1, RefinementStep, Relaying, PTL DEF Spec, ImplementsOutbox, Promise!Spec
=============================================================================
