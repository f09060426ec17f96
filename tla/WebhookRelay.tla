---------------------------- MODULE WebhookRelay ----------------------------
(***************************************************************************)
(* The outbox of one (product, tenant) scope as the webhook relay sees it: *)
(*                                                                         *)
(*   row      the terminal rows (completed, partial, review_required) that *)
(*            commit_result inserts for a job with a subscription, and the *)
(*            workflow rows (accepted, cancellation_requested) beside them *)
(*   relay    WebhookOutboxRelay::relay_scope, one caller per lease owner  *)
(*   received what the registered publisher has delivered                  *)
(*                                                                         *)
(* Both consumers of the table dead-letter any exhausted row, and both     *)
(* acknowledge through publish_job_outbox, which recomputes the scope's    *)
(* dispatch flag.  The workflow consumer is JobDispatch; here it is what   *)
(* it does to its rows.                                                    *)
(***************************************************************************)
EXTENDS Integers, FiniteSets

CONSTANTS
    Terminals,      \* terminal rows, by event_id
    Workflows,      \* workflow rows
    Relays,         \* webhook relays, by lease owner
    Dispatcher,     \* the workflow consumer's lease owner
    NoOwner,        \* no lease
    Published,      \* the statuses a job is published with
    BatchLimit,     \* rows per claim, 1..100
    MaxDeliveries,  \* 20
    MaxFaults       \* bound on crashes, outages and failed calls

ASSUME WebhookRelayAssumption ==
    /\ Terminals \subseteq Nat \ {0}
    /\ Terminals \cap Workflows = {}
    /\ IsFiniteSet(Relays)
    /\ NoOwner \notin Relays \cup {Dispatcher}
    /\ Dispatcher \notin Relays
    /\ BatchLimit \in 1..100
    /\ MaxDeliveries \in Nat \ {0}
    /\ MaxFaults \in Nat

VARIABLES
    row,            \* the outbox rows
    pending,        \* ocr_work_scopes.dispatch_pending
    relay,          \* control and local state of each relay
    received,       \* <<status, times>> delivered to the subscriber of each job
    expired,        \* how often the lease of each row has run out
    faults

vars == <<row, pending, relay, received, expired, faults>>

Rows == Terminals \cup Workflows
NoRow == [state |-> "none", type |-> "none", deliveries |-> 0, owner |-> NoOwner, live |-> FALSE]
None == 0
Idle == [pc |-> "idle", batch |-> {}, at |-> None]
Nothing == <<"none", 0>>

Init ==
    /\ row = [e \in Rows |-> NoRow]
    /\ pending = FALSE
    /\ relay = [r \in Relays |-> Idle]
    /\ received = [e \in Terminals |-> Nothing]
    /\ expired = [e \in Rows |-> 0]
    /\ faults = 0

Fault == faults < MaxFaults /\ faults' = faults + 1
Go(rest) == IF rest = {} THEN Idle ELSE [Idle EXCEPT !.pc = "publish", !.batch = rest]
Move(r, record) == relay' = [relay EXCEPT ![r] = record]

-----------------------------------------------------------------------------
(***************************************************************************)
(* What claim_job_outbox and claim_webhook_outbox share.                   *)
(***************************************************************************)
\* Mutant: the last delivery is not waited for.
ExhaustedAnyLease ==
    {e \in Rows : row[e].state = "queued" /\ row[e].deliveries = MaxDeliveries}

Exhausted ==
    {e \in Rows : /\ row[e].state = "queued"
                  /\ row[e].deliveries = MaxDeliveries
                  /\ ~ row[e].live}

Leased(owner, e) ==
    [row[e] EXCEPT !.owner = owner, !.live = TRUE,
                   !.deliveries = IF row[e].owner = owner /\ row[e].live THEN @ ELSE @ + 1]

\* The two updates of either claim: what is used up is dead-lettered whatever its
\* type, and the claim's own rows are leased; a lease it still holds is renewed.
Claimed(owner, batch) ==
    [e \in Rows |->
        IF e \in Exhausted
        THEN [row[e] EXCEPT !.state = "dead", !.owner = NoOwner, !.live = FALSE]
        ELSE IF e \in batch THEN Leased(owner, e) ELSE row[e]]

-----------------------------------------------------------------------------
(***************************************************************************)
(* The rest of the system.                                                 *)
(***************************************************************************)
Insert(e, type) ==
    /\ row[e].state = "none"
    /\ row' = [row EXCEPT ![e] = [NoRow EXCEPT !.state = "queued", !.type = type]]

\* commit_result of a job with a subscription; event ids are a sequence.
CommitResult(e, status) ==
    /\ \A f \in Terminals : f < e => row[f].state # "none"
    /\ Insert(e, status)
    /\ UNCHANGED <<pending, relay, received, expired, faults>>

\* create or cancel, with its registration.
EnqueueWorkflow(e) ==
    /\ Insert(e, "workflow")
    /\ pending' = TRUE
    /\ UNCHANGED <<relay, received, expired, faults>>

Undelivered(e) ==
    e \in Workflows /\ row[e].state = "queued" /\ row[e].deliveries < MaxDeliveries

\* claim_job_outbox, one of the rows it returns.
LeaseWorkflow(e) ==
    /\ pending
    /\ Undelivered(e)
    /\ row[e].owner = Dispatcher \/ ~ row[e].live
    /\ row' = Claimed(Dispatcher, {e})
    /\ UNCHANGED <<pending, relay, received, expired, faults>>

\* publish_job_outbox, for a workflow row.
SetPublished(e) ==
    /\ row' = [row EXCEPT ![e].state = "published", ![e].owner = NoOwner, ![e].live = FALSE]
    /\ pending' = \E f \in Rows \ {e} : Undelivered(f)

AcknowledgeWorkflow(e) ==
    /\ row[e].owner = Dispatcher /\ row[e].live
    /\ SetPublished(e)
    /\ UNCHANGED <<relay, received, expired, faults>>

\* claim_job_outbox with nothing to claim: the flag is recomputed.
ClearFlag ==
    /\ pending
    /\ \A e \in Rows : ~ Undelivered(e)
    /\ row' = Claimed(Dispatcher, {})
    /\ pending' = FALSE
    /\ UNCHANGED <<relay, received, expired, faults>>

-----------------------------------------------------------------------------
(***************************************************************************)
(* claim_webhook_outbox.                                                   *)
(***************************************************************************)
\* Mutant: another relay's live lease is ignored.
CandidatesAnyLease(r) ==
    {e \in Terminals : /\ row[e].state = "queued"
                       /\ row[e].deliveries < MaxDeliveries}

Candidates(r) ==
    {e \in Terminals : /\ row[e].state = "queued"
                       /\ row[e].deliveries < MaxDeliveries
                       /\ row[e].owner = r \/ ~ row[e].live}

Batch(r) ==
    {e \in Candidates(r) :
        Cardinality({f \in Candidates(r) : f < e}) < BatchLimit}

Claim(r) ==
    /\ relay[r].pc = "idle"
    /\ row' = Claimed(r, Batch(r))
    /\ Move(r, Go(Batch(r)))
    /\ UNCHANGED <<pending, received, expired, faults>>

-----------------------------------------------------------------------------
(***************************************************************************)
(* relay_scope: each row of the batch, in no particular order, is          *)
(* published and then acknowledged; a failure ends the pass and leaves the *)
(* rest of the batch leased.                                               *)
(***************************************************************************)
\* TerminalWebhookEvent: the event's status is the row's type.
Deliver(e) == received' = [received EXCEPT ![e] = <<row[e].type, @[2] + 1>>]

Take(r, e) ==
    /\ relay[r].pc = "publish"
    /\ e \in relay[r].batch
    /\ Move(r, [pc |-> "acknowledge", batch |-> relay[r].batch \ {e}, at |-> e])

\* Mutant: the row is acknowledged whatever the publisher answered.
PublishUnheard(r, e) ==
    /\ Take(r, e)
    /\ Deliver(e) \/ UNCHANGED received
    /\ UNCHANGED <<row, pending, expired, faults>>

\* WebhookPublisher::publish answers Delivered or Existing.
Publish(r, e) ==
    /\ Take(r, e)
    /\ Deliver(e)
    /\ UNCHANGED <<row, pending, expired, faults>>

\* It fails, before or after the subscriber has the event: Retryable.
PublishFails(r, e) ==
    /\ relay[r].pc = "publish"
    /\ e \in relay[r].batch
    /\ Fault
    /\ Deliver(e) \/ UNCHANGED received
    /\ Move(r, Idle)
    /\ UNCHANGED <<row, pending, expired>>

\* Mutant: a published row keeps its lease.
AcknowledgeLeased(r) ==
    /\ relay[r].pc = "acknowledge"
    /\ row' = [row EXCEPT ![relay[r].at].state = "published"]
    /\ Move(r, Go(relay[r].batch))
    /\ UNCHANGED <<pending, received, expired, faults>>

\* Mutant: whoever has delivered a row may acknowledge it.
AcknowledgeAnyRow(r) ==
    LET e == relay[r].at IN
    /\ relay[r].pc = "acknowledge"
    /\ SetPublished(e)
    /\ Move(r, Go(relay[r].batch))
    /\ UNCHANGED <<received, expired, faults>>

\* publish_job_outbox: only the live owner; Existing counts as published, and
\* LeaseLost ends the pass.  (What can happen between its statement on the row
\* and its statement on the flag is a matter for JobDispatch.)
Acknowledge(r) ==
    LET e == relay[r].at IN
    /\ relay[r].pc = "acknowledge"
    /\ IF row[e].state = "queued" /\ row[e].owner = r /\ row[e].live
       THEN SetPublished(e) ELSE UNCHANGED <<row, pending>>
    /\ Move(r, IF row'[e].state = "published" THEN Go(relay[r].batch) ELSE Idle)
    /\ UNCHANGED <<received, expired, faults>>

-----------------------------------------------------------------------------
(***************************************************************************)
(* Time and failures.                                                      *)
(***************************************************************************)
LeaseExpires(e) ==
    /\ row[e].live
    /\ row' = [row EXCEPT ![e].live = FALSE]
    /\ expired' = [expired EXCEPT ![e] = @ + 1]
    /\ UNCHANGED <<pending, relay, received, faults>>

\* The store does not answer, or the process restarts under the same owner; an
\* open transaction is rolled back.
PassEnds(r) ==
    /\ relay[r].pc # "idle"
    /\ Fault
    /\ Move(r, Idle)
    /\ UNCHANGED <<row, pending, received, expired>>

RelayStep(r) ==
    \/ Claim(r)
    \/ \E e \in Terminals : Publish(r, e)
    \/ Acknowledge(r)

WorkflowStep ==
    \/ \E e \in Workflows : EnqueueWorkflow(e) \/ LeaseWorkflow(e) \/ AcknowledgeWorkflow(e)
    \/ ClearFlag

Next ==
    \/ \E e \in Terminals, status \in Published : CommitResult(e, status)
    \/ \E r \in Relays : RelayStep(r) \/ PassEnds(r)
    \/ \E r \in Relays, e \in Terminals : PublishFails(r, e)
    \/ \E e \in Rows : LeaseExpires(e)
    \/ WorkflowStep

Spec == Init /\ [][Next]_vars
-----------------------------------------------------------------------------
(***************************************************************************)
(* Properties.                                                             *)
(***************************************************************************)
Row == [state : {"none", "queued", "published", "dead"},
        type : Published \cup {"none", "workflow"},
        deliveries : 0..MaxDeliveries, owner : Relays \cup {Dispatcher, NoOwner}, live : BOOLEAN]

RelayRecord == [pc : {"idle", "publish", "acknowledge"},
                batch : SUBSET Terminals, at : Terminals \cup {None}]

\* The table constraint ocr_outbox_delivery_shape.
DeliveryShape(e) ==
    /\ row[e].state = "published" => row[e].deliveries > 0 /\ row[e].owner = NoOwner
    /\ row[e].state = "dead" => row[e].deliveries = MaxDeliveries /\ row[e].owner = NoOwner
    /\ row[e].state = "queued" => (row[e].deliveries > 0 <=> row[e].owner # NoOwner)

\* Every variable keeps its type and every row its table constraint.
TypeOK ==
    /\ row \in [Rows -> Row]
    /\ \A e \in Rows : DeliveryShape(e)
    /\ pending \in BOOLEAN
    /\ relay \in [Relays -> RelayRecord]
    /\ expired \in [Rows -> 0..MaxDeliveries]
    /\ faults \in 0..MaxFaults
    /\ received \in [Terminals -> (Published \cup {"none"}) \X Nat]

\* A terminal row is acknowledged only when its subscriber has been told, and
\* what it was told is the status the job was published with, whichever relay
\* held the lease.  (CONTRACTS.md: a relay "acknowledges the outbox row only after
\* the registered publisher reports delivered or already delivered".)
AcknowledgedWasReceived ==
    \A e \in Terminals :
        /\ row[e].state = "published" => received[e][2] > 0
        /\ received[e][2] > 0 => received[e][1] = row[e].type

Promise == INSTANCE Outbox WITH
    Entries <- Terminals,
    stage <- [e \in Terminals |-> row[e].state],
    effective <- {e \in Terminals : received[e][2] > 0}

\* The relays, their leases, batches and failed calls amount to Outbox: nobody is
\* told of a result that was not committed, and no relay that comes back late
\* acknowledges a row that has been given up.
ImplementsOutbox == Promise!Spec

\* A subscriber hears of an event a second time only after a lost answer, an
\* expired lease or an interrupted pass: two relays polling one scope do not
\* repeat each other's deliveries, and no pass spends the budget of a row it has
\* not been able to try.
RepetitionIsPaidFor ==
    \A e \in Terminals :
        /\ row[e].deliveries <= 1 + expired[e]
        /\ received[e][2] <= 1 + expired[e] + faults

\* Either consumer gives up exhausted rows of both, but never one that the other
\* is still delivering for the last time: each of the MaxDeliveries leases of a
\* dead row has run out.
DeadRowsRanOut == \A e \in Rows : row[e].state = "dead" => expired[e] = MaxDeliveries
=============================================================================
