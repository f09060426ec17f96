---------------------------- MODULE JobDispatch ----------------------------
(***************************************************************************)
(* How the dispatch workers find and deliver the workflow events of one    *)
(* (product, tenant) scope:                                                *)
(*                                                                         *)
(*   directory  ocr_work_scopes: the dispatch_pending flag and the scope's *)
(*              lease (migrations/0015_work_scope_leases.sql)              *)
(*   outbox     the `accepted' and `cancellation_requested' rows of        *)
(*              ocr_outbox with their delivery leases (ocr-store)          *)
(*   dispatcher WorkScopeDispatcher::dispatch_once and                     *)
(*              JobOutboxRelay::relay_scope, once a second per process     *)
(*                                                                         *)
(* Time is a choice: a lease that is live may expire at any moment.  The   *)
(* workflow side is a summary of PageExecution: what is left of a job here *)
(* is what decides whether its events can be delivered.                    *)
(***************************************************************************)
EXTENDS Integers, FiniteSets

CONSTANTS
    Jobs,           \* jobs of the scope
    Dispatchers,    \* dispatch worker processes, by WORKER_ID
    NoOwner,        \* no lease
    BatchLimit,     \* events per claim, UPLOAD_BATCH_SIZE
    MaxDeliveries,  \* 20
    MaxFaults       \* bound on expiries, crashes and outages

ASSUME JobDispatchAssumption ==
    /\ IsFiniteSet(Jobs)
    /\ IsFiniteSet(Dispatchers)
    /\ NoOwner \notin Dispatchers
    /\ BatchLimit \in Nat \ {0}
    /\ MaxDeliveries \in Nat \ {0}
    /\ MaxFaults \in Nat

VARIABLES
    job,            \* ocr_jobs.status of each job, "none" before it exists
    checkpoint,     \* its page checkpoint: none, fresh, progressed, cancelled
    execution,      \* its Temporal workflow: none, running, closed
    event,          \* its two outbox rows
    pending,        \* ocr_work_scopes.dispatch_pending
    lease,          \* owner and liveness of the scope's lease
    dispatcher,     \* control and local state of each dispatcher
    faults

vars == <<job, checkpoint, execution, event, pending, lease, dispatcher, faults>>

Events == Jobs \X {"start", "cancel"}
NoEvent == [state |-> "none", id |-> 0, deliveries |-> 0, owner |-> NoOwner, live |-> FALSE]
Free == [owner |-> NoOwner, live |-> FALSE]
Nothing == <<>>
Idle == [pc |-> "idle", batch |-> {}, at |-> Nothing, more |-> FALSE]

Init ==
    /\ job = [j \in Jobs |-> "none"]
    /\ checkpoint = [j \in Jobs |-> "none"]
    /\ execution = [j \in Jobs |-> "none"]
    /\ event = [e \in Events |-> NoEvent]
    /\ pending = FALSE
    /\ lease = Free
    /\ dispatcher = [d \in Dispatchers |-> Idle]
    /\ faults = 0

-----------------------------------------------------------------------------
(***************************************************************************)
(* The API's transactions: row, event and registration commit together.    *)
(***************************************************************************)
Known == Cardinality({e \in Events : event[e].state # "none"})

Enqueue(e) ==
    /\ event' = [event EXCEPT ![e] = [NoEvent EXCEPT !.state = "queued", !.id = Known + 1]]
    /\ pending' = TRUE

CreateJob(j) ==
    /\ job[j] = "none"
    /\ job' = [job EXCEPT ![j] = "accepted"]
    /\ Enqueue(<<j, "start">>)
    /\ UNCHANGED <<checkpoint, execution, lease, dispatcher, faults>>

CancelJob(j) ==
    /\ job[j] \in {"accepted", "processing"}
    /\ job' = [job EXCEPT ![j] = "cancelled"]
    /\ Enqueue(<<j, "cancel">>)
    /\ UNCHANGED <<checkpoint, execution, lease, dispatcher, faults>>

\* The runner claims pages of a fresh checkpoint.
Progress(j) ==
    /\ execution[j] = "running"
    /\ checkpoint[j] = "fresh"
    /\ checkpoint' = [checkpoint EXCEPT ![j] = "progressed"]
    /\ UNCHANGED <<job, execution, event, pending, lease, dispatcher, faults>>

\* The workflow ends: with a published job, or because the checkpoint or the
\* workflow was cancelled.
Finish(j) ==
    /\ execution[j] = "running"
    /\ checkpoint[j] \in {"progressed", "cancelled"}
    /\ execution' = [execution EXCEPT ![j] = "closed"]
    /\ job' = [job EXCEPT ![j] = IF @ = "processing" THEN "published" ELSE @]
    /\ UNCHANGED <<checkpoint, event, pending, lease, dispatcher, faults>>

-----------------------------------------------------------------------------
(***************************************************************************)
(* The dispatcher.                                                         *)
(***************************************************************************)
Move(d, record) == dispatcher' = [dispatcher EXCEPT ![d] = record]
LeaveScope(d) == Move(d, [Idle EXCEPT !.pc = "release"])

\* Mutant: a live lease of another dispatcher is ignored.
ClaimLeasedScope(d) ==
    /\ dispatcher[d].pc = "idle"
    /\ pending
    /\ lease' = [owner |-> d, live |-> TRUE]
    /\ Move(d, [Idle EXCEPT !.pc = "claim"])
    /\ UNCHANGED <<job, checkpoint, execution, event, pending, faults>>

\* ocr_claim_work_scopes.
ClaimScope(d) ==
    /\ dispatcher[d].pc = "idle"
    /\ pending
    /\ lease.owner = d \/ ~ lease.live
    /\ lease' = [owner |-> d, live |-> TRUE]
    /\ Move(d, [Idle EXCEPT !.pc = "claim"])
    /\ UNCHANGED <<job, checkpoint, execution, event, pending, faults>>

\* The row locks of a dispatcher inside publish_job_outbox.
Publishing(e) == \E d \in Dispatchers : dispatcher[d].pc = "commit" /\ e = dispatcher[d].at

Undelivered(e) == event[e].state = "queued" /\ event[e].deliveries < MaxDeliveries

Exhausted ==
    {e \in Events : /\ event[e].state = "queued"
                    /\ event[e].deliveries = MaxDeliveries
                    /\ ~ event[e].live
                    /\ ~ Publishing(e)}

Candidates(d) ==
    {e \in Events : /\ Undelivered(e)
                    /\ event[e].owner = d \/ ~ event[e].live
                    /\ ~ Publishing(e)}

Batch(d) ==
    {e \in Candidates(d) :
        Cardinality({f \in Candidates(d) : event[f].id < event[e].id}) < BatchLimit}

Leased(d, row) ==
    [row EXCEPT !.owner = d, !.live = TRUE,
                !.deliveries = IF row.owner = d /\ row.live THEN @ ELSE @ + 1]

DeadLettered(row) == [row EXCEPT !.state = "dead", !.owner = NoOwner, !.live = FALSE]

\* claim_job_outbox: rows at the limit whose lease has expired are dead-lettered,
\* then the first BatchLimit claimable rows are leased.  When there is none, the
\* transaction goes on to recompute the flag.
ClaimEvents(d) ==
    /\ dispatcher[d].pc = "claim"
    /\ event' = [e \in Events |->
                    IF e \in Exhausted THEN DeadLettered(event[e])
                    ELSE IF e \in Batch(d) THEN Leased(d, event[e])
                    ELSE event[e]]
    /\ IF Batch(d) = {}
       THEN Move(d, [Idle EXCEPT !.pc = "flag", !.more = \E e \in Events : Undelivered(e)])
       ELSE Move(d, [Idle EXCEPT !.pc = "next", !.batch = Batch(d)])
    /\ UNCHANGED <<job, checkpoint, execution, pending, lease, faults>>

\* The second statement of that transaction, at its own snapshot.
SetFlag(d) ==
    /\ dispatcher[d].pc = "flag"
    /\ pending' = dispatcher[d].more
    /\ LeaveScope(d)
    /\ UNCHANGED <<job, checkpoint, execution, event, lease, faults>>

\* relay_scope takes the next row of the claimed batch, in no particular order.
At(d, label, e) ==
    [pc |-> label, batch |-> dispatcher[d].batch \ {e}, at |-> e, more |-> FALSE]

NextEvent(d, e) ==
    /\ dispatcher[d].pc = "next"
    /\ e \in dispatcher[d].batch
    /\ Move(d, At(d, "checkpoint", e))
    /\ UNCHANGED <<job, checkpoint, execution, event, pending, lease, faults>>

\* create_page_workflow with a new workflow: Created or Existing.
StartAccepted(j) ==
    \/ checkpoint[j] = "none" /\ job[j] \in {"accepted", "processing"}
    \/ checkpoint[j] = "fresh"

\* DurableWorkflowStarter::dispatch.  Start: Conflict and NotFound are errors,
\* and an error ends the pass.  Cancel: the checkpoint is cancelled.
WriteCheckpoint(d) ==
    LET j == dispatcher[d].at[1]
        start == dispatcher[d].at[2] = "start"
    IN
    /\ dispatcher[d].pc = "checkpoint"
    /\ checkpoint' = [checkpoint EXCEPT ![j] =
            IF ~ start THEN "cancelled"
            ELSE IF checkpoint[j] = "none" /\ StartAccepted(j) THEN "fresh" ELSE @]
    /\ job' = [job EXCEPT ![j] =
            IF start /\ checkpoint[j] = "none" /\ StartAccepted(j) THEN "processing" ELSE @]
    /\ IF start /\ ~ StartAccepted(j) THEN LeaveScope(d)
       ELSE Move(d, [dispatcher[d] EXCEPT !.pc = "temporal"])
    /\ UNCHANGED <<execution, event, pending, lease, faults>>

\* OfficialTemporalGateway::execute: RejectDuplicate; cancelling a workflow that
\* is not there is not an error.
CallTemporal(d) ==
    LET j == dispatcher[d].at[1] IN
    /\ dispatcher[d].pc = "temporal"
    /\ execution' = [execution EXCEPT ![j] =
            IF dispatcher[d].at[2] = "start"
            THEN IF @ = "none" THEN "running" ELSE @
            ELSE IF @ = "running" THEN "closed" ELSE @]
    /\ Move(d, [dispatcher[d] EXCEPT !.pc = "publish"])
    /\ UNCHANGED <<job, checkpoint, event, pending, lease, faults>>

\* Mutant: any dispatcher that delivered the event may acknowledge it.
AcknowledgeAnyway(d) ==
    /\ dispatcher[d].pc = "publish"
    /\ Move(d, [dispatcher[d] EXCEPT !.pc = "commit",
                   !.more = \E f \in Events \ {dispatcher[d].at} : Undelivered(f)])
    /\ UNCHANGED <<job, checkpoint, execution, event, pending, lease, faults>>

\* publish_job_outbox: only the live owner; Existing counts as published, any
\* other answer ends the pass.
Acknowledge(d) ==
    LET e == dispatcher[d].at IN
    /\ dispatcher[d].pc = "publish"
    /\ IF event[e].state = "queued" /\ event[e].owner = d /\ event[e].live
       THEN Move(d, [dispatcher[d] EXCEPT !.pc = "commit",
                        !.more = \E f \in Events \ {e} : Undelivered(f)])
       ELSE IF event[e].state = "published"
       THEN Move(d, [Idle EXCEPT !.pc = "next", !.batch = dispatcher[d].batch])
       ELSE LeaveScope(d)
    /\ UNCHANGED <<job, checkpoint, execution, event, pending, lease, faults>>

\* Mutant: a published row keeps its lease.
CommitKeepingLease(d) ==
    LET e == dispatcher[d].at IN
    /\ dispatcher[d].pc = "commit"
    /\ event' = [event EXCEPT ![e].state = "published"]
    /\ pending' = dispatcher[d].more
    /\ Move(d, [Idle EXCEPT !.pc = "next", !.batch = dispatcher[d].batch])
    /\ UNCHANGED <<job, checkpoint, execution, lease, faults>>

\* The flag and the commit, at a later snapshot.
CommitPublished(d) ==
    LET e == dispatcher[d].at IN
    /\ dispatcher[d].pc = "commit"
    /\ event' = [event EXCEPT ![e].state = "published", ![e].owner = NoOwner, ![e].live = FALSE]
    /\ pending' = dispatcher[d].more
    /\ Move(d, [Idle EXCEPT !.pc = "next", !.batch = dispatcher[d].batch])
    /\ UNCHANGED <<job, checkpoint, execution, lease, faults>>

\* The batch is done.
BatchDone(d) ==
    /\ dispatcher[d].pc = "next"
    /\ dispatcher[d].batch = {}
    /\ LeaveScope(d)
    /\ UNCHANGED <<job, checkpoint, execution, event, pending, lease, faults>>

\* ocr_release_work_scope: only the live owner's lease.
ReleaseScope(d) ==
    /\ dispatcher[d].pc = "release"
    /\ lease' = IF lease.owner = d /\ lease.live THEN Free ELSE lease
    /\ Move(d, Idle)
    /\ UNCHANGED <<job, checkpoint, execution, event, pending, faults>>

-----------------------------------------------------------------------------
(***************************************************************************)
(* Time and failures.                                                      *)
(***************************************************************************)
ScopeLeaseExpires ==
    /\ lease.live
    /\ faults < MaxFaults
    /\ faults' = faults + 1
    /\ lease' = [lease EXCEPT !.live = FALSE]
    /\ UNCHANGED <<job, checkpoint, execution, event, pending, dispatcher>>

EventLeaseExpires(e) ==
    /\ event[e].live
    /\ faults < MaxFaults
    /\ faults' = faults + 1
    /\ event' = [event EXCEPT ![e].live = FALSE]
    /\ UNCHANGED <<job, checkpoint, execution, pending, lease, dispatcher>>

\* Postgres or Temporal does not answer: the pass ends, the lease is released.
Outage(d) ==
    /\ dispatcher[d].pc \in {"claim", "checkpoint", "temporal", "publish", "flag", "commit"}
    /\ faults < MaxFaults
    /\ faults' = faults + 1
    /\ LeaveScope(d)
    /\ UNCHANGED <<job, checkpoint, execution, event, pending, lease>>

\* The process dies and comes back under the same WORKER_ID; an open
\* transaction is rolled back.
Restart(d) ==
    /\ dispatcher[d].pc # "idle"
    /\ faults < MaxFaults
    /\ faults' = faults + 1
    /\ Move(d, Idle)
    /\ UNCHANGED <<job, checkpoint, execution, event, pending, lease>>

Dispatch(d) ==
    \/ ClaimScope(d)
    \/ ClaimEvents(d)
    \/ SetFlag(d)
    \/ \E e \in Events : NextEvent(d, e)
    \/ WriteCheckpoint(d)
    \/ CallTemporal(d)
    \/ Acknowledge(d)
    \/ CommitPublished(d)
    \/ BatchDone(d)
    \/ ReleaseScope(d)

Next ==
    \/ \E j \in Jobs : CreateJob(j) \/ CancelJob(j) \/ Progress(j) \/ Finish(j)
    \/ \E d \in Dispatchers : Dispatch(d) \/ Outage(d) \/ Restart(d)
    \/ ScopeLeaseExpires
    \/ \E e \in Events : EventLeaseExpires(e)

Spec == Init /\ [][Next]_vars

\* The process polls its scopes every second, and a call returns.
FairSpec == Spec /\ \A d \in Dispatchers : WF_vars(Dispatch(d))
-----------------------------------------------------------------------------
(***************************************************************************)
(* Properties.                                                             *)
(***************************************************************************)
DispatcherPcs ==
    {"idle", "claim", "flag", "next", "checkpoint", "temporal", "publish", "commit", "release"}

Row == [state : {"none", "queued", "published", "dead"}, id : 0..Cardinality(Events),
        deliveries : 0..MaxDeliveries, owner : Dispatchers \cup {NoOwner}, live : BOOLEAN]

\* The table constraint ocr_outbox_delivery_shape: a statement that broke it
\* would fail, and the pass with it.
DeliveryShape(row) ==
    /\ row.state = "published" => row.deliveries > 0 /\ row.owner = NoOwner
    /\ row.state = "dead" => row.deliveries = MaxDeliveries /\ row.owner = NoOwner
    /\ row.state = "queued" => (row.deliveries > 0 <=> row.owner # NoOwner)
    /\ row.owner = NoOwner => ~ row.live

DispatcherRecord ==
    [pc : DispatcherPcs, batch : SUBSET Events, at : Events \cup {Nothing}, more : BOOLEAN]

\* Every variable keeps its type and every outbox row its table constraint.
TypeOK ==
    /\ job \in [Jobs -> {"none", "accepted", "processing", "cancelled", "published"}]
    /\ checkpoint \in [Jobs -> {"none", "fresh", "progressed", "cancelled"}]
    /\ execution \in [Jobs -> {"none", "running", "closed"}]
    /\ event \in [Events -> Row]
    /\ \A e \in Events : DeliveryShape(event[e])
    /\ pending \in BOOLEAN
    /\ lease \in [owner : Dispatchers \cup {NoOwner}, live : BOOLEAN]
    /\ dispatcher \in [Dispatchers -> DispatcherRecord]
    /\ faults \in 0..MaxFaults

\* What has been acknowledged has been done, whoever else was delivering it: a
\* published start has reached Temporal, a published cancel has cancelled the
\* checkpoint for good.  (TEMPORAL-RUST-QUALIFICATION.md: "an outbox row is
\* acknowledged only after Temporal accepts the command".)
AcknowledgedWasDelivered ==
    \A j \in Jobs :
        /\ event[<<j, "start">>].state = "published" => execution[j] # "none"
        /\ event[<<j, "cancel">>].state = "published" => checkpoint[j] = "cancelled"

\* A row that is published or dead-lettered is never touched again, in
\* particular not by a dispatcher whose lease ran out while it was delivering.
SettledRowsStay ==
    [][\A e \in Events :
          event[e].state \in {"published", "dead"} => event'[e] = event[e]]_vars

\* What an event asks for is there: the workflow, or the cancelled checkpoint.
Effective(e) ==
    IF e[2] = "start" THEN execution[e[1]] # "none" ELSE checkpoint[e[1]] = "cancelled"

Promise == INSTANCE Outbox WITH
    Entries <- Events,
    stage <- [e \in Events |-> event[e].state],
    effective <- {e \in Events : Effective(e)}

\* The dispatchers, their leases, batches, renewals and crashes amount to Outbox:
\* no workflow is started or cancelled for an event that was not inserted, none is
\* acknowledged before, and neither a late delivery nor a late acknowledgement
\* moves an event that is settled.
ImplementsOutbox == Promise!Spec

\* A second dispatcher enters the scope, and a second delivery of a row is
\* counted, only after a lease has run out or a process has died: neither a
\* pass a second nor a renewal by the same owner eats the delivery budget.
OverlapIsPaidFor ==
    /\ Cardinality({d \in Dispatchers : dispatcher[d].pc # "idle"}) <= 1 + faults
    /\ \A e \in Events : event[e].deliveries <= 1 + faults

\* A row nobody has claimed is found: with no transaction in progress, the
\* scope is marked pending.  (ADR 0010: the transition that "delivers the last
\* dispatch event clears its flag".)
WorkIsDiscoverable ==
    (\A d \in Dispatchers : dispatcher[d].pc = "idle")
        => ((\E e \in Events : event[e].state = "queued" /\ event[e].deliveries = 0) => pending)

\* An event that is tried again and again is at last published or dead-lettered.
\* (CONTRACTS.md: "20 delivery attempts [...] and exhaustion is dead-lettered for
\* alerting"; "replay after an ambiguous start is idempotent".)
RetriesEnd ==
    \A e \in Events :
        []<>(\E d \in Dispatchers : dispatcher[d].at = e)
            => <>(event[e].state \in {"published", "dead"})
=============================================================================
