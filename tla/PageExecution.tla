--------------------------- MODULE PageExecution ---------------------------
(***************************************************************************)
(* The execution of one accepted OCR job, from its outbox event to its     *)
(* committed result:                                                       *)
(*                                                                         *)
(*   relays    CheckpointedTemporalStarter / DurableWorkflowStarter, driven *)
(*             by JobOutboxRelay (ocr-service/src/outbox_relay.rs)         *)
(*   temporal  DurableDocumentWorkflow and its two activities              *)
(*             (ocr-temporal/src/lib.rs)                                   *)
(*   workers   activity executions: CheckpointedPageRunner::run_once and   *)
(*             DocumentFinalizer::finalize_stored (ocr-service)            *)
(*   store     the rows of PgJobStore (ocr-store/src/lib.rs): every store  *)
(*             call is one transaction, so one step                        *)
(*                                                                         *)
(* An activity execution that Temporal has given up on keeps running: it   *)
(* is a worker that is not `current', and only the compare-and-set of the  *)
(* checkpoint's revision stands between it and the job's state.            *)
(***************************************************************************)
EXTENDS PageWorkflow

CONSTANTS
    Workers,            \* activity slots of the execution workers
    Relays,             \* dispatch workers relaying this job's scope
    NoWorker,           \* not a worker: the activity is not running
    Contents,           \* what recognition of a page can serialise to
    Flagged,            \* contents with a validation failure
    Unusable,           \* contents result assembly refuses
    ProviderFailures,   \* failures the page processor can report
    MaxTries,           \* activity attempts: ActivityPolicy::page_ocr, 3
    IterationsPerRun,   \* DURABLE_ITERATIONS_PER_RUN, 50
    MaxIterations,      \* MAX_DURABLE_RUNNER_ITERATIONS, 3000
    MaxFaults           \* bound on crashes, lost replies and timeouts

ASSUME PageExecutionAssumption ==
    /\ NoWorker \notin Workers
    /\ "absent" \notin Contents
    /\ Flagged \subseteq Contents
    /\ Unusable \subseteq Contents
    /\ ProviderFailures \subseteq {"Retryable", "RateLimited", "Permanent"}
    /\ MaxTries \in Nat \ {0}
    /\ IterationsPerRun \in Nat \ {0}
    /\ MaxIterations \in Nat \ {0}
    /\ MaxFaults \in Nat

VARIABLES
    status,             \* ocr_jobs.status
    webhook,            \* the job has a webhook_subscription_id
    result,             \* the ocr_results row and the terminal state committed
    notices,            \* terminal webhook events inserted in ocr_outbox
    revision,           \* ocr_page_workflows.revision, NoRow before the insert
    workflow,           \* ocr_page_workflows.checkpoint
    artifacts,          \* rows <<page, attempt, content>> of ocr_page_artifacts
    objects,            \* page objects in storage, by page and attempt
    outbox,             \* dispatch events of the job not yet published
    relay,              \* control and local state of each relay
    temporal,           \* the Temporal workflow execution's state
    phase,              \* which activity it is executing
    iteration,          \* current runner iteration
    run,                \* run_number, advanced by continue-as-new
    tries,              \* attempt number of the current activity
    current,            \* the worker executing it, or NoWorker
    cancelRequested,    \* Temporal has accepted a cancel request
    worker,             \* control and local state of each worker
    faults              \* faults so far

jobVars == <<status, webhook, result, notices>>
rowVars == <<revision, workflow, artifacts>>
relayVars == <<outbox, relay>>
temporalVars ==
    <<temporal, phase, iteration, run, tries, current, cancelRequested>>
vars == <<jobVars, rowVars, objects, relayVars, temporalVars, worker, faults>>

NoRow == -1
NoContent == "absent"
NoResult == [state |-> "none", artifacts |-> {}]

Published == {"partial", "review_required", "completed"}
Cancellable == {"accepted", "inspecting", "processing", "validating"}
Retryable == {"DependencyUnavailable", "ProviderRateLimited", "RevisionConflict"}
NotRetryable == {"InvalidInput", "ScopeNotFound"}

IdleRelay == [pc |-> "idle", rev |-> NoRow, wf |-> NewWorkflow]
IdleWorker ==
    [pc |-> "idle", rev |-> NoRow, wf |-> NewWorkflow, task |-> NoTasks,
     found |-> {}, limited |-> FALSE, out |-> "none"]

Init ==
    /\ status = "accepted"
    /\ webhook \in BOOLEAN
    /\ result = NoResult
    /\ notices = 0
    /\ revision = NoRow
    /\ workflow = NewWorkflow
    /\ artifacts = {}
    /\ objects = [p \in Pages |-> [a \in Attempts |-> NoContent]]
    /\ outbox = {"start"}
    /\ relay = [r \in Relays |-> IdleRelay]
    /\ temporal = "none"
    /\ phase = "pages"
    /\ iteration = 1
    /\ run = 1
    /\ tries = 1
    /\ current = NoWorker
    /\ cancelRequested = FALSE
    /\ worker = [w \in Workers |-> IdleWorker]
    /\ faults = 0

-----------------------------------------------------------------------------
(***************************************************************************)
(* Store transactions.                                                     *)
(***************************************************************************)

\* PgJobStore::create_page_workflow inserts: no row yet, and the job is open,
\* or is being cancelled and the checkpoint is a cancelled one.
Insertable(w) ==
    /\ revision = NoRow
    /\ \/ status \in {"accepted", "processing"}
       \/ w.cancelled /\ status \in {"cancelling", "cancelled"}

CreatePageWorkflow(w) ==
    IF Insertable(w)
    THEN /\ revision' = 0
         /\ workflow' = w
         /\ status' = IF w.cancelled THEN status ELSE "processing"
         /\ UNCHANGED <<webhook, result, notices, artifacts>>
    ELSE UNCHANGED <<jobVars, rowVars>>

\* The outcomes of create_page_workflow.
Created(w) == Insertable(w)
Existing(w) == ~ Insertable(w) /\ revision # NoRow /\ workflow = w

\* Mutant: the save does not compare the revision.
SaveWithoutCompare(expected, w, batch) ==
    /\ revision' = revision + 1
    /\ workflow' = w
    /\ artifacts' = artifacts \cup batch

\* PgJobStore::save_page_workflow_with_artifacts: compare-and-set on revision.
SavePageWorkflow(expected, w, batch) ==
    IF revision = expected
    THEN /\ revision' = revision + 1
         /\ workflow' = w
         /\ artifacts' = artifacts \cup batch
    ELSE UNCHANGED rowVars

\* Mutant: a published job can still be cancelled.
CancelAnyJob ==
    /\ status # "cancelled"
    /\ status' = "cancelled"
    /\ outbox' = outbox \cup {"cancel"}
    /\ UNCHANGED <<webhook, result, notices, rowVars, objects, relay,
                   temporalVars, worker, faults>>

\* PgJobStore::cancel, behind DELETE /v1/jobs/{id}.
CancelJob ==
    /\ status \in Cancellable
    /\ status' = "cancelled"
    /\ outbox' = outbox \cup {"cancel"}
    /\ UNCHANGED <<webhook, result, notices, rowVars, objects, relay,
                   temporalVars, worker, faults>>

\* Mutant: the job's state is not checked under the row lock.
CommitWhateverStatus(state, found) ==
    IF result = NoResult
    THEN /\ status' = state
         /\ result' = [state |-> state, artifacts |-> found]
         /\ notices' = IF webhook THEN notices + 1 ELSE notices
         /\ UNCHANGED webhook
    ELSE UNCHANGED jobVars

\* Mutant: the webhook event is inserted for an existing result too.
NotifyOnEveryCommit(state, found) ==
    IF status \in {"processing", "validating"} \cup Published
    THEN /\ status' = IF result = NoResult THEN state ELSE status
         /\ result' = IF result = NoResult
                      THEN [state |-> state, artifacts |-> found] ELSE result
         /\ notices' = IF webhook THEN notices + 1 ELSE notices
         /\ UNCHANGED webhook
    ELSE UNCHANGED jobVars

\* PgJobStore::commit_result.
CommitResult(state, found) ==
    IF result = NoResult /\ status \in {"processing", "validating"}
    THEN /\ status' = state
         /\ result' = [state |-> state, artifacts |-> found]
         /\ notices' = IF webhook THEN notices + 1 ELSE notices
         /\ UNCHANGED webhook
    ELSE UNCHANGED jobVars

\* Its outcome, as DocumentFinalizerExecutor::run reports it to Temporal.
CommitOutcome(state, found) ==
    IF result # NoResult
    THEN IF result.artifacts = found /\ status = state
         THEN "Done" ELSE "InvalidInput"
    ELSE IF status \in {"processing", "validating"}
         THEN "Done" ELSE "InvalidInput"

-----------------------------------------------------------------------------
(***************************************************************************)
(* Relays: JobOutboxRelay::relay_scope for this job's events, dispatching  *)
(* through CheckpointedTemporalStarter (checkpoint first, then Temporal).  *)
(* A lease can pass from one relay to another at any time, so any relay    *)
(* may dispatch any unpublished event (module JobDispatch has the leases). *)
(***************************************************************************)
Goto(r, label) == relay' = [relay EXCEPT ![r] = [IdleRelay EXCEPT !.pc = label]]

ClaimEvent(r, event) ==
    /\ relay[r].pc = "idle"
    /\ event \in outbox
    /\ Goto(r, IF event = "start" THEN "create" ELSE "load")
    /\ UNCHANGED <<jobVars, rowVars, objects, outbox, temporalVars, worker, faults>>

\* Mutant: a checkpoint that already exists is an error.
CreateCheckpointOnce(r) ==
    /\ relay[r].pc = "create"
    /\ CreatePageWorkflow(NewWorkflow)
    /\ Goto(r, IF Created(NewWorkflow) THEN "startWorkflow" ELSE "idle")
    /\ UNCHANGED <<objects, outbox, temporalVars, worker, faults>>

\* DurableWorkflowStarter::dispatch, Start: Conflict and NotFound are errors,
\* and relay_scope stops at an error.
CreateCheckpoint(r) ==
    /\ relay[r].pc = "create"
    /\ CreatePageWorkflow(NewWorkflow)
    /\ Goto(r, IF Created(NewWorkflow) \/ Existing(NewWorkflow)
               THEN "startWorkflow" ELSE "idle")
    /\ UNCHANGED <<objects, outbox, temporalVars, worker, faults>>

\* OfficialTemporalGateway::execute, Start with RejectDuplicate.
StartWorkflow(r) ==
    /\ relay[r].pc = "startWorkflow"
    /\ temporal' = IF temporal = "none" THEN "running" ELSE temporal
    /\ Goto(r, "publishStart")
    /\ UNCHANGED <<jobVars, rowVars, objects, outbox, phase, iteration, run,
                   tries, current, cancelRequested, worker, faults>>

\* DurableWorkflowStarter::cancel loads the checkpoint and picks a branch.
LoadForCancel(r) ==
    /\ relay[r].pc = "load"
    /\ relay' = [relay EXCEPT ![r] =
            IF revision = NoRow
            THEN [IdleRelay EXCEPT !.pc = "createCancelled"]
            ELSE IF workflow.cancelled
            THEN [IdleRelay EXCEPT !.pc = "complete"]
            ELSE [pc |-> "saveCancelled", rev |-> revision,
                  wf |-> RequestCancellation(workflow)]]
    /\ UNCHANGED <<jobVars, rowVars, objects, outbox, temporalVars, worker, faults>>

CreateCancelled(r) ==
    LET cancelled == RequestCancellation(NewWorkflow) IN
    /\ relay[r].pc = "createCancelled"
    /\ CreatePageWorkflow(cancelled)
    /\ Goto(r, IF Created(cancelled) THEN "cancelWorkflow"
               ELSE IF Existing(cancelled) THEN "complete" ELSE "idle")
    /\ UNCHANGED <<objects, outbox, temporalVars, worker, faults>>

\* DurableWorkflowStarter::cancel_stored.
SaveCancelled(r) ==
    /\ relay[r].pc = "saveCancelled"
    /\ SavePageWorkflow(relay[r].rev, relay[r].wf, {})
    /\ Goto(r, IF revision = relay[r].rev THEN "complete" ELSE "idle")
    /\ UNCHANGED <<jobVars, objects, outbox, temporalVars, worker, faults>>

\* DurableWorkflowStarter::complete_cancellation over the store's.
CompleteCancellation(r) ==
    /\ relay[r].pc = "complete"
    /\ status' = IF status = "cancelling" THEN "cancelled" ELSE status
    /\ Goto(r, IF status \in {"cancelling", "cancelled"}
               THEN "cancelWorkflow" ELSE "idle")
    /\ UNCHANGED <<webhook, result, notices, rowVars, objects, outbox,
                   temporalVars, worker, faults>>

\* OfficialTemporalGateway::execute, Cancel: no such workflow is not an error.
CancelWorkflow(r) ==
    /\ relay[r].pc = "cancelWorkflow"
    /\ cancelRequested' = (cancelRequested \/ temporal = "running")
    /\ Goto(r, "publishCancel")
    /\ UNCHANGED <<jobVars, rowVars, objects, outbox, temporal, phase,
                   iteration, run, tries, current, worker, faults>>

\* publish_job_outbox by the event's live owner.
PublishEvent(r) ==
    /\ relay[r].pc \in {"publishStart", "publishCancel"}
    /\ outbox' = outbox \ {IF relay[r].pc = "publishStart" THEN "start" ELSE "cancel"}
    /\ Goto(r, "idle")
    /\ UNCHANGED <<jobVars, rowVars, objects, temporalVars, worker, faults>>

\* A relay crashes, loses its lease, or gets no answer from the store or from
\* Temporal: whatever its last call did stays done, the event unpublished.
RelayStops(r) ==
    /\ relay[r].pc # "idle"
    /\ faults < MaxFaults
    /\ faults' = faults + 1
    /\ Goto(r, "idle")
    /\ UNCHANGED <<jobVars, rowVars, objects, outbox, temporalVars, worker>>

-----------------------------------------------------------------------------
(***************************************************************************)
(* Page activity: CheckpointedPageRunner::run_once.                        *)
(***************************************************************************)
Reply(w, answer) ==
    worker' = [worker EXCEPT ![w] =
                  [IdleWorker EXCEPT !.pc = "reply", !.out = answer]]

LoadAndClaim(w) ==
    /\ worker[w].pc = "load"
    /\ IF revision = NoRow THEN Reply(w, "ScopeNotFound")
       ELSE IF Claimable(workflow) = {} THEN Reply(w, WorkflowStatus(workflow))
       ELSE worker' = [worker EXCEPT ![w] =
              [IdleWorker EXCEPT !.pc = "claim", !.rev = revision,
                                 !.wf = ClaimReady(workflow),
                                 !.task = ClaimedTasks(workflow)]]
    /\ UNCHANGED <<jobVars, rowVars, objects, relayVars, temporalVars, faults>>

\* Mutant: the pages are processed whether or not the claim was saved.
ProcessUnsavedClaim(w) ==
    /\ worker[w].pc = "claim"
    /\ SavePageWorkflow(worker[w].rev, worker[w].wf, {})
    /\ worker' = [worker EXCEPT ![w].pc = "process", ![w].rev = @ + 1]
    /\ UNCHANGED <<jobVars, objects, relayVars, temporalVars, faults>>

\* Mutant: a claim lost to another runner is reported as a finished iteration.
ConflictReportedAsRunning(w) ==
    /\ worker[w].pc = "claim"
    /\ SavePageWorkflow(worker[w].rev, worker[w].wf, {})
    /\ IF revision = worker[w].rev
       THEN worker' = [worker EXCEPT ![w].pc = "process", ![w].rev = @ + 1]
       ELSE Reply(w, "Running")
    /\ UNCHANGED <<jobVars, objects, relayVars, temporalVars, faults>>

SaveClaim(w) ==
    /\ worker[w].pc = "claim"
    /\ SavePageWorkflow(worker[w].rev, worker[w].wf, {})
    /\ IF revision = worker[w].rev
       THEN worker' = [worker EXCEPT ![w].pc = "process", ![w].rev = @ + 1]
       ELSE Reply(w, "RevisionConflict")
    /\ UNCHANGED <<jobVars, objects, relayVars, temporalVars, faults>>

Unprocessed(w) ==
    {p \in Pages : worker[w].task[p] # 0 /\ worker[w].wf.pages[p].state = "Running"}

\* The pages of a batch finish in any order; the last one ends the processing.
AfterPage(w, p, wf) ==
    [worker[w] EXCEPT !.wf = wf,
                      !.pc = IF Unprocessed(w) = {p} THEN "save" ELSE "process"]

\* Recognition succeeds and the page object is put with PutMode::Create and
\* read back: an object with other bytes under the same page and attempt is a
\* Conflict, which the processor reports as a permanent failure.
RecognizePage(w, p, content) ==
    LET attempt == worker[w].task[p]
        stored  == IF objects[p][attempt] = NoContent
                   THEN content ELSE objects[p][attempt]
        wf      == worker[w].wf
    IN
    /\ worker[w].pc = "process"
    /\ p \in Unprocessed(w)
    /\ ActiveTask(wf, p, attempt)
    /\ objects' = [objects EXCEPT ![p][attempt] = stored]
    /\ worker' = [worker EXCEPT ![w] =
            IF stored = content
            THEN [AfterPage(w, p, RecordSuccess(wf, p, attempt))
                    EXCEPT !.found = @ \cup {<<p, attempt, content>>}]
            ELSE AfterPage(w, p, RecordPermanentFailure(wf, p, attempt))]
    /\ UNCHANGED <<jobVars, rowVars, relayVars, temporalVars, faults>>

\* The processor reports a failure of the page.
FailPage(w, p, failure) ==
    LET attempt == worker[w].task[p]
        wf      == worker[w].wf
    IN
    /\ worker[w].pc = "process"
    /\ p \in Unprocessed(w)
    /\ ActiveTask(wf, p, attempt)
    /\ worker' = [worker EXCEPT ![w] =
            IF failure = "Permanent"
            THEN AfterPage(w, p, RecordPermanentFailure(wf, p, attempt))
            ELSE [AfterPage(w, p, RecordRetryableFailure(wf, p, attempt))
                    EXCEPT !.limited = @ \/ (/\ failure = "RateLimited"
                                             /\ attempt < MaxAttempts)]]
    /\ UNCHANGED <<jobVars, rowVars, objects, relayVars, temporalVars, faults>>

SaveOutcomes(w) ==
    LET answer == WorkflowStatus(worker[w].wf) IN
    /\ worker[w].pc = "save"
    /\ SavePageWorkflow(worker[w].rev, worker[w].wf, worker[w].found)
    /\ Reply(w, IF revision # worker[w].rev THEN "RevisionConflict"
                ELSE IF worker[w].limited /\ answer = "Running"
                THEN "ProviderRateLimited" ELSE answer)
    /\ UNCHANGED <<jobVars, objects, relayVars, temporalVars, faults>>

-----------------------------------------------------------------------------
(***************************************************************************)
(* Finalization activity: DocumentFinalizer::finalize_stored.              *)
(***************************************************************************)

\* A result already there is returned as it is (native processing); otherwise
\* the checkpoint must be settled.
LoadForFinalize(w) ==
    LET answer == WorkflowStatus(workflow) IN
    /\ worker[w].pc = "finalize"
    /\ IF result # NoResult THEN Reply(w, "Done")
       ELSE IF revision = NoRow \/ answer = "Running"
       THEN Reply(w, "DependencyUnavailable")
       ELSE IF answer = "Cancelled" THEN Reply(w, "ScopeNotFound")
       ELSE worker' = [worker EXCEPT ![w] =
              [IdleWorker EXCEPT !.pc = "collect", !.rev = revision,
                                 !.wf = workflow]]
    /\ UNCHANGED <<jobVars, rowVars, objects, relayVars, temporalVars, faults>>

SuccessfulPages(w) == {p \in Pages : w.pages[p].state = "Succeeded"}

\* Mutant: pages that failed do not make the result partial.
CollectAsCompleted(w) ==
    LET contents == {row[3] : row \in artifacts} IN
    /\ worker[w].pc = "collect"
    /\ IF Cardinality(artifacts) # Cardinality(SuccessfulPages(worker[w].wf))
       THEN Reply(w, "DependencyUnavailable")
       ELSE IF contents \cap Unusable # {} THEN Reply(w, "InvalidInput")
       ELSE worker' = [worker EXCEPT ![w] =
              [@ EXCEPT !.pc = "publish", !.found = artifacts,
                        !.out = IF contents \cap Flagged # {}
                                THEN "review_required" ELSE "completed"]]
    /\ UNCHANGED <<jobVars, rowVars, objects, relayVars, temporalVars, faults>>

\* load_page_artifacts, the count check, the reads and the assembly.
CollectArtifacts(w) ==
    LET contents == {row[3] : row \in artifacts} IN
    /\ worker[w].pc = "collect"
    /\ IF Cardinality(artifacts) # Cardinality(SuccessfulPages(worker[w].wf))
       THEN Reply(w, "DependencyUnavailable")
       ELSE IF contents \cap Unusable # {} THEN Reply(w, "InvalidInput")
       ELSE worker' = [worker EXCEPT ![w] =
              [@ EXCEPT !.pc = "publish", !.found = artifacts,
                        !.out = IF WorkflowStatus(worker[w].wf) = "Partial" THEN "partial"
                                ELSE IF contents \cap Flagged # {}
                                THEN "review_required" ELSE "completed"]]
    /\ UNCHANGED <<jobVars, rowVars, objects, relayVars, temporalVars, faults>>

\* ResultPublisher::publish: the content-addressed object, then the commit.
PublishResult(w) ==
    /\ worker[w].pc = "publish"
    /\ CommitResult(worker[w].out, worker[w].found)
    /\ Reply(w, CommitOutcome(worker[w].out, worker[w].found))
    /\ UNCHANGED <<rowVars, objects, relayVars, temporalVars, faults>>

-----------------------------------------------------------------------------
(***************************************************************************)
(* DurableDocumentWorkflow and the Temporal service around it.             *)
(***************************************************************************)
RunEnd == IF run * IterationsPerRun < MaxIterations
          THEN run * IterationsPerRun ELSE MaxIterations

StartActivity(w) ==
    /\ temporal = "running"
    /\ phase \in {"pages", "finalize"}
    /\ current = NoWorker
    /\ worker[w].pc = "idle"
    /\ current' = w
    /\ worker' = [worker EXCEPT ![w].pc = IF phase = "pages" THEN "load" ELSE "finalize"]
    /\ UNCHANGED <<jobVars, rowVars, objects, relayVars, temporal, phase,
                   iteration, run, tries, cancelRequested, faults>>

\* The workflow closes.
Close(state) ==
    /\ temporal' = state
    /\ current' = NoWorker
    /\ UNCHANGED <<phase, iteration, run, tries, cancelRequested>>

\* The activity's RetryPolicy: maximum_attempts, unless not retryable.
RetryActivity ==
    IF tries < MaxTries
    THEN /\ tries' = tries + 1
         /\ current' = NoWorker
         /\ UNCHANGED <<temporal, phase, iteration, run, cancelRequested>>
    ELSE Close("failed")

\* The next activity of the workflow function.
NextActivity(nextPhase, nextIteration) ==
    /\ phase' = nextPhase
    /\ iteration' = nextIteration
    /\ tries' = 1
    /\ current' = NoWorker
    /\ UNCHANGED <<temporal, run, cancelRequested>>

\* DurableDocumentWorkflow::run takes the answer of the activity it awaits.
TakeAnswer(answer) ==
    \/ /\ answer = "Running"
       /\ IF iteration < RunEnd THEN NextActivity("pages", iteration + 1)
          ELSE NextActivity("rollover", iteration)
    \/ answer \in {"Completed", "Partial"} /\ NextActivity("finalize", iteration)
    \/ answer \in {"Cancelled", "Done"} /\ Close("completed")
    \/ answer \in Retryable /\ RetryActivity
    \/ answer \in NotRetryable /\ Close("failed")

FinishActivity(w) ==
    /\ worker[w].pc = "reply"
    /\ worker' = [worker EXCEPT ![w] = IdleWorker]
    /\ IF current = w THEN TakeAnswer(worker[w].out) ELSE UNCHANGED temporalVars
    /\ UNCHANGED <<jobVars, rowVars, objects, relayVars, faults>>

\* next_run and continue_as_new, or IterationLimit.
ContinueAsNew ==
    /\ temporal = "running"
    /\ phase = "rollover"
    /\ IF RunEnd + 1 <= MaxIterations
       THEN /\ run' = run + 1
            /\ iteration' = RunEnd + 1
            /\ phase' = "pages"
            /\ UNCHANGED <<temporal, tries, current, cancelRequested>>
       ELSE Close("failed")
    /\ UNCHANGED <<jobVars, rowVars, objects, relayVars, worker, faults>>

\* Temporal gives up on an execution that is still running (start-to-close or
\* heartbeat timeout): the execution itself goes on.
ActivityTimeout(w) ==
    /\ current = w
    /\ worker[w].pc # "idle"
    /\ faults < MaxFaults
    /\ faults' = faults + 1
    /\ RetryActivity
    /\ UNCHANGED <<jobVars, rowVars, objects, relayVars, worker>>

\* Temporal notices that the execution is gone.
ActivityLost(w) ==
    /\ current = w
    /\ worker[w].pc = "idle"
    /\ RetryActivity
    /\ UNCHANGED <<jobVars, rowVars, objects, relayVars, worker, faults>>

\* A cancel request reaches the activity (ctx.cancelled()): its future is
\* dropped where it stands and the workflow ends as cancelled.
ActivityCancelled(w) ==
    /\ cancelRequested
    /\ current = w
    /\ worker[w].pc # "idle"
    /\ worker' = [worker EXCEPT ![w] = IdleWorker]
    /\ Close("cancelled")
    /\ UNCHANGED <<jobVars, rowVars, objects, relayVars, faults>>

\* The worker process dies.
WorkerCrash(w) ==
    /\ worker[w].pc # "idle"
    /\ faults < MaxFaults
    /\ faults' = faults + 1
    /\ worker' = [worker EXCEPT ![w] = IdleWorker]
    /\ UNCHANGED <<jobVars, rowVars, objects, relayVars, temporalVars>>

\* A store or storage call of the worker fails, or its answer is lost after
\* the transaction committed: Error::Store, a retryable failure.
StoreUnavailable(w) ==
    /\ worker[w].pc \notin {"idle", "process"}
    /\ faults < MaxFaults
    /\ faults' = faults + 1
    /\ Reply(w, "DependencyUnavailable")
    /\ UNCHANGED <<jobVars, rowVars, objects, relayVars, temporalVars>>

-----------------------------------------------------------------------------
RelayStep(r) ==
    \/ \E event \in {"start", "cancel"} : ClaimEvent(r, event)
    \/ CreateCheckpoint(r)
    \/ StartWorkflow(r)
    \/ LoadForCancel(r)
    \/ CreateCancelled(r)
    \/ SaveCancelled(r)
    \/ CompleteCancellation(r)
    \/ CancelWorkflow(r)
    \/ PublishEvent(r)

WorkerStep(w) ==
    \/ LoadAndClaim(w)
    \/ SaveClaim(w)
    \/ \E p \in Pages, content \in Contents : RecognizePage(w, p, content)
    \/ \E p \in Pages, failure \in ProviderFailures : FailPage(w, p, failure)
    \/ SaveOutcomes(w)
    \/ LoadForFinalize(w)
    \/ CollectArtifacts(w)
    \/ PublishResult(w)
    \/ FinishActivity(w)

TemporalStep == ContinueAsNew \/ \E w \in Workers : StartActivity(w) \/ ActivityLost(w)

Fault ==
    \/ \E r \in Relays : RelayStops(r)
    \/ \E w \in Workers :
         ActivityTimeout(w) \/ ActivityCancelled(w) \/ WorkerCrash(w) \/ StoreUnavailable(w)

Next ==
    \/ CancelJob
    \/ \E r \in Relays : RelayStep(r)
    \/ \E w \in Workers : WorkerStep(w)
    \/ TemporalStep
    \/ Fault

Spec == Init /\ [][Next]_vars

(***************************************************************************)
(* Fairness: the dispatch worker polls every second, Temporal redelivers   *)
(* activities, and a store call that does not fail returns.  Faults are    *)
(* bounded by MaxFaults; nothing obliges anybody to cancel.                *)
(***************************************************************************)
Fairness ==
    /\ \A r \in Relays : WF_vars(RelayStep(r))
    /\ \A w \in Workers : WF_vars(WorkerStep(w))
    /\ WF_vars(TemporalStep)

FairSpec == Spec /\ Fairness
-----------------------------------------------------------------------------
(***************************************************************************)
(* Properties.                                                             *)
(***************************************************************************)
RelayPcs ==
    {"idle", "create", "startWorkflow", "publishStart", "load", "createCancelled",
     "saveCancelled", "complete", "cancelWorkflow", "publishCancel"}
WorkerPcs ==
    {"idle", "load", "claim", "process", "save", "finalize", "collect", "publish", "reply"}
Answers ==
    {"Running", "Completed", "Partial", "Cancelled", "Done"} \cup Retryable \cup NotRetryable
Rows == Pages \X Attempts \X Contents
RelayRecord == [pc : RelayPcs, rev : Nat \cup {NoRow}, wf : Workflow]
WorkerRecord ==
    [pc : WorkerPcs, rev : Nat \cup {NoRow}, wf : Workflow,
     task : [Pages -> 0..MaxAttempts], found : SUBSET Rows,
     limited : BOOLEAN, out : Answers \cup Published \cup {"none"}]

\* Every variable keeps its type.  For the checkpoint this is the test of
\* TryFrom<RawPageWorkflow>: whatever was saved can be loaded again.
TypeOK ==
    /\ status \in Cancellable \cup Published \cup {"cancelled"}
    /\ webhook \in BOOLEAN
    /\ result \in [state : Published \cup {"none"}, artifacts : SUBSET Rows]
    /\ notices \in Nat
    /\ revision \in Nat \cup {NoRow}
    /\ workflow \in Workflow
    /\ artifacts \in SUBSET Rows
    /\ objects \in [Pages -> [Attempts -> Contents \cup {NoContent}]]
    /\ outbox \in SUBSET {"start", "cancel"}
    /\ relay \in [Relays -> RelayRecord]
    /\ temporal \in {"none", "running", "completed", "failed", "cancelled"}
    /\ phase \in {"pages", "finalize", "rollover"}
    /\ iteration \in Nat
    /\ run \in Nat
    /\ tries \in 1..MaxTries
    /\ current \in Workers \cup {NoWorker}
    /\ cancelRequested \in BOOLEAN
    /\ worker \in [Workers -> WorkerRecord]
    /\ faults \in 0..MaxFaults

\* The artifact rows are exactly the pages the checkpoint says succeeded, each
\* under the attempt that succeeded, and each points at the object storage
\* holds.  Two tables and a bucket, written by runners that may be zombies.
ArtifactsMatchCheckpoint ==
    /\ {<<row[1], row[2]>> : row \in artifacts} =
          {<<p, workflow.pages[p].n>> : p \in SuccessfulPages(workflow)}
    /\ \A row \in artifacts : objects[row[1]][row[2]] = row[3]
    /\ \A row, other \in artifacts : row[1] = other[1] => row = other

\* A page is being processed only under a claim that is in the checkpoint: a
\* later writer may have moved the page on, none has taken the attempt back.
\* At an unchanged revision the claim is still the running attempt.
\* (ADR 0008: "provider work does not start without a durable claim".)
DurableClaim(w) ==
    worker[w].pc \in {"process", "save"} =>
        /\ worker[w].rev <= revision
        /\ \A p \in Pages : worker[w].task[p] # 0 =>
              /\ Rank(workflow.pages[p]) >= Rank(Running(worker[w].task[p]))
              /\ worker[w].rev = revision => ActiveTask(workflow, p, worker[w].task[p])

ClaimsAreDurable == \A w \in Workers : DurableClaim(w)

\* A published job has one result, and it is the checkpoint's: all pages for
\* completed and review_required, some missing for partial, over exactly the
\* rows in the artifact table, of a workflow that was never cancelled.
\* (find_result reports any other combination as InvalidStoredResult.)
ResultMatchesCheckpoint ==
    /\ status \in Published <=> result # NoResult
    /\ result # NoResult =>
          /\ result.state = status
          /\ result.artifacts = artifacts
          /\ WorkflowStatus(workflow) = IF status = "partial" THEN "Partial" ELSE "Completed"
          /\ status = "review_required" => \E row \in artifacts : row[3] \in Flagged
          /\ status = "completed" => \A row \in artifacts : row[3] \notin Flagged

\* The subscriber of a published job is told once, of a job without result or
\* without subscription never, however often finalization is redelivered.
NoticeExactlyOnce ==
    notices = IF webhook /\ result # NoResult THEN 1 ELSE 0

\* The attempts a page has spent, and the attempts of all pages that are over.
Spent(progress) == IF progress.state = "Running" THEN progress.n - 1 ELSE progress.n
SpentBy(w) == {t \in Pages \X Attempts : t[2] <= Spent(w.pages[t[1]])}
AttemptsSpent == Cardinality(SpentBy(workflow))

\* Every runner iteration beyond the first was paid for by a finished page
\* attempt, whatever was retried, lost or redelivered in between; so a job
\* whose PageCount * MaxAttempts fits MaxIterations never meets IterationLimit.
IterationsArePaidFor ==
    /\ iteration <= AttemptsSpent + 1
    /\ temporal = "running" /\ phase = "rollover" => iteration <= AttemptsSpent
    /\ \A w \in Workers :
          /\ current = w
          /\ worker[w].pc = "reply"
          /\ worker[w].out = "Running"
          => iteration <= AttemptsSpent

\* A page never goes back: its attempts only grow, and once it is settled no
\* runner, zombie or not, changes it.
PagesOnlyAdvance ==
    [][\A p \in Pages :
          /\ Rank(workflow.pages[p]) <= Rank(workflow'.pages[p])
          /\ Settled(workflow.pages[p]) => workflow'.pages[p] = workflow.pages[p]]_vars

\* A cancelled checkpoint is frozen: no page is claimed or recorded after it,
\* and no artifact is added.  (ADR 0008: "Cancellation must durably mark the
\* page workflow before workflow closure, after which no new page can be
\* claimed".)
CancellationFreezes ==
    [][revision # NoRow /\ workflow.cancelled
          => workflow' = workflow /\ artifacts' = artifacts]_vars

\* "Terminal completed/rejected/cancelled jobs do not move backward"
\* (CONTRACTS.md): a cancel racing the commit leaves exactly one winner.
TerminalIsFinal ==
    [][(status \in Published \cup {"cancelled"})
          => status' = status /\ result' = result /\ notices' = notices]_vars

\* The decision a checkpoint records for a page.
Decision(progress) ==
    IF progress.state = "Succeeded" THEN "kept"
    ELSE IF Settled(progress) THEN "lost" ELSE "open"

Promise == INSTANCE DocumentJob WITH
    DocumentPages <- Pages,
    state <- status,
    decision <- [p \in Pages |-> Decision(workflow.pages[p])],
    stopped <- workflow.cancelled,
    published <- {row[1] : row \in result.artifacts}

\* All of the relays, retries, zombies and revisions amount to DocumentJob:
\* pages decided once, published or cancelled but not both, and a result that
\* is the decided pages.
ImplementsDocumentJob == Promise!Spec

\* An accepted job is eventually published or cancelled, unless Temporal has
\* closed its workflow as failed.
JobSettles ==
    <>(status \in Published \cup {"cancelled"} \/ temporal = "failed")

\* Provider failures alone never fail the workflow.  (ADR 0008: "A retryable
\* provider outcome is recorded in CNPG and returned to Temporal as a
\* successful activity result with `running` metadata".)
ProviderFailureIsNotWorkflowFailure ==
    temporal = "failed" => status = "cancelled"
-----------------------------------------------------------------------------
(***************************************************************************)
(* The inductive invariant behind the safety properties.  Temporal does    *)
(* not appear in it: the safety of the stored state rests on the store's   *)
(* transactions alone, whatever is redelivered, timed out or abandoned.    *)
(***************************************************************************)

\* Nothing is recorded before the checkpoint row exists.
RowInv == revision = NoRow => workflow = NewWorkflow /\ artifacts = {}

\* The cancellation path is walked only for a cancelled job, and a cancelled
\* copy that will pass the compare-and-set is the stored checkpoint, cancelled.
CancelPcs == {"load", "createCancelled", "saveCancelled", "complete",
              "cancelWorkflow", "publishCancel"}

CancelInv ==
    /\ workflow.cancelled => status = "cancelled"
    /\ "cancel" \in outbox => status = "cancelled"

RelayInv(r) ==
    /\ relay[r].pc \in CancelPcs => status = "cancelled"
    /\ relay[r].pc = "saveCancelled" =>
          /\ relay[r].rev \in 0..revision
          /\ relay[r].rev = revision => relay[r].wf = RequestCancellation(workflow)

\* A claim that will pass the compare-and-set is the stored checkpoint's claim.
ClaimInv(w) ==
    worker[w].pc = "claim" =>
        /\ worker[w].rev \in 0..revision
        /\ worker[w].found = {}
        /\ worker[w].rev = revision =>
              /\ ~ workflow.cancelled
              /\ worker[w].wf = ClaimReady(workflow)
              /\ worker[w].task = ClaimedTasks(workflow)

\* What a recorded task may have become in the runner's copy.
Recorded(progress, attempt) ==
    \/ progress \in {Running(attempt), Succeeded(attempt), PermanentlyFailed(attempt)}
    \/ attempt = MaxAttempts /\ progress = Exhausted(attempt)
    \/ attempt < MaxAttempts /\ progress = Pending(attempt)

\* A runner's copy differs from the checkpoint it will replace only in its own
\* tasks, and its artifact batch is exactly the tasks that succeeded.
BatchInv(w) ==
    LET me == worker[w] IN
    /\ ~ me.wf.cancelled
    /\ \A p \in Pages : me.task[p] # 0 => Recorded(me.wf.pages[p], me.task[p])
    /\ \A row \in me.found :
          /\ me.task[row[1]] = row[2]
          /\ me.wf.pages[row[1]] = Succeeded(row[2])
          /\ objects[row[1]][row[2]] = row[3]
    /\ \A p \in Pages : me.task[p] # 0 /\ me.wf.pages[p].state = "Succeeded" =>
          \E row \in me.found : row[1] = p
    /\ me.rev = revision =>
          \A p \in Pages : me.task[p] = 0 => me.wf.pages[p] = workflow.pages[p]

RunnerInv(w) ==
    worker[w].pc \in {"process", "save"} =>
        /\ worker[w].rev \in Nat
        /\ worker[w].rev = revision => ~ workflow.cancelled
        /\ BatchInv(w)

\* What a finalizer has read can no longer change under it, except by
\* cancellation, which the commit checks under the job's row lock.
FinalInv(w) ==
    worker[w].pc \in {"collect", "publish"} =>
        /\ revision # NoRow
        /\ WorkflowStatus(worker[w].wf) \in {"Completed", "Partial"}
        /\ worker[w].wf.pages = workflow.pages
        /\ worker[w].pc = "publish" =>
              /\ worker[w].found = artifacts
              /\ worker[w].out =
                    IF WorkflowStatus(worker[w].wf) = "Partial" THEN "partial"
                    ELSE IF \E row \in artifacts : row[3] \in Flagged
                    THEN "review_required" ELSE "completed"

WorkerInv(w) == ClaimInv(w) /\ RunnerInv(w) /\ DurableClaim(w) /\ FinalInv(w)

\* Rows and objects, row by row.
RowsInv ==
    /\ \A row \in artifacts :
          /\ workflow.pages[row[1]] = Succeeded(row[2])
          /\ objects[row[1]][row[2]] = row[3]
    /\ \A p \in Pages : workflow.pages[p].state = "Succeeded" =>
          \E row \in artifacts : row[1] = p

SafetyInv ==
    /\ RowInv
    /\ RowsInv
    /\ CancelInv
    /\ ResultMatchesCheckpoint
    /\ NoticeExactlyOnce
    /\ \A r \in Relays : RelayInv(r)
    /\ \A w \in Workers : WorkerInv(w)
=============================================================================
