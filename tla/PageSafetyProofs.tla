-------------------------- MODULE PageSafetyProofs --------------------------
(***************************************************************************)
(* Type correctness of PageExecution for every value of its constants,     *)
(* what the operations of PageWorkflow do to a page, and the safety of the *)
(* stored job: SafetyInv is inductive, with one lemma per action that can  *)
(* disturb it, frame lemmas for the rest, and the properties it implies.   *)
(***************************************************************************)
EXTENDS PageExecution, TLAPS

\* Each progress the checkpoint's operations build is a progress of the type.
LEMMA ProgressTypes ==
    ASSUME NEW n \in Attempts
    PROVE  /\ Running(n) \in PageProgress
           /\ Succeeded(n) \in PageProgress
           /\ PermanentlyFailed(n) \in PageProgress
           /\ n = MaxAttempts => Exhausted(n) \in PageProgress
           /\ n # MaxAttempts => Pending(n) \in PageProgress
BY PageWorkflowAssumption
   DEF Attempts, Running, Succeeded, PermanentlyFailed, Exhausted, Pending, PageProgress

\* The checkpoint of a start, and the empty batch, have their types.
LEMMA NewWorkflowType == NewWorkflow \in Workflow /\ NoTasks \in [Pages -> 0..MaxAttempts]
BY PageWorkflowAssumption DEF NewWorkflow, Workflow, Pending, PageProgress, NoTasks

\* What a page's progress can be: a state with an attempt number in its range.
LEMMA ProgressCases ==
    ASSUME NEW x \in PageProgress
    PROVE  /\ x.state \in {"Pending", "Running", "Succeeded", "PermanentlyFailed", "Exhausted"}
           /\ x.n \in 0..MaxAttempts
           /\ x.state = "Pending" => x.n + 1 \in Attempts
           /\ x.state # "Pending" => x.n \in Attempts
           /\ x = [state |-> x.state, n |-> x.n]
BY PageWorkflowAssumption DEF PageProgress, Attempts

\* claim_ready returns a checkpoint, and tasks with attempt numbers.
LEMMA ClaimTypes ==
    ASSUME NEW w \in Workflow
    PROVE  /\ ClaimReady(w) \in Workflow
           /\ ClaimedTasks(w) \in [Pages -> 0..MaxAttempts]
<1>1. ASSUME NEW p \in Pages
      PROVE  (IF p \in Claimable(w) /\ w.pages[p].state = "Pending"
              THEN Running(w.pages[p].n + 1) ELSE w.pages[p]) \in PageProgress
  <2>1. w.pages[p] \in PageProgress
    BY <1>1 DEF Workflow
  <2> QED  BY <2>1, ProgressCases, ProgressTypes
<1>2. ClaimReady(w) \in Workflow
  BY <1>1 DEF ClaimReady, Workflow
<1>3. \A p \in Pages : ClaimReady(w).pages[p] \in PageProgress
  BY <1>2 DEF Workflow
<1>4. \A p \in Pages : ClaimReady(w).pages[p].n \in 0..MaxAttempts
  BY <1>3, ProgressCases
<1> QED  BY <1>2, <1>4, PageWorkflowAssumption DEF ClaimedTasks

\* Recording the outcome of an attempt returns a checkpoint.
LEMMA RecordTypes ==
    ASSUME NEW w \in Workflow, NEW p \in Pages, NEW n \in Attempts
    PROVE  /\ RecordSuccess(w, p, n) \in Workflow
           /\ RecordRetryableFailure(w, p, n) \in Workflow
           /\ RecordPermanentFailure(w, p, n) \in Workflow
           /\ RequestCancellation(w) \in Workflow
BY ProgressTypes
   DEF RecordSuccess, RecordRetryableFailure, RecordPermanentFailure,
       RequestCancellation, Workflow

-----------------------------------------------------------------------------
(***************************************************************************)
(* Type correctness.                                                       *)
(***************************************************************************)
\* An idle relay and an idle worker have their types.
LEMMA IdleTypes ==
    /\ \A label \in RelayPcs : [IdleRelay EXCEPT !.pc = label] \in RelayRecord
    /\ IdleRelay \in RelayRecord
    /\ IdleWorker \in WorkerRecord
    /\ \A answer \in Answers :
          [IdleWorker EXCEPT !.pc = "reply", !.out = answer] \in WorkerRecord
BY NewWorkflowType
   DEF IdleRelay, IdleWorker, RelayRecord, WorkerRecord, RelayPcs, WorkerPcs, NoRow

\* A checkpoint's status is one of the answers an activity can give.
LEMMA StatusAnswers ==
    ASSUME NEW w
    PROVE  WorkflowStatus(w) \in {"Running", "Completed", "Partial", "Cancelled"}
BY DEF WorkflowStatus

\* The initial state is type correct.
LEMMA TypeInit == Init => TypeOK
<1> SUFFICES ASSUME Init PROVE TypeOK
  OBVIOUS
<1>1. relay \in [Relays -> RelayRecord] /\ worker \in [Workers -> WorkerRecord]
  BY IdleTypes DEF Init
<1>2. objects \in [Pages -> [Attempts -> Contents \cup {NoContent}]]
  BY DEF Init
<1>3. result \in [state : Published \cup {"none"}, artifacts : SUBSET Rows]
  BY DEF Init, NoResult
<1>4. /\ iteration \in Nat /\ run \in Nat /\ notices \in Nat
      /\ tries \in 1..MaxTries
      /\ faults \in 0..MaxFaults
  BY PageExecutionAssumption DEF Init
<1>5. status \in Cancellable /\ revision = NoRow /\ workflow \in Workflow
  BY NewWorkflowType DEF Init, Cancellable
<1> QED
  BY <1>1, <1>2, <1>3, <1>4, <1>5 DEF Init, TypeOK

\* What TypeOK needs to be inductive: a finalizer that reached the commit has
\* already chosen one of the terminal states commit_result accepts.
PublishesTerminal == \A w \in Workers : worker[w].pc = "publish" => worker[w].out \in Published

\* Every step keeps the types, given that finalizers commit terminal states.
LEMMA TypeStep == TypeOK /\ PublishesTerminal /\ [Next]_vars => TypeOK'
<1> SUFFICES ASSUME TypeOK, PublishesTerminal, [Next]_vars PROVE TypeOK'
  OBVIOUS
<1> USE PageExecutionAssumption
<1>r. /\ relay \in [Relays -> RelayRecord]
      /\ worker \in [Workers -> WorkerRecord]
  BY DEF TypeOK
<1>goto. ASSUME NEW r \in Relays, NEW label \in RelayPcs, Goto(r, label)
         PROVE  relay' \in [Relays -> RelayRecord]
  BY <1>r, <1>goto, IdleTypes DEF Goto
<1>reply. ASSUME NEW w \in Workers, NEW answer \in Answers, Reply(w, answer)
          PROVE  worker' \in [Workers -> WorkerRecord]
  BY <1>r, <1>reply, IdleTypes DEF Reply
<1>1. CASE CancelJob
  BY <1>1 DEF TypeOK, CancelJob, rowVars, temporalVars
<1>2. ASSUME NEW r \in Relays, RelayStep(r)
      PROVE  TypeOK'
  <2>c. ASSUME NEW x \in Workflow, CreatePageWorkflow(x)
        PROVE  /\ status' \in Cancellable \cup Published \cup {"cancelled"}
               /\ revision' \in Nat \cup {NoRow}
               /\ workflow' \in Workflow
               /\ UNCHANGED <<webhook, result, notices, artifacts>>
    BY <2>c DEF TypeOK, CreatePageWorkflow, jobVars, rowVars, Cancellable
  <2>1. ASSUME NEW event \in {"start", "cancel"}, ClaimEvent(r, event)
        PROVE  TypeOK'
    <3>1. relay' \in [Relays -> RelayRecord]
      BY <2>1, <1>goto DEF ClaimEvent, RelayPcs
    <3> QED  BY <2>1, <3>1
             DEF TypeOK, ClaimEvent, jobVars, rowVars, temporalVars
  <2>2. CASE CreateCheckpoint(r)
    <3>1. relay' \in [Relays -> RelayRecord]
      BY <2>2, <1>goto DEF CreateCheckpoint, RelayPcs
    <3> QED  BY <2>2, <3>1, <2>c, NewWorkflowType
             DEF TypeOK, CreateCheckpoint, temporalVars
  <2>3. CASE StartWorkflow(r)
    <3>1. relay' \in [Relays -> RelayRecord]
      BY <2>3, <1>goto DEF StartWorkflow, RelayPcs
    <3> QED  BY <2>3, <3>1 DEF TypeOK, StartWorkflow, jobVars, rowVars
  <2>4. CASE LoadForCancel(r)
    <3>1. [pc |-> "saveCancelled", rev |-> revision, wf |-> RequestCancellation(workflow)]
            \in RelayRecord
      BY DEF TypeOK, RelayRecord, RelayPcs, RequestCancellation, Workflow
    <3>2. relay' \in [Relays -> RelayRecord]
      BY <2>4, <3>1, <1>r, IdleTypes DEF LoadForCancel, RelayPcs
    <3> QED  BY <2>4, <3>2
             DEF TypeOK, LoadForCancel, jobVars, rowVars, temporalVars
  <2>5. CASE CreateCancelled(r)
    <3>1. relay' \in [Relays -> RelayRecord]
      BY <2>5, <1>goto DEF CreateCancelled, RelayPcs
    <3>2. RequestCancellation(NewWorkflow) \in Workflow
      BY NewWorkflowType DEF RequestCancellation, Workflow
    <3> QED  BY <2>5, <3>1, <3>2, <2>c
             DEF TypeOK, CreateCancelled, temporalVars
  <2>6. CASE SaveCancelled(r)
    <3>1. relay' \in [Relays -> RelayRecord]
      BY <2>6, <1>goto DEF SaveCancelled, RelayPcs
    <3>2. relay[r].wf \in Workflow
      BY <1>r DEF RelayRecord
    <3>3. /\ revision' \in Nat \cup {NoRow}
          /\ workflow' \in Workflow
          /\ artifacts' \in SUBSET Rows
      BY <2>6, <3>2 DEF TypeOK, SaveCancelled, SavePageWorkflow, rowVars, NoRow
    <3> QED  BY <2>6, <3>1, <3>3 DEF TypeOK, SaveCancelled, jobVars, temporalVars
  <2>7. CASE CompleteCancellation(r)
    <3>1. relay' \in [Relays -> RelayRecord]
      BY <2>7, <1>goto DEF CompleteCancellation, RelayPcs
    <3> QED  BY <2>7, <3>1 DEF TypeOK, CompleteCancellation, rowVars, temporalVars
  <2>8. CASE CancelWorkflow(r)
    <3>1. relay' \in [Relays -> RelayRecord]
      BY <2>8, <1>goto DEF CancelWorkflow, RelayPcs
    <3> QED  BY <2>8, <3>1 DEF TypeOK, CancelWorkflow, jobVars, rowVars
  <2>9. CASE PublishEvent(r)
    <3>1. relay' \in [Relays -> RelayRecord]
      BY <2>9, <1>goto DEF PublishEvent, RelayPcs
    <3> QED  BY <2>9, <3>1 DEF TypeOK, PublishEvent, jobVars, rowVars, temporalVars
  <2> QED  BY <1>2, <2>1, <2>2, <2>3, <2>4, <2>5, <2>6, <2>7, <2>8, <2>9 DEF RelayStep
<1>w. ASSUME NEW w \in Workers
      PROVE  /\ worker[w] \in WorkerRecord
             /\ worker[w].wf \in Workflow
             /\ \A p \in Pages : worker[w].task[p] # 0 => worker[w].task[p] \in Attempts
  <2>1. worker[w] \in WorkerRecord
    BY <1>r
  <2> QED  BY <2>1, PageWorkflowAssumption DEF WorkerRecord, Attempts
<1>save. ASSUME NEW x \in Workflow, NEW expected, NEW batch \in SUBSET Rows,
                SavePageWorkflow(expected, x, batch)
         PROVE  /\ revision' \in Nat \cup {NoRow}
                /\ workflow' \in Workflow
                /\ artifacts' \in SUBSET Rows
  BY <1>save DEF TypeOK, SavePageWorkflow, rowVars, NoRow
<1>3. ASSUME NEW w \in Workers, WorkerStep(w)
      PROVE  TypeOK'
  <2>1. CASE LoadAndClaim(w)
    <3>1. [IdleWorker EXCEPT !.pc = "claim", !.rev = revision,
                             !.wf = ClaimReady(workflow),
                             !.task = ClaimedTasks(workflow)] \in WorkerRecord
      <4>1. workflow \in Workflow /\ revision \in Nat \cup {NoRow}
        BY DEF TypeOK
      <4> QED  BY <4>1, ClaimTypes, IdleTypes DEF WorkerRecord, WorkerPcs, IdleWorker
    <3>2. worker' \in [Workers -> WorkerRecord]
      <4>1. CASE Reply(w, "ScopeNotFound") \/ Reply(w, WorkflowStatus(workflow))
        BY <4>1, <1>reply, StatusAnswers DEF Answers, NotRetryable
      <4>2. CASE worker' = [worker EXCEPT ![w] =
                   [IdleWorker EXCEPT !.pc = "claim", !.rev = revision,
                                      !.wf = ClaimReady(workflow),
                                      !.task = ClaimedTasks(workflow)]]
        BY <4>2, <3>1, <1>r
      <4> QED  BY <2>1, <4>1, <4>2 DEF LoadAndClaim
    <3> QED  BY <2>1, <3>2
             DEF TypeOK, LoadAndClaim, jobVars, rowVars, relayVars, temporalVars
  <2>2. CASE SaveClaim(w)
    <3>1. worker' \in [Workers -> WorkerRecord]
      <4>1. CASE revision = worker[w].rev
        <5>1. [worker[w] EXCEPT !.pc = "process", !.rev = @ + 1] \in WorkerRecord
          <6>1. worker[w].rev + 1 \in Nat \cup {NoRow}
            BY <1>w DEF WorkerRecord, NoRow
          <6>2. worker[w] \in WorkerRecord
            BY <1>w
          <6> QED  BY <6>1, <6>2 DEF WorkerRecord, WorkerPcs
        <5>2. worker' = [worker EXCEPT ![w] =
                           [worker[w] EXCEPT !.pc = "process", !.rev = @ + 1]]
          BY <2>2, <4>1, <1>r DEF SaveClaim, WorkerRecord
        <5> QED  BY <5>1, <5>2, <1>r
      <4>2. CASE revision # worker[w].rev
        BY <2>2, <4>2, <1>reply DEF SaveClaim, Answers, Retryable
      <4> QED  BY <4>1, <4>2
    <3>2. {} \in SUBSET Rows
      OBVIOUS
    <3>3. /\ revision' \in Nat \cup {NoRow}
          /\ workflow' \in Workflow
          /\ artifacts' \in SUBSET Rows
      BY <2>2, <1>w, <3>2, <1>save DEF SaveClaim
    <3> QED  BY <2>2, <3>1, <3>3 DEF TypeOK, SaveClaim, jobVars, relayVars, temporalVars
  <2>p. ASSUME NEW p \in Pages, NEW x \in Workflow
        PROVE  AfterPage(w, p, x) \in WorkerRecord
    BY <1>w, <2>p DEF AfterPage, WorkerRecord, WorkerPcs
  <2>3. ASSUME NEW p \in Pages, NEW content \in Contents, RecognizePage(w, p, content)
        PROVE  TypeOK'
    <3> DEFINE attempt == worker[w].task[p]
               stored == IF objects[p][attempt] = NoContent
                         THEN content ELSE objects[p][attempt]
    <3>1. attempt \in Attempts
      BY <2>3, <1>w DEF RecognizePage, Unprocessed
    <3>2. stored \in Contents \cup {NoContent}
      BY <3>1 DEF TypeOK
    <3>3. objects' \in [Pages -> [Attempts -> Contents \cup {NoContent}]]
      BY <2>3, <3>1, <3>2 DEF TypeOK, RecognizePage
    <3>4. /\ RecordSuccess(worker[w].wf, p, attempt) \in Workflow
          /\ RecordPermanentFailure(worker[w].wf, p, attempt) \in Workflow
      BY <1>w, <3>1, RecordTypes
    <3>5. [AfterPage(w, p, RecordSuccess(worker[w].wf, p, attempt))
             EXCEPT !.found = @ \cup {<<p, attempt, content>>}] \in WorkerRecord
      <4>1. AfterPage(w, p, RecordSuccess(worker[w].wf, p, attempt)) \in WorkerRecord
        BY <2>p, <3>4
      <4>2. <<p, attempt, content>> \in Rows
        BY <3>1 DEF Rows
      <4> QED  BY <4>1, <4>2 DEF WorkerRecord
    <3>6. AfterPage(w, p, RecordPermanentFailure(worker[w].wf, p, attempt)) \in WorkerRecord
      BY <2>p, <3>4
    <3>7. worker' \in [Workers -> WorkerRecord]
      BY <2>3, <3>5, <3>6, <1>r DEF RecognizePage
    <3> QED  BY <2>3, <3>3, <3>7
             DEF TypeOK, RecognizePage, jobVars, rowVars, relayVars, temporalVars
  <2>4. ASSUME NEW p \in Pages, NEW failure \in ProviderFailures, FailPage(w, p, failure)
        PROVE  TypeOK'
    <3> DEFINE attempt == worker[w].task[p]
    <3>1. attempt \in Attempts
      BY <2>4, <1>w DEF FailPage, Unprocessed
    <3>2. /\ RecordRetryableFailure(worker[w].wf, p, attempt) \in Workflow
          /\ RecordPermanentFailure(worker[w].wf, p, attempt) \in Workflow
      BY <1>w, <3>1, RecordTypes
    <3>3. AfterPage(w, p, RecordRetryableFailure(worker[w].wf, p, attempt)) \in WorkerRecord
      BY <2>p, <3>2
    <3>4. ASSUME NEW b \in BOOLEAN
          PROVE  [AfterPage(w, p, RecordRetryableFailure(worker[w].wf, p, attempt))
                    EXCEPT !.limited = @ \/ b] \in WorkerRecord
      BY <3>3 DEF WorkerRecord
    <3>5. AfterPage(w, p, RecordPermanentFailure(worker[w].wf, p, attempt)) \in WorkerRecord
      BY <2>p, <3>2
    <3>6. worker' \in [Workers -> WorkerRecord]
      BY <2>4, <3>4, <3>5, <1>r DEF FailPage
    <3> QED  BY <2>4, <3>6
             DEF TypeOK, FailPage, jobVars, rowVars, relayVars, temporalVars
  <2>5. CASE SaveOutcomes(w)
    <3>1. worker' \in [Workers -> WorkerRecord]
      BY <2>5, <1>reply, StatusAnswers DEF SaveOutcomes, Answers, Retryable
    <3>2. worker[w].found \in SUBSET Rows
      BY <1>w DEF WorkerRecord
    <3>3. /\ revision' \in Nat \cup {NoRow}
          /\ workflow' \in Workflow
          /\ artifacts' \in SUBSET Rows
      BY <2>5, <1>w, <3>2, <1>save DEF SaveOutcomes
    <3> QED  BY <2>5, <3>1, <3>3 DEF TypeOK, SaveOutcomes, jobVars, relayVars, temporalVars
  <2>6. CASE LoadForFinalize(w)
    <3>1. [IdleWorker EXCEPT !.pc = "collect", !.rev = revision, !.wf = workflow]
             \in WorkerRecord
      <4>1. workflow \in Workflow /\ revision \in Nat \cup {NoRow}
        BY DEF TypeOK
      <4> QED  BY <4>1, IdleTypes DEF WorkerRecord, WorkerPcs, IdleWorker
    <3>2. worker' \in [Workers -> WorkerRecord]
      <4>1. CASE \/ Reply(w, "Done")
                 \/ Reply(w, "DependencyUnavailable")
                 \/ Reply(w, "ScopeNotFound")
        BY <4>1, <1>reply DEF Answers, NotRetryable, Retryable
      <4>2. CASE worker' = [worker EXCEPT ![w] =
                   [IdleWorker EXCEPT !.pc = "collect", !.rev = revision, !.wf = workflow]]
        BY <4>2, <3>1, <1>r
      <4> QED  BY <2>6, <4>1, <4>2 DEF LoadForFinalize
    <3> QED  BY <2>6, <3>2
             DEF TypeOK, LoadForFinalize, jobVars, rowVars, relayVars, temporalVars
  <2>7. CASE CollectArtifacts(w)
    <3>1. ASSUME NEW state \in Published
          PROVE  [worker[w] EXCEPT !.pc = "publish", !.found = artifacts, !.out = state]
                    \in WorkerRecord
      <4>1. worker[w] \in WorkerRecord /\ artifacts \in SUBSET Rows
        BY <1>w DEF TypeOK
      <4> QED  BY <4>1, <3>1 DEF WorkerRecord, WorkerPcs
    <3>2. worker' \in [Workers -> WorkerRecord]
      <4>1. CASE Reply(w, "DependencyUnavailable") \/ Reply(w, "InvalidInput")
        BY <4>1, <1>reply DEF Answers, NotRetryable, Retryable
      <4>2. CASE \E state \in Published : worker' = [worker EXCEPT ![w] =
                   [worker[w] EXCEPT !.pc = "publish", !.found = artifacts, !.out = state]]
        BY <4>2, <3>1, <1>r
      <4> QED  BY <2>7, <4>1, <4>2 DEF CollectArtifacts, Published
    <3> QED  BY <2>7, <3>2
             DEF TypeOK, CollectArtifacts, jobVars, rowVars, relayVars, temporalVars
  <2>8. CASE PublishResult(w)
    <3>1. worker' \in [Workers -> WorkerRecord]
      BY <2>8, <1>reply DEF PublishResult, CommitOutcome, Answers, NotRetryable
    <3>2. worker[w].out \in Published /\ worker[w].found \in SUBSET Rows
      BY <2>8, <1>w DEF PublishResult, PublishesTerminal, WorkerRecord
    <3>3. /\ status' \in Cancellable \cup Published \cup {"cancelled"}
          /\ webhook' \in BOOLEAN
          /\ result' \in [state : Published \cup {"none"}, artifacts : SUBSET Rows]
          /\ notices' \in Nat
      BY <2>8, <3>2 DEF TypeOK, PublishResult, CommitResult, jobVars
    <3> QED  BY <2>8, <3>1, <3>3 DEF TypeOK, PublishResult, rowVars, relayVars, temporalVars
  <2>9. CASE FinishActivity(w)
    <3>1. worker' \in [Workers -> WorkerRecord]
      BY <2>9, <1>r, IdleTypes DEF FinishActivity
    <3>2. /\ temporal' \in {"none", "running", "completed", "failed", "cancelled"}
          /\ phase' \in {"pages", "finalize", "rollover"}
          /\ iteration' \in Nat
          /\ run' \in Nat
          /\ tries' \in 1..MaxTries
          /\ current' \in Workers \cup {NoWorker}
          /\ cancelRequested' \in BOOLEAN
      <4>1. CASE UNCHANGED temporalVars
        BY <4>1 DEF TypeOK, temporalVars
      <4>2. CASE TakeAnswer(worker[w].out)
        BY <4>2 DEF TypeOK, TakeAnswer, NextActivity, RetryActivity, Close
      <4> QED  BY <2>9, <4>1, <4>2 DEF FinishActivity
    <3> QED  BY <2>9, <3>1, <3>2 DEF TypeOK, FinishActivity, jobVars, rowVars, relayVars
  <2> QED  BY <1>3, <2>1, <2>2, <2>3, <2>4, <2>5, <2>6, <2>7, <2>8, <2>9 DEF WorkerStep
<1>4. CASE ContinueAsNew
  <2>1. RunEnd \in Nat
    BY DEF TypeOK, RunEnd
  <2> QED  BY <1>4, <2>1 DEF TypeOK, ContinueAsNew, Close, jobVars, rowVars, relayVars
<1>5. ASSUME NEW w \in Workers, StartActivity(w)
      PROVE  TypeOK'
  <2>1. worker' \in [Workers -> WorkerRecord]
    <3>1. ASSUME NEW label \in {"load", "finalize"}
          PROVE  [worker[w] EXCEPT !.pc = label] \in WorkerRecord
      BY <1>w DEF WorkerRecord, WorkerPcs
    <3>2. worker' = [worker EXCEPT ![w] =
                       [worker[w] EXCEPT !.pc = IF phase = "pages" THEN "load" ELSE "finalize"]]
      BY <1>5, <1>r DEF StartActivity
    <3> QED  BY <3>1, <3>2, <1>r
  <2> QED  BY <1>5, <2>1 DEF TypeOK, StartActivity, jobVars, rowVars, relayVars
<1>6. ASSUME NEW w \in Workers, ActivityLost(w)
      PROVE  TypeOK'
  BY <1>6 DEF TypeOK, ActivityLost, RetryActivity, Close, jobVars, rowVars, relayVars
<1>7. ASSUME NEW r \in Relays, RelayStops(r)
      PROVE  TypeOK'
  <2>1. relay' \in [Relays -> RelayRecord]
    BY <1>7, <1>goto DEF RelayStops, RelayPcs
  <2> QED  BY <1>7, <2>1 DEF TypeOK, RelayStops, jobVars, rowVars, temporalVars
<1>8. ASSUME NEW w \in Workers, ActivityTimeout(w)
      PROVE  TypeOK'
  BY <1>8 DEF TypeOK, ActivityTimeout, RetryActivity, Close, jobVars, rowVars, relayVars
<1>9. ASSUME NEW w \in Workers, ActivityCancelled(w)
      PROVE  TypeOK'
  <2>1. worker' \in [Workers -> WorkerRecord]
    BY <1>9, <1>r, IdleTypes DEF ActivityCancelled
  <2> QED  BY <1>9, <2>1 DEF TypeOK, ActivityCancelled, Close, jobVars, rowVars, relayVars
<1>10. ASSUME NEW w \in Workers, WorkerCrash(w)
       PROVE  TypeOK'
  <2>1. worker' \in [Workers -> WorkerRecord]
    BY <1>10, <1>r, IdleTypes DEF WorkerCrash
  <2> QED  BY <1>10, <2>1 DEF TypeOK, WorkerCrash, jobVars, rowVars, relayVars, temporalVars
<1>11. ASSUME NEW w \in Workers, StoreUnavailable(w)
       PROVE  TypeOK'
  <2>1. worker' \in [Workers -> WorkerRecord]
    BY <1>11, <1>reply DEF StoreUnavailable, Answers, Retryable
  <2> QED  BY <1>11, <2>1
           DEF TypeOK, StoreUnavailable, jobVars, rowVars, relayVars, temporalVars
<1>12. CASE UNCHANGED vars
  BY <1>12 DEF TypeOK, vars, jobVars, rowVars, relayVars, temporalVars
<1> QED
  BY <1>1, <1>2, <1>3, <1>4, <1>5, <1>6, <1>7, <1>8, <1>9, <1>10, <1>11, <1>12
     DEF Next, TemporalStep, Fault

-----------------------------------------------------------------------------
(***************************************************************************)
(* What the checkpoint's operations do to a page.                          *)
(***************************************************************************)
\* What claim_ready does to each page, and which tasks it returns.
LEMMA ClaimFacts ==
    ASSUME NEW w \in Workflow
    PROVE  /\ ClaimReady(w).cancelled = w.cancelled
           /\ \A p \in Pages :
                /\ Settled(w.pages[p]) =>
                     ClaimReady(w).pages[p] = w.pages[p] /\ ClaimedTasks(w)[p] = 0
                /\ ClaimedTasks(w)[p] # 0 =>
                     /\ ~ w.cancelled
                     /\ ~ Settled(w.pages[p])
                     /\ ClaimReady(w).pages[p] = Running(ClaimedTasks(w)[p])
                /\ ClaimReady(w).pages[p].state = "Succeeded" => Settled(w.pages[p])
                /\ Rank(w.pages[p]) <= Rank(ClaimReady(w).pages[p])
<1>1. ClaimReady(w).cancelled = w.cancelled
  BY DEF ClaimReady, Workflow
<1>2. ASSUME NEW p \in Pages
      PROVE  /\ Settled(w.pages[p]) =>
                  ClaimReady(w).pages[p] = w.pages[p] /\ ClaimedTasks(w)[p] = 0
             /\ ClaimedTasks(w)[p] # 0 =>
                  /\ ~ w.cancelled
                  /\ ~ Settled(w.pages[p])
                  /\ ClaimReady(w).pages[p] = Running(ClaimedTasks(w)[p])
             /\ ClaimReady(w).pages[p].state = "Succeeded" => Settled(w.pages[p])
             /\ Rank(w.pages[p]) <= Rank(ClaimReady(w).pages[p])
  <2> DEFINE x == w.pages[p]
             y == ClaimReady(w).pages[p]
  <2>1. y = IF p \in Claimable(w) /\ x.state = "Pending" THEN Running(x.n + 1) ELSE x
    BY DEF ClaimReady, Workflow
  <2>2. p \in Claimable(w) => ~ w.cancelled /\ ~ Settled(x)
    BY DEF Claimable, Ready
  <2>3. ClaimedTasks(w)[p] = IF p \in Claimable(w) THEN y.n ELSE 0
    BY DEF ClaimedTasks
  <2>4. x \in PageProgress
    BY DEF Workflow
  <2>5. /\ x.state \in {"Pending", "Running", "Succeeded", "PermanentlyFailed", "Exhausted"}
        /\ x.n \in 0..MaxAttempts
        /\ x = [state |-> x.state, n |-> x.n]
    BY <2>4, ProgressCases
  <2>6. p \in Claimable(w) => y = Running(y.n)
    BY <2>1, <2>2, <2>5 DEF Running, Settled
  <2>7. Rank(x) <= Rank(y)
    <3>1. CASE p \in Claimable(w) /\ x.state = "Pending"
      <4>1. y.state = "Running" /\ y.n = x.n + 1
        BY <2>1, <3>1 DEF Running
      <4> QED  BY <4>1, <3>1, <2>5, PageWorkflowAssumption DEF Rank
    <3>2. CASE ~ (p \in Claimable(w) /\ x.state = "Pending")
      <4>1. y = x
        BY <2>1, <3>2
      <4>2. Rank(x) \in Int
        BY <2>5, PageWorkflowAssumption DEF Rank
      <4> QED  BY <4>1, <4>2
    <3> QED  BY <3>1, <3>2
  <2>8. y.state = "Succeeded" => Settled(x)
    BY <2>1 DEF Running, Settled
  <2> QED  BY <2>1, <2>2, <2>3, <2>6, <2>7, <2>8
<1> QED  BY <1>1, <1>2

\* A checkpoint with every page settled is not changed by a claim.
LEMMA ClaimOfSettled ==
    ASSUME NEW w \in Workflow, \A p \in Pages : Settled(w.pages[p])
    PROVE  ClaimReady(w).pages = w.pages
<1>1. w.pages \in [Pages -> PageProgress] /\ ClaimReady(w).pages \in [Pages -> PageProgress]
  BY ClaimTypes DEF Workflow
<1> QED  BY <1>1, ClaimFacts

\* An outcome is recorded on the page it belongs to and on no other.
LEMMA RecordedFacts ==
    ASSUME NEW n \in Attempts, NEW x, Recorded(x, n)
    PROVE  /\ x \in PageProgress
           /\ Rank(Running(n)) <= Rank(x)
           /\ x.state = "Succeeded" => x = Succeeded(n)
<1>1. x \in PageProgress
  BY ProgressTypes DEF Recorded, Attempts
<1>2. CASE x = Running(n) \/ x = Succeeded(n) \/ x = PermanentlyFailed(n)
  BY <1>1, <1>2, PageWorkflowAssumption
     DEF Running, Succeeded, PermanentlyFailed, Rank, Attempts
<1>3. CASE x = Exhausted(n) \/ x = Pending(n)
  BY <1>1, <1>3, PageWorkflowAssumption DEF Running, Exhausted, Pending, Rank, Attempts
<1> QED  BY <1>2, <1>3 DEF Recorded

\* The rank that orders a page's progress is a number.
LEMMA RankType == ASSUME NEW x \in PageProgress PROVE Rank(x) \in Nat
<1>1. x.n \in 0..MaxAttempts /\ (x.state = "Running" => x.n \in Attempts)
  BY ProgressCases
<1> QED  BY <1>1, PageWorkflowAssumption DEF Rank, Attempts

\* When a checkpoint is running, cancelled, partial or completed.
LEMMA StatusFacts ==
    ASSUME NEW w
    PROVE  /\ WorkflowStatus(w) \in {"Completed", "Partial"} <=>
                 ~ w.cancelled /\ \A p \in Pages : Settled(w.pages[p])
           /\ WorkflowStatus(w) = "Completed" => \A p \in Pages : w.pages[p].state = "Succeeded"
BY DEF WorkflowStatus, Settled

\* The status depends on the pages and the cancellation flag only.
LEMMA StatusOfSamePages ==
    ASSUME NEW v, NEW w, v.pages = w.pages, v.cancelled = w.cancelled
    PROVE  WorkflowStatus(v) = WorkflowStatus(w)
BY DEF WorkflowStatus

-----------------------------------------------------------------------------
\* A running page is not settled, a successful one is.
LEMMA ProgressStates ==
    ASSUME NEW n
    PROVE  /\ Running(n).state = "Running" /\ ~ Settled(Running(n))
           /\ Succeeded(n).state = "Succeeded" /\ Settled(Succeeded(n))
BY DEF Running, Succeeded, Settled

\* A task is an attempt of its page.
LEMMA TaskType ==
    ASSUME TypeOK, NEW w \in Workers
    PROVE  /\ worker[w] \in WorkerRecord
           /\ \A p \in Pages : worker[w].task[p] # 0 => worker[w].task[p] \in Attempts
<1>1. worker[w] \in WorkerRecord
  BY DEF TypeOK
<1>2. worker[w].task \in [Pages -> 0..MaxAttempts]
  BY <1>1 DEF WorkerRecord
<1> QED  BY <1>1, <1>2, PageWorkflowAssumption DEF Attempts

ActivePcs == {"claim", "process", "save", "collect", "publish"}

\* Temporal's part of the state, and nothing else, changes.
LEMMA SameWorker ==
    ASSUME NEW w \in Workers, WorkerInv(w), worker'[w] = worker[w],
           UNCHANGED <<rowVars, objects>>
    PROVE  WorkerInv(w)'
BY DEF WorkerInv, ClaimInv, RunnerInv, BatchInv, DurableClaim, FinalInv, rowVars

\* A worker outside the critical part of its activity has no obligations.
LEMMA QuietWorker ==
    ASSUME NEW w \in Workers, worker'[w].pc \notin ActivePcs
    PROVE  WorkerInv(w)'
BY DEF WorkerInv, ClaimInv, RunnerInv, DurableClaim, FinalInv, ActivePcs

\* The stored state is as it was.
LEMMA SameStore ==
    ASSUME SafetyInv, UNCHANGED <<jobVars, rowVars, objects>>
    PROVE  RowInv' /\ RowsInv' /\ ResultMatchesCheckpoint' /\ NoticeExactlyOnce'
BY DEF SafetyInv, RowInv, RowsInv, ResultMatchesCheckpoint, NoticeExactlyOnce,
       WorkflowStatus, jobVars, rowVars

\* A relay that does not move keeps what it knows, a job being cancelled or not.
LEMMA SameRelay ==
    ASSUME NEW r \in Relays, RelayInv(r), relay'[r] = relay[r], UNCHANGED rowVars,
           status = "cancelled" => status' = "cancelled"
    PROVE  RelayInv(r)'
BY DEF RelayInv, rowVars

\* A worker moves to a state without obligations.
LEMMA WorkerFrame ==
    ASSUME TypeOK, SafetyInv, NEW w \in Workers, NEW rec,
           worker' = [worker EXCEPT ![w] = rec], rec.pc \notin ActivePcs,
           UNCHANGED <<jobVars, rowVars, objects, relayVars>>
    PROVE  SafetyInv'
<1>1. RowInv' /\ RowsInv' /\ ResultMatchesCheckpoint' /\ NoticeExactlyOnce'
  BY SameStore
<1>2. CancelInv'
  BY DEF SafetyInv, CancelInv, jobVars, rowVars, relayVars
<1>3. \A r \in Relays : RelayInv(r)'
  BY SameRelay DEF SafetyInv, jobVars, relayVars
<1>4. ASSUME NEW v \in Workers PROVE WorkerInv(v)'
  <2>1. CASE v = w
    BY <2>1, QuietWorker DEF TypeOK
  <2>2. CASE v # w
    BY <2>2, SameWorker DEF SafetyInv, TypeOK
  <2> QED  BY <2>1, <2>2
<1> QED  BY <1>1, <1>2, <1>3, <1>4 DEF SafetyInv

\* A relay moves on without touching the store.
LEMMA RelayFrame ==
    ASSUME TypeOK, SafetyInv, NEW r \in Relays, NEW label, Goto(r, label),
           label # "saveCancelled", label \in CancelPcs => status = "cancelled",
           outbox' \subseteq outbox,
           UNCHANGED <<jobVars, rowVars, objects, worker>>
    PROVE  SafetyInv'
<1>1. RowInv' /\ RowsInv' /\ ResultMatchesCheckpoint' /\ NoticeExactlyOnce'
  BY SameStore
<1>2. CancelInv'
  BY DEF SafetyInv, CancelInv, jobVars, rowVars
<1>3. ASSUME NEW s \in Relays PROVE RelayInv(s)'
  <2>1. CASE s = r
    BY <2>1 DEF RelayInv, Goto, IdleRelay, TypeOK, jobVars
  <2>2. CASE s # r
    BY <2>2, SameRelay DEF SafetyInv, Goto, TypeOK, jobVars
  <2> QED  BY <2>1, <2>2
<1>4. \A v \in Workers : WorkerInv(v)'
  BY SameWorker DEF SafetyInv
<1> QED  BY <1>1, <1>2, <1>3, <1>4 DEF SafetyInv

\* Nobody works on a checkpoint that does not exist.
LEMMA NoRowNoWork ==
    ASSUME NEW w \in Workers, WorkerInv(w), revision = NoRow
    PROVE  worker[w].pc \notin ActivePcs
<1>1. worker[w].pc # "claim"
  BY DEF WorkerInv, ClaimInv, NoRow
<1>2. worker[w].pc \notin {"process", "save"}
  BY DEF WorkerInv, RunnerInv, DurableClaim, NoRow
<1>3. worker[w].pc \notin {"collect", "publish"}
  BY DEF WorkerInv, FinalInv
<1> QED  BY <1>1, <1>2, <1>3 DEF ActivePcs

\* The successor of a checkpoint, as every save writes it: pages advance, and a
\* checkpoint with nothing left to do keeps its pages and its rows.
Advances ==
    /\ revision \in Nat
    /\ revision' = revision + 1
    /\ objects' = objects
    /\ \A p \in Pages : Rank(workflow.pages[p]) <= Rank(workflow'.pages[p])
    /\ (\A p \in Pages : Settled(workflow.pages[p])) =>
          workflow'.pages = workflow.pages /\ artifacts' = artifacts

\* A worker whose revision another save has passed keeps its part of the
\* invariant: its next compare-and-set will refuse it.
LEMMA OvertakenWorker ==
    ASSUME TypeOK, TypeOK', NEW w \in Workers, WorkerInv(w), worker'[w] = worker[w], Advances
    PROVE  WorkerInv(w)'
<1>1. ClaimInv(w)'
  BY DEF WorkerInv, ClaimInv, Advances
<1>2. ASSUME worker[w].pc \in {"process", "save"}
      PROVE  RunnerInv(w)' /\ DurableClaim(w)'
  <2>1. /\ worker[w].rev \in Nat
        /\ worker[w].rev <= revision
        /\ worker'[w].rev # revision'
    BY <1>2 DEF WorkerInv, RunnerInv, DurableClaim, Advances
  <2>2. RunnerInv(w)'
    BY <1>2, <2>1 DEF WorkerInv, RunnerInv, BatchInv, Advances
  <2>3. ASSUME NEW p \in Pages, worker[w].task[p] # 0
        PROVE  Rank(workflow'.pages[p]) >= Rank(Running(worker[w].task[p]))
    <3>1. worker[w].task[p] \in Attempts
      BY <2>3, TaskType
    <3>2. /\ Rank(Running(worker[w].task[p])) \in Nat
          /\ Rank(workflow.pages[p]) \in Nat
          /\ Rank(workflow'.pages[p]) \in Nat
      BY <3>1, ProgressTypes, RankType DEF TypeOK, Workflow
    <3>3. /\ Rank(workflow.pages[p]) >= Rank(Running(worker[w].task[p]))
          /\ Rank(workflow.pages[p]) <= Rank(workflow'.pages[p])
      BY <1>2, <2>3 DEF WorkerInv, DurableClaim, Advances
    <3> QED  BY <3>2, <3>3
  <2> QED  BY <2>1, <2>2, <2>3 DEF DurableClaim, Advances
<1>3. worker[w].pc \notin {"process", "save"} => RunnerInv(w)' /\ DurableClaim(w)'
  BY DEF RunnerInv, DurableClaim
<1>4. FinalInv(w)'
  <2>1. CASE worker[w].pc \in {"collect", "publish"}
    <3>1. \A p \in Pages : Settled(workflow.pages[p])
      BY <2>1, StatusFacts DEF WorkerInv, FinalInv
    <3>2. workflow'.pages = workflow.pages /\ artifacts' = artifacts /\ revision' # NoRow
      BY <3>1 DEF Advances, NoRow
    <3> QED  BY <2>1, <3>2 DEF WorkerInv, FinalInv, WorkflowStatus
  <2>2. CASE worker[w].pc \notin {"collect", "publish"}
    BY <2>2 DEF FinalInv
  <2> QED  BY <2>1, <2>2
<1> QED  BY <1>1, <1>2, <1>3, <1>4 DEF WorkerInv

\* So does a relay that was about to save a cancellation.
LEMMA OvertakenRelay ==
    ASSUME NEW r \in Relays, RelayInv(r), relay'[r] = relay[r], Advances,
           status' = status
    PROVE  RelayInv(r)'
BY DEF RelayInv, Advances

\* A save that keeps the cancellation flag of a checkpoint keeps its result.
LEMMA SameResult ==
    ASSUME ResultMatchesCheckpoint, NoticeExactlyOnce, UNCHANGED jobVars, Advances,
           status = "cancelled" \/ workflow'.cancelled = workflow.cancelled
    PROVE  ResultMatchesCheckpoint' /\ NoticeExactlyOnce'
<1>1. NoticeExactlyOnce'
  BY DEF NoticeExactlyOnce, jobVars
<1>2. CASE result = NoResult
  BY <1>1, <1>2 DEF ResultMatchesCheckpoint, jobVars
<1>3. CASE result # NoResult
  <2>1. WorkflowStatus(workflow) \in {"Completed", "Partial"} /\ status # "cancelled"
    BY <1>3 DEF ResultMatchesCheckpoint, Published
  <2>2. \A p \in Pages : Settled(workflow.pages[p])
    BY <2>1, StatusFacts
  <2>3. /\ workflow'.pages = workflow.pages
        /\ artifacts' = artifacts
        /\ workflow'.cancelled = workflow.cancelled
    BY <2>1, <2>2 DEF Advances
  <2>4. WorkflowStatus(workflow') = WorkflowStatus(workflow)
    BY <2>3, StatusOfSamePages
  <2> QED  BY <1>1, <1>3, <2>3, <2>4 DEF ResultMatchesCheckpoint, jobVars
<1> QED  BY <1>1, <1>2, <1>3

-----------------------------------------------------------------------------
(***************************************************************************)
(* The steps that write the checkpoint.                                    *)
(***************************************************************************)

\* The job is cancelled while nobody looks: relays and workers go on.
LEMMA CancelJobKeeps == TypeOK /\ SafetyInv /\ CancelJob => SafetyInv'
<1> SUFFICES ASSUME TypeOK, SafetyInv, CancelJob PROVE SafetyInv'
  OBVIOUS
<1>1. /\ UNCHANGED <<webhook, result, notices, rowVars, objects, relay, worker>>
      /\ status \in Cancellable
      /\ status' = "cancelled"
  BY DEF CancelJob
<1>2. RowInv' /\ RowsInv' /\ CancelInv'
  BY <1>1 DEF SafetyInv, RowInv, RowsInv, CancelInv, rowVars
<1>3. result = NoResult
  BY <1>1 DEF SafetyInv, ResultMatchesCheckpoint, Cancellable, Published
<1>4. ResultMatchesCheckpoint' /\ NoticeExactlyOnce'
  BY <1>1, <1>3 DEF SafetyInv, ResultMatchesCheckpoint, NoticeExactlyOnce, Published
<1>5. \A r \in Relays : RelayInv(r)'
  BY <1>1, SameRelay DEF SafetyInv
<1>6. \A w \in Workers : WorkerInv(w)'
  BY <1>1, SameWorker DEF SafetyInv
<1> QED  BY <1>2, <1>4, <1>5, <1>6 DEF SafetyInv

\* The first checkpoint of a job: nothing has been recorded, claimed or read.
LEMMA CreateCheckpointKeeps ==
    ASSUME TypeOK, SafetyInv, NEW r \in Relays, CreateCheckpoint(r)
    PROVE  SafetyInv'
<1>u. UNCHANGED <<objects, outbox, worker>>
  BY DEF CreateCheckpoint
<1>1. CASE ~ Insertable(NewWorkflow)
  <2>1. UNCHANGED <<jobVars, rowVars>>
    BY <1>1 DEF CreateCheckpoint, CreatePageWorkflow
  <2>2. ASSUME NEW label \in {"startWorkflow", "idle"}, Goto(r, label)
        PROVE  SafetyInv'
    BY <2>1, <2>2, <1>u, RelayFrame DEF CancelPcs
  <2> QED  BY <2>2 DEF CreateCheckpoint
<1>2. CASE Insertable(NewWorkflow)
  <2>1. /\ status \in {"accepted", "processing"}
        /\ revision = NoRow
        /\ workflow' = NewWorkflow
        /\ status' = "processing"
        /\ revision' = 0
        /\ UNCHANGED <<webhook, result, notices, artifacts>>
    BY <1>2 DEF CreateCheckpoint, CreatePageWorkflow, Insertable, NewWorkflow
  <2>2. UNCHANGED <<workflow, artifacts>> /\ ~ workflow.cancelled /\ artifacts = {}
    BY <2>1 DEF SafetyInv, RowInv, NewWorkflow
  <2>3. RowInv' /\ RowsInv'
    BY <2>1, <2>2, <1>u DEF SafetyInv, RowInv, RowsInv, NoRow
  <2>4. CancelInv'
    BY <2>1, <2>2, <1>u DEF SafetyInv, CancelInv
  <2>5. result = NoResult
    BY <2>1 DEF SafetyInv, ResultMatchesCheckpoint, Published
  <2>6. ResultMatchesCheckpoint' /\ NoticeExactlyOnce'
    BY <2>1, <2>5 DEF SafetyInv, ResultMatchesCheckpoint, NoticeExactlyOnce, Published
  <2>7. ASSUME NEW s \in Relays PROVE RelayInv(s)'
    <3>1. relay'[s].pc = relay[s].pc \/ relay'[s].pc \in {"startWorkflow", "idle"}
      BY DEF CreateCheckpoint, Goto, TypeOK, IdleRelay
    <3>2. relay[s].pc \notin CancelPcs
      BY <2>1 DEF SafetyInv, RelayInv
    <3> QED  BY <3>1, <3>2 DEF RelayInv, CancelPcs
  <2>8. \A w \in Workers : WorkerInv(w)'
    BY <2>1, <1>u, NoRowNoWork, QuietWorker DEF SafetyInv
  <2> QED  BY <2>3, <2>4, <2>6, <2>7, <2>8 DEF SafetyInv
<1> QED  BY <1>1, <1>2

\* A job cancelled before it was started gets a checkpoint nobody can claim.
LEMMA CreateCancelledKeeps ==
    ASSUME TypeOK, SafetyInv, NEW r \in Relays, CreateCancelled(r)
    PROVE  SafetyInv'
<1> DEFINE cancelled == RequestCancellation(NewWorkflow)
<1>u. UNCHANGED <<objects, outbox, worker>>
  BY DEF CreateCancelled
<1>s. status = "cancelled"
  BY DEF CreateCancelled, SafetyInv, RelayInv, CancelPcs
<1>g. \E label \in {"cancelWorkflow", "complete", "idle"} : Goto(r, label)
  BY DEF CreateCancelled
<1>1. CASE ~ Insertable(cancelled)
  <2>1. UNCHANGED <<jobVars, rowVars>>
    BY <1>1 DEF CreateCancelled, CreatePageWorkflow
  <2>2. ASSUME NEW label \in {"cancelWorkflow", "complete", "idle"}, Goto(r, label)
        PROVE  SafetyInv'
    BY <2>1, <2>2, <1>u, <1>s, RelayFrame
  <2> QED  BY <2>2, <1>g
<1>2. CASE Insertable(cancelled)
  <2>1. cancelled.cancelled /\ cancelled.pages = NewWorkflow.pages
    BY DEF RequestCancellation, NewWorkflow
  <2>2. /\ revision = NoRow
        /\ revision' = 0
        /\ workflow' = cancelled
        /\ status' = status
        /\ UNCHANGED <<webhook, result, notices, artifacts>>
    BY <1>2, <2>1 DEF CreateCancelled, CreatePageWorkflow, Insertable
  <2>3. artifacts = {} /\ workflow'.pages = workflow.pages
    BY <2>1, <2>2 DEF SafetyInv, RowInv
  <2>4. RowInv' /\ RowsInv' /\ CancelInv'
    BY <2>2, <2>3, <1>u, <1>s DEF SafetyInv, RowInv, RowsInv, CancelInv, NoRow
  <2>5. result = NoResult
    BY <1>s DEF SafetyInv, ResultMatchesCheckpoint, Published
  <2>6. ResultMatchesCheckpoint' /\ NoticeExactlyOnce'
    BY <2>2, <2>5, <1>s DEF SafetyInv, ResultMatchesCheckpoint, NoticeExactlyOnce, Published
  <2>7. ASSUME NEW s \in Relays PROVE RelayInv(s)'
    <3>1. relay'[s].pc = relay[s].pc \/ relay'[s].pc # "saveCancelled"
      BY <1>g DEF Goto, TypeOK, IdleRelay
    <3>2. relay[s].pc # "saveCancelled"
      BY <2>2 DEF SafetyInv, RelayInv, NoRow
    <3> QED  BY <3>1, <3>2, <2>2, <1>s DEF RelayInv
  <2>8. \A w \in Workers : WorkerInv(w)'
    BY <2>2, <1>u, NoRowNoWork, QuietWorker DEF SafetyInv
  <2> QED  BY <2>4, <2>6, <2>7, <2>8 DEF SafetyInv
<1> QED  BY <1>1, <1>2

\* Loading the checkpoint to cancel it.
LEMMA LoadForCancelKeeps ==
    ASSUME TypeOK, SafetyInv, NEW r \in Relays, LoadForCancel(r)
    PROVE  SafetyInv'
<1>1. UNCHANGED <<jobVars, rowVars, objects, outbox, worker>>
  BY DEF LoadForCancel
<1>2. status = "cancelled"
  BY DEF LoadForCancel, SafetyInv, RelayInv, CancelPcs
<1>3. CASE revision = NoRow
  BY <1>1, <1>2, <1>3, RelayFrame DEF LoadForCancel, Goto
<1>4. CASE revision # NoRow /\ workflow.cancelled
  BY <1>1, <1>2, <1>4, RelayFrame DEF LoadForCancel, Goto
<1>5. CASE revision # NoRow /\ ~ workflow.cancelled
  <2>1. relay' = [relay EXCEPT ![r] =
           [pc |-> "saveCancelled", rev |-> revision, wf |-> RequestCancellation(workflow)]]
    BY <1>5 DEF LoadForCancel
  <2>2. revision \in Nat
    BY <1>5 DEF TypeOK
  <2>3. ASSUME NEW s \in Relays PROVE RelayInv(s)'
    <3>1. CASE s = r
      BY <3>1, <2>1, <2>2, <1>1, <1>2 DEF RelayInv, TypeOK, jobVars, rowVars
    <3>2. CASE s # r
      BY <3>2, <2>1, <1>1, SameRelay DEF SafetyInv, TypeOK, jobVars
    <3> QED  BY <3>1, <3>2
  <2>4. RowInv' /\ RowsInv' /\ ResultMatchesCheckpoint' /\ NoticeExactlyOnce'
    BY <1>1, SameStore
  <2>5. CancelInv'
    BY <1>1 DEF SafetyInv, CancelInv, jobVars, rowVars
  <2>6. \A w \in Workers : WorkerInv(w)'
    BY <1>1, SameWorker DEF SafetyInv
  <2> QED  BY <2>3, <2>4, <2>5, <2>6 DEF SafetyInv
<1> QED  BY <1>3, <1>4, <1>5

\* The cancellation is saved over the revision it was computed from.
LEMMA SaveCancelledKeeps ==
    ASSUME TypeOK, TypeOK', SafetyInv, NEW r \in Relays, SaveCancelled(r)
    PROVE  SafetyInv'
<1>u. UNCHANGED <<jobVars, objects, outbox, worker>>
  BY DEF SaveCancelled
<1>s. status = "cancelled"
  BY DEF SaveCancelled, SafetyInv, RelayInv, CancelPcs
<1>1. CASE revision # relay[r].rev
  <2>1. UNCHANGED rowVars /\ Goto(r, "idle")
    BY <1>1 DEF SaveCancelled, SavePageWorkflow
  <2> QED  BY <2>1, <1>u, RelayFrame DEF CancelPcs
<1>2. CASE revision = relay[r].rev
  <2>1. /\ revision \in Nat
        /\ revision' = revision + 1
        /\ workflow' = RequestCancellation(workflow)
        /\ artifacts' = artifacts
        /\ Goto(r, "complete")
    BY <1>2 DEF SaveCancelled, SavePageWorkflow, SafetyInv, RelayInv
  <2>2. workflow'.pages = workflow.pages
    BY <2>1 DEF RequestCancellation, TypeOK, Workflow
  <2>3. Advances
    <3>1. \A p \in Pages : Rank(workflow.pages[p]) \in Nat
      BY RankType DEF TypeOK, Workflow
    <3> QED  BY <2>1, <2>2, <3>1, <1>u DEF Advances
  <2>4. RowInv' /\ RowsInv'
    BY <2>1, <2>2, <1>u DEF SafetyInv, RowInv, RowsInv, NoRow
  <2>5. CancelInv' /\ status' = status
    BY <1>s, <1>u DEF CancelInv, jobVars
  <2>6. ResultMatchesCheckpoint' /\ NoticeExactlyOnce'
    BY <2>3, <1>s, <1>u, SameResult DEF SafetyInv
  <2>7. ASSUME NEW s \in Relays PROVE RelayInv(s)'
    <3>1. CASE s = r
      BY <3>1, <2>1, <2>5, <1>s DEF RelayInv, Goto, IdleRelay, TypeOK
    <3>2. CASE s # r
      BY <3>2, <2>1, <2>3, <2>5, OvertakenRelay DEF SafetyInv, Goto, TypeOK
    <3> QED  BY <3>1, <3>2
  <2>8. \A w \in Workers : WorkerInv(w)'
    BY <2>3, <1>u, OvertakenWorker DEF SafetyInv
  <2> QED  BY <2>4, <2>5, <2>6, <2>7, <2>8 DEF SafetyInv
<1> QED  BY <1>1, <1>2

\* What the two saves of a runner share: the job is as it was, the checkpoint
\* not cancelled, and only the runner itself needs to be looked at.
LEMMA RunnerSaves ==
    ASSUME TypeOK, TypeOK', SafetyInv, Advances, RowsInv',
           UNCHANGED <<jobVars, relayVars>>, ~ workflow.cancelled, ~ workflow'.cancelled,
           NEW w \in Workers, WorkerInv(w)',
           \A v \in Workers : v # w => worker'[v] = worker[v]
    PROVE  SafetyInv'
<1>1. RowInv'
  BY DEF Advances, RowInv, NoRow
<1>2. CancelInv'
  BY DEF SafetyInv, CancelInv, jobVars, relayVars
<1>3. ResultMatchesCheckpoint' /\ NoticeExactlyOnce'
  <2>1. workflow'.cancelled = workflow.cancelled
    BY DEF TypeOK, Workflow
  <2> QED  BY <2>1, SameResult DEF SafetyInv
<1>4. \A r \in Relays : RelayInv(r)'
  BY OvertakenRelay DEF SafetyInv, jobVars, relayVars
<1>5. \A v \in Workers : WorkerInv(v)'
  BY OvertakenWorker DEF SafetyInv
<1> QED  BY <1>1, <1>2, <1>3, <1>4, <1>5 DEF SafetyInv

\* The claim is saved before any page is processed.
LEMMA SaveClaimKeeps ==
    ASSUME TypeOK, TypeOK', SafetyInv, NEW w \in Workers, SaveClaim(w)
    PROVE  SafetyInv'
<1>u. UNCHANGED <<jobVars, objects, relayVars>>
  BY DEF SaveClaim
<1>1. CASE revision # worker[w].rev
  <2>1. UNCHANGED rowVars /\ Reply(w, "RevisionConflict")
    BY <1>1 DEF SaveClaim, SavePageWorkflow
  <2> QED  BY <2>1, <1>u, WorkerFrame DEF Reply, IdleWorker, ActivePcs
<1>2. CASE revision = worker[w].rev
  <2> DEFINE me == worker[w]
  <2>1. /\ revision \in Nat
        /\ ~ workflow.cancelled
        /\ me.found = {}
        /\ me.wf = ClaimReady(workflow)
        /\ me.task = ClaimedTasks(workflow)
    BY <1>2 DEF SaveClaim, SafetyInv, WorkerInv, ClaimInv
  <2>2. /\ revision' = revision + 1
        /\ workflow' = ClaimReady(workflow)
        /\ artifacts' = artifacts
        /\ worker' = [worker EXCEPT ![w].pc = "process", ![w].rev = @ + 1]
    BY <1>2, <2>1 DEF SaveClaim, SavePageWorkflow
  <2>3. workflow \in Workflow /\ me \in WorkerRecord
    BY DEF TypeOK
  <2>4. /\ worker'[w].pc = "process"
        /\ worker'[w].rev = revision'
        /\ worker'[w].wf = ClaimReady(workflow)
        /\ worker'[w].task = ClaimedTasks(workflow)
        /\ worker'[w].found = {}
        /\ \A v \in Workers : v # w => worker'[v] = worker[v]
    BY <1>2, <2>1, <2>2, <2>3 DEF TypeOK, WorkerRecord
  <2>5. Advances
    <3>1. (\A p \in Pages : Settled(workflow.pages[p])) => ClaimReady(workflow).pages = workflow.pages
      BY <2>3, ClaimOfSettled
    <3> QED  BY <2>1, <2>2, <2>3, <3>1, <1>u, ClaimFacts DEF Advances
  <2>6. RowsInv'
    <3>1. ASSUME NEW row \in artifacts
          PROVE  workflow'.pages[row[1]] = Succeeded(row[2])
      <4>1. row[1] \in Pages
        BY DEF TypeOK, Rows
      <4>2. workflow.pages[row[1]] = Succeeded(row[2])
        BY DEF SafetyInv, RowsInv
      <4>3. Settled(workflow.pages[row[1]])
        BY <4>2 DEF Succeeded, Settled
      <4> QED  BY <4>1, <4>2, <4>3, <2>2, <2>3, ClaimFacts
    <3>2. ASSUME NEW p \in Pages, workflow'.pages[p].state = "Succeeded"
          PROVE  \E row \in artifacts : row[1] = p
      <4>1. workflow'.pages[p] = workflow.pages[p]
        BY <3>2, <2>2, <2>3, ClaimFacts
      <4> QED  BY <3>2, <4>1 DEF SafetyInv, RowsInv
    <3> QED  BY <3>1, <3>2, <2>2, <1>u DEF SafetyInv, RowsInv
  <2>7. WorkerInv(w)'
    <3>1. ASSUME NEW p \in Pages, ClaimedTasks(workflow)[p] # 0
          PROVE  workflow'.pages[p] = Running(ClaimedTasks(workflow)[p])
      BY <3>1, <2>2, <2>3, ClaimFacts
    <3>2. ~ workflow'.cancelled
      BY <2>1, <2>2, <2>3, ClaimFacts
    <3>3. RunnerInv(w)'
      <4>1. revision' \in Nat
        BY <2>1, <2>2
      <4>2. BatchInv(w)'
        <5>1. \A p \in Pages : ClaimedTasks(workflow)[p] # 0 =>
                 /\ Recorded(workflow'.pages[p], ClaimedTasks(workflow)[p])
                 /\ workflow'.pages[p].state # "Succeeded"
          BY <3>1, ProgressStates DEF Recorded
        <5> QED  BY <5>1, <3>2, <2>2, <2>4 DEF BatchInv
      <4> QED  BY <4>1, <4>2, <3>2, <2>4 DEF RunnerInv
    <3>4. DurableClaim(w)'
      <4>1. \A p \in Pages : Rank(workflow'.pages[p]) \in Nat
        BY RankType DEF TypeOK, Workflow
      <4>2. revision' <= revision'
        BY <2>1, <2>2
      <4> QED  BY <4>1, <4>2, <3>1, <3>2, <2>4 DEF DurableClaim, ActiveTask
    <3> QED  BY <3>3, <3>4, <2>4 DEF WorkerInv, ClaimInv, FinalInv
  <2>8. ~ workflow'.cancelled
    BY <2>1, <2>2, <2>3, ClaimFacts
  <2> QED  BY <2>1, <2>4, <2>5, <2>6, <2>7, <2>8, <1>u, RunnerSaves
<1> QED  BY <1>1, <1>2

\* The outcomes and their artifact rows are saved in one transaction.
LEMMA SaveOutcomesKeeps ==
    ASSUME TypeOK, TypeOK', SafetyInv, NEW w \in Workers, SaveOutcomes(w)
    PROVE  SafetyInv'
<1> DEFINE me == worker[w]
<1>u. UNCHANGED <<jobVars, objects, relayVars>>
  BY DEF SaveOutcomes
<1>r. \E answer : Reply(w, answer)
  BY DEF SaveOutcomes
<1>1. CASE revision # me.rev
  <2>1. UNCHANGED rowVars
    BY <1>1 DEF SaveOutcomes, SavePageWorkflow
  <2> QED  BY <2>1, <1>u, <1>r, WorkerFrame DEF Reply, IdleWorker, ActivePcs
<1>2. CASE revision = me.rev
  <2>1. /\ revision \in Nat
        /\ ~ workflow.cancelled
        /\ BatchInv(w)
        /\ \A p \in Pages : me.task[p] # 0 => workflow.pages[p] = Running(me.task[p])
    BY <1>2 DEF SaveOutcomes, SafetyInv, WorkerInv, RunnerInv, DurableClaim, ActiveTask
  <2>2. /\ revision' = revision + 1
        /\ workflow' = me.wf
        /\ artifacts' = artifacts \cup me.found
    BY <1>2 DEF SaveOutcomes, SavePageWorkflow
  <2>3. \A p \in Pages : me.task[p] # 0 => me.task[p] \in Attempts
    BY TaskType
  <2>4. \A p \in Pages : me.task[p] = 0 => workflow'.pages[p] = workflow.pages[p]
    BY <1>2, <2>1, <2>2 DEF BatchInv
  <2>5. \A p \in Pages : me.task[p] # 0 => Recorded(workflow'.pages[p], me.task[p])
    BY <2>1, <2>2 DEF BatchInv
  <2>f. \A row \in me.found : row[1] \in Pages /\ me.task[row[1]] # 0
    <3>1. \A row \in me.found : row[1] \in Pages /\ row[2] \in Attempts
      BY DEF TypeOK, WorkerRecord, Rows
    <3> QED  BY <3>1, <2>1 DEF BatchInv, Attempts
  <2>6. Advances
    <3>1. ASSUME NEW p \in Pages
          PROVE  Rank(workflow.pages[p]) <= Rank(workflow'.pages[p])
      <4>1. CASE me.task[p] = 0
        <5>1. Rank(workflow.pages[p]) \in Nat
          BY RankType DEF TypeOK, Workflow
        <5> QED  BY <4>1, <5>1, <2>4
      <4>2. CASE me.task[p] # 0
        BY <4>2, <2>1, <2>3, <2>5, RecordedFacts
      <4> QED  BY <4>1, <4>2
    <3>2. ASSUME \A p \in Pages : Settled(workflow.pages[p])
          PROVE  workflow'.pages = workflow.pages /\ artifacts' = artifacts
      <4>1. \A p \in Pages : me.task[p] = 0
        BY <3>2, <2>1, ProgressStates
      <4>2. workflow.pages \in [Pages -> PageProgress] /\ workflow'.pages \in [Pages -> PageProgress]
        BY DEF TypeOK, Workflow
      <4>3. me.found = {}
        BY <4>1, <2>f
      <4> QED  BY <4>1, <4>2, <4>3, <2>2, <2>4
    <3> QED  BY <3>1, <3>2, <2>1, <2>2, <1>u DEF Advances
  <2>7. RowsInv'
    <3>1. ASSUME NEW row \in artifacts
          PROVE  workflow'.pages[row[1]] = Succeeded(row[2]) /\ objects'[row[1]][row[2]] = row[3]
      <4>1. workflow.pages[row[1]] = Succeeded(row[2]) /\ row[1] \in Pages
        BY DEF SafetyInv, RowsInv, TypeOK, Rows
      <4>2. me.task[row[1]] = 0
        BY <4>1, <2>1, ProgressStates
      <4> QED  BY <4>1, <4>2, <2>4, <1>u DEF SafetyInv, RowsInv
    <3>2. ASSUME NEW row \in me.found
          PROVE  workflow'.pages[row[1]] = Succeeded(row[2]) /\ objects'[row[1]][row[2]] = row[3]
      BY <2>1, <2>2, <1>u DEF BatchInv
    <3>3. ASSUME NEW p \in Pages, workflow'.pages[p].state = "Succeeded"
          PROVE  \E row \in artifacts' : row[1] = p
      <4>1. CASE me.task[p] = 0
        BY <3>3, <4>1, <2>2, <2>4 DEF SafetyInv, RowsInv
      <4>2. CASE me.task[p] # 0
        BY <3>3, <4>2, <2>1, <2>2 DEF BatchInv
      <4> QED  BY <4>1, <4>2
    <3> QED  BY <3>1, <3>2, <3>3, <2>2 DEF RowsInv
  <2>8. worker'[w].pc = "reply" /\ \A v \in Workers : v # w => worker'[v] = worker[v]
    BY <1>r DEF Reply, TypeOK, IdleWorker
  <2>9. WorkerInv(w)'
    BY <2>8, QuietWorker DEF ActivePcs
  <2>10. ~ workflow'.cancelled
    BY <2>1, <2>2 DEF BatchInv
  <2> QED  BY <2>1, <2>6, <2>7, <2>8, <2>9, <2>10, <1>u, RunnerSaves
<1> QED  BY <1>1, <1>2

-----------------------------------------------------------------------------
(***************************************************************************)
(* The steps that process a page.  An object, once written, stays.         *)
(***************************************************************************)
ObjectsKept ==
    \A p \in Pages, a \in Attempts :
        objects[p][a] # NoContent => objects'[p][a] = objects[p][a]

\* What is recorded of objects holds for every worker but the one that moves.
LEMMA PageFrame ==
    ASSUME TypeOK, SafetyInv, ObjectsKept, UNCHANGED <<jobVars, rowVars, relayVars>>,
           NEW w \in Workers, WorkerInv(w)',
           \A v \in Workers : v # w => worker'[v] = worker[v]
    PROVE  SafetyInv'
<1> USE PageExecutionAssumption
<1>1. \A row \in Rows : objects[row[1]][row[2]] = row[3] => objects'[row[1]][row[2]] = row[3]
  BY DEF ObjectsKept, Rows, NoContent
<1>2. RowInv' /\ ResultMatchesCheckpoint' /\ NoticeExactlyOnce'
  BY DEF SafetyInv, RowInv, ResultMatchesCheckpoint, NoticeExactlyOnce,
         WorkflowStatus, jobVars, rowVars
<1>3. RowsInv'
  <2>1. artifacts \subseteq Rows
    BY DEF TypeOK
  <2> QED  BY <1>1, <2>1 DEF SafetyInv, RowsInv, rowVars
<1>4. CancelInv'
  BY DEF SafetyInv, CancelInv, jobVars, rowVars, relayVars
<1>5. \A r \in Relays : RelayInv(r)'
  BY SameRelay DEF SafetyInv, jobVars, relayVars
<1>6. ASSUME NEW v \in Workers, v # w PROVE WorkerInv(v)'
  <2>1. worker'[v] = worker[v] /\ WorkerInv(v)
    BY <1>6 DEF SafetyInv
  <2>2. worker[v].found \subseteq Rows
    BY DEF TypeOK, WorkerRecord
  <2>3. ClaimInv(v)' /\ DurableClaim(v)' /\ FinalInv(v)'
    BY <2>1 DEF WorkerInv, ClaimInv, DurableClaim, FinalInv, WorkflowStatus, rowVars
  <2>4. BatchInv(v) => BatchInv(v)'
    BY <2>1, <2>2, <1>1 DEF BatchInv, rowVars
  <2>5. RunnerInv(v)'
    BY <2>1, <2>4 DEF WorkerInv, RunnerInv, rowVars
  <2> QED  BY <2>3, <2>5 DEF WorkerInv
<1> QED  BY <1>2, <1>3, <1>4, <1>5, <1>6 DEF SafetyInv

\* The runner's own part: one task of the batch is recorded as `progress'.
LEMMA PageRecorded ==
    ASSUME TypeOK, TypeOK', SafetyInv, ObjectsKept, UNCHANGED rowVars,
           NEW w \in Workers, NEW p \in Pages, NEW progress,
           worker[w].pc = "process", worker'[w].pc \in {"process", "save"},
           worker[w].task[p] # 0, worker[w].wf.pages[p].state = "Running",
           worker'[w].rev = worker[w].rev, worker'[w].task = worker[w].task,
           worker'[w].wf = [worker[w].wf EXCEPT !.pages[p] = progress],
           Recorded(progress, worker[w].task[p]),
           \/ worker'[w].found = worker[w].found /\ progress.state # "Succeeded"
           \/ /\ progress = Succeeded(worker[w].task[p])
              /\ worker'[w].found = worker[w].found
                    \cup {<<p, worker[w].task[p], objects'[p][worker[w].task[p]]>>}
    PROVE  WorkerInv(w)'
<1> USE PageExecutionAssumption
<1> DEFINE me == worker[w]
           now == worker'[w]
<1>1. WorkerInv(w)
  BY DEF SafetyInv
<1>2. /\ me.rev \in Nat
      /\ me.rev = revision => ~ workflow.cancelled
      /\ BatchInv(w)
  BY <1>1 DEF WorkerInv, RunnerInv
<1>3. now.wf.cancelled = me.wf.cancelled
  BY DEF TypeOK, WorkerRecord, Workflow
<1>4. \A q \in Pages : now.wf.pages[q] = IF q = p THEN progress ELSE me.wf.pages[q]
  BY DEF TypeOK, WorkerRecord, Workflow
<1>5. me.found \subseteq Rows /\ now.found \subseteq Rows
  BY DEF TypeOK, WorkerRecord
<1>6. \A row \in me.found : row[1] # p
  BY <1>2, ProgressStates DEF BatchInv
<1>7. ASSUME NEW row \in now.found
      PROVE  /\ me.task[row[1]] = row[2]
             /\ now.wf.pages[row[1]] = Succeeded(row[2])
             /\ objects'[row[1]][row[2]] = row[3]
  <2>1. CASE row \in me.found
    <3>1. /\ me.task[row[1]] = row[2]
          /\ me.wf.pages[row[1]] = Succeeded(row[2])
          /\ objects[row[1]][row[2]] = row[3]
      BY <2>1, <1>2 DEF BatchInv
    <3>2. row[1] \in Pages /\ row[2] \in Attempts /\ row[3] # NoContent
      BY <2>1, <1>5 DEF Rows, NoContent
    <3> QED  BY <2>1, <3>1, <3>2, <1>4, <1>6 DEF ObjectsKept
  <2>2. CASE row \notin me.found
    <3>1. row = <<p, me.task[p], objects'[p][me.task[p]]>> /\ progress = Succeeded(me.task[p])
      BY <2>2, <1>7
    <3> QED  BY <3>1, <1>4
  <2> QED  BY <2>1, <2>2
<1>8. ASSUME NEW q \in Pages, me.task[q] # 0
      PROVE  /\ Recorded(now.wf.pages[q], me.task[q])
             /\ now.wf.pages[q].state = "Succeeded" => \E row \in now.found : row[1] = q
  <2>1. CASE q = p
    <3>1. now.wf.pages[q] = progress
      BY <2>1, <1>4
    <3>2. CASE progress.state # "Succeeded"
      BY <2>1, <3>1, <3>2
    <3>3. CASE progress.state = "Succeeded"
      <4> DEFINE row == <<p, me.task[p], objects'[p][me.task[p]]>>
      <4>1. row \in now.found /\ row[1] = q
        BY <2>1, <3>3
      <4> QED  BY <2>1, <3>1, <4>1
    <3> QED  BY <3>2, <3>3
  <2>2. CASE q # p
    BY <1>8, <2>2, <1>2, <1>4 DEF BatchInv
  <2> QED  BY <2>1, <2>2
<1>9. BatchInv(w)'
  <2>1. ASSUME me.rev = revision, NEW q \in Pages, me.task[q] = 0
        PROVE  now.wf.pages[q] = workflow.pages[q]
    BY <2>1, <1>2, <1>4 DEF BatchInv
  <2>2. ~ now.wf.cancelled
    BY <1>2, <1>3 DEF BatchInv
  <2> QED  BY <1>7, <1>8, <2>1, <2>2 DEF BatchInv, rowVars
<1>10. RunnerInv(w)'
  BY <1>2, <1>9 DEF RunnerInv, rowVars
<1>11. DurableClaim(w)'
  BY <1>1 DEF WorkerInv, DurableClaim, rowVars
<1>12. ClaimInv(w)' /\ FinalInv(w)'
  BY DEF ClaimInv, FinalInv
<1> QED  BY <1>10, <1>11, <1>12 DEF WorkerInv

\* A page is recognised and its object written, once per attempt.
LEMMA RecognizePageKeeps ==
    ASSUME TypeOK, TypeOK', SafetyInv, NEW w \in Workers, NEW p \in Pages,
           NEW content \in Contents, RecognizePage(w, p, content)
    PROVE  SafetyInv'
<1> DEFINE me == worker[w]
           a == me.task[p]
           stored == IF objects[p][a] = NoContent THEN content ELSE objects[p][a]
<1>1. /\ me.pc = "process"
      /\ a # 0
      /\ me.wf.pages[p].state = "Running"
      /\ objects' = [objects EXCEPT ![p][a] = stored]
      /\ UNCHANGED <<jobVars, rowVars, relayVars>>
      /\ worker' = [worker EXCEPT ![w] =
            IF stored = content
            THEN [AfterPage(w, p, RecordSuccess(me.wf, p, a))
                    EXCEPT !.found = @ \cup {<<p, a, content>>}]
            ELSE AfterPage(w, p, RecordPermanentFailure(me.wf, p, a))]
  BY DEF RecognizePage, Unprocessed
<1>2. a \in Attempts /\ me \in WorkerRecord
  BY <1>1, TaskType
<1>3. ObjectsKept /\ objects'[p][a] = stored
  BY <1>1, <1>2 DEF TypeOK, ObjectsKept
<1>4. WorkerInv(w)'
  <2>1. CASE stored = content
    <3>1. /\ worker'[w].pc \in {"process", "save"}
          /\ worker'[w].rev = me.rev
          /\ worker'[w].task = me.task
          /\ worker'[w].wf = [me.wf EXCEPT !.pages[p] = Succeeded(a)]
          /\ worker'[w].found = me.found \cup {<<p, a, objects'[p][a]>>}
      BY <1>1, <1>2, <1>3, <2>1 DEF TypeOK, AfterPage, RecordSuccess, WorkerRecord
    <3>2. Recorded(Succeeded(a), a)
      BY DEF Recorded
    <3> QED  BY <3>1, <3>2, <1>1, <1>3, PageRecorded
  <2>2. CASE stored # content
    <3>1. /\ worker'[w].pc \in {"process", "save"}
          /\ worker'[w].rev = me.rev
          /\ worker'[w].task = me.task
          /\ worker'[w].wf = [me.wf EXCEPT !.pages[p] = PermanentlyFailed(a)]
          /\ worker'[w].found = me.found
      BY <1>1, <1>2, <2>2 DEF TypeOK, AfterPage, RecordPermanentFailure, WorkerRecord
    <3>2. Recorded(PermanentlyFailed(a), a) /\ PermanentlyFailed(a).state # "Succeeded"
      BY DEF Recorded, PermanentlyFailed
    <3> QED  BY <3>1, <3>2, <1>1, <1>3, PageRecorded
  <2> QED  BY <2>1, <2>2
<1>5. \A v \in Workers : v # w => worker'[v] = worker[v]
  BY <1>1 DEF TypeOK
<1> QED  BY <1>1, <1>3, <1>4, <1>5, PageFrame

\* A page attempt fails; nothing is stored.
LEMMA FailPageKeeps ==
    ASSUME TypeOK, TypeOK', SafetyInv, NEW w \in Workers, NEW p \in Pages,
           NEW failure \in ProviderFailures, FailPage(w, p, failure)
    PROVE  SafetyInv'
<1> DEFINE me == worker[w]
           a == me.task[p]
           limited == failure = "RateLimited" /\ a < MaxAttempts
           progress == IF failure = "Permanent" THEN PermanentlyFailed(a)
                       ELSE IF a = MaxAttempts THEN Exhausted(a) ELSE Pending(a)
<1>1. /\ me.pc = "process"
      /\ a # 0
      /\ me.wf.pages[p].state = "Running"
      /\ UNCHANGED <<jobVars, rowVars, objects, relayVars>>
      /\ worker' = [worker EXCEPT ![w] =
            IF failure = "Permanent"
            THEN AfterPage(w, p, RecordPermanentFailure(me.wf, p, a))
            ELSE [AfterPage(w, p, RecordRetryableFailure(me.wf, p, a))
                    EXCEPT !.limited = @ \/ limited]]
  BY DEF FailPage, Unprocessed
<1>2. a \in Attempts /\ me \in WorkerRecord
  BY <1>1, TaskType
<1>3. ObjectsKept
  BY <1>1 DEF ObjectsKept
<1>4. /\ worker'[w].pc \in {"process", "save"}
      /\ worker'[w].rev = me.rev
      /\ worker'[w].task = me.task
      /\ worker'[w].wf = [me.wf EXCEPT !.pages[p] = progress]
      /\ worker'[w].found = me.found
  <2>1. CASE failure = "Permanent"
    BY <1>1, <1>2, <2>1 DEF TypeOK, AfterPage, RecordPermanentFailure, WorkerRecord
  <2>2. CASE failure # "Permanent"
    BY <1>1, <1>2, <2>2 DEF TypeOK, AfterPage, RecordRetryableFailure, WorkerRecord
  <2> QED  BY <2>1, <2>2
<1>5. Recorded(progress, a) /\ progress.state # "Succeeded"
  <2>1. /\ PermanentlyFailed(a).state # "Succeeded"
        /\ Exhausted(a).state # "Succeeded"
        /\ Pending(a).state # "Succeeded"
    BY DEF PermanentlyFailed, Exhausted, Pending
  <2>2. a # MaxAttempts => a < MaxAttempts
    BY <1>2, PageWorkflowAssumption DEF Attempts
  <2> QED  BY <2>1, <2>2 DEF Recorded
<1>6. WorkerInv(w)'
  <2> HIDE DEF progress
  <2> QED  BY <1>1, <1>3, <1>4, <1>5, PageRecorded
<1>7. \A v \in Workers : v # w => worker'[v] = worker[v]
  BY <1>1 DEF TypeOK
<1> QED  BY <1>1, <1>3, <1>6, <1>7, PageFrame

-----------------------------------------------------------------------------
(***************************************************************************)
(* The steps that read the checkpoint, and the commit.                     *)
(***************************************************************************)

\* Only worker w moves, and its new state is justified by what is stored.
LEMMA ReadFrame ==
    ASSUME TypeOK, SafetyInv, NEW w \in Workers, WorkerInv(w)',
           \A v \in Workers : v # w => worker'[v] = worker[v],
           UNCHANGED <<jobVars, rowVars, objects, relayVars>>
    PROVE  SafetyInv'
<1>1. RowInv' /\ RowsInv' /\ ResultMatchesCheckpoint' /\ NoticeExactlyOnce'
  BY SameStore
<1>2. CancelInv'
  BY DEF SafetyInv, CancelInv, jobVars, rowVars, relayVars
<1>3. \A r \in Relays : RelayInv(r)'
  BY SameRelay DEF SafetyInv, jobVars, relayVars
<1>4. \A v \in Workers : WorkerInv(v)'
  BY SameWorker DEF SafetyInv
<1> QED  BY <1>1, <1>2, <1>3, <1>4 DEF SafetyInv

\* The runner loads the checkpoint and claims a batch in memory.
LEMMA LoadAndClaimKeeps ==
    ASSUME TypeOK, SafetyInv, NEW w \in Workers, LoadAndClaim(w)
    PROVE  SafetyInv'
<1>1. UNCHANGED <<jobVars, rowVars, objects, relayVars>>
  BY DEF LoadAndClaim
<1>2. CASE \E answer : Reply(w, answer)
  BY <1>1, <1>2, WorkerFrame DEF Reply, IdleWorker, ActivePcs
<1>3. CASE /\ revision # NoRow
           /\ Claimable(workflow) # {}
           /\ worker' = [worker EXCEPT ![w] =
                [IdleWorker EXCEPT !.pc = "claim", !.rev = revision,
                                   !.wf = ClaimReady(workflow),
                                   !.task = ClaimedTasks(workflow)]]
  <2>1. revision \in Nat /\ ~ workflow.cancelled
    BY <1>3 DEF TypeOK, Claimable, Ready
  <2>2. /\ worker'[w].pc = "claim"
        /\ worker'[w].rev = revision
        /\ worker'[w].wf = ClaimReady(workflow)
        /\ worker'[w].task = ClaimedTasks(workflow)
        /\ worker'[w].found = {}
        /\ \A v \in Workers : v # w => worker'[v] = worker[v]
    BY <1>3 DEF TypeOK, IdleWorker
  <2>3. WorkerInv(w)'
    <3>1. ClaimInv(w)'
      BY <1>1, <2>1, <2>2
         DEF ClaimInv, rowVars, ClaimReady, ClaimedTasks, Claimable, Ready
    <3> QED  BY <3>1, <2>2 DEF WorkerInv, RunnerInv, DurableClaim, FinalInv
  <2> QED  BY <1>1, <2>2, <2>3, ReadFrame
<1> QED  BY <1>2, <1>3 DEF LoadAndClaim

\* The finalizer loads a settled checkpoint.
LEMMA LoadForFinalizeKeeps ==
    ASSUME TypeOK, SafetyInv, NEW w \in Workers, LoadForFinalize(w)
    PROVE  SafetyInv'
<1>1. UNCHANGED <<jobVars, rowVars, objects, relayVars>>
  BY DEF LoadForFinalize
<1>2. CASE \E answer : Reply(w, answer)
  BY <1>1, <1>2, WorkerFrame DEF Reply, IdleWorker, ActivePcs
<1>3. CASE /\ revision # NoRow
           /\ WorkflowStatus(workflow) \notin {"Running", "Cancelled"}
           /\ worker' = [worker EXCEPT ![w] =
                [IdleWorker EXCEPT !.pc = "collect", !.rev = revision, !.wf = workflow]]
  <2>1. WorkflowStatus(workflow) \in {"Completed", "Partial"}
    BY <1>3, StatusAnswers
  <2>2. /\ worker'[w].pc = "collect"
        /\ worker'[w].wf = workflow
        /\ \A v \in Workers : v # w => worker'[v] = worker[v]
    BY <1>3 DEF TypeOK, IdleWorker
  <2>3. WorkerInv(w)'
    <3>1. FinalInv(w)'
      BY <1>1, <1>3, <2>1, <2>2 DEF FinalInv, rowVars, WorkflowStatus
    <3> QED  BY <3>1, <2>2 DEF WorkerInv, ClaimInv, RunnerInv, DurableClaim
  <2> QED  BY <1>1, <2>2, <2>3, ReadFrame
<1> QED  BY <1>2, <1>3 DEF LoadForFinalize

\* The finalizer reads the artifact rows of that checkpoint.
LEMMA CollectArtifactsKeeps ==
    ASSUME TypeOK, SafetyInv, NEW w \in Workers, CollectArtifacts(w)
    PROVE  SafetyInv'
<1> DEFINE contents == {row[3] : row \in artifacts}
           state == IF WorkflowStatus(worker[w].wf) = "Partial" THEN "partial"
                    ELSE IF contents \cap Flagged # {} THEN "review_required" ELSE "completed"
<1>1. UNCHANGED <<jobVars, rowVars, objects, relayVars>>
  BY DEF CollectArtifacts
<1>2. CASE \E answer : Reply(w, answer)
  BY <1>1, <1>2, WorkerFrame DEF Reply, IdleWorker, ActivePcs
<1>3. CASE worker' = [worker EXCEPT ![w] =
              [@ EXCEPT !.pc = "publish", !.found = artifacts, !.out = state]]
  <2>1. /\ worker'[w].pc = "publish"
        /\ worker'[w].wf = worker[w].wf
        /\ worker'[w].found = artifacts
        /\ worker'[w].out = state
        /\ \A v \in Workers : v # w => worker'[v] = worker[v]
    <3> HIDE DEF state
    <3> QED  BY <1>3 DEF TypeOK, WorkerRecord
  <2>2. contents \cap Flagged # {} <=> \E row \in artifacts : row[3] \in Flagged
    OBVIOUS
  <2>3. /\ revision # NoRow
        /\ WorkflowStatus(worker[w].wf) \in {"Completed", "Partial"}
        /\ worker[w].wf.pages = workflow.pages
    BY DEF CollectArtifacts, SafetyInv, WorkerInv, FinalInv
  <2>4. FinalInv(w)'
    BY <1>1, <2>1, <2>2, <2>3 DEF FinalInv, rowVars, WorkflowStatus
  <2>5. WorkerInv(w)'
    BY <2>1, <2>4 DEF WorkerInv, ClaimInv, RunnerInv, DurableClaim
  <2> QED  BY <1>1, <2>1, <2>5, ReadFrame
<1> QED  BY <1>2, <1>3 DEF CollectArtifacts

\* The commit: the job is still processing under the row lock, so nothing was
\* cancelled, so what the finalizer has read is still the checkpoint.
LEMMA PublishResultKeeps ==
    ASSUME TypeOK, SafetyInv, NEW w \in Workers, PublishResult(w)
    PROVE  SafetyInv'
<1> DEFINE me == worker[w]
<1>1. UNCHANGED <<rowVars, objects, relayVars>>
  BY DEF PublishResult
<1>2. \E answer : Reply(w, answer)
  BY DEF PublishResult
<1>3. CASE ~ (result = NoResult /\ status \in {"processing", "validating"})
  <2>1. UNCHANGED jobVars
    BY <1>3 DEF PublishResult, CommitResult
  <2> QED  BY <2>1, <1>1, <1>2, WorkerFrame DEF Reply, IdleWorker, ActivePcs
<1>4. CASE result = NoResult /\ status \in {"processing", "validating"}
  <2>1. /\ status' = me.out
        /\ result' = [state |-> me.out, artifacts |-> me.found]
        /\ notices' = IF webhook THEN notices + 1 ELSE notices
        /\ webhook' = webhook
    BY <1>4 DEF PublishResult, CommitResult
  <2>2. /\ WorkflowStatus(me.wf) \in {"Completed", "Partial"}
        /\ me.wf.pages = workflow.pages
        /\ me.found = artifacts
        /\ me.out = IF WorkflowStatus(me.wf) = "Partial" THEN "partial"
                    ELSE IF \E row \in artifacts : row[3] \in Flagged
                    THEN "review_required" ELSE "completed"
    BY DEF PublishResult, SafetyInv, WorkerInv, FinalInv
  <2>3. me.out \in Published
    BY <2>2 DEF Published
  <2>4. ~ workflow.cancelled /\ "cancel" \notin outbox
    BY <1>4 DEF SafetyInv, CancelInv
  <2>5. WorkflowStatus(workflow) = WorkflowStatus(me.wf)
    <3>1. ~ me.wf.cancelled
      BY <2>2, StatusFacts
    <3>2. me.wf.cancelled = workflow.cancelled
      BY <3>1, <2>4 DEF TypeOK, WorkerRecord, Workflow
    <3> QED  BY <3>2, <2>2, StatusOfSamePages
  <2>6. result' # NoResult
    BY <2>1, <2>3 DEF NoResult, Published
  <2>7. WorkflowStatus(workflow') = WorkflowStatus(workflow)
    BY <1>1, StatusOfSamePages DEF rowVars
  <2>8. ResultMatchesCheckpoint'
    <3>1. result'.state = me.out /\ result'.artifacts = artifacts
      BY <2>1, <2>2
    <3> QED  BY <1>1, <2>1, <2>2, <2>3, <2>5, <2>6, <2>7, <3>1
             DEF ResultMatchesCheckpoint, rowVars
  <2>9. NoticeExactlyOnce'
    <3>1. notices = 0
      BY <1>4 DEF SafetyInv, NoticeExactlyOnce
    <3> QED  BY <3>1, <2>1, <2>6 DEF NoticeExactlyOnce
  <2>10. RowInv' /\ RowsInv' /\ CancelInv'
    BY <1>1, <2>4 DEF SafetyInv, RowInv, RowsInv, CancelInv, rowVars, relayVars
  <2>11. ASSUME NEW r \in Relays PROVE RelayInv(r)'
    <3>1. relay[r].pc \notin CancelPcs
      BY <1>4 DEF SafetyInv, RelayInv
    <3> QED  BY <3>1, <1>1 DEF RelayInv, relayVars, CancelPcs
  <2>12. ASSUME NEW v \in Workers PROVE WorkerInv(v)'
    <3>1. CASE v = w
      BY <3>1, <1>2, QuietWorker DEF Reply, IdleWorker, ActivePcs, TypeOK
    <3>2. CASE v # w
      BY <3>2, <1>1, <1>2, SameWorker DEF SafetyInv, Reply, TypeOK
    <3> QED  BY <3>1, <3>2
  <2> QED  BY <2>8, <2>9, <2>10, <2>11, <2>12 DEF SafetyInv
<1> QED  BY <1>3, <1>4

-----------------------------------------------------------------------------
\* The invariant holds initially.
LEMMA SafetyInit == Init => SafetyInv
<1> SUFFICES ASSUME Init PROVE SafetyInv
  OBVIOUS
<1>1. \A p \in Pages : workflow.pages[p].state = "Pending"
  BY DEF Init, NewWorkflow, Pending
<1>2. RowInv /\ RowsInv
  BY <1>1 DEF Init, RowInv, RowsInv
<1>3. CancelInv
  BY DEF Init, CancelInv, NewWorkflow
<1>4. ResultMatchesCheckpoint /\ NoticeExactlyOnce
  BY DEF Init, ResultMatchesCheckpoint, NoticeExactlyOnce, Published
<1>5. \A r \in Relays : RelayInv(r)
  BY DEF Init, RelayInv, IdleRelay, CancelPcs
<1>6. \A w \in Workers : WorkerInv(w)
  BY DEF Init, IdleWorker, WorkerInv, ClaimInv, RunnerInv, DurableClaim, FinalInv
<1> QED  BY <1>2, <1>3, <1>4, <1>5, <1>6 DEF SafetyInv

\* A finalizer about to commit has a terminal state to commit.
LEMMA SafetyGivesTerminal == SafetyInv => PublishesTerminal
BY DEF SafetyInv, WorkerInv, FinalInv, PublishesTerminal, Published

\* Relay steps that only move the relay.
LEMMA RelayStepKeeps ==
    ASSUME TypeOK, TypeOK', SafetyInv, NEW r \in Relays, RelayStep(r)
    PROVE  SafetyInv'
<1>s. relay[r].pc \in CancelPcs => status = "cancelled"
  BY DEF SafetyInv, RelayInv
<1>1. ASSUME NEW event \in {"start", "cancel"}, ClaimEvent(r, event)
      PROVE  SafetyInv'
  <2>1. event = "cancel" => status = "cancelled"
    BY <1>1 DEF ClaimEvent, SafetyInv, CancelInv
  <2>2. CASE event = "start"
    <3>1. Goto(r, "create")
      BY <1>1, <2>2 DEF ClaimEvent
    <3> QED  BY <1>1, <3>1, RelayFrame DEF ClaimEvent, CancelPcs
  <2>3. CASE event = "cancel"
    <3>1. Goto(r, "load")
      BY <1>1, <2>3 DEF ClaimEvent
    <3> QED  BY <1>1, <2>1, <2>3, <3>1, RelayFrame DEF ClaimEvent
  <2> QED  BY <2>2, <2>3
<1>2. CASE StartWorkflow(r)
  BY <1>2, RelayFrame DEF StartWorkflow, CancelPcs
<1>3. CASE CompleteCancellation(r)
  <2>1. status = "cancelled"
    BY <1>3, <1>s DEF CompleteCancellation, CancelPcs
  <2>2. UNCHANGED <<jobVars, rowVars, objects, outbox, worker>> /\ Goto(r, "cancelWorkflow")
    BY <1>3, <2>1 DEF CompleteCancellation, jobVars
  <2> QED  BY <2>1, <2>2, RelayFrame
<1>4. CASE CancelWorkflow(r)
  BY <1>4, <1>s, RelayFrame DEF CancelWorkflow, CancelPcs
<1>5. CASE PublishEvent(r)
  BY <1>5, RelayFrame DEF PublishEvent, CancelPcs
<1> QED
  BY <1>1, <1>2, <1>3, <1>4, <1>5, CreateCheckpointKeeps, LoadForCancelKeeps,
     CreateCancelledKeeps, SaveCancelledKeeps DEF RelayStep

\* Worker steps: the answer of an activity is of no concern to the store.
LEMMA WorkerStepKeeps ==
    ASSUME TypeOK, TypeOK', SafetyInv, NEW w \in Workers, WorkerStep(w)
    PROVE  SafetyInv'
<1>1. CASE FinishActivity(w)
  BY <1>1, WorkerFrame DEF FinishActivity, IdleWorker, ActivePcs
<1> QED
  BY <1>1, LoadAndClaimKeeps, SaveClaimKeeps, RecognizePageKeeps, FailPageKeeps,
     SaveOutcomesKeeps, LoadForFinalizeKeeps, CollectArtifactsKeeps, PublishResultKeeps
     DEF WorkerStep

\* Steps of Temporal and faults: nothing that is stored changes.
LEMMA StoreUntouched ==
    ASSUME TypeOK, SafetyInv, UNCHANGED <<jobVars, rowVars, objects, relayVars, worker>>
    PROVE  SafetyInv'
<1>1. RowInv' /\ RowsInv' /\ ResultMatchesCheckpoint' /\ NoticeExactlyOnce'
  BY SameStore
<1>2. CancelInv'
  BY DEF SafetyInv, CancelInv, jobVars, rowVars, relayVars
<1>3. \A r \in Relays : RelayInv(r)'
  BY SameRelay DEF SafetyInv, jobVars, relayVars
<1>4. \A v \in Workers : WorkerInv(v)'
  BY SameWorker DEF SafetyInv
<1> QED  BY <1>1, <1>2, <1>3, <1>4 DEF SafetyInv

\* Temporal's own steps, crashes and timeouts keep the invariant.
LEMMA EnvironmentKeeps ==
    ASSUME TypeOK, SafetyInv, TemporalStep \/ Fault
    PROVE  SafetyInv'
<1>1. CASE ContinueAsNew
  BY <1>1, StoreUntouched DEF ContinueAsNew
<1>2. ASSUME NEW w \in Workers, StartActivity(w)
      PROVE  SafetyInv'
  <2> DEFINE label == IF phase = "pages" THEN "load" ELSE "finalize"
  <2>1. worker' = [worker EXCEPT ![w] = [worker[w] EXCEPT !.pc = label]]
    BY <1>2 DEF StartActivity, TypeOK
  <2>2. [worker[w] EXCEPT !.pc = label].pc \notin ActivePcs
    BY DEF TypeOK, WorkerRecord, ActivePcs
  <2>3. UNCHANGED <<jobVars, rowVars, objects, relayVars>>
    BY <1>2 DEF StartActivity
  <2> HIDE DEF label
  <2> QED  BY <2>1, <2>2, <2>3, WorkerFrame
<1>3. ASSUME NEW w \in Workers, ActivityLost(w) \/ ActivityTimeout(w)
      PROVE  SafetyInv'
  BY <1>3, StoreUntouched DEF ActivityLost, ActivityTimeout
<1>4. ASSUME NEW w \in Workers, ActivityCancelled(w) \/ WorkerCrash(w)
      PROVE  SafetyInv'
  BY <1>4, WorkerFrame DEF ActivityCancelled, WorkerCrash, IdleWorker, ActivePcs
<1>5. ASSUME NEW w \in Workers, StoreUnavailable(w)
      PROVE  SafetyInv'
  BY <1>5, WorkerFrame DEF StoreUnavailable, Reply, IdleWorker, ActivePcs
<1>6. ASSUME NEW r \in Relays, RelayStops(r)
      PROVE  SafetyInv'
  BY <1>6, RelayFrame DEF RelayStops, CancelPcs
<1> QED  BY <1>1, <1>2, <1>3, <1>4, <1>5, <1>6 DEF TemporalStep, Fault

\* Every step keeps the invariant.
LEMMA SafetyStep == TypeOK /\ TypeOK' /\ SafetyInv /\ [Next]_vars => SafetyInv'
<1> SUFFICES ASSUME TypeOK, TypeOK', SafetyInv, [Next]_vars PROVE SafetyInv'
  OBVIOUS
<1>1. CASE UNCHANGED vars
  BY <1>1, StoreUntouched DEF vars
<1> QED  BY <1>1, CancelJobKeeps, RelayStepKeeps, WorkerStepKeeps, EnvironmentKeeps DEF Next

\* Everything a runner, a relay or a finalizer relies on holds in every
\* reachable state, for any number of pages, workers, relays and faults.
THEOREM Safety == Spec => [](TypeOK /\ SafetyInv)
<1>1. Init => TypeOK /\ SafetyInv
  BY TypeInit, SafetyInit
<1>2. TypeOK /\ SafetyInv /\ [Next]_vars => (TypeOK /\ SafetyInv)'
  BY TypeStep, SafetyGivesTerminal, SafetyStep
<1> QED  BY <1>1, <1>2, PTL DEF Spec

\* The checkpoint always satisfies TryFrom<RawPageWorkflow>, and every other
\* variable its type.
THEOREM TypeCorrect == Spec => []TypeOK
BY Safety, PTL

\* Rows, checkpoint and objects agree, the rows being one per successful page.
LEMMA RowsGiveArtifacts == TypeOK /\ SafetyInv => ArtifactsMatchCheckpoint
<1> SUFFICES ASSUME TypeOK, SafetyInv PROVE ArtifactsMatchCheckpoint
  OBVIOUS
<1>1. RowsInv /\ artifacts \subseteq Rows
  BY DEF SafetyInv, TypeOK
<1>2. ASSUME NEW row \in artifacts
      PROVE  /\ row[1] \in SuccessfulPages(workflow)
             /\ row[2] = workflow.pages[row[1]].n
             /\ row = <<row[1], row[2], row[3]>>
             /\ objects[row[1]][row[2]] = row[3]
  <2>1. row \in Rows /\ workflow.pages[row[1]] = Succeeded(row[2])
    BY <1>1 DEF RowsInv
  <2> QED  BY <1>1, <2>1 DEF RowsInv, Rows, SuccessfulPages, Succeeded
<1>3. ASSUME NEW p \in SuccessfulPages(workflow)
      PROVE  \E row \in artifacts : row[1] = p
  BY <1>1, <1>3 DEF RowsInv, SuccessfulPages
<1>4. {<<row[1], row[2]>> : row \in artifacts} =
          {<<p, workflow.pages[p].n>> : p \in SuccessfulPages(workflow)}
  BY <1>2, <1>3
<1>5. \A row, other \in artifacts : row[1] = other[1] => row = other
  BY <1>2
<1> QED  BY <1>2, <1>4, <1>5 DEF ArtifactsMatchCheckpoint

\* However many runners race, crash or come back late, the artifact table, the
\* checkpoint and the page objects tell the same story.
THEOREM ArtifactsAgree == Spec => []ArtifactsMatchCheckpoint
BY Safety, RowsGiveArtifacts, PTL

\* Provider work never starts without a durable claim.
THEOREM ClaimsDurable == Spec => []ClaimsAreDurable
<1>1. SafetyInv => ClaimsAreDurable
  BY DEF SafetyInv, WorkerInv, ClaimsAreDurable
<1> QED  BY Safety, <1>1, PTL

\* The result of a published job is the checkpoint's, under any race between
\* cancellation, redelivered finalizers and runners.
THEOREM ResultAgrees == Spec => []ResultMatchesCheckpoint
<1>1. SafetyInv => ResultMatchesCheckpoint
  BY DEF SafetyInv
<1> QED  BY Safety, <1>1, PTL

\* The subscriber is told exactly once.
THEOREM NoticeOnce == Spec => []NoticeExactlyOnce
<1>1. SafetyInv => NoticeExactlyOnce
  BY DEF SafetyInv
<1> QED  BY Safety, <1>1, PTL
=============================================================================
