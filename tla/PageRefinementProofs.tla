------------------------ MODULE PageRefinementProofs ------------------------
(***************************************************************************)
(* What a step of PageExecution may do to a job: its action properties,    *)
(* the refinement of DocumentJob, and the budget of runner iterations.     *)
(* All three rest on StoreStep, the six ways a step can touch the stored   *)
(* state, and on the invariant of PageSafetyProofs.                        *)
(***************************************************************************)
EXTENDS PageSafetyProofs, FiniteSetTheorems, NaturalsInduction

Quiet == UNCHANGED <<jobVars, rowVars>>

Cancelled ==
    /\ status \in Cancellable
    /\ status' = "cancelled"
    /\ UNCHANGED <<webhook, result, notices, rowVars>>

Started ==
    /\ status \in {"accepted", "processing"}
    /\ status' = "processing"
    /\ revision = NoRow
    /\ UNCHANGED <<webhook, result, notices, workflow, artifacts>>

Stopped ==
    /\ status = "cancelled"
    /\ workflow' = RequestCancellation(workflow)
    /\ UNCHANGED <<jobVars, artifacts>>

\* A page after a save of a runner: it moves forward, a settled one not at all.
Forward(from, to) ==
    /\ Rank(from) <= Rank(to)
    /\ Settled(from) => to = from
    /\ Spent(from) <= Spent(to)

Saved ==
    /\ revision # NoRow
    /\ ~ workflow.cancelled
    /\ ~ workflow'.cancelled
    /\ \A p \in Pages : Forward(workflow.pages[p], workflow'.pages[p])
    /\ UNCHANGED jobVars

Committed ==
    /\ result = NoResult
    /\ status \in {"processing", "validating"}
    /\ WorkflowStatus(workflow) \in {"Completed", "Partial"}
    /\ status' \in IF WorkflowStatus(workflow) = "Partial"
                   THEN {"partial"} ELSE {"completed", "review_required"}
    /\ result' = [state |-> status', artifacts |-> artifacts]
    /\ UNCHANGED rowVars

\* The attempts a page has spent are a number.
LEMMA SpentType == ASSUME NEW x \in PageProgress PROVE Spent(x) \in 0..MaxAttempts
<1>1. x.n \in 0..MaxAttempts /\ (x.state = "Running" => x.n \in Attempts)
  BY ProgressCases
<1> QED  BY <1>1, PageWorkflowAssumption DEF Spent, Attempts

\* A page that is not touched has not moved back.
LEMMA ForwardSame == ASSUME NEW x \in PageProgress PROVE Forward(x, x)
<1>1. Rank(x) \in Nat /\ Spent(x) \in 0..MaxAttempts
  BY RankType, SpentType
<1> QED  BY <1>1, PageWorkflowAssumption DEF Forward

\* A claim moves pages forward and spends nothing.
LEMMA ClaimForward ==
    ASSUME NEW w \in Workflow, NEW p \in Pages
    PROVE  Forward(w.pages[p], ClaimReady(w).pages[p])
<1> DEFINE x == w.pages[p]
           y == ClaimReady(w).pages[p]
<1>1. y = IF p \in Claimable(w) /\ x.state = "Pending" THEN Running(x.n + 1) ELSE x
  BY DEF ClaimReady, Workflow
<1>2. x \in PageProgress
  BY DEF Workflow
<1>3. Spent(x) <= Spent(y)
  <2>1. CASE p \in Claimable(w) /\ x.state = "Pending"
    <3>1. y.state = "Running" /\ y.n = x.n + 1
      BY <1>1, <2>1 DEF Running
    <3>2. x.n \in 0..MaxAttempts
      BY <1>2, ProgressCases
    <3> QED  BY <2>1, <3>1, <3>2, PageWorkflowAssumption DEF Spent
  <2>2. CASE ~ (p \in Claimable(w) /\ x.state = "Pending")
    <3>1. y = x
      BY <1>1, <2>2
    <3> QED  BY <3>1, <1>2, ForwardSame DEF Forward
  <2> QED  BY <2>1, <2>2
<1>4. Rank(x) <= Rank(y) /\ (Settled(x) => y = x)
  BY ClaimFacts
<1> QED  BY <1>3, <1>4 DEF Forward

\* The record of an outcome moves its page forward, and a page that is no longer
\* running has spent the attempt.
LEMMA RecordedForward ==
    ASSUME NEW n \in Attempts, NEW x, Recorded(x, n)
    PROVE  /\ Forward(Running(n), x)
           /\ x.state # "Running" => Spent(Running(n)) < Spent(x)
<1>1. Rank(Running(n)) <= Rank(x) /\ ~ Settled(Running(n))
  BY RecordedFacts, ProgressStates
<1>2. Spent(Running(n)) = n - 1
  BY DEF Spent, Running
<1>3. IF x.state = "Running" THEN Spent(x) = n - 1 ELSE Spent(x) = n
  BY DEF Recorded, Spent, Running, Succeeded, PermanentlyFailed, Exhausted, Pending
<1> QED  BY <1>1, <1>2, <1>3, PageWorkflowAssumption DEF Forward, Attempts

\* A claim saved over the revision it was computed from.
LEMMA SaveClaimStep ==
    ASSUME TypeOK, SafetyInv, NEW w \in Workers, SaveClaim(w)
    PROVE  Quiet \/ Saved
<1>u. UNCHANGED jobVars
  BY DEF SaveClaim
<1>1. CASE revision # worker[w].rev
  BY <1>1, <1>u DEF SaveClaim, SavePageWorkflow, Quiet
<1>2. CASE revision = worker[w].rev
  <2>1. /\ revision \in Nat
        /\ ~ workflow.cancelled
        /\ worker[w].wf = ClaimReady(workflow)
    BY <1>2 DEF SaveClaim, SafetyInv, WorkerInv, ClaimInv
  <2>2. workflow' = ClaimReady(workflow)
    BY <1>2, <2>1 DEF SaveClaim, SavePageWorkflow
  <2>3. workflow \in Workflow
    BY DEF TypeOK
  <2>4. ~ workflow'.cancelled
    BY <2>1, <2>2, <2>3, ClaimFacts
  <2>5. \A p \in Pages : Forward(workflow.pages[p], workflow'.pages[p])
    BY <2>2, <2>3, ClaimForward
  <2> QED  BY <2>1, <2>4, <2>5, <1>u DEF Saved, NoRow
<1> QED  BY <1>1, <1>2

\* The outcomes of a batch saved over the revision of its claim.
LEMMA SaveOutcomesStep ==
    ASSUME TypeOK, SafetyInv, NEW w \in Workers, SaveOutcomes(w)
    PROVE  Quiet \/ Saved
<1> DEFINE me == worker[w]
<1>u. UNCHANGED jobVars
  BY DEF SaveOutcomes
<1>1. CASE revision # me.rev
  BY <1>1, <1>u DEF SaveOutcomes, SavePageWorkflow, Quiet
<1>2. CASE revision = me.rev
  <2>1. /\ revision \in Nat
        /\ ~ workflow.cancelled
        /\ BatchInv(w)
        /\ \A p \in Pages : me.task[p] # 0 => workflow.pages[p] = Running(me.task[p])
    BY <1>2 DEF SaveOutcomes, SafetyInv, WorkerInv, RunnerInv, DurableClaim, ActiveTask
  <2>2. workflow' = me.wf
    BY <1>2 DEF SaveOutcomes, SavePageWorkflow
  <2>3. ASSUME NEW p \in Pages
        PROVE  Forward(workflow.pages[p], workflow'.pages[p])
    <3>1. CASE me.task[p] = 0
      <4>1. workflow'.pages[p] = workflow.pages[p]
        BY <1>2, <2>1, <2>2, <3>1 DEF BatchInv
      <4>2. workflow.pages[p] \in PageProgress
        BY DEF TypeOK, Workflow
      <4> QED  BY <4>1, <4>2, ForwardSame
    <3>2. CASE me.task[p] # 0
      <4>1. me.task[p] \in Attempts /\ Recorded(workflow'.pages[p], me.task[p])
        BY <3>2, <2>1, <2>2, TaskType DEF BatchInv
      <4> QED  BY <4>1, <3>2, <2>1, RecordedForward
    <3> QED  BY <3>1, <3>2
  <2>4. ~ workflow'.cancelled
    BY <2>1, <2>2 DEF BatchInv
  <2> QED  BY <2>1, <2>3, <2>4, <1>u DEF Saved, NoRow
<1> QED  BY <1>1, <1>2

\* The one step that publishes.
LEMMA PublishStep ==
    ASSUME TypeOK, SafetyInv, NEW w \in Workers, PublishResult(w)
    PROVE  Quiet \/ Committed
<1> DEFINE me == worker[w]
<1>u. UNCHANGED rowVars
  BY DEF PublishResult
<1>1. CASE ~ (result = NoResult /\ status \in {"processing", "validating"})
  BY <1>1, <1>u DEF PublishResult, CommitResult, Quiet
<1>2. CASE result = NoResult /\ status \in {"processing", "validating"}
  <2>1. status' = me.out /\ result' = [state |-> me.out, artifacts |-> me.found]
    BY <1>2 DEF PublishResult, CommitResult
  <2>2. /\ WorkflowStatus(me.wf) \in {"Completed", "Partial"}
        /\ me.wf.pages = workflow.pages
        /\ me.found = artifacts
        /\ me.out \in IF WorkflowStatus(me.wf) = "Partial"
                      THEN {"partial"} ELSE {"completed", "review_required"}
    BY DEF PublishResult, SafetyInv, WorkerInv, FinalInv
  <2>3. ~ workflow.cancelled /\ ~ me.wf.cancelled
    BY <1>2, <2>2, StatusFacts DEF SafetyInv, CancelInv
  <2>4. me.wf.cancelled = workflow.cancelled
    BY <2>3 DEF TypeOK, WorkerRecord, Workflow
  <2>5. WorkflowStatus(workflow) = WorkflowStatus(me.wf)
    BY <2>2, <2>4, StatusOfSamePages
  <2> QED  BY <1>2, <1>u, <2>1, <2>2, <2>5 DEF Committed
<1> QED  BY <1>1, <1>2

\* What a relay does to the stored state.
LEMMA RelayStoreStep ==
    ASSUME TypeOK, SafetyInv, NEW r \in Relays, RelayStep(r)
    PROVE  Quiet \/ Started \/ Stopped
<1>1. ASSUME CreateCheckpoint(r) PROVE Quiet \/ Started
  <2>1. CASE ~ Insertable(NewWorkflow)
    BY <1>1, <2>1 DEF CreateCheckpoint, CreatePageWorkflow, Quiet
  <2>2. CASE Insertable(NewWorkflow)
    BY <1>1, <2>2 DEF CreateCheckpoint, CreatePageWorkflow, Insertable, NewWorkflow,
                      SafetyInv, RowInv, Started
  <2> QED  BY <2>1, <2>2
<1>2. ASSUME CreateCancelled(r) PROVE Quiet \/ Stopped
  <2> DEFINE cancelled == RequestCancellation(NewWorkflow)
  <2>1. status = "cancelled"
    BY <1>2 DEF CreateCancelled, SafetyInv, RelayInv, CancelPcs
  <2>2. CASE ~ Insertable(cancelled)
    BY <1>2, <2>2 DEF CreateCancelled, CreatePageWorkflow, Quiet
  <2>3. CASE Insertable(cancelled)
    <3>1. cancelled.cancelled
      BY DEF RequestCancellation, NewWorkflow
    <3>2. workflow' = cancelled /\ UNCHANGED <<jobVars, artifacts>>
      BY <1>2, <2>3, <3>1 DEF CreateCancelled, CreatePageWorkflow, jobVars
    <3>3. workflow = NewWorkflow
      BY <2>3 DEF Insertable, SafetyInv, RowInv
    <3> QED  BY <2>1, <3>2, <3>3 DEF Stopped
  <2> QED  BY <2>2, <2>3
<1>3. ASSUME SaveCancelled(r) PROVE Quiet \/ Stopped
  <2>1. CASE revision # relay[r].rev
    BY <1>3, <2>1 DEF SaveCancelled, SavePageWorkflow, Quiet
  <2>2. CASE revision = relay[r].rev
    BY <1>3, <2>2 DEF SaveCancelled, SavePageWorkflow, SafetyInv, RelayInv, CancelPcs, Stopped
  <2> QED  BY <2>1, <2>2
<1>4. ASSUME CompleteCancellation(r) PROVE Quiet
  <2>1. status = "cancelled"
    BY <1>4 DEF CompleteCancellation, SafetyInv, RelayInv, CancelPcs
  <2> QED  BY <1>4, <2>1 DEF CompleteCancellation, Quiet, jobVars
<1>5. CASE \/ \E event \in {"start", "cancel"} : ClaimEvent(r, event)
           \/ StartWorkflow(r) \/ LoadForCancel(r) \/ CancelWorkflow(r) \/ PublishEvent(r)
  BY <1>5 DEF ClaimEvent, StartWorkflow, LoadForCancel, CancelWorkflow, PublishEvent, Quiet
<1> QED  BY <1>1, <1>2, <1>3, <1>4, <1>5 DEF RelayStep

\* What an activity does to the stored state.
LEMMA WorkerStoreStep ==
    ASSUME TypeOK, SafetyInv, NEW w \in Workers, WorkerStep(w)
    PROVE  Quiet \/ Saved \/ Committed
<1>1. CASE LoadAndClaim(w) \/ LoadForFinalize(w) \/ CollectArtifacts(w) \/ FinishActivity(w)
  BY <1>1 DEF LoadAndClaim, LoadForFinalize, CollectArtifacts, FinishActivity, Quiet
<1>2. CASE \E p \in Pages, content \in Contents : RecognizePage(w, p, content)
  BY <1>2 DEF RecognizePage, Quiet
<1>3. CASE \E p \in Pages, failure \in ProviderFailures : FailPage(w, p, failure)
  BY <1>3 DEF FailPage, Quiet
<1> QED
  BY <1>1, <1>2, <1>3, SaveClaimStep, SaveOutcomesStep, PublishStep DEF WorkerStep

\* The six ways a step can touch the stored state.
LEMMA StoreStep ==
    ASSUME TypeOK, SafetyInv, [Next]_vars
    PROVE  Quiet \/ Cancelled \/ Started \/ Stopped \/ Saved \/ Committed
<1>1. CASE UNCHANGED vars
  BY <1>1 DEF vars, Quiet
<1>2. CASE CancelJob
  BY <1>2 DEF CancelJob, Cancelled
<1>3. CASE TemporalStep
  BY <1>3 DEF TemporalStep, ContinueAsNew, StartActivity, ActivityLost, Quiet
<1>4. CASE Fault
  BY <1>4 DEF Fault, RelayStops, ActivityTimeout, ActivityCancelled, WorkerCrash,
              StoreUnavailable, Quiet
<1> QED  BY <1>1, <1>2, <1>3, <1>4, RelayStoreStep, WorkerStoreStep DEF Next

-----------------------------------------------------------------------------
(***************************************************************************)
(* Action properties.                                                      *)
(***************************************************************************)
\* No runner, zombie or not, takes a page back, and none touches a settled one.
THEOREM PagesAdvance == Spec => PagesOnlyAdvance
<1> DEFINE P == \A p \in Pages :
             /\ Rank(workflow.pages[p]) <= Rank(workflow'.pages[p])
             /\ Settled(workflow.pages[p]) => workflow'.pages[p] = workflow.pages[p]
<1>1. TypeOK /\ SafetyInv /\ [Next]_vars => P
  <2> SUFFICES ASSUME TypeOK, SafetyInv, [Next]_vars PROVE P
    OBVIOUS
  <2>1. ASSUME workflow'.pages = workflow.pages PROVE P
    <3>1. \A p \in Pages : Rank(workflow.pages[p]) \in Nat
      BY RankType DEF TypeOK, Workflow
    <3> QED  BY <2>1, <3>1
  <2>2. Saved => P
    BY DEF Saved, Forward
  <2>3. Stopped => workflow'.pages = workflow.pages
    BY DEF Stopped, RequestCancellation, TypeOK, Workflow
  <2>4. Quiet \/ Cancelled \/ Started \/ Committed => workflow'.pages = workflow.pages
    BY DEF Quiet, Cancelled, Started, Committed, rowVars
  <2> QED  BY <2>1, <2>2, <2>3, <2>4, StoreStep
<1>2. TypeOK /\ SafetyInv /\ [Next]_vars => [P]_vars
  BY <1>1
<1> QED  BY Safety, <1>2, PTL DEF Spec, PagesOnlyAdvance

\* Nothing is claimed, recorded or stored for a checkpoint once it is cancelled.
THEOREM CancelledIsFrozen == Spec => CancellationFreezes
<1> DEFINE P == revision # NoRow /\ workflow.cancelled
                   => workflow' = workflow /\ artifacts' = artifacts
<1>1. TypeOK /\ SafetyInv /\ [Next]_vars => P
  <2> SUFFICES ASSUME TypeOK, SafetyInv, [Next]_vars, revision # NoRow, workflow.cancelled
               PROVE  workflow' = workflow /\ artifacts' = artifacts
    OBVIOUS
  <2>1. RequestCancellation(workflow) = workflow
    BY DEF RequestCancellation, TypeOK, Workflow
  <2>2. ~ Started /\ ~ Saved
    BY DEF Started, Saved
  <2> QED
    BY <2>1, <2>2, StoreStep DEF Quiet, Cancelled, Stopped, Committed, rowVars
<1> QED  BY Safety, <1>1, PTL DEF Spec, CancellationFreezes

\* A cancel racing a commit leaves one winner, for good.
THEOREM TerminalStays == Spec => TerminalIsFinal
<1> DEFINE P == status \in Published \cup {"cancelled"}
                   => status' = status /\ result' = result /\ notices' = notices
<1>1. TypeOK /\ SafetyInv /\ [Next]_vars => P
  <2> SUFFICES ASSUME TypeOK, SafetyInv, [Next]_vars, status \in Published \cup {"cancelled"}
               PROVE  status' = status /\ result' = result /\ notices' = notices
    OBVIOUS
  <2>1. ~ Cancelled /\ ~ Started /\ ~ Committed
    BY DEF Cancelled, Started, Committed, Published, Cancellable
  <2> QED  BY <2>1, StoreStep DEF Quiet, Stopped, Saved, jobVars
<1> QED  BY Safety, <1>1, PTL DEF Spec, TerminalIsFinal

-----------------------------------------------------------------------------
(***************************************************************************)
(* The refinement of DocumentJob.                                          *)
(***************************************************************************)
\* A job that has not begun has no checkpoint, and the statuses are DocumentJob's.
BegunInv ==
    /\ status \in {"accepted", "processing", "cancelled"} \cup Published
    /\ status = "accepted" => revision = NoRow

\* A step keeps BegunInv: a save needs a checkpoint, which came with the start.
LEMMA BegunStep == TypeOK /\ SafetyInv /\ BegunInv /\ [Next]_vars => BegunInv'
<1> SUFFICES ASSUME TypeOK, SafetyInv, BegunInv, [Next]_vars PROVE BegunInv'
  OBVIOUS
<1>1. CASE Quiet
  BY <1>1 DEF Quiet, BegunInv, jobVars, rowVars
<1>2. CASE Cancelled \/ Started
  BY <1>2 DEF Cancelled, Started, BegunInv
<1>3. CASE Stopped \/ Saved
  BY <1>3 DEF Stopped, Saved, BegunInv, jobVars
<1>4. CASE Committed
  BY <1>4 DEF Committed, BegunInv, Published
<1> QED  BY <1>1, <1>2, <1>3, <1>4, StoreStep

\* The pages of the result, as DocumentJob sees them: the kept ones.
LEMMA PublishedPages ==
    ASSUME TypeOK, SafetyInv
    PROVE  {row[1] : row \in artifacts} = {p \in Pages : Decision(workflow.pages[p]) = "kept"}
<1>1. ASSUME NEW row \in artifacts
      PROVE  row[1] \in Pages /\ Decision(workflow.pages[row[1]]) = "kept"
  <2>1. row[1] \in Pages /\ workflow.pages[row[1]] = Succeeded(row[2])
    BY DEF SafetyInv, RowsInv, TypeOK, Rows
  <2> QED  BY <2>1 DEF Decision, Succeeded
<1>2. ASSUME NEW p \in Pages, Decision(workflow.pages[p]) = "kept"
      PROVE  \E row \in artifacts : row[1] = p
  BY <1>2 DEF SafetyInv, RowsInv, Decision
<1> QED  BY <1>1, <1>2

\* Every step of the execution is a step of DocumentJob or none.
LEMMA RefinementStep ==
    TypeOK /\ SafetyInv /\ BegunInv /\ [Next]_vars => [Promise!Next]_(Promise!docVars)
<1> SUFFICES ASSUME TypeOK, SafetyInv, BegunInv, [Next]_vars
             PROVE  [Promise!Next]_(Promise!docVars)
  OBVIOUS
<1> USE DEF Promise!docVars
<1>1. CASE Quiet
  BY <1>1 DEF Quiet, jobVars, rowVars
<1>2. CASE Cancelled
  <2>1. Promise!Cancel
    BY <1>2 DEF Cancelled, Promise!Cancel, BegunInv, Cancellable, Published, rowVars
  <2> QED  BY <2>1 DEF Promise!Next
<1>3. CASE Started
  <2>1. CASE status = "accepted"
    BY <1>3, <2>1 DEF Started, Promise!Begin, Promise!Next
  <2>2. CASE status = "processing"
    BY <1>3, <2>2 DEF Started
  <2> QED  BY <1>3, <2>1, <2>2 DEF Started
<1>4. CASE Stopped
  <2>1. workflow'.cancelled /\ workflow'.pages = workflow.pages
    BY <1>4 DEF Stopped, RequestCancellation, TypeOK, Workflow
  <2>2. workflow'.cancelled = TRUE
    BY <1>4 DEF Stopped, RequestCancellation, TypeOK, Workflow
  <2> QED  BY <1>4, <2>1, <2>2 DEF Stopped, Promise!Stop, Promise!Next, jobVars
<1>5. CASE Saved
  <2> DEFINE before == [p \in Pages |-> Decision(workflow.pages[p])]
             after == [p \in Pages |-> Decision(workflow'.pages[p])]
  <2>1. after \in [Pages -> {"open", "kept", "lost"}]
    BY DEF Decision
  <2>2. \A p \in Pages : before[p] # "open" => after[p] = before[p]
    BY <1>5 DEF Saved, Forward, Decision, Settled
  <2>3. status # "accepted"
    BY <1>5 DEF Saved, BegunInv
  <2>4. workflow'.cancelled = workflow.cancelled
    <3>1. workflow.cancelled = FALSE
      BY <1>5 DEF Saved, TypeOK, Workflow
    <3>2. workflow'.cancelled \in BOOLEAN
      BY <1>5, TypeStep, SafetyGivesTerminal DEF TypeOK, Workflow
    <3> QED  BY <3>1, <3>2, <1>5 DEF Saved
  <2>5. Promise!Decide
    BY <1>5, <2>1, <2>2, <2>3, <2>4 DEF Saved, Promise!Decide, jobVars
  <2> QED  BY <2>5 DEF Promise!Next
<1>6. CASE Committed
  <2>1. status = "processing"
    BY <1>6 DEF Committed, BegunInv, Published
  <2>2. \A p \in Pages : Settled(workflow.pages[p])
    BY <1>6, StatusFacts DEF Committed
  <2>3. \A p \in Pages : Decision(workflow.pages[p]) # "open"
    BY <2>2 DEF Decision, Settled
  <2>4. Promise!Kept = {row[1] : row \in artifacts}
    BY PublishedPages DEF Promise!Kept
  <2>5. Promise!Kept = Pages <=> WorkflowStatus(workflow) = "Completed"
    <3>1. Promise!Kept = Pages <=> \A p \in Pages : workflow.pages[p].state = "Succeeded"
      BY DEF Promise!Kept, Decision
    <3>2. ~ workflow.cancelled
      BY <1>6, StatusFacts DEF Committed
    <3> QED  BY <3>1, <3>2 DEF WorkflowStatus
  <2>6. {row[1] : row \in result'.artifacts} = Promise!Kept
    BY <1>6, <2>4 DEF Committed
  <2>7. status' \in IF Promise!Kept = Pages THEN {"completed", "review_required"} ELSE {"partial"}
    BY <1>6, <2>5 DEF Committed
  <2>8. Promise!Publish
    BY <1>6, <2>1, <2>3, <2>6, <2>7 DEF Committed, Promise!Publish, rowVars
  <2> QED  BY <2>8 DEF Promise!Next
<1> QED  BY <1>1, <1>2, <1>3, <1>4, <1>5, <1>6, StoreStep

\* Whatever is redelivered, retried, abandoned or raced, the execution of a job
\* is one of DocumentJob: pages decided once, one outcome, the decided pages.
THEOREM Implementation == Spec => ImplementsDocumentJob
<1>1. Init => BegunInv
  BY DEF Init, BegunInv
<1>2. Init => Promise!Init
  <2> SUFFICES ASSUME Init PROVE Promise!Init
    OBVIOUS
  <2>1. \A p \in Pages : Decision(workflow.pages[p]) = "open"
    BY DEF Init, NewWorkflow, Pending, Decision, Settled
  <2>2. workflow.cancelled = FALSE /\ result.artifacts = {}
    BY DEF Init, NewWorkflow, NoResult
  <2> QED  BY <2>1, <2>2 DEF Init, Promise!Init
<1>3. Spec => []BegunInv
  BY <1>1, BegunStep, Safety, PTL DEF Spec
<1> QED
  BY <1>2, <1>3, RefinementStep, Safety, PTL DEF Spec, ImplementsDocumentJob, Promise!Spec

-----------------------------------------------------------------------------
(***************************************************************************)
(* The budget of runner iterations.                                        *)
(***************************************************************************)
\* The finished attempts of a checkpoint are finitely many, more of them when
\* every page has spent no less and one has spent more.
LEMMA SpentGrows ==
    ASSUME NEW v \in Workflow, NEW w \in Workflow,
           \A p \in Pages : Spent(v.pages[p]) <= Spent(w.pages[p])
    PROVE  /\ Cardinality(SpentBy(v)) \in Nat
           /\ Cardinality(SpentBy(w)) \in Nat
           /\ Cardinality(SpentBy(v)) <= Cardinality(SpentBy(w))
           /\ (\E p \in Pages : Spent(v.pages[p]) < Spent(w.pages[p])) =>
                 Cardinality(SpentBy(v)) < Cardinality(SpentBy(w))
<1>1. IsFiniteSet(Pages) /\ IsFiniteSet(Attempts)
  BY FS_Interval, PageWorkflowAssumption DEF Pages, Attempts
<1>2. IsFiniteSet(Pages \X Attempts)
  BY <1>1, FS_Product
<1>3. SpentBy(v) \subseteq Pages \X Attempts /\ SpentBy(w) \subseteq Pages \X Attempts
  BY DEF SpentBy
<1>4. IsFiniteSet(SpentBy(v)) /\ IsFiniteSet(SpentBy(w))
  BY <1>2, <1>3, FS_Subset
<1>5. Cardinality(SpentBy(v)) \in Nat /\ Cardinality(SpentBy(w)) \in Nat
  BY <1>4, FS_CardinalityType
<1>6. \A p \in Pages : Spent(v.pages[p]) \in 0..MaxAttempts /\ Spent(w.pages[p]) \in 0..MaxAttempts
  BY SpentType DEF Workflow
<1>7. SpentBy(v) \subseteq SpentBy(w)
  <2> SUFFICES ASSUME NEW t \in SpentBy(v) PROVE t \in SpentBy(w)
    OBVIOUS
  <2>1. t \in Pages \X Attempts /\ t[1] \in Pages /\ t[2] \in Attempts
    BY DEF SpentBy
  <2>2. t[2] <= Spent(v.pages[t[1]])
    BY DEF SpentBy
  <2>3. t[2] <= Spent(w.pages[t[1]])
    BY <2>1, <2>2, <1>6, PageWorkflowAssumption DEF Attempts
  <2> QED  BY <2>1, <2>3 DEF SpentBy
<1>8. ASSUME NEW p \in Pages, Spent(v.pages[p]) < Spent(w.pages[p])
      PROVE  SpentBy(v) # SpentBy(w)
  <2> DEFINE a == Spent(w.pages[p])
  <2>1. a \in Attempts
    BY <1>6, <1>8, PageWorkflowAssumption DEF Attempts
  <2>2. <<p, a>> \in SpentBy(w)
    BY <2>1, <1>6, PageWorkflowAssumption DEF SpentBy
  <2>3. <<p, a>> \notin SpentBy(v)
    BY <2>1, <1>6, <1>8, PageWorkflowAssumption DEF SpentBy
  <2> QED  BY <2>2, <2>3
<1>9. Cardinality(SpentBy(v)) <= Cardinality(SpentBy(w))
  BY <1>4, <1>7, FS_Subset
<1>10. SpentBy(v) # SpentBy(w) => Cardinality(SpentBy(v)) # Cardinality(SpentBy(w))
  BY <1>4, <1>7, FS_Subset
<1> QED  BY <1>5, <1>8, <1>9, <1>10

\* A running checkpoint has a page to claim: claim_ready never comes back empty
\* with work left.
LEMMA RunningIsClaimable ==
    ASSUME NEW w \in Workflow, WorkflowStatus(w) = "Running"
    PROVE  Claimable(w) # {}
<1>1. Ready(w) # {} /\ Ready(w) \subseteq Nat
  BY PageWorkflowAssumption DEF WorkflowStatus, Ready, Pages
<1>2. PICK p \in Ready(w) : \A q \in Ready(w) : ~ (<<q, p>> \in OpToRel(<, Nat))
  BY <1>1, WFMin, NatLessThanWellFounded
<1>3. \A q \in Ready(w) : ~ (q < p)
  BY <1>1, <1>2 DEF OpToRel
<1>4. {q \in Ready(w) : q < p} = {}
  BY <1>3
<1>5. Cardinality({q \in Ready(w) : q < p}) = 0
  BY <1>4, FS_EmptySet
<1>6. p \in Claimable(w)
  BY <1>5, PageWorkflowAssumption DEF Claimable
<1> QED  BY <1>6

\* A batch that is being saved has recorded a page.
SaveHasRecord(w) ==
    worker[w].pc = "save" =>
        \E p \in Pages : worker[w].task[p] # 0 /\ worker[w].wf.pages[p].state # "Running"

\* An activity that is about to report `running' has just paid for it.
ReplyIsPaid(w) ==
    current = w /\ worker[w].pc = "reply" /\ worker[w].out = "Running" => iteration <= AttemptsSpent

\* The iteration stays within the run, and ends a run when it is rolled over.
RunInv ==
    /\ run \in Nat \ {0}
    /\ iteration <= RunEnd
    /\ phase = "rollover" => iteration = RunEnd /\ current = NoWorker
    /\ phase = "rollover" => iteration <= AttemptsSpent
    /\ iteration <= AttemptsSpent + 1

BudgetInv == RunInv /\ \A w \in Workers : SaveHasRecord(w) /\ ReplyIsPaid(w)

\* Attempts are not given back.
LEMMA SpentStep ==
    ASSUME TypeOK, TypeOK', SafetyInv, [Next]_vars
    PROVE  AttemptsSpent \in Nat /\ AttemptsSpent' \in Nat /\ AttemptsSpent <= AttemptsSpent'
<1>1. workflow \in Workflow /\ workflow' \in Workflow
  BY DEF TypeOK
<1>2. ASSUME workflow'.pages = workflow.pages, NEW p \in Pages
      PROVE  Spent(workflow.pages[p]) <= Spent(workflow'.pages[p])
  BY <1>1, <1>2, ForwardSame DEF Forward, Workflow
<1>3. Stopped => workflow'.pages = workflow.pages
  BY <1>1 DEF Stopped, RequestCancellation, Workflow
<1>4. Quiet \/ Cancelled \/ Started \/ Committed => workflow'.pages = workflow.pages
  BY DEF Quiet, Cancelled, Started, Committed, rowVars
<1>5. \A p \in Pages : Spent(workflow.pages[p]) <= Spent(workflow'.pages[p])
  BY <1>2, <1>3, <1>4, StoreStep DEF Saved, Forward
<1> QED  BY <1>1, <1>5, SpentGrows DEF AttemptsSpent

\* The end of a run is a number, at least one, and grows with the run.
LEMMA RunEnds ==
    ASSUME NEW n \in Nat \ {0}
    PROVE  LET End(m) == IF m * IterationsPerRun < MaxIterations
                         THEN m * IterationsPerRun ELSE MaxIterations
           IN  /\ End(n) \in Nat \ {0}
               /\ End(n) + 1 <= MaxIterations => End(n) + 1 <= End(n + 1)
<1>1. (n + 1) * IterationsPerRun = n * IterationsPerRun + IterationsPerRun
  BY PageExecutionAssumption
<1>2. n * IterationsPerRun \in Nat \ {0}
  BY PageExecutionAssumption
<1> QED  BY <1>1, <1>2, PageExecutionAssumption

\* The end of the run is a number.
LEMMA RunEndType == RunInv => RunEnd \in Nat \ {0}
BY RunEnds DEF RunInv, RunEnd

\* A step that leaves the iteration and the run alone, and rolls nothing over.
LEMMA RunKept ==
    ASSUME TypeOK, TypeOK', SafetyInv, [Next]_vars, BudgetInv, iteration' = iteration, run' = run,
           phase' = "rollover" => phase = "rollover" /\ current' \in {current, NoWorker}
    PROVE  RunInv'
<1>1. AttemptsSpent \in Nat /\ AttemptsSpent' \in Nat /\ AttemptsSpent <= AttemptsSpent'
  BY SpentStep
<1>2. iteration \in Nat /\ RunEnd' = RunEnd /\ RunEnd \in Nat /\ RunInv
  BY RunEndType DEF TypeOK, RunEnd, BudgetInv
<1>3. run' \in Nat \ {0} /\ iteration' <= RunEnd'
  BY <1>2 DEF RunInv
<1>4. iteration' <= AttemptsSpent' + 1
  <2>1. iteration <= AttemptsSpent + 1
    BY <1>2 DEF RunInv
  <2>2. \A i, a, b \in Nat : i <= a + 1 /\ a <= b => i <= b + 1
    OBVIOUS
  <2>3. iteration <= AttemptsSpent' + 1
    BY <1>1, <1>2, <2>1, <2>2
  <2> QED  BY <2>3
<1>5. ASSUME phase' = "rollover"
      PROVE  iteration' = RunEnd' /\ current' = NoWorker /\ iteration' <= AttemptsSpent'
  <2>1. iteration = RunEnd /\ current = NoWorker /\ iteration <= AttemptsSpent
    BY <1>2, <1>5 DEF RunInv
  <2>2. iteration' <= AttemptsSpent'
    BY <1>1, <1>2, <2>1
  <2> QED  BY <1>2, <1>5, <2>1, <2>2
<1> QED  BY <1>3, <1>4, <1>5 DEF RunInv

\* A worker moves while Temporal does not.
LEMMA WorkerBudget ==
    ASSUME TypeOK, TypeOK', SafetyInv, [Next]_vars, BudgetInv, UNCHANGED temporalVars,
           NEW w \in Workers, \A v \in Workers : v # w => worker'[v] = worker[v],
           SaveHasRecord(w)', ReplyIsPaid(w)'
    PROVE  BudgetInv'
<1>1. AttemptsSpent \in Nat /\ AttemptsSpent' \in Nat /\ AttemptsSpent <= AttemptsSpent'
  BY SpentStep
<1>2. iteration \in Nat /\ UNCHANGED <<phase, iteration, run, current>>
  BY DEF TypeOK, temporalVars
<1>3. RunInv'
  BY <1>2, RunKept
<1>4. ASSUME NEW v \in Workers PROVE SaveHasRecord(v)' /\ ReplyIsPaid(v)'
  <2>1. CASE v = w
    BY <2>1
  <2>2. CASE v # w
    BY <2>2, <1>1, <1>2 DEF BudgetInv, SaveHasRecord, ReplyIsPaid
  <2> QED  BY <2>1, <2>2
<1> QED  BY <1>3, <1>4 DEF BudgetInv

\* A worker goes to a state in which it owes nothing.
LEMMA QuietBudget ==
    ASSUME TypeOK, TypeOK', SafetyInv, [Next]_vars, BudgetInv, UNCHANGED temporalVars,
           NEW w \in Workers, NEW rec, worker' = [worker EXCEPT ![w] = rec],
           rec.pc # "save", rec.pc = "reply" => rec.out # "Running"
    PROVE  BudgetInv'
<1>1. worker'[w] = rec /\ \A v \in Workers : v # w => worker'[v] = worker[v]
  BY DEF TypeOK
<1>2. SaveHasRecord(w)' /\ ReplyIsPaid(w)'
  BY <1>1 DEF SaveHasRecord, ReplyIsPaid
<1> QED  BY <1>1, <1>2, WorkerBudget

\* An activity answers anything but `running'.
LEMMA ReplyBudget ==
    ASSUME TypeOK, TypeOK', SafetyInv, [Next]_vars, BudgetInv, UNCHANGED temporalVars,
           NEW w \in Workers, NEW answer, Reply(w, answer), answer # "Running"
    PROVE  BudgetInv'
<1> DEFINE rec == [IdleWorker EXCEPT !.pc = "reply", !.out = answer]
<1>1. worker' = [worker EXCEPT ![w] = rec]
  BY DEF Reply
<1>2. rec.pc = "reply" /\ rec.out = answer
  BY DEF IdleWorker
<1> HIDE DEF rec
<1> QED  BY <1>1, <1>2, QuietBudget

\* Nothing of workers or Temporal moves.
LEMMA StillBudget ==
    ASSUME TypeOK, TypeOK', SafetyInv, [Next]_vars, BudgetInv,
           UNCHANGED <<worker, phase, iteration, run, current>>
    PROVE  BudgetInv'
<1>1. AttemptsSpent \in Nat /\ AttemptsSpent' \in Nat /\ AttemptsSpent <= AttemptsSpent'
  BY SpentStep
<1>2. iteration \in Nat
  BY DEF TypeOK
<1>3. RunInv'
  BY RunKept
<1>4. \A v \in Workers : SaveHasRecord(v)' /\ ReplyIsPaid(v)'
  BY <1>1, <1>2 DEF BudgetInv, SaveHasRecord, ReplyIsPaid
<1> QED  BY <1>3, <1>4 DEF BudgetInv

\* Temporal closes the workflow or retries the activity: it awaits nobody.
LEMMA AbandonBudget ==
    ASSUME TypeOK, TypeOK', SafetyInv, [Next]_vars, BudgetInv, current' = NoWorker,
           UNCHANGED <<phase, iteration, run>>,
           \A v \in Workers : worker'[v] = worker[v] \/ worker'[v].pc # "save"
    PROVE  BudgetInv'
<1>1. AttemptsSpent \in Nat /\ AttemptsSpent' \in Nat /\ AttemptsSpent <= AttemptsSpent'
  BY SpentStep
<1>2. iteration \in Nat
  BY DEF TypeOK
<1>3. RunInv'
  BY RunKept
<1>4. \A v \in Workers : SaveHasRecord(v)' /\ ReplyIsPaid(v)'
  BY PageExecutionAssumption DEF BudgetInv, SaveHasRecord, ReplyIsPaid
<1> QED  BY <1>3, <1>4 DEF BudgetInv

\* The answer `running' starts the next iteration or ends the run; any other
\* answer starts none.
LEMMA FinishBudget ==
    ASSUME TypeOK, TypeOK', SafetyInv, [Next]_vars, BudgetInv, NEW w \in Workers, FinishActivity(w)
    PROVE  BudgetInv'
<1>1. worker' = [worker EXCEPT ![w] = IdleWorker]
  BY DEF FinishActivity
<1>2. IdleWorker.pc = "idle"
  BY DEF IdleWorker
<1>3. \A v \in Workers : worker'[v] = worker[v] \/ worker'[v].pc # "save"
  BY <1>1, <1>2 DEF TypeOK
<1>4. CASE current # w
  BY <1>1, <1>2, <1>4, QuietBudget DEF FinishActivity
<1>5. CASE current = w /\ worker[w].out = "Running"
  <2>1. AttemptsSpent \in Nat /\ AttemptsSpent' = AttemptsSpent
    BY SpentStep DEF FinishActivity, rowVars, AttemptsSpent, SpentBy
  <2>2. iteration \in Nat /\ iteration <= AttemptsSpent /\ iteration <= RunEnd
    BY <1>5 DEF BudgetInv, RunInv, ReplyIsPaid, FinishActivity, TypeOK
  <2>3. \/ iteration < RunEnd /\ NextActivity("pages", iteration + 1)
        \/ ~ (iteration < RunEnd) /\ NextActivity("rollover", iteration)
    BY <1>5 DEF FinishActivity, TakeAnswer, Retryable, NotRetryable
  <2>4. RunEnd \in Nat \ {0} /\ run \in Nat \ {0}
    BY RunEnds DEF BudgetInv, RunInv, RunEnd
  <2>5. run' = run /\ current' = NoWorker /\ RunEnd' = RunEnd
    BY <2>3 DEF NextActivity, RunEnd
  <2>6. RunInv'
    <3>1. CASE iteration < RunEnd /\ NextActivity("pages", iteration + 1)
      BY <3>1, <2>1, <2>2, <2>4, <2>5 DEF RunInv, NextActivity
    <3>2. CASE ~ (iteration < RunEnd) /\ NextActivity("rollover", iteration)
      BY <3>2, <2>1, <2>2, <2>4, <2>5 DEF RunInv, NextActivity
    <3> QED  BY <2>3, <3>1, <3>2
  <2>7. \A v \in Workers : SaveHasRecord(v)' /\ ReplyIsPaid(v)'
    BY <1>3, <2>5, PageExecutionAssumption DEF BudgetInv, SaveHasRecord, ReplyIsPaid
  <2> QED  BY <2>6, <2>7 DEF BudgetInv
<1>6. CASE current = w /\ worker[w].out # "Running"
  <2>1. \/ NextActivity("finalize", iteration) \/ Close("completed") \/ Close("failed")
        \/ RetryActivity
    BY <1>6 DEF FinishActivity, TakeAnswer
  <2>2. CASE NextActivity("finalize", iteration)
    <3>1. /\ phase' = "finalize" /\ current' = NoWorker
          /\ UNCHANGED <<iteration, run>>
      BY <2>2 DEF NextActivity
    <3>3. RunInv'
      BY <3>1, RunKept
    <3>4. \A v \in Workers : SaveHasRecord(v)' /\ ReplyIsPaid(v)'
      BY <1>3, <3>1, PageExecutionAssumption DEF BudgetInv, SaveHasRecord, ReplyIsPaid
    <3> QED  BY <3>3, <3>4 DEF BudgetInv
  <2>3. CASE Close("completed") \/ Close("failed") \/ RetryActivity
    BY <2>3, <1>3, AbandonBudget DEF Close, RetryActivity
  <2> QED  BY <2>1, <2>2, <2>3
<1> QED  BY <1>4, <1>5, <1>6

\* continue_as_new starts the next run at the next iteration.
LEMMA ContinueBudget ==
    ASSUME TypeOK, TypeOK', SafetyInv, [Next]_vars, BudgetInv, ContinueAsNew
    PROVE  BudgetInv'
<1>1. phase = "rollover" /\ UNCHANGED <<worker, rowVars>>
  BY DEF ContinueAsNew
<1>2. CASE RunEnd + 1 <= MaxIterations
  <2>1. /\ run' = run + 1 /\ iteration' = RunEnd + 1 /\ phase' = "pages"
        /\ current' = current
    BY <1>2 DEF ContinueAsNew
  <2>2. run \in Nat \ {0} /\ iteration = RunEnd /\ iteration <= AttemptsSpent /\ current = NoWorker
    BY <1>1 DEF BudgetInv, RunInv
  <2>3. RunEnd + 1 <= RunEnd' /\ RunEnd \in Nat
    BY <1>2, <2>1, <2>2, RunEnds DEF RunEnd
  <2>4. AttemptsSpent \in Nat /\ AttemptsSpent' = AttemptsSpent
    BY <1>1, SpentStep DEF rowVars, AttemptsSpent, SpentBy
  <2>5. RunInv'
    BY <2>1, <2>2, <2>3, <2>4 DEF RunInv
  <2>6. \A v \in Workers : SaveHasRecord(v)' /\ ReplyIsPaid(v)'
    BY <1>1, <2>1, <2>2, PageExecutionAssumption DEF BudgetInv, SaveHasRecord, ReplyIsPaid
  <2> QED  BY <2>5, <2>6 DEF BudgetInv
<1>3. CASE ~ (RunEnd + 1 <= MaxIterations)
  BY <1>1, <1>3, AbandonBudget DEF ContinueAsNew, Close
<1> QED  BY <1>2, <1>3

\* An activity starts on an idle worker.
LEMMA StartBudget ==
    ASSUME TypeOK, TypeOK', SafetyInv, [Next]_vars, BudgetInv, NEW w \in Workers, StartActivity(w)
    PROVE  BudgetInv'
<1>1. /\ UNCHANGED <<phase, iteration, run>> /\ phase # "rollover"
      /\ worker'[w].pc \in {"load", "finalize"}
      /\ \A v \in Workers : v # w => worker'[v] = worker[v]
      /\ current' = w
  BY DEF StartActivity, TypeOK, WorkerRecord
<1>3. RunInv'
  BY <1>1, RunKept
<1>4. \A v \in Workers : SaveHasRecord(v)' /\ ReplyIsPaid(v)'
  BY <1>1 DEF BudgetInv, SaveHasRecord, ReplyIsPaid
<1> QED  BY <1>3, <1>4 DEF BudgetInv

\* A page of the batch is done: if it was the last, it is the record of the save.
LEMMA PageBudget ==
    ASSUME TypeOK, TypeOK', SafetyInv, [Next]_vars, BudgetInv, UNCHANGED temporalVars,
           NEW w \in Workers, NEW p \in Pages, NEW rec,
           worker' = [worker EXCEPT ![w] = rec], rec.pc # "reply",
           worker[w].task[p] # 0, rec.task = worker[w].task, rec.wf.pages[p].state # "Running"
    PROVE  BudgetInv'
<1>1. worker'[w] = rec /\ \A v \in Workers : v # w => worker'[v] = worker[v]
  BY DEF TypeOK
<1>2. SaveHasRecord(w)' /\ ReplyIsPaid(w)'
  BY <1>1 DEF SaveHasRecord, ReplyIsPaid
<1> QED  BY <1>1, <1>2, WorkerBudget

\* A page that is recorded is not running any more.
LEMMA RecordedPageBudget ==
    ASSUME TypeOK, TypeOK', SafetyInv, [Next]_vars, BudgetInv, NEW w \in Workers, NEW p \in Pages,
           \/ \E content \in Contents : RecognizePage(w, p, content)
           \/ \E failure \in ProviderFailures : FailPage(w, p, failure)
    PROVE  BudgetInv'
<1> DEFINE me == worker[w]
           attempt == me.task[p]
           next == worker'[w]
<1>1. me \in WorkerRecord /\ me.wf \in Workflow /\ me.wf.pages \in [Pages -> PageProgress]
  BY DEF TypeOK, WorkerRecord, Workflow
<1>2. attempt # 0 /\ UNCHANGED temporalVars
  BY DEF RecognizePage, FailPage, Unprocessed
<1>3. worker' = [worker EXCEPT ![w] = next]
  BY DEF RecognizePage, FailPage, TypeOK
<1> DEFINE Records == {RecordSuccess(me.wf, p, attempt), RecordPermanentFailure(me.wf, p, attempt),
                       RecordRetryableFailure(me.wf, p, attempt)}
<1>4. next.wf \in Records /\ next.task = me.task /\ next.pc # "reply"
  <2> HIDE DEF Records
  <2>1. ASSUME NEW wf \in Records
        PROVE  LET after == AfterPage(w, p, wf)
               IN  after.wf \in Records /\ after.task = me.task /\ after.pc # "reply"
    BY <1>1, <2>1 DEF AfterPage, WorkerRecord
  <2>2. ASSUME NEW wf \in Records, NEW content
        PROVE  LET after == [AfterPage(w, p, wf) EXCEPT !.found = @ \cup {content}]
               IN  after.wf \in Records /\ after.task = me.task /\ after.pc # "reply"
    BY <1>1, <2>2 DEF AfterPage, WorkerRecord
  <2>3. ASSUME NEW wf \in Records, NEW limit
        PROVE  LET after == [AfterPage(w, p, wf) EXCEPT !.limited = @ \/ limit]
               IN  after.wf \in Records /\ after.task = me.task /\ after.pc # "reply"
    BY <1>1, <2>3 DEF AfterPage, WorkerRecord
  <2>4. /\ RecordSuccess(me.wf, p, attempt) \in Records
        /\ RecordPermanentFailure(me.wf, p, attempt) \in Records
        /\ RecordRetryableFailure(me.wf, p, attempt) \in Records
    BY DEF Records
  <2>5. ASSUME NEW content \in Contents, RecognizePage(w, p, content) PROVE next.wf \in Records /\ next.task = me.task /\ next.pc # "reply"
    BY <2>1, <2>2, <2>4, <2>5 DEF RecognizePage, TypeOK
  <2>6. ASSUME NEW failure \in ProviderFailures, FailPage(w, p, failure) PROVE next.wf \in Records /\ next.task = me.task /\ next.pc # "reply"
    BY <2>1, <2>3, <2>4, <2>6 DEF FailPage, TypeOK
  <2> QED  BY <2>5, <2>6
<1>5. next.wf.pages[p].state # "Running"
  BY <1>1, <1>4 DEF RecordSuccess, RecordPermanentFailure, RecordRetryableFailure, Workflow,
     Succeeded, PermanentlyFailed, Exhausted, Pending
<1> HIDE DEF next
<1> QED  BY <1>2, <1>3, <1>4, <1>5, PageBudget

\* The outcomes of a batch are saved: an answer `running' has spent an attempt.
LEMMA SaveOutcomesBudget ==
    ASSUME TypeOK, TypeOK', SafetyInv, [Next]_vars, BudgetInv, NEW w \in Workers, SaveOutcomes(w)
    PROVE  BudgetInv'
<1> DEFINE me == worker[w]
<1>u. UNCHANGED temporalVars
  BY DEF SaveOutcomes
<1>1. CASE revision # me.rev
  <2>1. Reply(w, "RevisionConflict")
    BY <1>1 DEF SaveOutcomes
  <2> QED  BY <1>u, <2>1, ReplyBudget
<1>2. CASE revision = me.rev
  <2>1. PICK p \in Pages : me.task[p] # 0 /\ me.wf.pages[p].state # "Running"
    BY DEF SaveOutcomes, BudgetInv, SaveHasRecord
  <2>2. workflow.pages[p] = Running(me.task[p]) /\ Recorded(me.wf.pages[p], me.task[p])
    BY <1>2, <2>1 DEF SaveOutcomes, SafetyInv, WorkerInv, RunnerInv, DurableClaim, ActiveTask, BatchInv
  <2>3. workflow' = me.wf /\ workflow \in Workflow /\ workflow' \in Workflow
    BY <1>2 DEF SaveOutcomes, SavePageWorkflow, TypeOK
  <2>4. Spent(workflow.pages[p]) < Spent(workflow'.pages[p])
    BY <2>1, <2>2, <2>3, TaskType, RecordedForward
  <2>5. \A q \in Pages : Spent(workflow.pages[q]) <= Spent(workflow'.pages[q])
    <3>1. CASE Saved
      BY <3>1 DEF Saved, Forward
    <3>2. CASE Quiet
      BY <3>2, <2>3, ForwardSame DEF Quiet, rowVars, Forward, Workflow
    <3> QED  BY <3>1, <3>2, SaveOutcomesStep
  <2>6. /\ AttemptsSpent \in Nat /\ AttemptsSpent' \in Nat
        /\ AttemptsSpent < AttemptsSpent'
    BY <2>3, <2>4, <2>5, SpentGrows DEF AttemptsSpent
  <2>7. iteration' = iteration /\ iteration \in Nat /\ iteration <= AttemptsSpent + 1
    BY <1>u DEF temporalVars, TypeOK, BudgetInv, RunInv
  <2>8. iteration' <= AttemptsSpent'
    <3>1. \A i, a, b \in Nat : i <= a + 1 /\ a < b => i <= b
      OBVIOUS
    <3> QED  BY <2>6, <2>7, <3>1
  <2>9. /\ \A v \in Workers : v # w => worker'[v] = worker[v]
        /\ worker'[w].pc = "reply"
    BY DEF SaveOutcomes, Reply, IdleWorker, TypeOK
  <2>10. SaveHasRecord(w)' /\ ReplyIsPaid(w)'
    BY <2>8, <2>9 DEF SaveHasRecord, ReplyIsPaid
  <2> QED  BY <1>u, <2>9, <2>10, WorkerBudget
<1> QED  BY <1>1, <1>2

\* The other steps of an activity answer nothing that has to be paid for.
LEMMA ClaimBudget ==
    ASSUME TypeOK, TypeOK', SafetyInv, [Next]_vars, BudgetInv, NEW w \in Workers,
           LoadAndClaim(w) \/ SaveClaim(w)
    PROVE  BudgetInv'
<1>u. UNCHANGED temporalVars
  BY DEF LoadAndClaim, SaveClaim
<1>1. CASE LoadAndClaim(w)
  <2>1. CASE revision = NoRow
    BY <1>1, <1>u, <2>1, ReplyBudget DEF LoadAndClaim
  <2>2. CASE revision # NoRow /\ Claimable(workflow) = {}
    <3>1. WorkflowStatus(workflow) # "Running"
      BY <2>2, RunningIsClaimable DEF TypeOK
    <3> QED  BY <1>1, <1>u, <2>2, <3>1, ReplyBudget DEF LoadAndClaim
  <2>3. CASE revision # NoRow /\ Claimable(workflow) # {}
    <3> DEFINE rec == [IdleWorker EXCEPT !.pc = "claim", !.rev = revision,
                                 !.wf = ClaimReady(workflow),
                                 !.task = ClaimedTasks(workflow)]
    <3>1. worker' = [worker EXCEPT ![w] = rec]
      BY <1>1, <2>3 DEF LoadAndClaim
    <3>2. rec.pc = "claim"
      BY DEF IdleWorker
    <3> HIDE DEF rec
    <3> QED  BY <1>u, <3>1, <3>2, QuietBudget
  <2> QED  BY <2>1, <2>2, <2>3
<1>2. CASE SaveClaim(w)
  <2>1. CASE revision # worker[w].rev
    BY <1>2, <1>u, <2>1, ReplyBudget DEF SaveClaim
  <2>2. CASE revision = worker[w].rev
    <3> DEFINE rec == [worker[w] EXCEPT !.pc = "process", !.rev = @ + 1]
    <3>1. worker' = [worker EXCEPT ![w] = rec]
      BY <1>2, <2>2 DEF SaveClaim, TypeOK
    <3>2. rec.pc = "process"
      BY DEF TypeOK, WorkerRecord
    <3> HIDE DEF rec
    <3> QED  BY <1>u, <3>1, <3>2, QuietBudget
  <2> QED  BY <2>1, <2>2
<1> QED  BY <1>1, <1>2

\* Finalization never answers `running'.
LEMMA FinalizeBudget ==
    ASSUME TypeOK, TypeOK', SafetyInv, [Next]_vars, BudgetInv, NEW w \in Workers,
           LoadForFinalize(w) \/ CollectArtifacts(w) \/ PublishResult(w)
    PROVE  BudgetInv'
<1>u. UNCHANGED temporalVars
  BY DEF LoadForFinalize, CollectArtifacts, PublishResult
<1>1. ASSUME NEW answer, Reply(w, answer), answer # "Running" PROVE BudgetInv'
  BY <1>1, <1>u, ReplyBudget
<1>2. CASE LoadForFinalize(w)
  <2> DEFINE rec == [IdleWorker EXCEPT !.pc = "collect", !.rev = revision, !.wf = workflow]
  <2>1. rec.pc = "collect"
    BY DEF IdleWorker
  <2> HIDE DEF rec
  <2>2. \/ worker' = [worker EXCEPT ![w] = rec]
        \/ Reply(w, "Done") \/ Reply(w, "DependencyUnavailable") \/ Reply(w, "ScopeNotFound")
    BY <1>2 DEF LoadForFinalize, rec
  <2>3. ASSUME worker' = [worker EXCEPT ![w] = rec] PROVE BudgetInv'
    BY <1>u, <2>1, <2>3, QuietBudget
  <2> QED  BY <1>1, <2>2, <2>3
<1>3. CASE CollectArtifacts(w)
  <2> DEFINE out == IF WorkflowStatus(worker[w].wf) = "Partial" THEN "partial"
                    ELSE IF {row[3] : row \in artifacts} \cap Flagged # {}
                    THEN "review_required" ELSE "completed"
             rec == [worker[w] EXCEPT !.pc = "publish", !.found = artifacts, !.out = out]
  <2>1. \/ Reply(w, "DependencyUnavailable") \/ Reply(w, "InvalidInput")
        \/ worker' = [worker EXCEPT ![w] = rec]
    BY <1>3 DEF CollectArtifacts
  <2> HIDE DEF out
  <2>3. rec.pc = "publish"
    BY DEF TypeOK, WorkerRecord
  <2> HIDE DEF rec
  <2>2. ASSUME worker' = [worker EXCEPT ![w] = rec] PROVE BudgetInv'
    BY <1>u, <2>2, <2>3, QuietBudget
  <2> QED  BY <1>1, <2>1, <2>2
<1>4. CASE PublishResult(w)
  BY <1>1, <1>4 DEF PublishResult, CommitOutcome
<1> QED  BY <1>2, <1>3, <1>4

\* Temporal's own steps and the faults.
LEMMA TemporalBudget ==
    ASSUME TypeOK, TypeOK', SafetyInv, [Next]_vars, BudgetInv, TemporalStep \/ Fault
    PROVE  BudgetInv'
<1>1. RetryActivity => current' = NoWorker /\ UNCHANGED <<phase, iteration, run>>
  BY DEF RetryActivity, Close
<1>2. ASSUME NEW w \in Workers, ActivityLost(w) \/ ActivityTimeout(w) PROVE BudgetInv'
  BY <1>1, <1>2, AbandonBudget DEF ActivityLost, ActivityTimeout
<1>3. IdleWorker.pc = "idle"
  BY DEF IdleWorker
<1>4. ASSUME NEW w \in Workers, ActivityCancelled(w) PROVE BudgetInv'
  BY <1>3, <1>4, AbandonBudget DEF ActivityCancelled, Close, TypeOK
<1>5. ASSUME NEW w \in Workers, WorkerCrash(w) PROVE BudgetInv'
  BY <1>3, <1>5, QuietBudget DEF WorkerCrash
<1>6. ASSUME NEW w \in Workers, StoreUnavailable(w) PROVE BudgetInv'
  BY <1>6, ReplyBudget DEF StoreUnavailable
<1>7. ASSUME NEW r \in Relays, RelayStops(r) PROVE BudgetInv'
  BY <1>7, StillBudget DEF RelayStops, temporalVars
<1> QED
  BY <1>2, <1>4, <1>5, <1>6, <1>7, ContinueBudget, StartBudget DEF TemporalStep, Fault

\* A relay and a client touch neither the workers nor the iterations.
LEMMA RelayBudget ==
    ASSUME TypeOK, TypeOK', SafetyInv, [Next]_vars, BudgetInv,
           CancelJob \/ UNCHANGED vars \/ \E r \in Relays : RelayStep(r)
    PROVE  BudgetInv'
<1>1. ASSUME NEW r \in Relays, RelayStep(r)
      PROVE  UNCHANGED <<worker, phase, iteration, run, current>>
  BY <1>1 DEF RelayStep, ClaimEvent, CreateCheckpoint, StartWorkflow, LoadForCancel, CreateCancelled,
     SaveCancelled, CompleteCancellation, CancelWorkflow, PublishEvent, temporalVars
<1>2. CancelJob \/ UNCHANGED vars => UNCHANGED <<worker, phase, iteration, run, current>>
  BY DEF CancelJob, vars, temporalVars
<1> QED  BY <1>1, <1>2, StillBudget

\* A step keeps the budget.
LEMMA BudgetStep ==
    ASSUME TypeOK, TypeOK', SafetyInv, [Next]_vars, BudgetInv
    PROVE  BudgetInv'
<1>1. ASSUME NEW w \in Workers, WorkerStep(w) PROVE BudgetInv'
  <2>1. ASSUME NEW p \in Pages, NEW content \in Contents, RecognizePage(w, p, content)
        PROVE  BudgetInv'
    BY <2>1, RecordedPageBudget
  <2>2. ASSUME NEW p \in Pages, NEW failure \in ProviderFailures, FailPage(w, p, failure)
        PROVE  BudgetInv'
    BY <2>2, RecordedPageBudget
  <2> QED
    BY <1>1, <2>1, <2>2, ClaimBudget, SaveOutcomesBudget, FinalizeBudget, FinishBudget DEF WorkerStep
<1> QED  BY <1>1, TemporalBudget, RelayBudget DEF Next

\* Whatever is retried, lost or redelivered, an iteration beyond the first has
\* been paid for by a finished attempt of a page.
THEOREM IterationsPaid == Spec => []IterationsArePaidFor
<1>1. Init /\ TypeOK => BudgetInv
  <2> SUFFICES ASSUME Init, TypeOK PROVE BudgetInv
    OBVIOUS
  <2>1. run = 1 /\ iteration = 1 /\ phase = "pages"
    BY DEF Init
  <2>2. RunEnd \in Nat \ {0}
    BY <2>1, RunEnds DEF RunEnd
  <2>3. AttemptsSpent \in Nat
    <3>1. workflow \in Workflow
      BY DEF TypeOK
    <3>2. \A p \in Pages : Spent(workflow.pages[p]) <= Spent(workflow.pages[p])
      BY <3>1, ForwardSame DEF Forward, Workflow
    <3> QED  BY <3>1, <3>2, SpentGrows DEF AttemptsSpent
  <2>4. RunInv
    BY <2>1, <2>2, <2>3 DEF RunInv
  <2>5. \A w \in Workers : worker[w].pc = "idle"
    BY DEF Init, IdleWorker
  <2> QED  BY <2>4, <2>5 DEF BudgetInv, SaveHasRecord, ReplyIsPaid
<1>2. TypeOK /\ SafetyInv /\ BudgetInv /\ TypeOK' /\ [Next]_vars => BudgetInv'
  BY BudgetStep
<1>3. BudgetInv => IterationsArePaidFor
  BY DEF BudgetInv, RunInv, ReplyIsPaid, IterationsArePaidFor
<1> QED  BY Safety, <1>1, <1>2, <1>3, PTL DEF Spec
=============================================================================
