---------------------------- MODULE PageWorkflow ----------------------------
(***************************************************************************)
(* The page checkpoint of one job: PageWorkflow in                         *)
(* crates/ocr-domain/src/page_workflow.rs.  It is a value, not a process:  *)
(* the store keeps one revisioned copy of it, and every runner works on a  *)
(* private copy that it writes back with a compare-and-set on the revision *)
(* (module PageExecution).                                                 *)
(*                                                                         *)
(* A page's progress is a record [state, n].  n is the field the Rust      *)
(* variant carries: failures for Pending, the attempt for the others.      *)
(***************************************************************************)
EXTENDS Integers, FiniteSets

CONSTANTS
    PageCount,     \* pages of the document, 1..MAXIMUM_PAGE_COUNT
    MaxAttempts,   \* max_attempts of the checkpoint, 1..MAXIMUM_PAGE_ATTEMPTS
    BatchSize      \* batch_size of the runner, 1..64

ASSUME PageWorkflowAssumption ==
    /\ PageCount \in Nat \ {0}
    /\ MaxAttempts \in Nat \ {0}
    /\ BatchSize \in Nat \ {0}

Pages == 1..PageCount
Attempts == 1..MaxAttempts

Pending(failures) == [state |-> "Pending", n |-> failures]
Running(attempt) == [state |-> "Running", n |-> attempt]
Succeeded(attempt) == [state |-> "Succeeded", n |-> attempt]
Exhausted(attempts) == [state |-> "Exhausted", n |-> attempts]
PermanentlyFailed(attempt) == [state |-> "PermanentlyFailed", n |-> attempt]

(***************************************************************************)
(* The values TryFrom<RawPageWorkflow> accepts: what a stored checkpoint   *)
(* must look like for any later load to succeed.                           *)
(***************************************************************************)
PageProgress ==
    [state : {"Pending"}, n : 0..(MaxAttempts - 1)]
      \cup [state : {"Running", "Succeeded", "PermanentlyFailed"}, n : Attempts]
      \cup [state : {"Exhausted"}, n : {MaxAttempts}]

Workflow == [pages : [Pages -> PageProgress], cancelled : BOOLEAN]

NewWorkflow == [pages |-> [p \in Pages |-> Pending(0)], cancelled |-> FALSE]

(***************************************************************************)
(* A page is settled when no attempt of it will ever run again.            *)
(***************************************************************************)
Settled(progress) ==
    progress.state \in {"Succeeded", "Exhausted", "PermanentlyFailed"}

WorkflowStatus(w) ==
    IF w.cancelled THEN "Cancelled"
    ELSE IF \A p \in Pages : w.pages[p].state = "Succeeded" THEN "Completed"
    ELSE IF \A p \in Pages : Settled(w.pages[p]) THEN "Partial"
    ELSE "Running"

(***************************************************************************)
(* claim_ready: the first BatchSize unsettled pages, in page order.  A     *)
(* Running page is handed out again under its current attempt, a Pending   *)
(* one starts its next attempt.  A task list is a function from pages to   *)
(* attempts with 0 for the pages that are not in it.                       *)
(***************************************************************************)
\* Mutant: a cancelled workflow still hands out pages.
ReadyIgnoringCancel(w) == {p \in Pages : ~ Settled(w.pages[p])}

Ready(w) == IF w.cancelled THEN {} ELSE {p \in Pages : ~ Settled(w.pages[p])}

Claimable(w) ==
    {p \in Ready(w) : Cardinality({q \in Ready(w) : q < p}) < BatchSize}

ClaimReady(w) ==
    [w EXCEPT !.pages =
        [p \in Pages |->
            IF p \in Claimable(w) /\ w.pages[p].state = "Pending"
            THEN Running(w.pages[p].n + 1)
            ELSE w.pages[p]]]

ClaimedTasks(w) ==
    [p \in Pages |-> IF p \in Claimable(w) THEN ClaimReady(w).pages[p].n ELSE 0]

NoTasks == [p \in Pages |-> 0]

(***************************************************************************)
(* active_progress: a task may be recorded only while its own attempt is   *)
(* the running one and the workflow is not cancelled.                      *)
(***************************************************************************)
ActiveTask(w, p, attempt) == ~ w.cancelled /\ w.pages[p] = Running(attempt)

RecordSuccess(w, p, attempt) == [w EXCEPT !.pages[p] = Succeeded(attempt)]

\* Mutant: the last attempt is not told from the others.
RecordFailureUnbounded(w, p, attempt) == [w EXCEPT !.pages[p] = Pending(attempt)]

RecordRetryableFailure(w, p, attempt) ==
    [w EXCEPT !.pages[p] =
        IF attempt = MaxAttempts THEN Exhausted(attempt) ELSE Pending(attempt)]

RecordPermanentFailure(w, p, attempt) ==
    [w EXCEPT !.pages[p] = PermanentlyFailed(attempt)]

RequestCancellation(w) == [w EXCEPT !.cancelled = TRUE]

(***************************************************************************)
(* The position of a page on its way through Pending(0), Running(1),       *)
(* Pending(1), Running(2), ..., settled.                                   *)
(***************************************************************************)
Rank(progress) ==
    CASE progress.state = "Pending" -> 2 * progress.n
      [] progress.state = "Running" -> 2 * progress.n - 1
      [] OTHER -> 2 * MaxAttempts
=============================================================================
