---------------------------- MODULE NativePages ----------------------------
(***************************************************************************)
(* Native recognition of pages, from the page tasks of the execution       *)
(* workers down to the canonical rows:                                     *)
(*                                                                         *)
(*   entries  NativeDocumentCache, the bounded list of documents of each   *)
(*            worker process, least recently used first                    *)
(*   cell     the OnceCell a task shares with the others of its document   *)
(*   native   ocr_native_documents with its pages, per job                 *)
(*   final    executions of DocumentFinalizer with native processing       *)
(*                                                                         *)
(* A task is one call of NativePageRecognizer::recognize within one of     *)
(* HybridPageRecognizer; it may be the execution of an activity Temporal   *)
(* has given up.  A cell is named after the task that created it.  Strong  *)
(* counts are counts of the tasks that hold a reference.  The future of a  *)
(* task is dropped by its 75 second timeout wherever it stands.            *)
(***************************************************************************)
EXTENDS PageCalls

CONSTANTS
    Tasks,          \* page tasks
    Processes,      \* execution workers
    Jobs,           \* one document each
    JobOf,          \* the job of each task
    ProcessOf,      \* the process of each task
    Photos,         \* the tasks whose page has no text layer
    Finals,         \* executions of the finalizer
    FinalOf,        \* the job of each
    Sources,        \* what an accepted source may turn out to be
    Answers,        \* what Document AI may answer
    NoTask,
    Capacity,       \* 2
    MaxFaults       \* bound on failed calls and dropped futures

ASSUME NativePagesAssumption ==
    /\ IsFiniteSet(Tasks)
    /\ NoTask \notin Tasks
    /\ {"none", "managed"} \cap Processes = {}
    /\ JobOf \in [Tasks -> Jobs]
    /\ ProcessOf \in [Tasks -> Processes]
    /\ FinalOf \in [Finals -> Jobs]
    /\ Capacity \in Nat \ {0}
    /\ MaxFaults \in Nat

VARIABLES
    task,           \* control of each task and the cell it holds
    answer,         \* what it returned: a version, or "managed"
    entries,        \* for each process, a sequence of [job, cell]
    value,          \* the version in each cell, "none" while it is empty
    native,         \* the version stored for each job, "none" without rows
    result,         \* how each job's published result was assembled
    final,          \* control of each finalizer, and its assembly
    late,           \* jobs whose rows were written after their publication
    faults

vars == <<task, answer, entries, value, native, result, final, late, faults>>

\* The version a task extracts: workers of two releases may differ.
Version(t) == ProcessOf[t]
Versions == Processes

Idle == [pc |-> "idle", cell |-> NoTask]

Init ==
    /\ task = [t \in Tasks |-> Idle]
    /\ answer = [t \in Tasks |-> "none"]
    /\ entries = [p \in Processes |-> <<>>]
    /\ value = [t \in Tasks |-> "none"]
    /\ native = [j \in Jobs |-> "none"]
    /\ result = [j \in Jobs |-> "none"]
    /\ final = [f \in Finals |-> [pc |-> "idle", kind |-> "none"]]
    /\ late = {}
    /\ faults = 0

rowVars == <<native, late>>
finalVars == <<result, final>>

Fault == faults < MaxFaults /\ faults' = faults + 1

-----------------------------------------------------------------------------
(***************************************************************************)
(* References.                                                             *)
(***************************************************************************)
Initialising == {"stored", "save"}
Leasing == {"lease", "failed"} \cup Initialising

\* The tasks with a clone of the cell, and with a clone of the pages in it.
Lessees(c) == {t \in Tasks : task[t].cell = c /\ task[t].pc \in Leasing}
Readers(c) == {t \in Tasks : task[t].cell = c /\ task[t].pc = "read"}

Mine(p) == {t \in Tasks : ProcessOf[t] = p}
IndexOf(p, j) == {i \in DOMAIN entries[p] : entries[p][i].job = j}

\* Mutant: a document that is being read may be evicted.
EvictableWhileRead(p) == {i \in DOMAIN entries[p] : Lessees(entries[p][i].cell) = {}}

\* Mutant: a document that is being extracted may be evicted.
EvictableWhileEmpty(p) == {i \in DOMAIN entries[p] : Readers(entries[p][i].cell) = {}}

Evictable(p) ==
    {i \in DOMAIN entries[p] :
        Lessees(entries[p][i].cell) = {} /\ Readers(entries[p][i].cell) = {}}

Without(seq, i) == SubSeq(seq, 1, i - 1) \o SubSeq(seq, i + 1, Len(seq))
First(indices) == CHOOSE i \in indices : \A k \in indices : i <= k

\* task moves to a state, and the drop of a lease or of a document signals every
\* waiter of the process (AvailabilitySignal).
Move(t, label, c) == task' = [task EXCEPT ![t] = [pc |-> label, cell |-> c]]
Goto(t, label) == Move(t, label, task[t].cell)

\* Mutant: only a document that was read signals, not a lease that failed.
LeaveQuietly(t, label, c) ==
    task' = [u \in Tasks |->
        IF u = t THEN [pc |-> label, cell |-> c]
        ELSE IF task[u].pc = "wait" /\ ProcessOf[u] = ProcessOf[t] /\ task[t].pc = "read"
        THEN [task[u] EXCEPT !.pc = "check"]
        ELSE task[u]]

Leave(t, label, c) ==
    task' = [u \in Tasks |->
        IF u = t THEN [pc |-> label, cell |-> c]
        ELSE IF task[u].pc = "wait" /\ ProcessOf[u] = ProcessOf[t]
        THEN [task[u] EXCEPT !.pc = "check"]
        ELSE task[u]]

-----------------------------------------------------------------------------
(***************************************************************************)
(* recognize.                                                              *)
(***************************************************************************)
\* HybridPageRecognizer: a page without text goes on to Document AI.
AfterNative(t) == IF t \in Photos THEN "managed" ELSE "done"

\* A task begins with load_native_page.
LoadNativePage(t) ==
    LET v == native[JobOf[t]] IN
    /\ task[t].pc = "idle"
    /\ IF v = "none"
       THEN Goto(t, "check") /\ UNCHANGED answer
       ELSE Goto(t, AfterNative(t)) /\ answer' = [answer EXCEPT ![t] = v]
    /\ UNCHANGED <<entries, value, rowVars, finalVars, faults>>

\* One turn of the loop of NativeDocumentCache::load, under the lock.  Its
\* waiter was enabled before, so no signal is missed between check and wait.
CheckCache(t) ==
    LET p == ProcessOf[t]
        here == IndexOf(p, JobOf[t])
        new == [job |-> JobOf[t], cell |-> t]
    IN
    /\ task[t].pc = "check"
    /\ IF here # {}
       THEN LET i == First(here) IN
            /\ entries' = [entries EXCEPT ![p] = Append(Without(@, i), @[i])]
            /\ Move(t, "lease", entries[p][i].cell)
       ELSE IF Len(entries[p]) < Capacity
       THEN /\ entries' = [entries EXCEPT ![p] = Append(@, new)]
            /\ Move(t, "lease", t)
       ELSE IF Evictable(p) # {}
       THEN /\ entries' = [entries EXCEPT ![p] = Append(Without(@, First(Evictable(p))), new)]
            /\ Move(t, "lease", t)
       ELSE /\ Goto(t, "wait")
            /\ UNCHANGED entries
    /\ UNCHANGED <<answer, value, rowVars, finalVars, faults>>

\* get_or_try_init: the value, or the one permit to compute it.
EnterCell(t) ==
    LET c == task[t].cell IN
    /\ task[t].pc = "lease"
    /\ \/ value[c] # "none" /\ Leave(t, "read", c)
       \/ /\ value[c] = "none"
          /\ \A u \in Lessees(c) : task[u].pc \notin Initialising
          /\ Goto(t, "stored")
    /\ UNCHANGED <<answer, entries, value, rowVars, finalVars, faults>>

Fill(t, v) ==
    /\ value' = [value EXCEPT ![task[t].cell] = v]
    /\ Leave(t, "read", task[t].cell)

\* load_native_pages.
LoadNativePages(t) ==
    /\ task[t].pc = "stored"
    /\ IF native[JobOf[t]] = "none"
       THEN Goto(t, "save") /\ UNCHANGED value
       ELSE Fill(t, native[JobOf[t]])
    /\ UNCHANGED <<answer, entries, rowVars, finalVars, faults>>

ExtractOutcomes ==
    {Extract(source, page, layout, fate) :
        source \in Sources, page \in 1..MaxPages, layout \in Layouts, fate \in Fates}

\* save_native_pages: insert, on conflict do nothing, and read back.
FirstVersion(j, v) == IF native[j] = "none" THEN v ELSE native[j]

\* Mutant: the task goes on with its own pages, not the stored ones.
SaveOwnPages(t) ==
    LET j == JobOf[t] IN
    /\ task[t].pc = "save"
    /\ "Ok" \in ExtractOutcomes
    /\ native' = [native EXCEPT ![j] = FirstVersion(j, Version(t))]
    /\ Fill(t, Version(t))
    /\ UNCHANGED <<answer, entries, late, finalVars, faults>>

\* The source is loaded and parsed, its geometry agrees, and the canonical pages
\* are the value of the cell.
SaveNativePages(t) ==
    LET j == JobOf[t] IN
    /\ task[t].pc = "save"
    /\ "Ok" \in ExtractOutcomes
    /\ native' = [native EXCEPT ![j] = FirstVersion(j, Version(t))]
    /\ late' = IF native[j] = "none" /\ result[j] # "none" THEN late \cup {j} ELSE late
    /\ Fill(t, native'[j])
    /\ UNCHANGED <<answer, entries, finalVars, faults>>

\* The store does not answer, or the document is not extracted: Retryable or
\* Permanent, the initialiser has failed.
ExtractFails(t) ==
    /\ \/ task[t].pc = "stored"
       \/ task[t].pc = "save" /\ ExtractOutcomes # {"Ok"}
    /\ Fault
    /\ Goto(t, "failed")
    /\ UNCHANGED <<answer, entries, value, rowVars, finalVars>>

\* The error branch: under the lock, the entry goes if nobody else has the cell.
\* A cell has one entry.
ForgetFailure(t) ==
    LET p == ProcessOf[t]
        c == task[t].cell
        here == {i \in DOMAIN entries[p] : entries[p][i].cell = c}
    IN
    /\ task[t].pc = "failed"
    /\ entries' = [entries EXCEPT ![p] = IF Lessees(c) = {t} THEN Without(@, First(here)) ELSE @]
    /\ Leave(t, "error", NoTask)
    /\ UNCHANGED <<answer, value, rowVars, finalVars, faults>>

\* The page is found in the document and the document dropped.
ReadPage(t) ==
    LET v == value[task[t].cell] IN
    /\ task[t].pc = "read"
    /\ answer' = [answer EXCEPT ![t] = v]
    /\ Leave(t, AfterNative(t), NoTask)
    /\ UNCHANGED <<entries, value, rowVars, finalVars, faults>>

ManagedOutcomes ==
    {recognize_inner(source, page, reply) :
        source \in Sources, page \in 1..MaxPages, reply \in Answers}

\* The page Document AI reads replaces the text-free one, which stays if it is
\* refused for good.
ManagedRead(t) ==
    \E outcome \in ManagedOutcomes :
        /\ task[t].pc = "managed"
        /\ outcome \in {"Ok", "Permanent"}
        /\ Goto(t, "done")
        /\ answer' = IF outcome = "Ok" THEN [answer EXCEPT ![t] = "managed"] ELSE answer
        /\ UNCHANGED <<entries, value, rowVars, finalVars, faults>>

\* Any other failure of Document AI is the task's.
ManagedFails(t) ==
    \E outcome \in ManagedOutcomes :
        /\ task[t].pc = "managed"
        /\ outcome \in {"Retryable", "RateLimited"}
        /\ Fault
        /\ Goto(t, "error")
        /\ answer' = [answer EXCEPT ![t] = "none"]
        /\ UNCHANGED <<entries, value, rowVars, finalVars>>

\* The 75 second timeout: the future is dropped, its lease or document with it;
\* an empty cell stays in the list.
Timeout(t) ==
    /\ task[t].pc \in {"check", "wait", "read"} \cup Leasing
    /\ Fault
    /\ Leave(t, "error", NoTask)
    /\ UNCHANGED <<answer, entries, value, rowVars, finalVars>>

-----------------------------------------------------------------------------
(***************************************************************************)
(* DocumentFinalizer::finalize with native processing.                     *)
(***************************************************************************)
FinalTo(f, label, kind) == final' = [final EXCEPT ![f] = [pc |-> label, kind |-> kind]]

\* find_result: a published job is Existing, and nothing is cleared.  Pages have
\* been recognised; the checkpoint is PageExecution's.
BeginFinal(f) ==
    /\ final[f].pc = "idle"
    /\ \E t \in Tasks : JobOf[t] = FinalOf[f] /\ task[t].pc = "done"
    /\ FinalTo(f, IF result[FinalOf[f]] = "none" THEN "duration" ELSE "ended", "none")
    /\ UNCHANGED <<task, answer, entries, value, rowVars, result, faults>>

\* Mutant: the rows are cleared once their duration is known.
LoadDurationAndClear(f) ==
    /\ final[f].pc = "duration"
    /\ FinalTo(f, "publish", IF native[FinalOf[f]] = "none" THEN "legacy" ELSE "native")
    /\ native' = [native EXCEPT ![FinalOf[f]] = "none"]
    /\ UNCHANGED <<task, answer, entries, value, late, result, faults>>

\* load_native_duration_ms: without rows the result is assembled as a legacy one.
LoadDuration(f) ==
    /\ final[f].pc = "duration"
    /\ FinalTo(f, "publish", IF native[FinalOf[f]] = "none" THEN "legacy" ELSE "native")
    /\ UNCHANGED <<task, answer, entries, value, rowVars, result, faults>>

\* commit_result: a result once stored stays.
Commit(f) ==
    result' = [result EXCEPT ![FinalOf[f]] = IF @ = "none" THEN final[f].kind ELSE @]

\* Mutant: the rows are left to a later cleanup.
PublishAndStop(f) ==
    /\ final[f].pc = "publish"
    /\ Commit(f)
    /\ FinalTo(f, "ended", "none")
    /\ UNCHANGED <<task, answer, entries, value, rowVars, faults>>

\* ResultPublisher::publish: Committed, Existing, or Conflict with another result.
PublishFinal(f) ==
    /\ final[f].pc = "publish"
    /\ Commit(f)
    /\ FinalTo(f, IF result'[FinalOf[f]] = final[f].kind THEN "clear" ELSE "ended", "none")
    /\ UNCHANGED <<task, answer, entries, value, rowVars, faults>>

\* clear_native_pages.
ClearNativePages(f) ==
    /\ final[f].pc = "clear"
    /\ native' = [native EXCEPT ![FinalOf[f]] = "none"]
    /\ FinalTo(f, "ended", "none")
    /\ UNCHANGED <<task, answer, entries, value, late, result, faults>>

\* A store call fails or the activity is dropped, before its effect or after it.
\* "lost" is an execution whose result is published and whose clearing is not
\* done: the answer of the commit was lost, or the clearing failed, which is a
\* warning.
FinalFails(f) ==
    /\ Fault
    /\ \/ final[f].pc \in {"duration", "publish"} /\ FinalTo(f, "ended", "none") /\ UNCHANGED result
       \/ /\ final[f].pc = "publish"
          /\ Commit(f)
          /\ FinalTo(f, IF result'[FinalOf[f]] = final[f].kind THEN "lost" ELSE "ended", "none")
       \/ final[f].pc = "clear" /\ FinalTo(f, "lost", "none") /\ UNCHANGED result
    /\ UNCHANGED <<task, answer, entries, value, rowVars>>

Recognize(t) ==
    \/ CheckCache(t)
    \/ EnterCell(t)
    \/ LoadNativePages(t)
    \/ SaveNativePages(t)
    \/ ForgetFailure(t)
    \/ ReadPage(t)
    \/ ManagedRead(t)

Finalize(f) == BeginFinal(f) \/ LoadDuration(f) \/ PublishFinal(f) \/ ClearNativePages(f)

Next ==
    \/ \E t \in Tasks : LoadNativePage(t) \/ Recognize(t) \/ ExtractFails(t) \/ ManagedFails(t) \/ Timeout(t)
    \/ \E f \in Finals : Finalize(f) \/ FinalFails(f)

Spec == Init /\ [][Next]_vars

\* A task whose next step can be taken takes it: calls return and the lock is
\* fair.  The timeout is not assumed to fire.
FairSpec == Spec /\ \A t \in Tasks : WF_vars(Recognize(t))
-----------------------------------------------------------------------------
(***************************************************************************)
(* Properties.                                                             *)
(***************************************************************************)
Pcs == {"idle", "check", "wait", "read", "managed", "done", "error"} \cup Leasing
Maybe(S) == S \cup {"none"}

TaskRecord == [pc : Pcs, cell : Tasks \cup {NoTask}]
Entry == [job : Jobs, cell : Tasks]
FinalRecord == [pc : {"idle", "duration", "publish", "clear", "ended", "lost"},
                kind : Maybe({"native", "legacy"})]

\* Every variable keeps its type; a cell is held exactly by the tasks that lease
\* or read, and one that is leased is an entry of their process.
TypeOK ==
    /\ task \in [Tasks -> TaskRecord]
    /\ entries \in [Processes -> Seq(Entry)]
    /\ \A t \in Tasks :
          /\ (task[t].cell = NoTask) <=> (task[t].pc \notin Leasing \cup {"read"})
          /\ task[t].pc \in Leasing =>
                \E i \in DOMAIN entries[ProcessOf[t]] :
                    entries[ProcessOf[t]][i] = [job |-> JobOf[t], cell |-> task[t].cell]
    /\ answer \in [Tasks -> Maybe(Versions \cup {"managed"})]
    /\ value \in [Tasks -> Maybe(Versions)]
    /\ native \in [Jobs -> Maybe(Versions)]
    /\ result \in [Jobs -> Maybe({"native", "legacy"})]
    /\ final \in [Finals -> FinalRecord]
    /\ late \subseteq Jobs
    /\ faults \in 0..MaxFaults

\* Until a job is published, all its native pages are of one extraction, also when
\* workers of two releases extract the document at once.  (ADR 0016: "Concurrent
\* publications reuse the first immutable canonical result".)
OneVersionPerJob ==
    \A t, u \in Tasks :
        /\ JobOf[t] = JobOf[u]
        /\ result[JobOf[t]] = "none"
        /\ answer[t] \in Versions /\ answer[u] \in Versions
        => answer[t] = answer[u]

\* The documents of a process: its entries and the ones tasks still lease or read.
Alive(p) ==
    {entries[p][i].cell : i \in DOMAIN entries[p]}
        \cup {task[t].cell : t \in {u \in Mine(p) : task[u].pc \in Leasing \cup {"read"}}}

\* A process has at most Capacity documents alive, and extracts one once at a time.
\* A failed extraction may cost one more: its task takes the entry away when nobody
\* else leases the cell, and another task may have filled it since and still read
\* the pages.  (ADR 0016: "Recognize the accepted document once, not once per page";
\* "two simultaneously parsed documents per worker".)
DocumentsAreBounded ==
    \A p \in Processes :
        /\ Cardinality(Alive(p)) <= Capacity + faults
        /\ \A t, u \in Mine(p) :
              task[t].pc \in Initialising /\ task[u].pc \in Initialising /\ JobOf[t] = JobOf[u]
                  => t = u

\* A job whose pages were read natively is published as such: an execution of the
\* finalizer that finds the rows already cleared by another one does not get its
\* legacy assembly published.
NativeResultIsPublished == \A j \in Jobs : result[j] # "legacy"

\* Once its finalizers are through, a published job has native rows only if one of
\* them was interrupted between publishing its result and clearing the rows, or a
\* page task wrote them after the publication: a failure anywhere else, of this
\* job or another, leaves none behind.  (ADR 0016: "Successful result publication
\* clears derived native pages".)
LeftoversArePaidFor ==
    \A j \in Jobs :
        LET ran(labels) == {f \in Finals : FinalOf[f] = j /\ final[f].pc \in labels} IN
        result[j] # "none" /\ native[j] # "none" /\ ran({"duration", "publish", "clear"}) = {}
            => ran({"lost"}) # {} \/ j \in late

\* Every task ends, without help of its timeout: a full cache, a failed extraction
\* or a dropped one never leaves a task waiting for a slot.
TasksEnd == \A t \in Tasks : (task[t].pc # "idle") ~> (task[t].pc \in {"done", "error"})
=============================================================================
