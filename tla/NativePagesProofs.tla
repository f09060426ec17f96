-------------------------- MODULE NativePagesProofs --------------------------
(***************************************************************************)
(* Proofs about NativePages, for every set of tasks, processes, jobs and   *)
(* executions of the finalizer, every capacity and every number of faults. *)
(*                                                                         *)
(* CellInv is what the document cache relies on, BoundInv accounts for the *)
(* documents that live outside of its list, VersionInv ties what tasks and *)
(* cells hold to the canonical rows, and FinalInv and LeftoverInv say what *)
(* an execution of the finalizer may rely on over its store calls.         *)
(***************************************************************************)
EXTENDS NativePages, FiniteSetTheorems, WellFoundedInduction, SequenceTheorems, TLAPS

-----------------------------------------------------------------------------
(***************************************************************************)
(* The inductive invariants.                                               *)
(***************************************************************************)
\* The list of a process: bounded, one document per job, and every cell is of the
\* job and the process it is listed under.
WellFormed(p, es) ==
    /\ Len(es) <= Capacity
    /\ \A i \in DOMAIN es : JobOf[es[i].cell] = es[i].job /\ ProcessOf[es[i].cell] = p
    /\ \A i, k \in DOMAIN es : es[i].job = es[k].job => i = k

\* A task holds a cell of its own job and process.
Held(t) ==
    task[t].cell # NoTask =>
        JobOf[task[t].cell] = JobOf[t] /\ ProcessOf[task[t].cell] = ProcessOf[t]

\* A document that is read is extracted, and one task at a time extracts it.
CellInv ==
    /\ \A p \in Processes : WellFormed(p, entries[p])
    /\ \A t \in Tasks : Held(t)
    /\ \A t \in Tasks : task[t].pc = "read" => value[task[t].cell] # "none"
    /\ \A t, u \in Tasks :
          /\ task[t].pc \in Initialising /\ task[u].pc \in Initialising
          /\ task[t].cell = task[u].cell
          => t = u

\* Until its job is published, what a task answered and what a cell holds is the
\* stored extraction.
VersionInv ==
    /\ \A t \in Tasks :
          answer[t] \in Versions /\ result[JobOf[t]] = "none" => answer[t] = native[JobOf[t]]
    /\ \A c \in Tasks :
          value[c] # "none" /\ result[JobOf[c]] = "none" => value[c] = native[JobOf[c]]

\* The native pages of a job are stored, or its result is published.
Settled(j) == native[j] # "none" \/ result[j] # "none"

\* Recognised pages are stored until the publication, so only an execution that is
\* too late finds no rows.
FinalInv ==
    /\ \A t \in Tasks : task[t].pc \in {"done", "managed"} => Settled(JobOf[t])
    /\ \A f \in Finals :
          /\ final[f].pc \in {"duration", "publish"} => Settled(FinalOf[f])
          /\ final[f].pc = "publish" => final[f].kind # "none"
          /\ final[f].pc = "publish" /\ final[f].kind = "legacy" => result[FinalOf[f]] # "none"
          /\ final[f].pc = "clear" => result[FinalOf[f]] # "none"
    /\ NativeResultIsPublished

\* Rows of a published job wait for the finalizer that published it, or it was
\* interrupted before it cleared them, or they were written late.
LeftoverInv ==
    \A j \in Jobs :
        result[j] # "none" /\ native[j] # "none"
        => \/ j \in late
           \/ \E f \in Finals : FinalOf[f] = j /\ final[f].pc \in {"clear", "lost"}

\* Documents that are read although their entry is gone, and the tasks that failed.
EntryCells(p) == {entries[p][i].cell : i \in DOMAIN entries[p]}
Orphans(p) ==
    {c \in Tasks : c \notin EntryCells(p) /\ \E t \in Mine(p) : task[t].pc = "read" /\ task[t].cell = c}
Errors == {t \in Tasks : task[t].pc = "error"}
Failures == {t \in Tasks : task[t].pc \in {"failed", "error"}}

\* Every orphan is the work of a task that failed, and every failure is counted.
BoundInv ==
    /\ \A p \in Processes : Cardinality(Orphans(p)) <= Cardinality(Errors)
    /\ Cardinality(Failures) <= faults

NativeInv == CellInv /\ VersionInv /\ FinalInv /\ LeftoverInv /\ BoundInv

-----------------------------------------------------------------------------
(***************************************************************************)
(* Lists of documents.                                                     *)
(***************************************************************************)
\* es lists the document e.
Has(es, e) == \E i \in DOMAIN es : es[i] = e

(***************************************************************************)
(* The k-th element of a list one has been taken from.                     *)
(***************************************************************************)
LEMMA WithoutElement ==
    ASSUME NEW S, NEW es \in Seq(S), NEW i \in 1..Len(es)
    PROVE  /\ Without(es, i) \in Seq(S)
           /\ Len(Without(es, i)) = Len(es) - 1
           /\ \A k \in 1..(Len(es) - 1) : Without(es, i)[k] = es[IF k < i THEN k ELSE k + 1]
<1> DEFINE a == SubSeq(es, 1, i - 1)
           b == SubSeq(es, i + 1, Len(es))
<1>0. Len(es) \in Nat
    BY LenProperties
<1>1. a \in Seq(S) /\ Len(a) = i - 1 /\ \A k \in 1..(i - 1) : a[k] = es[k]
  <2>1. \A k \in 1..(i - 1) : k \in 1..Len(es)
      BY <1>0
  <2>2. \A k \in 1..(i - 1) : es[k] \in S
      BY <2>1, ElementOfSeq
  <2>3. Len(a) = IF 1 <= i - 1 THEN (i - 1) - 1 + 1 ELSE 0
      BY SubSeqProperties, <1>0, <2>2
  <2>4. a \in Seq(S) /\ \A k \in 1..((i - 1) - 1 + 1) : a[k] = es[1 + k - 1]
      BY SubSeqProperties, <1>0, <2>2
  <2> QED
      BY <1>0, <2>3, <2>4
<1>2. b \in Seq(S) /\ Len(b) = Len(es) - i /\ \A k \in 1..(Len(es) - i) : b[k] = es[k + i]
  <2>1. \A k \in (i + 1)..Len(es) : k \in 1..Len(es)
      BY <1>0
  <2>2. \A k \in (i + 1)..Len(es) : es[k] \in S
      BY <2>1, ElementOfSeq
  <2>3. /\ b \in Seq(S)
        /\ Len(b) = IF i + 1 <= Len(es) THEN Len(es) - (i + 1) + 1 ELSE 0
        /\ \A k \in 1..(Len(es) - (i + 1) + 1) : b[k] = es[(i + 1) + k - 1]
      BY <1>0, <2>2, SubSeqProperties
  <2> QED
      BY <1>0, <2>3
<1> HIDE DEF a, b
<1>3. /\ a \o b \in Seq(S)
      /\ Len(a \o b) = Len(a) + Len(b)
      /\ \A k \in 1..(Len(a) + Len(b)) : (a \o b)[k] = IF k <= Len(a) THEN a[k] ELSE b[k - Len(a)]
    BY <1>1, <1>2, ConcatProperties
<1>4. Without(es, i) = a \o b
    BY DEF Without, a, b
<1>5. \A k \in 1..(Len(es) - 1) : (a \o b)[k] = es[IF k < i THEN k ELSE k + 1]
  <2> TAKE k \in 1..(Len(es) - 1)
  <2>1. CASE k < i
      BY <2>1, <1>0, <1>1, <1>2, <1>3
  <2>2. CASE ~(k < i)
    <3>1. (a \o b)[k] = b[k - (i - 1)] /\ k - (i - 1) \in 1..(Len(es) - i)
        BY <2>2, <1>0, <1>1, <1>2, <1>3
    <3>2. b[k - (i - 1)] = es[k - (i - 1) + i]
        BY <3>1, <1>2
    <3>3. k - (i - 1) + i = k + 1
        BY <1>0
    <3> QED
        BY <3>1, <3>2, <3>3, <2>2
  <2> QED
      BY <2>1, <2>2
<1>6. Len(a \o b) = Len(es) - 1
    BY <1>0, <1>1, <1>2, <1>3
<1> QED
    BY <1>3, <1>4, <1>5, <1>6, Zenon

(***************************************************************************)
(* What a list holds once an element has been taken from it: the others,   *)
(* in their order.                                                         *)
(***************************************************************************)
LEMMA WithoutList ==
    ASSUME NEW p, NEW es \in Seq(Entry), NEW i \in DOMAIN es, WellFormed(p, es)
    PROVE  /\ Without(es, i) \in Seq(Entry)
           /\ Len(Without(es, i)) = Len(es) - 1
           /\ Len(Without(es, i)) < Capacity
           /\ WellFormed(p, Without(es, i))
           /\ \A e : Has(Without(es, i), e) <=> Has(es, e) /\ e # es[i]
<1> USE NativePagesAssumption
<1> DEFINE ws == Without(es, i)
           At(k) == IF k < i THEN k ELSE k + 1
<1>0. Len(es) \in Nat /\ DOMAIN es = 1..Len(es) /\ i \in 1..Len(es)
    BY LenProperties
<1>1. /\ ws \in Seq(Entry) /\ Len(ws) = Len(es) - 1
      /\ \A k \in 1..(Len(es) - 1) : ws[k] = es[At(k)]
    BY <1>0, WithoutElement
<1> HIDE DEF ws
<1>2. DOMAIN ws = 1..(Len(es) - 1)
    BY <1>0, <1>1, LenProperties
<1>3. \A k \in DOMAIN ws : At(k) \in DOMAIN es /\ At(k) # i /\ ws[k] = es[At(k)]
    BY <1>0, <1>1, <1>2
<1>4. \A k, m \in DOMAIN ws : At(k) = At(m) => k = m
    BY <1>0, <1>2
<1>5. \A m \in DOMAIN es : m # i => \E k \in DOMAIN ws : At(k) = m
  <2> TAKE m \in DOMAIN es
  <2> HAVE m # i
  <2>1. CASE m < i
      BY <2>1, <1>0, <1>2
  <2>2. CASE m > i
    <3>1. m - 1 \in DOMAIN ws /\ At(m - 1) = m
        BY <2>2, <1>0, <1>2
    <3> QED
        BY <3>1
  <2> QED
      BY <2>1, <2>2, <1>0
<1> HIDE DEF At
<1>6. Len(ws) <= Capacity /\ Len(ws) < Capacity
    BY <1>0, <1>1 DEF WellFormed
<1>7. WellFormed(p, ws)
    BY <1>3, <1>4, <1>6 DEF WellFormed
<1>8. ASSUME NEW e PROVE Has(ws, e) <=> Has(es, e) /\ e # es[i]
  <2>1. ASSUME Has(ws, e) PROVE Has(es, e) /\ e # es[i]
    <3>1. PICK k \in DOMAIN ws : ws[k] = e
        BY <2>1 DEF Has
    <3>2. e = es[At(k)] /\ At(k) \in DOMAIN es /\ At(k) # i
        BY <3>1, <1>3
    <3> QED
        BY <3>2 DEF Has, WellFormed
  <2>2. ASSUME Has(es, e), e # es[i] PROVE Has(ws, e)
    <3>1. PICK m \in DOMAIN es : es[m] = e
        BY <2>2 DEF Has
    <3>2. PICK k \in DOMAIN ws : At(k) = m
        BY <3>1, <2>2, <1>5
    <3> QED
        BY <3>1, <3>2, <1>3 DEF Has
  <2> QED
      BY <2>1, <2>2
<1> QED
    BY <1>1, <1>6, <1>7, <1>8 DEF ws

(***************************************************************************)
(* A document is added to a list with room that has none of its job.       *)
(***************************************************************************)
LEMMA AppendList ==
    ASSUME NEW p, NEW es \in Seq(Entry), NEW e \in Entry, WellFormed(p, es),
           Len(es) < Capacity, \A i \in DOMAIN es : es[i].job # e.job,
           JobOf[e.cell] = e.job, ProcessOf[e.cell] = p
    PROVE  /\ Append(es, e) \in Seq(Entry)
           /\ WellFormed(p, Append(es, e))
           /\ \A d : Has(Append(es, e), d) <=> Has(es, d) \/ d = e
<1> DEFINE ext == Append(es, e)
           n == Len(es)
<1>0. n \in Nat /\ DOMAIN es = 1..n
    BY LenProperties
<1>1. /\ ext \in Seq(Entry) /\ Len(ext) = n + 1
      /\ \A k \in 1..n : ext[k] = es[k]
      /\ ext[n + 1] = e
    BY AppendProperties
<1>2. DOMAIN ext = 1..(n + 1)
    BY <1>0, <1>1, LenProperties
<1>8. Len(ext) <= Capacity
    BY <1>0, <1>1, NativePagesAssumption
<1> HIDE DEF ext, n
<1>3. ASSUME NEW k \in DOMAIN ext
      PROVE  (k \in DOMAIN es /\ ext[k] = es[k]) \/ (k = n + 1 /\ ext[k] = e)
  <2>1. k \in 1..n \/ k = n + 1
      BY <1>0, <1>2
  <2> QED
      BY <2>1, <1>0, <1>1
<1>4. ASSUME NEW k \in DOMAIN es PROVE k \in DOMAIN ext /\ ext[k] = es[k]
  <2>1. k \in 1..n /\ k \in 1..(n + 1)
      BY <1>0
  <2> QED
      BY <2>1, <1>1, <1>2
<1>5. n + 1 \in DOMAIN ext /\ ext[n + 1] = e 
    BY <1>0, <1>1, <1>2
<1>6. WellFormed(p, ext)
  <2>1. \A i \in DOMAIN ext : JobOf[ext[i].cell] = ext[i].job /\ ProcessOf[ext[i].cell] = p
      BY <1>3 DEF WellFormed
  <2>2. \A i, k \in DOMAIN ext : ext[i].job = ext[k].job => i = k
      BY <1>3 DEF WellFormed
  <2> QED
      BY <2>1, <2>2, <1>8 DEF WellFormed
<1>7. \A d : Has(ext, d) <=> Has(es, d) \/ d = e
    BY <1>3, <1>4, <1>5 DEF Has
<1> QED
    BY <1>1, <1>6, <1>7 DEF ext

(***************************************************************************)
(* The first of some positions of a list is one of them.                   *)
(***************************************************************************)
LEMMA FirstIsMember ==
    ASSUME NEW S, NEW es \in Seq(S), NEW I \in SUBSET (DOMAIN es), I # {}
    PROVE  First(I) \in I
<1>1. I \subseteq Nat
    BY LenProperties
<1> DEFINE R == {ss \in Nat \X Nat : ss[1] < ss[2]}
<1>2. IsWellFoundedOn(R, Nat)
    BY NatLessThanWellFounded DEF OpToRel
<1>3. PICK i \in I : \A k \in I : ~(<<k, i>> \in R)
  <2> HIDE DEF R
  <2> QED
      BY <1>1, <1>2, WFMin
<1>4. ASSUME NEW k \in I PROVE i <= k
  <2>1. i \in Nat /\ k \in Nat
      BY <1>1
  <2>2. ~(k < i)
      BY <1>3, <2>1
  <2> QED
      BY <2>1, <2>2
<1> QED
    BY <1>4 DEF First

-----------------------------------------------------------------------------
(***************************************************************************)
(* What the step of a task does.                                           *)
(***************************************************************************)
\* t moves, and waiters of its process may be woken.
Moves(t, label, c) ==
    /\ task' \in [Tasks -> TaskRecord]
    /\ task'[t].pc = label
    /\ task'[t].cell = c
    /\ \A u \in Tasks \ {t} :
          /\ task'[u].cell = task[u].cell
          /\ task'[u].pc = task[u].pc \/ (task[u].pc = "wait" /\ task'[u].pc = "check")

\* A failure costs a fault; the error of a task that has failed does not.
Pays(t, label) ==
    /\ faults' \in 0..MaxFaults
    /\ faults' >= faults
    /\ label \in {"failed", "error"} /\ task[t].pc # "failed" => faults' = faults + 1

\* t has no cell any more, or had none.
Drops(t, label) ==
    /\ task[t].pc # "error"
    /\ label \in Pcs \ (Leasing \cup {"read"})
    /\ Moves(t, label, NoTask)
    /\ UNCHANGED <<entries, value>>

\* t keeps its cell; an extraction begins where there is none, a read where there
\* are pages.
Advances(t, label) ==
    LET c == task[t].cell IN
    /\ task[t].pc \in Leasing
    /\ label \in Leasing \cup {"read"}
    /\ Moves(t, label, c)
    /\ UNCHANGED entries
    /\ value' \in [Tasks -> Maybe(Versions)]
    /\ \A d \in Tasks : value[d] # "none" => value'[d] # "none"
    /\ label = "read" => value'[c] # "none"
    /\ label \in Initialising =>
          \/ task[t].pc \in Initialising
          \/ \A u \in Lessees(c) : task[u].pc \notin Initialising

\* The documents of the list of p other than e, and the ones that left it.
Relists(p, e, gone) ==
    /\ entries' \in [Processes -> Seq(Entry)]
    /\ \A q \in Processes \ {p} : entries'[q] = entries[q]
    /\ WellFormed(p, entries'[p])
    /\ Has(entries'[p], e)
    /\ \A d : Has(entries[p], d) => Has(entries'[p], d) \/ d \in gone

\* t leases a listed document or adds one, in place of one without references.
Leases(t) ==
    \E c \in Tasks :
        /\ task[t].pc = "check"
        /\ JobOf[c] = JobOf[t] /\ ProcessOf[c] = ProcessOf[t]
        /\ Moves(t, "lease", c)
        /\ Relists(ProcessOf[t], [job |-> JobOf[t], cell |-> c],
                   {e \in Entry : Lessees(e.cell) = {} /\ Readers(e.cell) = {}})
        /\ UNCHANGED value

\* t has failed; the entry of its cell may go if t is alone with it.
Forgets(t) ==
    /\ task[t].pc = "failed"
    /\ Moves(t, "error", NoTask)
    /\ UNCHANGED value
    /\ entries' \in [Processes -> Seq(Entry)]
    /\ \A q \in Processes \ {ProcessOf[t]} : entries'[q] = entries[q]
    /\ WellFormed(ProcessOf[t], entries'[ProcessOf[t]])
    /\ \A d \in Entry :
          Has(entries[ProcessOf[t]], d) =>
              \/ Has(entries'[ProcessOf[t]], d)
              \/ d.cell = task[t].cell /\ Lessees(d.cell) = {t}

\* The answer and the rows: what t answers is stored or was read, and it stores
\* pages only where there are none.
TaskRows(t) ==
    LET j == JobOf[t] IN
    /\ UNCHANGED <<result, final>>
    /\ answer' \in [Tasks -> Maybe(Versions \cup {"managed"})]
    /\ \A u \in Tasks \ {t} : answer'[u] = answer[u]
    /\ answer'[t] \in Versions =>
          \/ answer'[t] = answer[t]
          \/ answer'[t] = native[j]
          \/ task[t].pc = "read" /\ answer'[t] = value[task[t].cell]
    /\ native' \in [Jobs -> Maybe(Versions)]
    /\ \A k \in Jobs \ {j} : native'[k] = native[k]
    /\ \/ native'[j] = native[j]
       \/ /\ native[j] = "none" /\ native'[j] # "none"
          /\ result[j] # "none" => j \in late'
    /\ late \subseteq late' /\ late' \subseteq Jobs
    /\ \A d \in Tasks : value'[d] = value[d] \/ (JobOf[d] = j /\ value'[d] = native'[j])
    /\ task'[t].pc \in {"done", "managed"} =>
          task[t].pc = "managed" \/ native[j] # "none" \/ task[t].pc = "read"

\* A step of a task is one of these.
TaskStep(t) ==
    /\ TaskRows(t)
    /\ \E label \in Pcs :
          /\ Pays(t, label)
          /\ \/ Drops(t, label)
             \/ Advances(t, label)
             \/ label = "lease" /\ Leases(t)
             \/ label = "error" /\ Forgets(t)

(***************************************************************************)
(* Move and Leave.                                                         *)
(***************************************************************************)
LEMMA MoveMoves ==
    ASSUME task \in [Tasks -> TaskRecord], NEW t \in Tasks, NEW label \in Pcs,
           NEW c \in Tasks \cup {NoTask}, Move(t, label, c) \/ Leave(t, label, c)
    PROVE  Moves(t, label, c)
<1> DEFINE r == [pc |-> label, cell |-> c]
<1>1. r \in TaskRecord /\ r.pc = label /\ r.cell = c
    BY DEF TaskRecord
<1> HIDE DEF r
<1>2. CASE Move(t, label, c)
  <2>1. task' = [task EXCEPT ![t] = r]
      BY <1>2 DEF Move, r
  <2> QED
      BY <1>1, <2>1 DEF Moves
<1>3. CASE Leave(t, label, c)
  <2> DEFINE w(u) == [task[u] EXCEPT !.pc = "check"]
  <2>1. ASSUME NEW u \in Tasks
        PROVE  w(u) \in TaskRecord /\ w(u).pc = "check" /\ w(u).cell = task[u].cell
      BY DEF TaskRecord, Pcs
  <2>2. task' = [u \in Tasks |->
                    IF u = t THEN r
                    ELSE IF task[u].pc = "wait" /\ ProcessOf[u] = ProcessOf[t] THEN w(u)
                    ELSE task[u]]
      BY <1>3 DEF Leave, r
  <2> HIDE DEF w
  <2> QED
      BY <1>1, <2>1, <2>2 DEF Moves
<1> QED
    BY <1>2, <1>3

(***************************************************************************)
(* The state of one task.                                                  *)
(***************************************************************************)
LEMMA TaskFacts ==
    ASSUME TypeOK, NEW t \in Tasks
    PROVE  /\ task[t].pc \in Pcs
           /\ task[t].cell \in Tasks \cup {NoTask}
           /\ (task[t].cell = NoTask) <=> (task[t].pc \notin Leasing \cup {"read"})
           /\ JobOf[t] \in Jobs /\ ProcessOf[t] \in Processes
           /\ Version(t) \in Versions /\ Version(t) # "none"
<1>1. task[t] \in TaskRecord
    BY DEF TypeOK
<1> QED
    BY <1>1, NativePagesAssumption DEF TypeOK, TaskRecord, Version, Versions

(***************************************************************************)
(* A step that is not charged, and one that is.                            *)
(***************************************************************************)
LEMMA PaysNothing ==
    ASSUME TypeOK, NEW t, NEW label, UNCHANGED faults,
           label \in {"failed", "error"} => task[t].pc = "failed"
    PROVE  Pays(t, label)
BY NativePagesAssumption DEF TypeOK, Pays

LEMMA PaysFault ==
    ASSUME TypeOK, NEW t, NEW label, Fault
    PROVE  Pays(t, label)
BY NativePagesAssumption DEF TypeOK, Pays, Fault

(***************************************************************************)
(* load_native_page answers with the stored page, or the cache is next.    *)
(***************************************************************************)
LEMMA LoadNativePageStep ==
    ASSUME TypeOK, NEW t \in Tasks, LoadNativePage(t)
    PROVE  TaskStep(t)
<1> DEFINE v == native[JobOf[t]]
           label == IF v = "none" THEN "check" ELSE AfterNative(t)
<1>1. label \in Pcs \ (Leasing \cup {"read"}) /\ label \notin {"failed", "error"}
    BY DEF AfterNative, Pcs, Leasing, Initialising
<1>2. task[t].pc = "idle" /\ task[t].cell = NoTask
    BY TaskFacts DEF LoadNativePage, Leasing, Initialising
<1>3. Move(t, label, NoTask)
    BY <1>2 DEF LoadNativePage, Goto
<1>4. Moves(t, label, NoTask)
    BY <1>1, <1>3, MoveMoves DEF TypeOK
<1>5. Pays(t, label)
    BY <1>1, PaysNothing DEF LoadNativePage
<1>6. Drops(t, label)
    BY <1>1, <1>4 DEF Drops, LoadNativePage
<1>7. TaskRows(t)
  <2>1. answer' = [answer EXCEPT ![t] = IF v = "none" THEN answer[t] ELSE v]
      BY DEF LoadNativePage, TypeOK
  <2>2. v \in Maybe(Versions)
      BY TaskFacts DEF TypeOK
  <2>3. task'[t].pc \in {"done", "managed"} => v # "none"
      BY <1>4 DEF Moves
  <2>4. UNCHANGED <<value, native, late, result, final>>
      BY DEF LoadNativePage, rowVars, finalVars
  <2>5. answer' \in [Tasks -> Maybe(Versions \cup {"managed"})]
      BY <2>1, <2>2 DEF TypeOK, Maybe
  <2> HIDE DEF label
  <2> QED
      BY <2>1, <2>2, <2>3, <2>4, <2>5 DEF TaskRows, TypeOK, Maybe
<1> QED
    BY <1>1, <1>5, <1>6, <1>7 DEF TaskStep

(***************************************************************************)
(* A step that leaves the rows alone.                                      *)
(***************************************************************************)
LEMMA SameRows ==
    ASSUME TypeOK, NEW t \in Tasks, UNCHANGED <<answer, value, native, late, result, final>>,
           task'[t].pc \notin {"done", "managed"} \/ task[t].pc = "managed"
    PROVE  TaskRows(t)
BY DEF TaskRows, TypeOK

(***************************************************************************)
(* Nothing but the control of the task changes.                            *)
(***************************************************************************)
LEMMA QuietDrop ==
    ASSUME TypeOK, NEW t \in Tasks, NEW label \in Pcs \ (Leasing \cup {"read"}),
           label \notin {"done", "managed"}, task[t].pc # "error",
           Move(t, label, NoTask) \/ Leave(t, label, NoTask), Pays(t, label),
           UNCHANGED <<answer, entries, value, native, late, result, final>>
    PROVE  TaskStep(t)
<1>1. Moves(t, label, NoTask)
    BY MoveMoves DEF TypeOK
<1>2. Drops(t, label)
    BY <1>1 DEF Drops
<1>3. TaskRows(t)
    BY <1>1, SameRows DEF Moves
<1> QED
    BY <1>2, <1>3 DEF TaskStep

(***************************************************************************)
(* The timeout drops whatever the task holds.                              *)
(***************************************************************************)
LEMMA TimeoutStep ==
    ASSUME TypeOK, NEW t \in Tasks, Timeout(t)
    PROVE  TaskStep(t)
<1>1. Pays(t, "error")
    BY PaysFault DEF Timeout
<1>2. "error" \in Pcs \ (Leasing \cup {"read"})
    BY DEF Pcs, Leasing, Initialising
<1>3. task[t].pc # "error"
    BY DEF Timeout, Leasing, Initialising
<1> QED
    BY <1>1, <1>2, <1>3, QuietDrop DEF Timeout, rowVars, finalVars

(***************************************************************************)
(* ReadPage answers with the document the task holds.                      *)
(***************************************************************************)
LEMMA ReadPageStep ==
    ASSUME TypeOK, NEW t \in Tasks, ReadPage(t)
    PROVE  TaskStep(t)
<1> DEFINE label == AfterNative(t)
           v == value[task[t].cell]
<1>1. label \in Pcs \ (Leasing \cup {"read"}) /\ label \notin {"failed", "error"}
    BY DEF AfterNative, Pcs, Leasing, Initialising
<1>2. Moves(t, label, NoTask)
    BY <1>1, MoveMoves DEF TypeOK, ReadPage
<1>3. Drops(t, label)
    BY <1>1, <1>2 DEF Drops, ReadPage
<1>4. Pays(t, label)
    BY <1>1, PaysNothing DEF ReadPage
<1>5. TaskRows(t)
  <2>1. task[t].pc = "read" /\ task[t].cell \in Tasks
      BY TaskFacts DEF ReadPage
  <2>2. v \in Maybe(Versions)
      BY <2>1 DEF TypeOK
  <2>3. answer' = [answer EXCEPT ![t] = v]
      BY DEF ReadPage
  <2>4. UNCHANGED <<value, native, late, result, final>>
      BY DEF ReadPage, rowVars, finalVars
  <2>5. answer' \in [Tasks -> Maybe(Versions \cup {"managed"})]
      BY <2>2, <2>3 DEF TypeOK, Maybe
  <2>6. answer'[t] = v /\ \A u \in Tasks \ {t} : answer'[u] = answer[u]
      BY <2>3 DEF TypeOK
  <2> QED
      BY <2>1, <2>4, <2>5, <2>6 DEF TaskRows, TypeOK
<1> QED
    BY <1>1, <1>3, <1>4, <1>5 DEF TaskStep

(***************************************************************************)
(* Document AI answers in place of the text-free page, or not.             *)
(***************************************************************************)
LEMMA ManagedStep ==
    ASSUME TypeOK, NEW t \in Tasks, ManagedRead(t) \/ ManagedFails(t)
    PROVE  TaskStep(t)
<1>1. /\ task[t].pc = "managed"
      /\ UNCHANGED <<entries, value, native, late, result, final>>
    BY DEF ManagedRead, ManagedFails, rowVars, finalVars
<1>2. task[t].cell = NoTask
    BY <1>1, TaskFacts DEF Leasing, Initialising
<1>3. \/ Move(t, "done", NoTask) /\ UNCHANGED faults
      \/ Move(t, "error", NoTask) /\ Fault
    BY <1>2 DEF ManagedRead, ManagedFails, Goto
<1>4. PICK end \in {"done", "error"} :
          /\ Move(t, end, NoTask)
          /\ \/ end = "done" /\ UNCHANGED faults
             \/ end = "error" /\ Fault
    BY <1>3
<1>5. end \in Pcs \ (Leasing \cup {"read"})
    BY DEF Pcs, Leasing, Initialising
<1>6. Moves(t, end, NoTask)
    BY <1>4, <1>5, MoveMoves DEF TypeOK
<1>7. Pays(t, end)
    BY <1>4, PaysNothing, PaysFault
<1>8. Drops(t, end)
    BY <1>1, <1>5, <1>6 DEF Drops
<1>9. TaskRows(t)
  <2>1. answer' = answer \/ \E v \in {"managed", "none"} : answer' = [answer EXCEPT ![t] = v]
      BY DEF ManagedRead, ManagedFails
  <2>2. "managed" \notin Versions /\ "none" \notin Versions
      BY NativePagesAssumption DEF Versions
  <2>3. /\ answer' \in [Tasks -> Maybe(Versions \cup {"managed"})]
        /\ \A u \in Tasks \ {t} : answer'[u] = answer[u]
        /\ answer'[t] = answer[t] \/ answer'[t] \in {"managed", "none"}
      BY <2>1 DEF TypeOK, Maybe
  <2> QED
      BY <1>1, <2>2, <2>3 DEF TaskRows, TypeOK
<1> QED
    BY <1>5, <1>7, <1>8, <1>9 DEF TaskStep

(***************************************************************************)
(* A lease, an extraction and its failure keep the cell of the task.       *)
(***************************************************************************)
LEMMA QuietAdvance ==
    ASSUME TypeOK, NEW t \in Tasks, NEW label \in Leasing \cup {"read"},
           task[t].pc \in Leasing,
           Move(t, label, task[t].cell) \/ Leave(t, label, task[t].cell), Pays(t, label),
           UNCHANGED <<answer, entries, value, native, late, result, final>>,
           label = "read" => value[task[t].cell] # "none",
           label \in Initialising =>
               \/ task[t].pc \in Initialising
               \/ \A u \in Lessees(task[t].cell) : task[u].pc \notin Initialising
    PROVE  TaskStep(t)
<1>1. label \in Pcs /\ label \notin {"done", "managed"}
    BY DEF Pcs, Leasing, Initialising
<1>2. Moves(t, label, task[t].cell)
    BY <1>1, TaskFacts, MoveMoves DEF TypeOK
<1>3. Advances(t, label)
    BY <1>2 DEF Advances, TypeOK
<1>4. TaskRows(t)
    BY <1>1, <1>2, SameRows DEF Moves
<1> QED
    BY <1>1, <1>3, <1>4 DEF TaskStep

(***************************************************************************)
(* get_or_try_init.                                                        *)
(***************************************************************************)
LEMMA EnterCellStep ==
    ASSUME TypeOK, NEW t \in Tasks, EnterCell(t)
    PROVE  TaskStep(t)
<1>1. /\ task[t].pc \in Leasing
      /\ UNCHANGED <<answer, entries, value, native, late, result, final, faults>>
    BY DEF EnterCell, rowVars, finalVars, Leasing
<1>2. CASE value[task[t].cell] # "none" /\ Leave(t, "read", task[t].cell)
  <2>1. Pays(t, "read")
      BY <1>1, PaysNothing
  <2> QED
      BY <1>1, <1>2, <2>1, QuietAdvance DEF Initialising
<1>3. CASE (\A u \in Lessees(task[t].cell) : task[u].pc \notin Initialising) /\ Goto(t, "stored")
  <2>1. Pays(t, "stored")
      BY <1>1, PaysNothing
  <2> QED
      BY <1>1, <1>3, <2>1, QuietAdvance DEF Goto, Initialising, Leasing
<1> QED
    BY <1>2, <1>3 DEF EnterCell

(***************************************************************************)
(* The initialiser fails.                                                  *)
(***************************************************************************)
LEMMA ExtractFailsStep ==
    ASSUME TypeOK, NEW t \in Tasks, ExtractFails(t)
    PROVE  TaskStep(t)
<1>1. /\ task[t].pc \in Leasing
      /\ Move(t, "failed", task[t].cell)
      /\ UNCHANGED <<answer, entries, value, native, late, result, final>>
    BY DEF ExtractFails, rowVars, finalVars, Leasing, Initialising, Goto
<1>2. Pays(t, "failed")
    BY PaysFault DEF ExtractFails
<1>3. "failed" \in Leasing /\ "failed" \notin Initialising
    BY DEF Leasing, Initialising
<1> QED
    BY <1>1, <1>2, <1>3, QuietAdvance

(***************************************************************************)
(* The cell is filled with what is stored for its job.                     *)
(***************************************************************************)
LEMMA FillStep ==
    ASSUME TypeOK, CellInv, NEW t \in Tasks, task[t].pc \in Initialising,
           Fill(t, native'[JobOf[t]]), native'[JobOf[t]] # "none",
           native' \in [Jobs -> Maybe(Versions)],
           \A k \in Jobs \ {JobOf[t]} : native'[k] = native[k],
           native'[JobOf[t]] = native[JobOf[t]]
               \/ (native[JobOf[t]] = "none" /\ (result[JobOf[t]] # "none" => JobOf[t] \in late')),
           late \subseteq late', late' \subseteq Jobs,
           UNCHANGED <<answer, entries, result, final, faults>>
    PROVE  TaskStep(t)
<1> DEFINE c == task[t].cell
           v == native'[JobOf[t]]
<1>1. c \in Tasks /\ JobOf[c] = JobOf[t] /\ JobOf[t] \in Jobs /\ task[t].pc \in Leasing
    BY TaskFacts DEF CellInv, Held, Initialising, Leasing
<1>2. v \in Maybe(Versions)
    BY <1>1
<1>3. value' = [value EXCEPT ![c] = v]
    BY DEF Fill
<1>4. value' \in [Tasks -> Maybe(Versions)] /\ value'[c] = v /\ \A d \in Tasks \ {c} : value'[d] = value[d]
    BY <1>1, <1>2, <1>3 DEF TypeOK
<1>5. Moves(t, "read", c)
    BY <1>1, MoveMoves DEF TypeOK, Pcs, Fill
<1>6. Advances(t, "read")
    BY <1>1, <1>4, <1>5 DEF Advances, Initialising
<1>7. Pays(t, "read")
    BY PaysNothing
<1>8. TaskRows(t)
  <2>1. \A d \in Tasks : value'[d] = value[d] \/ (JobOf[d] = JobOf[t] /\ value'[d] = v)
      BY <1>1, <1>4
  <2>2. task'[t].pc \notin {"done", "managed"}
      BY <1>5 DEF Moves
  <2> QED
      BY <2>1, <2>2 DEF TaskRows, TypeOK
<1> QED
    BY <1>6, <1>7, <1>8 DEF TaskStep, Pcs

(***************************************************************************)
(* load_native_pages finds the document, or it is parsed.                  *)
(***************************************************************************)
LEMMA LoadNativePagesStep ==
    ASSUME TypeOK, CellInv, NEW t \in Tasks, LoadNativePages(t)
    PROVE  TaskStep(t)
<1>1. /\ task[t].pc = "stored"
      /\ UNCHANGED <<answer, entries, native, late, result, final, faults>>
    BY DEF LoadNativePages, rowVars, finalVars
<1>2. task[t].pc \in Leasing /\ task[t].pc \in Initialising
    BY <1>1 DEF Leasing, Initialising
<1>3. CASE native[JobOf[t]] = "none"
  <2>1. Move(t, "save", task[t].cell) /\ UNCHANGED value
      BY <1>3 DEF LoadNativePages, Goto
  <2>2. Pays(t, "save")
      BY <1>1, PaysNothing
  <2>3. "save" \in Leasing \cup {"read"}
      BY DEF Leasing, Initialising
  <2> QED
      BY <1>1, <1>2, <2>1, <2>2, <2>3, QuietAdvance
<1>4. CASE native[JobOf[t]] # "none"
  <2>1. Fill(t, native'[JobOf[t]])
      BY <1>1, <1>4 DEF LoadNativePages
  <2> QED
      BY <1>1, <1>2, <1>4, <2>1, FillStep DEF TypeOK
<1> QED
    BY <1>3, <1>4

(***************************************************************************)
(* save_native_pages: the cell takes the first document stored.            *)
(***************************************************************************)
LEMMA SaveNativePagesStep ==
    ASSUME TypeOK, CellInv, NEW t \in Tasks, SaveNativePages(t)
    PROVE  TaskStep(t)
<1> DEFINE j == JobOf[t]
<1>1. /\ j \in Jobs
      /\ Version(t) \in Versions
      /\ Version(t) # "none"
      /\ task[t].pc \in Initialising
    BY TaskFacts DEF SaveNativePages, Initialising
<1>2. /\ native' = [native EXCEPT ![j] = FirstVersion(j, Version(t))]
      /\ late' = IF native[j] = "none" /\ result[j] # "none" THEN late \cup {j} ELSE late
      /\ UNCHANGED <<answer, entries, result, final, faults>>
    BY DEF SaveNativePages, finalVars
<1>3. FirstVersion(j, Version(t)) \in Maybe(Versions) /\ FirstVersion(j, Version(t)) # "none"
    BY <1>1 DEF FirstVersion, TypeOK, Maybe
<1>4. /\ native' \in [Jobs -> Maybe(Versions)]
      /\ \A k \in Jobs \ {j} : native'[k] = native[k]
      /\ native'[j] = FirstVersion(j, Version(t))
    BY <1>1, <1>2, <1>3 DEF TypeOK
<1>5. native'[j] = native[j] \/ (native[j] = "none" /\ (result[j] # "none" => j \in late'))
    BY <1>2, <1>4 DEF FirstVersion
<1>6. late \subseteq late' /\ late' \subseteq Jobs
    BY <1>1, <1>2 DEF TypeOK
<1>7. Fill(t, native'[j])
    BY DEF SaveNativePages
<1> QED
    BY <1>1, <1>2, <1>3, <1>4, <1>5, <1>6, <1>7, FillStep

(***************************************************************************)
(* A list that gains the document of a task at its end.                    *)
(***************************************************************************)
LEMMA RelistStep ==
    ASSUME TypeOK, NEW p \in Processes, NEW es \in Seq(Entry), NEW e \in Entry, NEW gone,
           WellFormed(p, es), Len(es) < Capacity, \A i \in DOMAIN es : es[i].job # e.job,
           JobOf[e.cell] = e.job, ProcessOf[e.cell] = p,
           entries' = [entries EXCEPT ![p] = Append(es, e)],
           \A d : Has(entries[p], d) => Has(es, d) \/ d = e \/ d \in gone
    PROVE  Relists(p, e, gone)
<1> DEFINE ext == Append(es, e)
<1>1. /\ ext \in Seq(Entry)
      /\ WellFormed(p, ext)
      /\ \A d : Has(ext, d) <=> Has(es, d) \/ d = e
    BY AppendList
<1> HIDE DEF ext
<1>2. /\ entries' \in [Processes -> Seq(Entry)]
      /\ entries'[p] = ext
      /\ \A q \in Processes \ {p} : entries'[q] = entries[q]
    BY <1>1 DEF TypeOK, ext
<1> QED
    BY <1>1, <1>2 DEF Relists

(***************************************************************************)
(* A turn of NativeDocumentCache::load: the task leases a document or      *)
(* waits.                                                                  *)
(***************************************************************************)
LEMMA CheckCacheStep ==
    ASSUME TypeOK, CellInv, NEW t \in Tasks, CheckCache(t)
    PROVE  TaskStep(t)
<1> DEFINE p == ProcessOf[t]
           j == JobOf[t]
           es == entries[p]
           new == [job |-> j, cell |-> t]
           free == {e \in Entry : Lessees(e.cell) = {} /\ Readers(e.cell) = {}}
<1>1. /\ task[t].pc = "check" /\ task[t].cell = NoTask
      /\ UNCHANGED <<answer, value, native, late, result, final, faults>>
    BY TaskFacts DEF CheckCache, rowVars, finalVars, Leasing, Initialising
<1>2. p \in Processes /\ j \in Jobs /\ es \in Seq(Entry) /\ WellFormed(p, es)
    BY TaskFacts DEF TypeOK, CellInv
<1>3. new \in Entry /\ new.job = j /\ new.cell = t
    BY <1>2 DEF Entry
<1>4. \A i \in DOMAIN es : es[i] \in Entry /\ es[i].job \in Jobs /\ es[i].cell \in Tasks
  <2>1. \A i \in DOMAIN es : es[i] \in Entry
      BY <1>2, LenProperties, ElementOfSeq
  <2> QED
      BY <2>1 DEF Entry
<1>5. ASSUME NEW e \in Entry, e.job = j, JobOf[e.cell] = j, ProcessOf[e.cell] = p,
             Move(t, "lease", e.cell), Relists(p, e, free)
      PROVE  TaskStep(t)
  <2>1. e.cell \in Tasks /\ e = [job |-> j, cell |-> e.cell]
      BY <1>5 DEF Entry
  <2>2. Moves(t, "lease", e.cell)
      BY <1>5, <2>1, MoveMoves DEF TypeOK, Pcs, Leasing
  <2>3. Relists(ProcessOf[t], [job |-> JobOf[t], cell |-> e.cell],
                {d \in Entry : Lessees(d.cell) = {} /\ Readers(d.cell) = {}})
      BY <1>5, <2>1
  <2>4. Leases(t)
      BY <1>1, <1>5, <2>1, <2>2, <2>3 DEF Leases
  <2>5. Pays(t, "lease")
      BY <1>1, PaysNothing
  <2>6. TaskRows(t)
      BY <1>1, <2>2, SameRows DEF Moves
  <2> QED
      BY <2>4, <2>5, <2>6 DEF TaskStep, Pcs, Leasing
<1>6. CASE IndexOf(p, j) # {}
  <2> DEFINE i == First(IndexOf(p, j))
  <2>1. i \in DOMAIN es /\ es[i].job = j
    <3>1. IndexOf(p, j) \in SUBSET (DOMAIN es) /\ IndexOf(p, j) # {}
        BY <1>6 DEF IndexOf
    <3>2. i \in IndexOf(p, j)
      <4> HIDE DEF es
      <4> QED
          BY <1>2, <3>1, FirstIsMember, Zenon
    <3> QED
        BY <3>2 DEF IndexOf
  <2>2. entries' = [entries EXCEPT ![p] = Append(Without(es, i), es[i])] /\ Move(t, "lease", es[i].cell)
      BY <1>6 DEF CheckCache
  <2> HIDE DEF i
  <2> DEFINE ws == Without(es, i)
  <2>3. /\ ws \in Seq(Entry) /\ Len(ws) < Capacity /\ WellFormed(p, ws)
        /\ \A e : Has(ws, e) <=> Has(es, e) /\ e # es[i]
      BY <1>2, <2>1, WithoutList
  <2> HIDE DEF ws
  <2>4. \A k \in DOMAIN ws : ws[k].job # es[i].job
    <3> TAKE k \in DOMAIN ws
    <3>1. Has(es, ws[k]) /\ ws[k] # es[i]
        BY <2>3 DEF Has
    <3> QED
        BY <3>1, <1>2, <2>1 DEF Has, WellFormed
  <2>5. JobOf[es[i].cell] = es[i].job /\ ProcessOf[es[i].cell] = p
      BY <1>2, <2>1 DEF WellFormed
  <2>6. \A d : Has(es, d) => Has(ws, d) \/ d = es[i] \/ d \in free
      BY <2>3
  <2>7. Relists(p, es[i], free)
    <3> HIDE DEF free
    <3>1. entries' = [entries EXCEPT ![p] = Append(ws, es[i])]
        BY <2>2 DEF ws
    <3> QED
        BY <1>2, <1>4, <2>1, <2>3, <2>4, <2>5, <2>6, <3>1, RelistStep
  <2> HIDE DEF free
  <2> QED
      BY <1>4, <1>5, <2>1, <2>2, <2>5, <2>7
<1>7. ASSUME IndexOf(p, j) = {} PROVE \A i \in DOMAIN es : es[i].job # new.job
    BY <1>7, <1>3 DEF IndexOf
<1>8. CASE IndexOf(p, j) = {} /\ Len(es) < Capacity
  <2>1. entries' = [entries EXCEPT ![p] = Append(es, new)] /\ Move(t, "lease", t)
      BY <1>8 DEF CheckCache
  <2> HIDE DEF free, new
  <2>2. Relists(p, new, free)
      BY <1>2, <1>3, <1>7, <1>8, <2>1, RelistStep
  <2> QED
      BY <1>3, <1>5, <2>1, <2>2
<1>9. CASE IndexOf(p, j) = {} /\ ~(Len(es) < Capacity) /\ Evictable(p) # {}
  <2> DEFINE i == First(Evictable(p))
  <2>1. i \in DOMAIN es /\ Lessees(es[i].cell) = {} /\ Readers(es[i].cell) = {}
    <3>1. Evictable(p) \in SUBSET (DOMAIN es) /\ Evictable(p) # {}
        BY <1>9 DEF Evictable
    <3>2. i \in Evictable(p)
      <4> HIDE DEF es
      <4> QED
          BY <1>2, <3>1, FirstIsMember, Zenon
    <3> QED
        BY <3>2 DEF Evictable
  <2>2. entries' = [entries EXCEPT ![p] = Append(Without(es, i), new)] /\ Move(t, "lease", t)
      BY <1>9 DEF CheckCache
  <2> HIDE DEF i
  <2> DEFINE ws == Without(es, i)
  <2>3. /\ ws \in Seq(Entry) /\ Len(ws) < Capacity /\ WellFormed(p, ws)
        /\ \A e : Has(ws, e) <=> Has(es, e) /\ e # es[i]
      BY <1>2, <2>1, WithoutList
  <2> HIDE DEF ws
  <2>4. \A k \in DOMAIN ws : ws[k].job # new.job
    <3> TAKE k \in DOMAIN ws
    <3>1. Has(es, ws[k])
        BY <2>3 DEF Has
    <3> HIDE DEF new
    <3> QED
        BY <3>1, <1>7, <1>9 DEF Has
  <2>5. es[i] \in free
      BY <1>4, <2>1
  <2> HIDE DEF free, new
  <2>6. Relists(p, new, free)
    <3>1. entries' = [entries EXCEPT ![p] = Append(ws, new)]
        BY <2>2 DEF ws
    <3> QED
        BY <1>2, <1>3, <2>3, <2>4, <2>5, <3>1, RelistStep
  <2> QED
      BY <1>3, <1>5, <2>2, <2>6
<1>10. CASE IndexOf(p, j) = {} /\ ~(Len(es) < Capacity) /\ Evictable(p) = {}
  <2>1. Move(t, "wait", NoTask) /\ UNCHANGED entries
      BY <1>1, <1>10 DEF CheckCache, Goto
  <2>2. Pays(t, "wait")
      BY <1>1, PaysNothing
  <2>3. "wait" \in Pcs \ (Leasing \cup {"read"})
      BY DEF Pcs, Leasing, Initialising
  <2> QED
      BY <1>1, <2>1, <2>2, <2>3, QuietDrop
<1> QED
    BY <1>6, <1>8, <1>9, <1>10

(***************************************************************************)
(* The error branch of NativeDocumentCache::load.                          *)
(***************************************************************************)
LEMMA ForgetFailureStep ==
    ASSUME TypeOK, CellInv, NEW t \in Tasks, ForgetFailure(t)
    PROVE  TaskStep(t)
<1> DEFINE p == ProcessOf[t]
           c == task[t].cell
           es == entries[p]
           here == {i \in DOMAIN es : es[i].cell = c}
<1>1. /\ task[t].pc = "failed" /\ Leave(t, "error", NoTask)
      /\ UNCHANGED <<answer, value, native, late, result, final, faults>>
    BY DEF ForgetFailure, rowVars, finalVars
<1>2. p \in Processes /\ es \in Seq(Entry) /\ WellFormed(p, es)
    BY TaskFacts DEF TypeOK, CellInv
<1>3. Moves(t, "error", NoTask)
    BY <1>1, MoveMoves DEF TypeOK, Pcs
<1>4. Pays(t, "error") /\ TaskRows(t)
    BY <1>1, <1>3, PaysNothing, SameRows DEF Moves
<1>5. CASE Lessees(c) = {t}
  <2> DEFINE i == First(here)
  <2>1. here # {}
    <3>1. PICK k \in DOMAIN es : es[k] = [job |-> JobOf[t], cell |-> c]
        BY <1>1 DEF TypeOK, Leasing
    <3> QED
        BY <3>1
  <2>2. i \in DOMAIN es /\ es[i].cell = c
    <3>1. here \in SUBSET (DOMAIN es) /\ here # {}
        BY <2>1
    <3>2. i \in here
      <4> HIDE DEF es, here
      <4> QED
          BY <1>2, <3>1, FirstIsMember, Zenon
    <3> QED
        BY <3>2
  <2>3. entries' = [entries EXCEPT ![p] = Without(es, i)]
      BY <1>5 DEF ForgetFailure
  <2> HIDE DEF i
  <2> DEFINE ws == Without(es, i)
  <2>4. /\ ws \in Seq(Entry) /\ WellFormed(p, ws)
        /\ \A e : Has(ws, e) <=> Has(es, e) /\ e # es[i]
      BY <1>2, <2>2, WithoutList
  <2>5. /\ entries' \in [Processes -> Seq(Entry)]
        /\ entries'[p] = ws
        /\ \A q \in Processes \ {p} : entries'[q] = entries[q]
    <3> HIDE DEF ws
    <3> QED
        BY <1>2, <2>3, <2>4 DEF TypeOK, ws
  <2> HIDE DEF ws
  <2>6. Forgets(t)
      BY <1>1, <1>3, <1>5, <2>2, <2>4, <2>5 DEF Forgets
  <2> QED
      BY <1>4, <2>6 DEF TaskStep, Pcs
<1>6. CASE Lessees(c) # {t}
  <2>1. entries' = entries
      BY <1>2, <1>6 DEF ForgetFailure, TypeOK
  <2>2. Forgets(t)
      BY <1>1, <1>2, <1>3, <2>1 DEF Forgets, TypeOK
  <2> QED
      BY <1>4, <2>2 DEF TaskStep, Pcs
<1> QED
    BY <1>5, <1>6

(***************************************************************************)
(* Every action of a task is such a step.                                  *)
(***************************************************************************)
LEMMA TaskActions ==
    ASSUME TypeOK, CellInv, NEW t \in Tasks,
           LoadNativePage(t) \/ Recognize(t) \/ ExtractFails(t) \/ ManagedFails(t) \/ Timeout(t)
    PROVE  TaskStep(t)
BY LoadNativePageStep, TimeoutStep, ReadPageStep, ManagedStep, EnterCellStep, ExtractFailsStep,
   LoadNativePagesStep, SaveNativePagesStep, CheckCacheStep, ForgetFailureStep DEF Recognize

-----------------------------------------------------------------------------
(***************************************************************************)
(* The cache: its part of the type invariant, and CellInv.                 *)
(***************************************************************************)
\* The part of TypeOK that is about the cache.
CacheShape ==
    /\ task \in [Tasks -> TaskRecord]
    /\ entries \in [Processes -> Seq(Entry)]
    /\ value \in [Tasks -> Maybe(Versions)]
    /\ \A t \in Tasks :
          /\ (task[t].cell = NoTask) <=> (task[t].pc \notin Leasing \cup {"read"})
          /\ task[t].pc \in Leasing =>
                Has(entries[ProcessOf[t]], [job |-> JobOf[t], cell |-> task[t].cell])

\* TypeOK says what CacheShape says of the cache.
LEMMA TypeIsShape == TypeOK => CacheShape
BY DEF TypeOK, CacheShape, Has

(***************************************************************************)
(* A task that does not move keeps what it holds.                          *)
(***************************************************************************)
LEMMA OthersStay ==
    ASSUME NEW t \in Tasks, NEW label, NEW c, Moves(t, label, c), NEW u \in Tasks, u # t
    PROVE  /\ task'[u].cell = task[u].cell
           /\ task'[u].pc \in Leasing <=> task[u].pc \in Leasing
           /\ task'[u].pc \in Initialising <=> task[u].pc \in Initialising
           /\ task'[u].pc \in {"failed", "error"} <=> task[u].pc \in {"failed", "error"}
           /\ task'[u].pc \in {"done", "managed"} <=> task[u].pc \in {"done", "managed"}
           /\ task'[u].pc = "read" <=> task[u].pc = "read"
           /\ task'[u].pc = "error" <=> task[u].pc = "error"
BY DEF Moves, Leasing, Initialising

(***************************************************************************)
(* A task that lets go of its cell.                                        *)
(***************************************************************************)
LEMMA DropKeepsCells ==
    ASSUME CacheShape, CellInv, NEW t \in Tasks, NEW label \in Pcs, Drops(t, label)
    PROVE  CacheShape' /\ CellInv'
<1>1. /\ Moves(t, label, NoTask)
      /\ UNCHANGED <<entries, value>>
      /\ label \notin Leasing \cup {"read"}
      /\ label \notin Initialising
    BY DEF Drops, Leasing
<1>2. task'[t].cell = NoTask /\ task'[t].pc = label /\ task' \in [Tasks -> TaskRecord]
    BY <1>1 DEF Moves
<1>3. \A u \in Tasks : u # t =>
          /\ task'[u].cell = task[u].cell
          /\ task'[u].pc \in Leasing <=> task[u].pc \in Leasing
          /\ task'[u].pc \in Initialising <=> task[u].pc \in Initialising
          /\ task'[u].pc = "read" <=> task[u].pc = "read"
    BY <1>1, OthersStay
<1>4. CacheShape'
    BY <1>1, <1>2, <1>3 DEF CacheShape
<1>5. CellInv'
    BY <1>1, <1>2, <1>3 DEF CellInv, Held, WellFormed
<1> QED
    BY <1>4, <1>5

(***************************************************************************)
(* A task that goes on with its cell.                                      *)
(***************************************************************************)
LEMMA AdvanceKeepsCells ==
    ASSUME CacheShape, CellInv, NEW t \in Tasks, NEW label \in Pcs, Advances(t, label)
    PROVE  CacheShape' /\ CellInv'
<1> DEFINE c == task[t].cell
<1>1. /\ Moves(t, label, c)
      /\ UNCHANGED entries
      /\ value' \in [Tasks -> Maybe(Versions)]
      /\ label \in Leasing \cup {"read"}
      /\ task[t].pc \in Leasing
    BY DEF Advances
<1>2. task'[t].cell = c /\ task'[t].pc = label /\ task' \in [Tasks -> TaskRecord]
    BY <1>1 DEF Moves
<1>3. \A u \in Tasks : u # t =>
          /\ task'[u].cell = task[u].cell
          /\ task'[u].pc \in Leasing <=> task[u].pc \in Leasing
          /\ task'[u].pc \in Initialising <=> task[u].pc \in Initialising
          /\ task'[u].pc = "read" <=> task[u].pc = "read"
    BY <1>1, OthersStay
<1>4. CacheShape'
    BY <1>1, <1>2, <1>3 DEF CacheShape
<1>5. \A u \in Tasks : task'[u].pc = "read" => value'[task'[u].cell] # "none"
  <2> TAKE u \in Tasks
  <2>1. CASE u = t
      BY <2>1, <1>2 DEF Advances
  <2>2. CASE u # t
    <3>1. task[u].pc = "read" => task[u].cell \in Tasks
      <4>1. task[u] \in TaskRecord
          BY DEF CacheShape
      <4> QED
          BY <4>1 DEF CacheShape, TaskRecord
    <3> QED
        BY <2>2, <3>1, <1>3 DEF Advances, CellInv
  <2> QED
      BY <2>1, <2>2
<1>6. ASSUME NEW u \in Tasks, NEW w \in Tasks, task'[u].pc \in Initialising,
             task'[w].pc \in Initialising, task'[u].cell = task'[w].cell
      PROVE  u = w
  <2>1. ASSUME NEW x \in Tasks, x # t, task[x].pc \in Initialising, task[x].cell = c,
               label \in Initialising
        PROVE  FALSE
    <3>1. x \in Lessees(c)
        BY <2>1 DEF Lessees, Leasing
    <3> QED
        BY <2>1, <3>1 DEF Advances, CellInv
  <2>2. CASE u = t /\ w # t
      BY <2>1, <2>2, <1>2, <1>3, <1>6
  <2>3. CASE u # t /\ w = t
      BY <2>1, <2>3, <1>2, <1>3, <1>6
  <2>4. CASE u # t /\ w # t
      BY <2>4, <1>3, <1>6 DEF CellInv
  <2> QED
      BY <2>2, <2>3, <2>4
<1>7. \A u \in Tasks : Held(u)'
    BY <1>2, <1>3 DEF CellInv, Held
<1>8. \A p \in Processes : WellFormed(p, entries'[p])
    BY <1>1 DEF CellInv
<1>9. CellInv'
    BY <1>5, <1>6, <1>7, <1>8 DEF CellInv, WellFormed
<1> QED
    BY <1>4, <1>9

(***************************************************************************)
(* A task that takes a lease: who has one keeps his entry.                 *)
(***************************************************************************)
LEMMA LeaseKeepsCells ==
    ASSUME CacheShape, CellInv, NEW t \in Tasks, Leases(t)
    PROVE  CacheShape' /\ CellInv'
<1> DEFINE p == ProcessOf[t]
           free == {e \in Entry : Lessees(e.cell) = {} /\ Readers(e.cell) = {}}
<1>1. PICK c \in Tasks :
          /\ JobOf[c] = JobOf[t] /\ ProcessOf[c] = p
          /\ Moves(t, "lease", c)
          /\ Relists(p, [job |-> JobOf[t], cell |-> c], free)
          /\ UNCHANGED value
    BY DEF Leases
<1>2. /\ task'[t].cell = c /\ task'[t].pc = "lease" /\ task' \in [Tasks -> TaskRecord]
      /\ c # NoTask /\ "lease" \in Leasing /\ "lease" \notin Initialising
    BY <1>1, NativePagesAssumption DEF Moves, Leasing, Initialising
<1>3. \A u \in Tasks : u # t =>
          /\ task'[u].cell = task[u].cell
          /\ task'[u].pc \in Leasing <=> task[u].pc \in Leasing
          /\ task'[u].pc \in Initialising <=> task[u].pc \in Initialising
          /\ task'[u].pc = "read" <=> task[u].pc = "read"
    BY <1>1, OthersStay
<1>4. ASSUME NEW u \in Tasks, task'[u].pc \in Leasing
      PROVE  Has(entries'[ProcessOf[u]], [job |-> JobOf[u], cell |-> task'[u].cell])
  <2> DEFINE d == [job |-> JobOf[u], cell |-> task[u].cell]
  <2>1. CASE u = t
      BY <2>1, <1>1, <1>2 DEF Relists
  <2>2. CASE u # t
    <3>1. Has(entries[ProcessOf[u]], d) /\ u \in Lessees(task[u].cell)
        BY <2>2, <1>3, <1>4 DEF CacheShape, Lessees
    <3>2. d \notin free
        BY <3>1
    <3> HIDE DEF d, free
    <3>3. ProcessOf[u] \in Processes
        BY NativePagesAssumption
    <3>4. Has(entries'[ProcessOf[u]], d)
        BY <1>1, <3>1, <3>2, <3>3 DEF Relists
    <3> QED
        BY <3>4, <2>2, <1>3 DEF d
  <2> QED
      BY <2>1, <2>2
<1>5. CacheShape'
    BY <1>1, <1>2, <1>3, <1>4 DEF CacheShape, Relists
<1>6. \A q \in Processes : WellFormed(q, entries'[q])
    BY <1>1 DEF Relists, CellInv
<1>7. CellInv'
  <2>1. \A u \in Tasks : Held(u)'
      BY <1>1, <1>2, <1>3 DEF CellInv, Held
  <2>2. \A u \in Tasks : task'[u].pc = "read" => value'[task'[u].cell] # "none"
      BY <1>1, <1>2, <1>3 DEF CellInv
  <2>3. \A u, w \in Tasks :
            /\ task'[u].pc \in Initialising /\ task'[w].pc \in Initialising
            /\ task'[u].cell = task'[w].cell
            => u = w
      BY <1>2, <1>3 DEF CellInv
  <2> QED
      BY <1>6, <2>1, <2>2, <2>3 DEF CellInv, WellFormed
<1> QED
    BY <1>5, <1>7

(***************************************************************************)
(* A task that forgets its cell: the entry goes only if it is the last.    *)
(***************************************************************************)
LEMMA ForgetKeepsCells ==
    ASSUME CacheShape, CellInv, NEW t \in Tasks, Forgets(t)
    PROVE  CacheShape' /\ CellInv'
<1> DEFINE p == ProcessOf[t]
<1>1. Moves(t, "error", NoTask) /\ UNCHANGED value
    BY DEF Forgets
<1>2. /\ task'[t].cell = NoTask /\ task'[t].pc = "error" /\ task' \in [Tasks -> TaskRecord]
      /\ "error" \notin Leasing /\ "error" \notin Initialising
    BY <1>1 DEF Moves, Leasing, Initialising
<1>3. \A u \in Tasks : u # t =>
          /\ task'[u].cell = task[u].cell
          /\ task'[u].pc \in Leasing <=> task[u].pc \in Leasing
          /\ task'[u].pc \in Initialising <=> task[u].pc \in Initialising
          /\ task'[u].pc = "read" <=> task[u].pc = "read"
    BY <1>1, OthersStay
<1>4. ASSUME NEW u \in Tasks, task'[u].pc \in Leasing
      PROVE  Has(entries'[ProcessOf[u]], [job |-> JobOf[u], cell |-> task'[u].cell])
  <2> DEFINE d == [job |-> JobOf[u], cell |-> task[u].cell]
  <2>1. u # t
      BY <1>2, <1>4
  <2>2. Has(entries[ProcessOf[u]], d) /\ u \in Lessees(task[u].cell)
      BY <2>1, <1>3, <1>4 DEF CacheShape, Lessees
  <2>3. d \in Entry /\ d.cell = task[u].cell /\ ProcessOf[u] \in Processes
    <3>1. task[u] \in TaskRecord /\ task[u].cell # NoTask /\ JobOf[u] \in Jobs /\ ProcessOf[u] \in Processes
        BY <2>1, <1>3, <1>4, NativePagesAssumption DEF CacheShape
    <3> QED
        BY <3>1 DEF TaskRecord, Entry
  <2> HIDE DEF d
  <2>4. Has(entries'[ProcessOf[u]], d)
      BY <2>1, <2>2, <2>3 DEF Forgets
  <2> QED
      BY <2>1, <2>4, <1>3 DEF d
<1>5. CacheShape'
    BY <1>1, <1>2, <1>3, <1>4 DEF CacheShape, Forgets
<1>6. \A q \in Processes : WellFormed(q, entries'[q])
    BY DEF Forgets, CellInv
<1>7. CellInv'
  <2>1. \A u \in Tasks : Held(u)'
      BY <1>2, <1>3 DEF CellInv, Held
  <2>2. \A u \in Tasks : task'[u].pc = "read" => value'[task'[u].cell] # "none"
      BY <1>1, <1>2, <1>3 DEF CellInv
  <2>3. \A u, w \in Tasks :
            /\ task'[u].pc \in Initialising /\ task'[w].pc \in Initialising
            /\ task'[u].cell = task'[w].cell
            => u = w
      BY <1>2, <1>3 DEF CellInv
  <2> QED
      BY <1>6, <2>1, <2>2, <2>3 DEF CellInv, WellFormed
<1> QED
    BY <1>5, <1>7

-----------------------------------------------------------------------------
(***************************************************************************)
(* The documents outside of the list, and the failures.                    *)
(***************************************************************************)
(***************************************************************************)
(* One more element is at most one more.                                   *)
(***************************************************************************)
LEMMA AddOne ==
    ASSUME NEW S, IsFiniteSet(S), NEW x
    PROVE  /\ IsFiniteSet(S \cup {x})
           /\ Cardinality(S \cup {x}) \in Nat
           /\ Cardinality(S \cup {x}) <= Cardinality(S) + 1
<1>1. IsFiniteSet(S \cup {x})
    BY FS_AddElement
<1>2. Cardinality(S \cup {x}) = Cardinality(S) \/ Cardinality(S \cup {x}) = Cardinality(S) + 1
    BY FS_AddElement
<1>3. Cardinality(S) \in Nat
    BY FS_CardinalityType
<1> QED
    BY <1>1, <1>2, <1>3

(***************************************************************************)
(* What Orphans means of a step, when readers other than t stay.           *)
(***************************************************************************)
LEMMA OrphanStep ==
    ASSUME NEW q \in Processes, NEW c \in Tasks, c \in Orphans(q)', c \notin Orphans(q),
           NEW t \in Tasks, \A u \in Tasks : u # t =>
               task'[u].cell = task[u].cell /\ (task'[u].pc = "read" <=> task[u].pc = "read")
    PROVE  /\ c \notin {entries'[q][i].cell : i \in DOMAIN entries'[q]}
           /\ \/ q = ProcessOf[t] /\ task'[t].pc = "read" /\ task'[t].cell = c
              \/ /\ \E i \in DOMAIN entries[q] : entries[q][i].cell = c
                 /\ \E u \in Readers(c) : u # t
<1>1. PICK u \in Mine(q) : task'[u].pc = "read" /\ task'[u].cell = c
    BY DEF Orphans, Mine
<1>2. c \notin {entries'[q][i].cell : i \in DOMAIN entries'[q]}
    BY DEF Orphans, EntryCells
<1>3. CASE u = t
    BY <1>1, <1>2, <1>3 DEF Mine
<1>4. CASE u # t
  <2>1. u \in Tasks /\ task[u].pc = "read" /\ task[u].cell = c
      BY <1>1, <1>4 DEF Mine
  <2>2. c \in EntryCells(q)
      BY <1>1, <2>1 DEF Orphans
  <2>3. \E i \in DOMAIN entries[q] : entries[q][i].cell = c
      BY <2>2 DEF EntryCells
  <2>4. u \in Readers(c)
      BY <2>1 DEF Readers
  <2> QED
      BY <1>2, <1>4, <2>3, <2>4
<1> QED
    BY <1>3, <1>4

(***************************************************************************)
(* Only a task that forgets its cell makes an orphan, and it ends in       *)
(* error.                                                                  *)
(***************************************************************************)
LEMMA OrphansStep ==
    ASSUME CacheShape, NEW t \in Tasks, NEW label \in Pcs, NEW q \in Processes,
           Drops(t, label) \/ Advances(t, label) \/ Leases(t)
    PROVE  Orphans(q)' \subseteq Orphans(q)
<1> SUFFICES ASSUME NEW c \in Tasks, c \in Orphans(q)', c \notin Orphans(q)
             PROVE  FALSE
    BY DEF Orphans
<1>1. PICK l, d : Moves(t, l, d)
    BY DEF Drops, Advances, Leases
<1>2. \A u \in Tasks : u # t =>
          task'[u].cell = task[u].cell /\ (task'[u].pc = "read" <=> task[u].pc = "read")
    BY <1>1, OthersStay
<1>3. /\ c \notin {entries'[q][i].cell : i \in DOMAIN entries'[q]}
      /\ \/ q = ProcessOf[t] /\ task'[t].pc = "read" /\ task'[t].cell = c
         \/ /\ \E i \in DOMAIN entries[q] : entries[q][i].cell = c
            /\ \E u \in Readers(c) : u # t
    BY <1>2, OrphanStep
<1>4. CASE Drops(t, label)
    BY <1>3, <1>4 DEF Drops, Moves
<1>5. CASE Advances(t, label)
  <2>1. UNCHANGED entries /\ task'[t].cell = task[t].cell
      BY <1>5 DEF Advances, Moves
  <2>2. Has(entries[ProcessOf[t]], [job |-> JobOf[t], cell |-> task[t].cell])
      BY <1>5 DEF Advances, CacheShape
  <2>3. \E i \in DOMAIN entries[ProcessOf[t]] : entries[ProcessOf[t]][i].cell = task[t].cell
      BY <2>2 DEF Has
  <2> QED
      BY <1>3, <2>1, <2>3
<1>6. CASE Leases(t)
  <2> DEFINE free == {e \in Entry : Lessees(e.cell) = {} /\ Readers(e.cell) = {}}
  <2>1. task'[t].pc = "lease"
      BY <1>6 DEF Leases, Moves
  <2>2. PICK i \in DOMAIN entries[q] : entries[q][i].cell = c
      BY <1>3, <2>1
  <2>3. Has(entries[q], entries[q][i]) /\ entries[q][i] \notin free
      BY <1>3, <2>1, <2>2 DEF Has
  <2> HIDE DEF free
  <2>4. PICK e : Relists(ProcessOf[t], e, free)
      BY <1>6 DEF Leases, free
  <2>5. Has(entries'[q], entries[q][i])
      BY <2>3, <2>4 DEF Relists
  <2> QED
      BY <1>3, <2>2, <2>5 DEF Has
<1> QED
    BY <1>4, <1>5, <1>6

(***************************************************************************)
(* A task that forgets its cell leaves at most that cell behind.           *)
(***************************************************************************)
LEMMA ForgetOrphans ==
    ASSUME CacheShape, NEW t \in Tasks, NEW q \in Processes, Forgets(t)
    PROVE  Orphans(q)' \subseteq Orphans(q) \cup {task[t].cell}
<1> SUFFICES ASSUME NEW c \in Tasks, c \in Orphans(q)', c \notin Orphans(q)
             PROVE  c = task[t].cell
    BY DEF Orphans
<1>1. Moves(t, "error", NoTask)
    BY DEF Forgets
<1>2. \A u \in Tasks : u # t =>
          task'[u].cell = task[u].cell /\ (task'[u].pc = "read" <=> task[u].pc = "read")
    BY <1>1, OthersStay
<1>3. /\ c \notin {entries'[q][i].cell : i \in DOMAIN entries'[q]}
      /\ \/ q = ProcessOf[t] /\ task'[t].pc = "read" /\ task'[t].cell = c
         \/ /\ \E i \in DOMAIN entries[q] : entries[q][i].cell = c
            /\ \E u \in Readers(c) : u # t
    BY <1>2, OrphanStep
<1>4. PICK i \in DOMAIN entries[q] : entries[q][i].cell = c
    BY <1>1, <1>3 DEF Moves
<1>5. Has(entries[q], entries[q][i]) /\ entries[q][i] \in Entry
  <2>1. entries[q] \in Seq(Entry)
      BY DEF CacheShape
  <2> QED
      BY <1>4, <2>1, LenProperties, ElementOfSeq DEF Has
<1>6. ~Has(entries'[q], entries[q][i])
    BY <1>3, <1>4 DEF Has
<1> QED
    BY <1>4, <1>5, <1>6 DEF Forgets

(***************************************************************************)
(* BoundInv over the step of a task.                                       *)
(***************************************************************************)
LEMMA TaskKeepsBound ==
    ASSUME TypeOK, CellInv, BoundInv, NEW t \in Tasks, TaskStep(t)
    PROVE  BoundInv'
<1>0. CacheShape
    BY TypeIsShape
<1>1. PICK label \in Pcs :
          /\ Pays(t, label)
          /\ \/ Drops(t, label)
             \/ Advances(t, label)
             \/ label = "lease" /\ Leases(t)
             \/ label = "error" /\ Forgets(t)
    BY DEF TaskStep
<1>2. PICK c : Moves(t, label, c)
    BY <1>1 DEF Drops, Advances, Leases, Forgets
<1>3. task'[t].pc = label
    BY <1>2 DEF Moves
<1>4. \A u \in Tasks : u # t =>
          /\ task'[u].pc \in {"failed", "error"} <=> task[u].pc \in {"failed", "error"}
          /\ task'[u].pc = "error" <=> task[u].pc = "error"
    BY <1>2, OthersStay
<1>5. /\ IsFiniteSet(Tasks) /\ IsFiniteSet(Errors) /\ IsFiniteSet(Failures)
      /\ IsFiniteSet(Errors') /\ IsFiniteSet(Failures')
      /\ \A q \in Processes : IsFiniteSet(Orphans(q)) /\ IsFiniteSet(Orphans(q)')
  <2>1. Errors \subseteq Tasks /\ Failures \subseteq Tasks /\ Errors' \subseteq Tasks /\ Failures' \subseteq Tasks
      BY DEF Errors, Failures
  <2>2. \A q \in Processes : Orphans(q) \subseteq Tasks /\ Orphans(q)' \subseteq Tasks
      BY DEF Orphans
  <2> QED
      BY <2>1, <2>2, FS_Subset, NativePagesAssumption
<1>6. task[t].pc # "error"
    BY <1>1 DEF Drops, Advances, Leases, Forgets, Leasing, Initialising
<1>7. Errors \subseteq Errors'
    BY <1>4, <1>6 DEF Errors
<1>8. Cardinality(Errors) \in Nat /\ Cardinality(Errors') \in Nat /\ Cardinality(Errors) <= Cardinality(Errors')
    BY <1>5, <1>7, FS_Subset, FS_CardinalityType
<1>9. ASSUME NEW q \in Processes PROVE Cardinality(Orphans(q)') <= Cardinality(Errors')
  <2>1. Cardinality(Orphans(q)) \in Nat /\ Cardinality(Orphans(q)') \in Nat
      BY <1>5, FS_CardinalityType
  <2>2. Cardinality(Orphans(q)) <= Cardinality(Errors)
      BY DEF BoundInv
  <2>3. CASE Drops(t, label) \/ Advances(t, label) \/ Leases(t)
    <3>1. Cardinality(Orphans(q)') <= Cardinality(Orphans(q))
        BY <1>0, <1>5, <2>3, OrphansStep, FS_Subset
    <3> QED
        BY <3>1, <2>1, <2>2, <1>8
  <2>4. CASE label = "error" /\ Forgets(t)
    <3> DEFINE T == Orphans(q) \cup {task[t].cell}
    <3>1. IsFiniteSet(T) /\ Cardinality(T) \in Nat /\ Cardinality(T) <= Cardinality(Orphans(q)) + 1
        BY <1>5, AddOne
    <3>2. Cardinality(Orphans(q)') <= Cardinality(T)
      <4>1. Orphans(q)' \subseteq T
          BY <1>0, <2>4, ForgetOrphans
      <4> QED
          BY <3>1, <4>1, FS_Subset
    <3>3. t \notin Errors /\ Errors \cup {t} \subseteq Errors'
        BY <1>3, <1>6, <1>7, <2>4 DEF Errors
    <3>4. Cardinality(Errors \cup {t}) = Cardinality(Errors) + 1
        BY <1>5, <3>3, FS_AddElement
    <3>5. Cardinality(Errors \cup {t}) <= Cardinality(Errors')
        BY <1>5, <3>3, FS_Subset
    <3> HIDE DEF T
    <3> QED
        BY <1>8, <2>1, <2>2, <3>1, <3>2, <3>4, <3>5
  <2> QED
      BY <1>1, <2>3, <2>4
<1>10. Cardinality(Failures') <= faults'
  <2>1. /\ Cardinality(Failures) \in Nat /\ Cardinality(Failures') \in Nat
        /\ Cardinality(Failures) <= faults /\ faults \in Nat /\ faults' \in Nat /\ faults' >= faults
    <3>1. Cardinality(Failures) \in Nat /\ Cardinality(Failures') \in Nat
        BY <1>5, FS_CardinalityType
    <3>2. faults \in 0..MaxFaults /\ faults' \in 0..MaxFaults /\ faults' >= faults
        BY <1>1 DEF TypeOK, Pays
    <3>3. faults \in Nat /\ faults' \in Nat
        BY <3>2, NativePagesAssumption
    <3> QED
        BY <3>1, <3>2, <3>3 DEF BoundInv
  <2>2. CASE label \in {"failed", "error"} /\ task[t].pc # "failed"
    <3>1. Failures' \subseteq Failures \cup {t}
        BY <1>4 DEF Failures
    <3>2. /\ IsFiniteSet(Failures \cup {t})
          /\ Cardinality(Failures \cup {t}) \in Nat
          /\ Cardinality(Failures \cup {t}) <= Cardinality(Failures) + 1
        BY <1>5, AddOne
    <3>3. Cardinality(Failures') <= Cardinality(Failures \cup {t})
        BY <3>1, <3>2, FS_Subset
    <3>4. faults' = faults + 1
        BY <1>1, <2>2 DEF Pays
    <3> QED
        BY <2>1, <3>2, <3>3, <3>4
  <2>3. CASE ~(label \in {"failed", "error"} /\ task[t].pc # "failed")
    <3>1. Failures' \subseteq Failures
        BY <1>3, <1>4, <2>3 DEF Failures
    <3>2. Cardinality(Failures') <= Cardinality(Failures)
        BY <1>5, <3>1, FS_Subset
    <3> QED
        BY <2>1, <3>2
  <2> QED
      BY <2>2, <2>3
<1> QED
    BY <1>9, <1>10 DEF BoundInv

-----------------------------------------------------------------------------
(***************************************************************************)
(* The rows, the answers and the finalizer.                                *)
(***************************************************************************)
(***************************************************************************)
(* What tasks and cells hold stays the stored extraction, and a task ends  *)
(* with its document stored.                                               *)
(***************************************************************************)
LEMMA TaskKeepsRows ==
    ASSUME TypeOK, CellInv, VersionInv, FinalInv, LeftoverInv, NEW t \in Tasks, TaskStep(t)
    PROVE  VersionInv' /\ FinalInv' /\ LeftoverInv'
<1> DEFINE j == JobOf[t]
           c == task[t].cell
<1>1. TaskRows(t)
    BY DEF TaskStep
<1>2. j \in Jobs /\ \A u \in Tasks : JobOf[u] \in Jobs
    BY NativePagesAssumption
<1>3. "none" \notin Versions
    BY NativePagesAssumption DEF Versions
<1>4. task[t].pc = "read" => /\ c \in Tasks /\ JobOf[c] = j
                             /\ value[c] # "none"
    BY TaskFacts DEF CellInv, Held
<1>5. UNCHANGED <<result, final>>
    BY <1>1 DEF TaskRows
<1>6. \A k \in Jobs : native'[k] = native[k] \/ (k = j /\ native[k] = "none" /\ native'[k] # "none")
    BY <1>1, <1>2 DEF TaskRows
<1>7. \A k \in Jobs : native[k] # "none" => native'[k] = native[k]
    BY <1>6
<1>8. task[t].pc = "read" /\ result[j] = "none" => value[c] = native[j]
    BY <1>4 DEF VersionInv
<1>9. VersionInv'
  <2>1. ASSUME NEW u \in Tasks, answer'[u] \in Versions, result'[JobOf[u]] = "none"
        PROVE  answer'[u] = native'[JobOf[u]]
    <3>1. result[JobOf[u]] = "none"
        BY <2>1, <1>5
    <3>2. answer'[u] = native[JobOf[u]]
      <4>1. CASE u # t
          BY <2>1, <3>1, <4>1, <1>1 DEF TaskRows, VersionInv
      <4>2. CASE u = t
          BY <2>1, <3>1, <4>2, <1>1, <1>8 DEF TaskRows, VersionInv
      <4> QED
          BY <4>1, <4>2
    <3> QED
        BY <2>1, <3>2, <1>2, <1>3, <1>7
  <2>2. ASSUME NEW d \in Tasks, value'[d] # "none", result'[JobOf[d]] = "none"
        PROVE  value'[d] = native'[JobOf[d]]
    <3>1. CASE value'[d] = value[d]
      <4>1. value[d] = native[JobOf[d]] /\ value[d] # "none"
          BY <2>2, <3>1, <1>5 DEF VersionInv
      <4> QED
          BY <3>1, <4>1, <1>2, <1>7
    <3>2. CASE JobOf[d] = j /\ value'[d] = native'[j]
        BY <3>2
    <3> QED
        BY <3>1, <3>2, <1>1 DEF TaskRows
  <2> QED
      BY <2>1, <2>2 DEF VersionInv
<1>10. \A k \in Jobs : Settled(k) => Settled(k)'
    BY <1>5, <1>7 DEF Settled
<1>11. FinalInv'
  <2>1. ASSUME NEW u \in Tasks, task'[u].pc \in {"done", "managed"} PROVE Settled(JobOf[u])
    <3>1. CASE u # t
      <4>1. PICK label, d : Moves(t, label, d)
          BY DEF TaskStep, Drops, Advances, Leases, Forgets
      <4>2. task[u].pc \in {"done", "managed"}
          BY <2>1, <3>1, <4>1, OthersStay
      <4> QED
          BY <4>2 DEF FinalInv
    <3>2. CASE u = t
      <4>1. task[t].pc = "managed" \/ native[j] # "none" \/ task[t].pc = "read"
          BY <2>1, <3>2, <1>1 DEF TaskRows
      <4>2. CASE task[t].pc = "managed"
          BY <3>2, <4>2 DEF FinalInv
      <4>3. CASE native[j] # "none"
          BY <3>2, <4>3 DEF Settled
      <4>4. CASE task[t].pc = "read"
          BY <3>2, <4>4, <1>4, <1>8 DEF Settled
      <4> QED
          BY <4>1, <4>2, <4>3, <4>4
    <3> QED
        BY <3>1, <3>2
  <2>2. \A u \in Tasks : task'[u].pc \in {"done", "managed"} => Settled(JobOf[u])'
      BY <2>1, <1>2, <1>10 DEF Settled
  <2>3. \A f \in Finals : FinalOf[f] \in Jobs
      BY NativePagesAssumption
  <2>4. \A f \in Finals : final'[f].pc \in {"duration", "publish"} => Settled(FinalOf[f])'
      BY <1>5, <1>10, <2>3 DEF FinalInv, Settled
  <2> QED
      BY <2>2, <2>4, <1>5 DEF FinalInv, NativeResultIsPublished
<1>12. LeftoverInv'
  <2> SUFFICES ASSUME NEW k \in Jobs, result'[k] # "none", native'[k] # "none"
               PROVE  \/ k \in late'
                      \/ \E f \in Finals : FinalOf[f] = k /\ final'[f].pc \in {"clear", "lost"}
      BY DEF LeftoverInv
  <2>2. late \subseteq late'
      BY <1>1 DEF TaskRows
  <2>3. CASE native'[k] = native[k]
      BY <2>2, <2>3, <1>5 DEF LeftoverInv
  <2>4. CASE native'[k] # native[k]
      BY <2>4, <1>1, <1>2, <1>5, <1>6 DEF TaskRows
  <2> QED
      BY <2>3, <2>4
<1> QED
    BY <1>9, <1>11, <1>12

\* f moves, and the other executions do not.
FinalMoves(f, label, kind) ==
    /\ final' \in [Finals -> FinalRecord]
    /\ final'[f].pc = label
    /\ final'[f].kind = kind
    /\ \A g \in Finals \ {f} : final'[g] = final[g]

\* A step of a finalizer: it begins or ends, learns whether there are rows, publishes
\* what is not published, or clears the rows of a published job.
FinalStep(f) ==
    LET j == FinalOf[f] IN
    /\ UNCHANGED <<task, answer, entries, value, late>>
    /\ faults' \in 0..MaxFaults /\ faults' >= faults
    /\ \/ /\ FinalMoves(f, "duration", "none")
          /\ UNCHANGED <<native, result>> /\ final[f].pc = "idle"
          /\ \E t \in Tasks : JobOf[t] = j /\ task[t].pc = "done"
       \/ /\ FinalMoves(f, "ended", "none")
          /\ UNCHANGED <<native, result>> /\ final[f].pc \notin {"clear", "lost"}
       \/ /\ FinalMoves(f, "lost", "none")
          /\ UNCHANGED <<native, result>> /\ final[f].pc = "clear"
       \/ /\ FinalMoves(f, "publish", IF native[j] = "none" THEN "legacy" ELSE "native")
          /\ UNCHANGED <<native, result>> /\ final[f].pc = "duration"
       \/ /\ \E label \in {"clear", "lost"} :
                FinalMoves(f, IF result'[j] = final[f].kind THEN label ELSE "ended", "none")
          /\ result' = [result EXCEPT ![j] = IF @ = "none" THEN final[f].kind ELSE @]
          /\ UNCHANGED native /\ final[f].pc = "publish"
       \/ /\ FinalMoves(f, "ended", "none")
          /\ native' = [native EXCEPT ![j] = "none"]
          /\ UNCHANGED result /\ final[f].pc = "clear"

(***************************************************************************)
(* FinalTo.                                                                *)
(***************************************************************************)
LEMMA FinalToMoves ==
    ASSUME TypeOK, NEW f \in Finals, NEW label \in {"duration", "publish", "clear", "ended", "lost"},
           NEW kind \in Maybe({"native", "legacy"}), FinalTo(f, label, kind)
    PROVE  FinalMoves(f, label, kind)
<1> DEFINE r == [pc |-> label, kind |-> kind]
<1>1. r \in FinalRecord /\ r.pc = label /\ r.kind = kind
    BY DEF FinalRecord
<1> HIDE DEF r
<1>2. final' = [final EXCEPT ![f] = r]
    BY DEF FinalTo, r
<1> QED
    BY <1>1, <1>2 DEF FinalMoves, TypeOK

(***************************************************************************)
(* Every action of a finalizer is such a step.                             *)
(***************************************************************************)
LEMMA FinalActions ==
    ASSUME TypeOK, NEW f \in Finals, Finalize(f) \/ FinalFails(f)
    PROVE  FinalStep(f)
<1> DEFINE j == FinalOf[f]
<1>1. faults \in 0..MaxFaults /\ faults \in Nat /\ MaxFaults \in Nat
    BY NativePagesAssumption DEF TypeOK
<1>2. {"none", "native", "legacy"} = Maybe({"native", "legacy"})
    BY DEF Maybe
<1>3. CASE BeginFinal(f)
  <2>1. /\ UNCHANGED <<task, answer, entries, value, late, native, result, faults>>
        /\ final[f].pc = "idle"
        /\ \E t \in Tasks : JobOf[t] = j /\ task[t].pc = "done"
        /\ FinalTo(f, "duration", "none") \/ FinalTo(f, "ended", "none")
      BY <1>3 DEF BeginFinal, rowVars
  <2>2. FinalMoves(f, "duration", "none") \/ FinalMoves(f, "ended", "none")
      BY <1>2, <2>1, FinalToMoves
  <2> QED
      BY <1>1, <2>1, <2>2 DEF FinalStep
<1>4. CASE LoadDuration(f)
  <2> DEFINE kind == IF native[j] = "none" THEN "legacy" ELSE "native"
  <2>1. /\ UNCHANGED <<task, answer, entries, value, late, native, result, faults>>
        /\ final[f].pc = "duration" /\ FinalTo(f, "publish", kind)
      BY <1>4 DEF LoadDuration, rowVars
  <2>2. FinalMoves(f, "publish", kind)
      BY <1>2, <2>1, FinalToMoves
  <2> QED
      BY <1>1, <2>1, <2>2 DEF FinalStep
<1>5. CASE PublishFinal(f)
  <2> DEFINE label == IF result'[j] = final[f].kind THEN "clear" ELSE "ended"
  <2>1. /\ UNCHANGED <<task, answer, entries, value, late, native, faults>>
        /\ final[f].pc = "publish" /\ FinalTo(f, label, "none")
        /\ result' = [result EXCEPT ![j] = IF @ = "none" THEN final[f].kind ELSE @]
      BY <1>5 DEF PublishFinal, Commit, rowVars
  <2>2. FinalMoves(f, label, "none")
      BY <1>2, <2>1, FinalToMoves
  <2> QED
      BY <1>1, <2>1, <2>2 DEF FinalStep
<1>6. CASE ClearNativePages(f)
  <2>1. /\ UNCHANGED <<task, answer, entries, value, late, result, faults>>
        /\ final[f].pc = "clear" /\ FinalTo(f, "ended", "none")
        /\ native' = [native EXCEPT ![j] = "none"]
      BY <1>6 DEF ClearNativePages
  <2>2. FinalMoves(f, "ended", "none")
      BY <1>2, <2>1, FinalToMoves
  <2> QED
      BY <1>1, <2>1, <2>2 DEF FinalStep
<1>7. CASE FinalFails(f)
  <2>1. /\ UNCHANGED <<task, answer, entries, value, late, native>>
        /\ faults < MaxFaults /\ faults' = faults + 1
      BY <1>7 DEF FinalFails, rowVars, Fault
  <2>2. faults' \in 0..MaxFaults /\ faults' >= faults
      BY <1>1, <2>1
  <2>3. CASE final[f].pc \in {"duration", "publish"} /\ FinalTo(f, "ended", "none") /\ UNCHANGED result
    <3>1. FinalMoves(f, "ended", "none")
        BY <1>2, <2>3, FinalToMoves
    <3> QED
        BY <2>1, <2>2, <2>3, <3>1 DEF FinalStep
  <2>4. CASE /\ final[f].pc = "publish" /\ Commit(f)
             /\ FinalTo(f, IF result'[FinalOf[f]] = final[f].kind THEN "lost" ELSE "ended", "none")
    <3> DEFINE label == IF result'[j] = final[f].kind THEN "lost" ELSE "ended"
    <3>1. result' = [result EXCEPT ![j] = IF @ = "none" THEN final[f].kind ELSE @]
        BY <2>4 DEF Commit
    <3>2. FinalMoves(f, label, "none")
        BY <1>2, <2>4, FinalToMoves
    <3> QED
        BY <2>1, <2>2, <2>4, <3>1, <3>2 DEF FinalStep
  <2>5. CASE final[f].pc = "clear" /\ FinalTo(f, "lost", "none") /\ UNCHANGED result
    <3>1. FinalMoves(f, "lost", "none")
        BY <1>2, <2>5, FinalToMoves
    <3> QED
        BY <2>1, <2>2, <2>5, <3>1 DEF FinalStep
  <2> QED
      BY <1>7, <2>3, <2>4, <2>5 DEF FinalFails
<1> QED
    BY <1>3, <1>4, <1>5, <1>6, <1>7 DEF Finalize

(***************************************************************************)
(* The invariants over the step of a finalizer.                            *)
(***************************************************************************)
LEMMA FinalKeeps ==
    ASSUME TypeOK, NativeInv, NEW f \in Finals, FinalStep(f)
    PROVE  TypeOK' /\ NativeInv'
<1> DEFINE j == FinalOf[f]
           publishing == /\ final[f].pc = "publish" /\ UNCHANGED native
                         /\ result' = [result EXCEPT ![j] = IF @ = "none" THEN final[f].kind ELSE @]
           clearing == /\ final[f].pc = "clear" /\ UNCHANGED result
                       /\ native' = [native EXCEPT ![j] = "none"]
<1> USE DEF NativeInv
<1>1. /\ UNCHANGED <<task, answer, entries, value, late>>
      /\ faults' \in 0..MaxFaults /\ faults' >= faults
      /\ final' \in [Finals -> FinalRecord]
      /\ \A g \in Finals \ {f} : final'[g] = final[g]
    BY DEF FinalStep, FinalMoves
<1>2. j \in Jobs /\ (\A g \in Finals : FinalOf[g] \in Jobs) /\ (\A t \in Tasks : JobOf[t] \in Jobs)
    BY NativePagesAssumption
<1>3. final[f] \in FinalRecord
    BY DEF TypeOK
<1>4. final[f].pc = "publish" =>
          /\ final[f].kind \in {"native", "legacy"}
          /\ final[f].kind = "legacy" => result[j] # "none"
    BY <1>3 DEF FinalInv, FinalRecord, Maybe
<1>5. UNCHANGED <<native, result>> \/ publishing \/ clearing
    BY DEF FinalStep
<1>6. /\ native' \in [Jobs -> Maybe(Versions)]
      /\ \A k \in Jobs : native'[k] = native[k] \/ (native'[k] = "none" /\ clearing /\ k = j)
    BY <1>2, <1>5 DEF TypeOK, Maybe
<1>7. /\ result' \in [Jobs -> Maybe({"native", "legacy"})]
      /\ \A k \in Jobs : result[k] # "none" => result'[k] = result[k]
      /\ \A k \in Jobs : result'[k] = result[k]
            \/ (k = j /\ publishing /\ result[j] = "none" /\ result'[j] = "native")
  <2>1. CASE UNCHANGED result
      BY <2>1 DEF TypeOK
  <2>2. CASE publishing
    <3> DEFINE r == IF result[j] = "none" THEN final[f].kind ELSE result[j]
    <3>1. result[j] \in Maybe({"native", "legacy"})
        BY <1>2 DEF TypeOK
    <3>2. r \in Maybe({"native", "legacy"}) /\ (result[j] = "none" => r = "native")
        BY <2>2, <3>1, <1>4 DEF Maybe
    <3>3. result' = [result EXCEPT ![j] = r]
        BY <2>2
    <3> HIDE DEF r
    <3>4. result' \in [Jobs -> Maybe({"native", "legacy"})] /\ result'[j] = r
          /\ \A k \in Jobs \ {j} : result'[k] = result[k]
        BY <3>2, <3>3, <1>2 DEF TypeOK
    <3> QED
        BY <2>2, <3>2, <3>4 DEF r
  <2> QED
      BY <1>5, <2>1, <2>2
<1>8. clearing => result[j] # "none"
    BY DEF FinalInv
<1>9. TypeOK'
    BY <1>1, <1>6, <1>7 DEF TypeOK
<1>10. CellInv'
    BY <1>1 DEF CellInv, Held, WellFormed
<1>11. VersionInv'
  <2>1. \A k \in Jobs : result'[k] = "none" => result[k] = "none" /\ native'[k] = native[k]
      BY <1>6, <1>7, <1>8
  <2> QED
      BY <2>1, <1>1, <1>2 DEF VersionInv
<1>12. \A k \in Jobs : Settled(k) => native'[k] # "none" \/ result'[k] # "none"
    BY <1>6, <1>7, <1>8 DEF Settled
<1>13. FinalInv'
  <2>1. \A t \in Tasks : task'[t].pc \in {"done", "managed"} => Settled(JobOf[t])'
      BY <1>1, <1>2, <1>12 DEF FinalInv, Settled
  <2>2. NativeResultIsPublished'
      BY <1>7 DEF FinalInv, NativeResultIsPublished
  <2>3. ASSUME NEW g \in Finals, g # f
        PROVE  /\ final'[g].pc \in {"duration", "publish"} => Settled(FinalOf[g])'
               /\ final'[g].pc = "publish" => final'[g].kind # "none"
               /\ final'[g].pc = "publish" /\ final'[g].kind = "legacy" => result'[FinalOf[g]] # "none"
               /\ final'[g].pc = "clear" => result'[FinalOf[g]] # "none"
      BY <2>3, <1>1, <1>2, <1>7, <1>12 DEF FinalInv, Settled
  <2>4. final'[f].pc \in {"duration", "publish"} => native'[j] # "none" \/ result'[j] # "none"
    <3>1. CASE FinalMoves(f, "duration", "none") /\ \E t \in Tasks : JobOf[t] = j /\ task[t].pc = "done"
        BY <3>1, <1>2, <1>12 DEF FinalInv
    <3>2. CASE final[f].pc = "duration"
        BY <3>2, <1>2, <1>12 DEF FinalInv
    <3>3. CASE final'[f].pc \notin {"duration", "publish"}
        BY <3>3
    <3> QED
        BY <3>1, <3>2, <3>3 DEF FinalStep, FinalMoves
  <2>5. final'[f].pc = "publish" =>
            /\ final'[f].kind # "none"
            /\ final'[f].kind = "legacy" => result'[j] # "none"
    <3> SUFFICES ASSUME final'[f].pc = "publish"
                 PROVE  /\ final'[f].kind # "none"
                        /\ final'[f].kind = "legacy" => result'[j] # "none"
        OBVIOUS
    <3>1. /\ FinalMoves(f, "publish", IF native[j] = "none" THEN "legacy" ELSE "native")
          /\ UNCHANGED <<native, result>> /\ final[f].pc = "duration"
        BY DEF FinalStep, FinalMoves
    <3>2. Settled(j)
        BY <3>1 DEF FinalInv
    <3> QED
        BY <3>1, <3>2 DEF FinalMoves, Settled
  <2>6. final'[f].pc = "clear" => result'[j] # "none"
    <3> SUFFICES ASSUME final'[f].pc = "clear" PROVE result'[j] # "none"
        OBVIOUS
    <3>1. final[f].pc = "publish" /\ result'[j] = final[f].kind
        BY DEF FinalStep, FinalMoves
    <3> QED
        BY <3>1, <1>4
  <2>7. \A g \in Finals :
            /\ final'[g].pc \in {"duration", "publish"} => Settled(FinalOf[g])'
            /\ final'[g].pc = "publish" => final'[g].kind # "none"
            /\ final'[g].pc = "publish" /\ final'[g].kind = "legacy" => result'[FinalOf[g]] # "none"
            /\ final'[g].pc = "clear" => result'[FinalOf[g]] # "none"
    <3> TAKE g \in Finals
    <3>1. CASE g # f
        BY <3>1, <2>3
    <3>2. CASE g = f
        BY <3>2, <2>4, <2>5, <2>6 DEF Settled
    <3> QED
        BY <3>1, <3>2
  <2> QED
      BY <2>1, <2>2, <2>7 DEF FinalInv
<1>14. LeftoverInv'
  <2> SUFFICES ASSUME NEW k \in Jobs, result'[k] # "none", native'[k] # "none"
               PROVE  \/ k \in late'
                      \/ \E g \in Finals : FinalOf[g] = k /\ final'[g].pc \in {"clear", "lost"}
      BY DEF LeftoverInv
  <2>2. native[k] # "none" /\ ~(clearing /\ k = j)
    <3>1. clearing => native'[j] = "none"
        BY <1>2 DEF TypeOK
    <3> QED
        BY <1>6, <3>1
  <2>3. CASE result[k] = "none"
    <3>1. k = j /\ publishing /\ result'[j] = "native"
        BY <2>3, <1>7
    <3>2. final[f].kind = "native"
        BY <2>3, <3>1, <1>4
    <3>3. final'[f].pc \in {"clear", "lost"}
        BY <2>3, <3>1, <3>2 DEF FinalStep, FinalMoves
    <3> QED
        BY <3>1, <3>3
  <2>4. CASE result[k] # "none"
    <3>1. CASE k \in late
        BY <3>1, <1>1
    <3>2. CASE k \notin late
      <4>1. PICK g \in Finals : FinalOf[g] = k /\ final[g].pc \in {"clear", "lost"}
          BY <2>2, <2>4, <3>2 DEF LeftoverInv
      <4>2. CASE g # f
          BY <4>1, <4>2, <1>1
      <4>3. CASE g = f
        <5>1. final[f].pc \in {"clear", "lost"} /\ k = j
            BY <4>1, <4>3
        <5>2. final'[f].pc = "lost"
            BY <5>1, <2>2 DEF FinalStep, FinalMoves
        <5> QED
            BY <5>1, <5>2
      <4> QED
          BY <4>2, <4>3
    <3> QED
        BY <3>1, <3>2
  <2> QED
      BY <2>3, <2>4
<1>15. BoundInv'
  <2>1. Errors' = Errors /\ Failures' = Failures /\ \A p \in Processes : Orphans(p)' = Orphans(p)
      BY <1>1 DEF Errors, Failures, Orphans, EntryCells, Mine
  <2>2. Cardinality(Failures) \in Nat
    <3>1. Failures \subseteq Tasks
        BY DEF Failures
    <3> QED
        BY <3>1, FS_Subset, FS_CardinalityType, NativePagesAssumption
  <2>3. faults \in Nat /\ faults' \in Nat
      BY <1>1, NativePagesAssumption DEF TypeOK
  <2>4. Cardinality(Failures') <= faults'
      BY <2>1, <2>2, <2>3, <1>1 DEF BoundInv
  <2> QED
      BY <2>1, <2>4 DEF BoundInv
<1> QED
    BY <1>9, <1>10, <1>11, <1>13, <1>14, <1>15

-----------------------------------------------------------------------------
(***************************************************************************)
(* The theorems.                                                           *)
(***************************************************************************)
(***************************************************************************)
(* The invariants over the step of a task.                                 *)
(***************************************************************************)
LEMMA TaskKeeps ==
    ASSUME TypeOK, NativeInv, NEW t \in Tasks, TaskStep(t)
    PROVE  TypeOK' /\ NativeInv'
<1>1. CacheShape
    BY TypeIsShape
<1>2. CacheShape' /\ CellInv'
    BY <1>1, DropKeepsCells, AdvanceKeepsCells, LeaseKeepsCells, ForgetKeepsCells
       DEF TaskStep, NativeInv
<1>3. TypeOK'
  <2>1. /\ answer' \in [Tasks -> Maybe(Versions \cup {"managed"})]
        /\ native' \in [Jobs -> Maybe(Versions)]
        /\ late' \subseteq Jobs
        /\ faults' \in 0..MaxFaults
        /\ UNCHANGED <<result, final>>
      BY DEF TaskStep, TaskRows, Pays
  <2> QED
      BY <1>2, <2>1 DEF TypeOK, CacheShape, Has
<1>4. BoundInv'
    BY TaskKeepsBound DEF NativeInv
<1>5. VersionInv' /\ FinalInv' /\ LeftoverInv'
    BY TaskKeepsRows DEF NativeInv
<1> QED
    BY <1>2, <1>3, <1>4, <1>5 DEF NativeInv

(***************************************************************************)
(* Native recognition keeps its invariants: whatever tasks share, lose or  *)
(* are denied a document, and whatever store call fails.                   *)
(***************************************************************************)
THEOREM Recognition == Spec => [](TypeOK /\ NativeInv)
<1>1. Init => TypeOK /\ NativeInv
  <2> SUFFICES ASSUME Init PROVE TypeOK /\ NativeInv
      OBVIOUS
  <2>1. Idle \in TaskRecord /\ Idle.pc = "idle" /\ Idle.cell = NoTask
      BY DEF Idle, TaskRecord, Pcs
  <2>2. \A t \in Tasks : task[t] = Idle
      BY DEF Init
  <2>3. \A t \in Tasks :
            /\ task[t].pc = "idle"
            /\ task[t].cell = NoTask
            /\ task[t].pc \notin Leasing \cup {"read"}
            /\ task[t].pc \notin Initialising
      BY <2>1, <2>2 DEF Leasing, Initialising
  <2> DEFINE r == [pc |-> "idle", kind |-> "none"]
  <2>4. r \in FinalRecord /\ r.pc = "idle"
      BY DEF FinalRecord, Maybe
  <2>5. final \in [Finals -> FinalRecord] /\ \A f \in Finals : final[f].pc = "idle"
    <3>1. final = [f \in Finals |-> r]
        BY DEF Init
    <3> HIDE DEF r
    <3> QED
        BY <2>4, <3>1
  <2>6. task \in [Tasks -> TaskRecord]
      BY <2>1 DEF Init
  <2>7. TypeOK
    <3>1. entries \in [Processes -> Seq(Entry)]
        BY DEF Init
    <3>2. faults \in 0..MaxFaults
        BY NativePagesAssumption DEF Init
    <3>3. /\ answer \in [Tasks -> Maybe(Versions \cup {"managed"})]
          /\ value \in [Tasks -> Maybe(Versions)]
          /\ native \in [Jobs -> Maybe(Versions)]
          /\ result \in [Jobs -> Maybe({"native", "legacy"})]
          /\ late \subseteq Jobs
        BY DEF Init, Maybe
    <3> QED
        BY <2>3, <2>5, <2>6, <3>1, <3>2, <3>3 DEF TypeOK
  <2>8. CellInv
    <3>1. \A p \in Processes : WellFormed(p, entries[p])
        BY NativePagesAssumption DEF Init, WellFormed
    <3> QED
        BY <2>3, <3>1 DEF CellInv, Held
  <2>9. VersionInv /\ FinalInv /\ LeftoverInv
    <3>1. "none" \notin Versions
        BY NativePagesAssumption DEF Versions
    <3>2. /\ \A t \in Tasks : answer[t] = "none" /\ value[t] = "none" /\ JobOf[t] \in Jobs
          /\ \A j \in Jobs : result[j] = "none"
        BY NativePagesAssumption DEF Init
    <3>3. VersionInv
        BY <3>1, <3>2 DEF VersionInv
    <3>4. FinalInv
        BY <2>3, <2>5, <3>2 DEF FinalInv, NativeResultIsPublished
    <3>5. LeftoverInv
        BY <3>2 DEF LeftoverInv
    <3> QED
        BY <3>3, <3>4, <3>5
  <2>10. BoundInv
    <3>1. Errors = {} /\ Failures = {} /\ \A p \in Processes : Orphans(p) = {}
        BY <2>3 DEF Errors, Failures, Orphans, Mine
    <3>2. Cardinality({}) = 0
        BY FS_EmptySet
    <3>3. Cardinality(Failures) <= faults
        BY <3>1, <3>2 DEF Init
    <3>4. \A p \in Processes : Cardinality(Orphans(p)) <= Cardinality(Errors)
        BY <3>1, <3>2
    <3> QED
        BY <3>3, <3>4 DEF BoundInv
  <2> QED
      BY <2>7, <2>8, <2>9, <2>10 DEF NativeInv
<1>2. TypeOK /\ NativeInv /\ [Next]_vars => (TypeOK /\ NativeInv)'
  <2> SUFFICES ASSUME TypeOK, NativeInv, [Next]_vars PROVE TypeOK' /\ NativeInv'
      OBVIOUS
  <2>1. CASE \E t \in Tasks : LoadNativePage(t) \/ Recognize(t) \/ ExtractFails(t) \/ ManagedFails(t) \/ Timeout(t)
      BY <2>1, TaskActions, TaskKeeps DEF NativeInv
  <2>2. CASE \E f \in Finals : Finalize(f) \/ FinalFails(f)
      BY <2>2, FinalActions, FinalKeeps
  <2>3. CASE UNCHANGED vars
    <3>1. TypeOK'
        BY <2>3 DEF vars, TypeOK
    <3>2. CellInv' /\ VersionInv'
        BY <2>3 DEF vars, NativeInv, CellInv, VersionInv, Held, WellFormed
    <3>3. FinalInv' /\ LeftoverInv'
        BY <2>3 DEF vars, NativeInv, FinalInv, LeftoverInv, Settled, NativeResultIsPublished
    <3>4. BoundInv'
        BY <2>3 DEF vars, NativeInv, BoundInv, Errors, Failures, Orphans, EntryCells, Mine
    <3> QED
        BY <3>1, <3>2, <3>3, <3>4 DEF NativeInv
  <2> QED
      BY <2>1, <2>2, <2>3 DEF Next
<1> QED
    BY <1>1, <1>2, PTL DEF Spec

(***************************************************************************)
(* Every variable keeps its type; in particular a document that a task     *)
(* leases stays in the list of its process, evictions and failures of      *)
(* other tasks notwithstanding.                                            *)
(***************************************************************************)
THEOREM TypeCorrect == Spec => []TypeOK
BY Recognition, PTL

(***************************************************************************)
(* Until it is published, the native pages of a job are of one extraction, *)
(* however many workers of whatever releases extract it at once.           *)
(***************************************************************************)
THEOREM OneVersion == Spec => []OneVersionPerJob
<1>1. VersionInv => OneVersionPerJob
    BY DEF VersionInv, OneVersionPerJob
<1> QED
    BY <1>1, Recognition, PTL DEF NativeInv

(***************************************************************************)
(* A job whose pages were read natively is never published as a legacy     *)
(* result, whichever executions of its finalizer race.                     *)
(***************************************************************************)
THEOREM NativeResult == Spec => []NativeResultIsPublished
<1>1. FinalInv => NativeResultIsPublished
    BY DEF FinalInv
<1> QED
    BY <1>1, Recognition, PTL DEF NativeInv

(***************************************************************************)
(* Rows of a published job outlive its finalizers only through one that    *)
(* was interrupted between publishing and clearing, or a task that was     *)
(* still running.                                                          *)
(***************************************************************************)
THEOREM Leftovers == Spec => []LeftoversArePaidFor
<1>1. TypeOK /\ LeftoverInv => LeftoversArePaidFor
  <2> SUFFICES ASSUME TypeOK, LeftoverInv, NEW j \in Jobs, result[j] # "none", native[j] # "none",
                      {f \in Finals : FinalOf[f] = j /\ final[f].pc \in {"duration", "publish", "clear"}} = {},
                      j \notin late
               PROVE  {f \in Finals : FinalOf[f] = j /\ final[f].pc \in {"lost"}} # {}
      BY DEF LeftoversArePaidFor
  <2>1. PICK f \in Finals : FinalOf[f] = j /\ final[f].pc \in {"clear", "lost"}
      BY DEF LeftoverInv
  <2>2. final[f].pc # "clear"
      BY <2>1
  <2> QED
      BY <2>1, <2>2
<1> QED
    BY <1>1, Recognition, PTL DEF NativeInv

(***************************************************************************)
(* A process keeps at most its capacity of documents, plus one for each    *)
(* failure, and extracts a document once at a time.                        *)
(***************************************************************************)
THEOREM Bounded == Spec => []DocumentsAreBounded
<1>1. TypeOK /\ CellInv /\ BoundInv => DocumentsAreBounded
  <2> SUFFICES ASSUME TypeOK, CellInv, BoundInv, NEW p \in Processes
               PROVE  /\ Cardinality(Alive(p)) <= Capacity + faults
                      /\ \A t, u \in Mine(p) :
                            task[t].pc \in Initialising /\ task[u].pc \in Initialising
                                /\ JobOf[t] = JobOf[u] => t = u
      BY DEF DocumentsAreBounded
  <2> DEFINE es == entries[p]
  <2>1. es \in Seq(Entry) /\ WellFormed(p, es)
      BY DEF TypeOK, CellInv
  <2>2. IsFiniteSet(EntryCells(p)) /\ Cardinality(EntryCells(p)) <= Capacity
    <3>1. Len(es) \in Nat /\ DOMAIN es = 1..Len(es)
        BY <2>1, LenProperties
    <3> DEFINE g == [i \in 1..Len(es) |-> es[i].cell]
    <3>2. g \in Surjection(1..Len(es), EntryCells(p))
        BY <3>1 DEF Surjection, EntryCells
    <3>3. IsFiniteSet(1..Len(es)) /\ Cardinality(1..Len(es)) = Len(es)
      <4> DEFINE n == Len(es)
      <4>1. n \in Nat
          BY <3>1
      <4> HIDE DEF n
      <4>2. IsFiniteSet(1..n) /\ Cardinality(1..n) = IF 1 > n THEN 0 ELSE n - 1 + 1
          BY <4>1, FS_Interval
      <4>3. IsFiniteSet(1..n) /\ Cardinality(1..n) = n
          BY <4>1, <4>2
      <4> QED
          BY <4>3 DEF n
    <3>4. IsFiniteSet(EntryCells(p)) /\ Cardinality(EntryCells(p)) <= Cardinality(1..Len(es))
        BY <3>2, <3>3, FS_Surjection
    <3>5. Cardinality(EntryCells(p)) \in Nat /\ Capacity \in Nat /\ Len(es) <= Capacity
        BY <3>4, <2>1, FS_CardinalityType, NativePagesAssumption DEF WellFormed
    <3> QED
        BY <3>1, <3>3, <3>4, <3>5
  <2>3. IsFiniteSet(Orphans(p)) /\ Cardinality(Orphans(p)) <= faults
    <3>1. Orphans(p) \subseteq Tasks /\ Errors \subseteq Failures /\ Failures \subseteq Tasks
        BY DEF Orphans, Errors, Failures
    <3>2. IsFiniteSet(Orphans(p)) /\ IsFiniteSet(Failures) /\ IsFiniteSet(Errors)
        BY <3>1, FS_Subset, NativePagesAssumption
    <3>3. Cardinality(Errors) <= Cardinality(Failures)
        BY <3>1, <3>2, FS_Subset
    <3>4. Cardinality(Orphans(p)) \in Nat /\ Cardinality(Errors) \in Nat /\ Cardinality(Failures) \in Nat
        BY <3>2, FS_CardinalityType
    <3>5. Cardinality(Orphans(p)) <= Cardinality(Errors) /\ Cardinality(Failures) <= faults
        BY DEF BoundInv
    <3>6. faults \in Nat
        BY NativePagesAssumption DEF TypeOK
    <3> QED
        BY <3>2, <3>3, <3>4, <3>5, <3>6
  <2>4. ASSUME NEW t \in Mine(p), task[t].pc \in Leasing
        PROVE  \E i \in DOMAIN es : es[i].job = JobOf[t] /\ es[i].cell = task[t].cell
    <3>1. t \in Tasks /\ ProcessOf[t] = p
        BY DEF Mine
    <3>2. PICK i \in DOMAIN es : es[i] = [job |-> JobOf[t], cell |-> task[t].cell]
        BY <2>4, <3>1 DEF TypeOK
    <3> QED
        BY <3>2
  <2>5. Alive(p) \subseteq EntryCells(p) \cup Orphans(p)
    <3> SUFFICES ASSUME NEW t \in Mine(p), task[t].pc \in Leasing \cup {"read"}
                 PROVE  task[t].cell \in EntryCells(p) \cup Orphans(p)
        BY DEF Alive, EntryCells
    <3>1. CASE task[t].pc \in Leasing
        BY <3>1, <2>4 DEF EntryCells
    <3>2. CASE task[t].pc = "read"
      <4>1. t \in Tasks
          BY DEF Mine
      <4>2. task[t].cell \in Tasks
          BY <3>2, <4>1, TaskFacts
      <4> QED
          BY <3>2, <4>2 DEF Orphans
    <3> QED
        BY <3>1, <3>2
  <2>6. Cardinality(Alive(p)) <= Capacity + faults
    <3>1. /\ IsFiniteSet(EntryCells(p) \cup Orphans(p))
          /\ Cardinality(EntryCells(p) \cup Orphans(p)) =
                Cardinality(EntryCells(p)) + Cardinality(Orphans(p))
                    - Cardinality(EntryCells(p) \cap Orphans(p))
        BY <2>2, <2>3, FS_Union
    <3>2. IsFiniteSet(EntryCells(p) \cap Orphans(p))
        BY <2>2, FS_Subset
    <3>3. IsFiniteSet(Alive(p)) /\ Cardinality(Alive(p)) <= Cardinality(EntryCells(p) \cup Orphans(p))
        BY <2>5, <3>1, FS_Subset
    <3>4. /\ Cardinality(EntryCells(p)) \in Nat /\ Cardinality(Orphans(p)) \in Nat
          /\ Cardinality(EntryCells(p) \cap Orphans(p)) \in Nat /\ Cardinality(Alive(p)) \in Nat
        BY <2>2, <2>3, <3>2, <3>3, FS_CardinalityType
    <3>5. faults \in Nat /\ Capacity \in Nat
        BY NativePagesAssumption DEF TypeOK
    <3> QED
        BY <2>2, <2>3, <3>1, <3>3, <3>4, <3>5
  <2>7. ASSUME NEW t \in Mine(p), NEW u \in Mine(p), task[t].pc \in Initialising,
               task[u].pc \in Initialising, JobOf[t] = JobOf[u]
        PROVE  t = u
    <3>1. t \in Tasks /\ u \in Tasks /\ task[t].pc \in Leasing /\ task[u].pc \in Leasing
        BY <2>7 DEF Mine, Leasing
    <3>2. PICK i \in DOMAIN es : es[i].job = JobOf[t] /\ es[i].cell = task[t].cell
        BY <3>1, <2>4
    <3>3. PICK k \in DOMAIN es : es[k].job = JobOf[u] /\ es[k].cell = task[u].cell
        BY <3>1, <2>4
    <3>4. i = k
        BY <2>1, <2>7, <3>2, <3>3 DEF WellFormed
    <3> QED
        BY <2>7, <3>1, <3>2, <3>3, <3>4 DEF CellInv
  <2> QED
      BY <2>6, <2>7
<1> QED
    BY <1>1, Recognition, PTL DEF NativeInv

-----------------------------------------------------------------------------
(***************************************************************************)
(* The parser's promise to both of its callers.                            *)
(*                                                                         *)
(* The import inspects a document and records its pages; recognition       *)
(* parses the same bytes again, in another process and release.            *)
(***************************************************************************)
\* What the libraries may find in the bytes; an image has a first frame.
ParsedDocuments ==
    {d \in [type : {"pdf", "image", "tiff", "other"}, sound : BOOLEAN, encrypted : BOOLEAN,
            heavy : BOOLEAN, torn : BOOLEAN, pages : Seq(Nat \X Nat)] :
        d.type = "image" => d.pages # <<>>}

\* The row the import leaves of a document it accepts; the store may not answer.
AcceptedAs(source, document) ==
    /\ source.document = document
    /\ source.geometries = inspect_document(document).pages
    /\ source.count = Len(source.geometries)
    /\ source.row \in {"stored", "silent"}

\* A measured sequence of pages is reported as it is, or is an error.
LEMMA MeasureReports ==
    ASSUME NEW pages \in Seq(Nat \X Nat), NEW unsized \in {"InvalidDocument", "LimitExceeded"},
           Measure(pages, unsized).error = "none"
    PROVE  /\ Measure(pages, unsized).pages = pages
           /\ \A i \in DOMAIN pages : Pixels(pages[i]) # 0 /\ ~OverLimit(pages, i)
<1> DEFINE bad == {i \in DOMAIN pages : Pixels(pages[i]) = 0 \/ OverLimit(pages, i)}
           i == CHOOSE i \in bad : \A k \in bad : i <= k
<1>1. Measure(pages, unsized) = IF bad = {} THEN Report(pages)
                                ELSE Failure(IF Pixels(pages[i]) = 0 THEN unsized ELSE "LimitExceeded")
  BY DEF Measure
<1> HIDE DEF i
<1>2. \A error : Failure(error).error = error /\ Report(pages).pages = pages
  BY DEF Failure, Report
<1>3. bad = {}
  <2> SUFFICES ASSUME bad # {} PROVE FALSE
    OBVIOUS
  <2>1. Measure(pages, unsized).error = IF Pixels(pages[i]) = 0 THEN unsized ELSE "LimitExceeded"
    BY <1>1, <1>2
  <2> QED  BY <2>1
<1> QED  BY <1>1, <1>2, <1>3

\* A total of pixels is a number.
LEMMA TotalNat ==
    ASSUME NEW pages \in Seq(Nat \X Nat)
    PROVE  Total(pages, Len(pages)) \in Nat
<1> DEFINE n == Len(pages)
           g == [i \in 1..n |-> {i} \X (1..Pixels(pages[i]))]
           S == {{i} \X (1..Pixels(pages[i])) : i \in 1..n}
<1>1. n \in Nat /\ DOMAIN pages = 1..n
  BY LenProperties
<1>2. \A i \in 1..n : Pixels(pages[i]) \in Nat
  <2>1. \A a, b \in Nat : a * b \in Nat
    OBVIOUS
  <2>2. \A i \in 1..n : pages[i] \in Nat \X Nat
    BY <1>1
  <2>3. \A i \in 1..n : pages[i][1] \in Nat /\ pages[i][2] \in Nat
    BY <2>2
  <2> QED  BY <2>1, <2>3 DEF Pixels
<1> HIDE DEF n
<1>3. IsFiniteSet(1..n)
  BY <1>1, FS_Interval
<1>4. g \in Surjection(1..n, S)
  BY DEF Surjection
<1>5. IsFiniteSet(S)
  BY <1>3, <1>4, FS_Surjection
<1>6. ASSUME NEW i \in 1..n PROVE IsFiniteSet({i} \X (1..Pixels(pages[i])))
  <2>1. IsFiniteSet({i})
    BY FS_Singleton
  <2>2. IsFiniteSet(1..Pixels(pages[i]))
    BY <1>2, FS_Interval
  <2> QED  BY <2>1, <2>2, FS_Product
<1>7. \A T \in S : IsFiniteSet(T)
  BY <1>6
<1>8. IsFiniteSet(UNION S)
  BY <1>5, <1>7, FS_UNION
<1> QED  BY <1>8, FS_CardinalityType DEF Total, n

\* What a child that reports no error has measured: pages of the document, in
\* order, each of them within the limits.
LEMMA ReportedPages ==
    ASSUME NEW document \in ParsedDocuments, inspect_document(document).error = "none"
    PROVE  /\ inspect_document(document).pages \in Seq(Nat \X Nat)
           /\ \A i \in DOMAIN inspect_document(document).pages :
                 Pixels(inspect_document(document).pages[i]) # 0
                 /\ ~OverLimit(inspect_document(document).pages, i)
<1>1. document.pages \in Seq(Nat \X Nat)
  BY DEF ParsedDocuments
<1>a. ASSUME document.type = "image" PROVE SubSeq(document.pages, 1, 1) \in Seq(Nat \X Nat)
  <2>1. document.pages[1] \in Nat \X Nat
    BY <1>1, <1>a DEF ParsedDocuments
  <2>2. \A i \in 1..1 : document.pages[i] \in Nat \X Nat
    BY <2>1
  <2> QED  BY <2>2, SubSeqProperties
<1>2. \A error : Failure(error).error = error
  BY DEF Failure
<1>3. ASSUME document.type = "pdf"
      PROVE  inspect_document(document) = Measure(document.pages, "InvalidDocument")
  BY <1>2, <1>3 DEF inspect_document, inspect_pdf
<1>4. ASSUME document.type = "image"
      PROVE  inspect_document(document) = Measure(SubSeq(document.pages, 1, 1), "InvalidDocument")
  BY <1>2, <1>4 DEF inspect_document, inspect_image, Decoded
<1>5. ASSUME document.type = "tiff"
      PROVE  inspect_document(document) = Measure(document.pages, "LimitExceeded")
  BY <1>2, <1>5 DEF inspect_document, inspect_tiff, Decoded
<1>6. document.type \in {"pdf", "image", "tiff"}
  <2>1. document.type = "other" => inspect_document(document) = Failure("UnsupportedContentType")
    BY DEF inspect_document
  <2> QED  BY <1>2, <2>1 DEF ParsedDocuments
<1>7. PICK pages \in Seq(Nat \X Nat), unsized \in {"InvalidDocument", "LimitExceeded"} :
         inspect_document(document) = Measure(pages, unsized)
  BY <1>1, <1>a, <1>3, <1>4, <1>5, <1>6
<1>8. /\ Measure(pages, unsized).pages = pages
      /\ \A i \in DOMAIN pages : Pixels(pages[i]) # 0 /\ ~OverLimit(pages, i)
  BY <1>7, MeasureReports
<1>9. inspect_document(document).pages = pages
  BY <1>7, <1>8
<1> QED  BY <1>8, <1>9

\* An inspection that passes is one of a child that exited and reported pages
\* within the limits.
LEMMA InspectPasses ==
    ASSUME NEW document \in ParsedDocuments, NEW fate \in Fates, inspect(document, fate) = "Ok"
    PROVE  /\ fate = "exits" /\ document.type \in Supported
           /\ inspect_document(document).error = "none"
           /\ Len(inspect_document(document).pages) > 0
           /\ WithinLimits(Wire(inspect_document(document).pages, fate))
<1> DEFINE child == inspect_document(document)
           wire == Wire(child.pages, fate)
<1>1. run(document, child, fate) = "Ok" /\ parse_report(wire) = "Ok" /\ WithinLimits(wire)
  BY DEF inspect
<1>2. document.type \in Supported /\ fate # "dies" /\ error_exit(child.error) = 0
  BY <1>1 DEF run
<1>3. child.error = "none"
  BY <1>2 DEF error_exit
<1> HIDE DEF child
<1>4. /\ wire.count = Len(child.pages) /\ wire.count > 0 /\ wire.pages = child.pages
      /\ wire.total = Total(wire.pages, Len(wire.pages))
  BY <1>1 DEF parse_report, Wire
<1>5. fate # "garbles"
  <2> SUFFICES ASSUME fate = "garbles" PROVE FALSE
    OBVIOUS
  <2> DEFINE total == Total(child.pages, Len(child.pages))
  <2>1. wire.total = total + 1 /\ wire.total = total
    BY <1>4 DEF Wire
  <2>2. total \in Nat
    BY <1>3, ReportedPages, TotalNat DEF child
  <2> QED  BY <2>1, <2>2
<1> QED  BY <1>1, <1>2, <1>3, <1>4, <1>5 DEF Fates, child

(***************************************************************************)
(* The import accepts only pages within the limits: at least one, no more  *)
(* than MaxPages, none without pixels, none and no total above its limit.  *)
(***************************************************************************)
THEOREM ImportIsBounded ==
    ASSUME NEW document \in ParsedDocuments, NEW fate \in Fates, inspect(document, fate) = "Ok"
    PROVE  LET pages == inspect_document(document).pages
           IN /\ Len(pages) \in 1..MaxPages
              /\ \A i \in DOMAIN pages : Pixels(pages[i]) \in 1..MaxPagePixels
              /\ Total(pages, Len(pages)) <= MaxTotalPixels
<1> DEFINE pages == inspect_document(document).pages
<1>1. /\ fate = "exits" /\ inspect_document(document).error = "none" /\ Len(pages) > 0
      /\ WithinLimits(Wire(pages, fate))
  BY InspectPasses
<1>2. /\ pages \in Seq(Nat \X Nat)
      /\ \A i \in DOMAIN pages : Pixels(pages[i]) # 0 /\ ~OverLimit(pages, i)
  BY <1>1, ReportedPages
<1> HIDE DEF pages
<1>3. Len(pages) \in Nat /\ Len(pages) <= MaxPages /\ Total(pages, Len(pages)) + 0 <= MaxTotalPixels
  BY <1>1, <1>2 DEF WithinLimits, Wire
<1>4. Total(pages, Len(pages)) \in Nat
  BY <1>2, TotalNat
<1>5. ASSUME NEW i \in DOMAIN pages PROVE Pixels(pages[i]) \in 1..MaxPagePixels
  <2>1. pages[i][1] \in Nat /\ pages[i][2] \in Nat
    BY <1>2
  <2>2. \A a, b \in Nat : a * b \in Nat
    OBVIOUS
  <2>3. Pixels(pages[i]) \in Nat
    BY <2>1, <2>2 DEF Pixels
  <2>4. Pixels(pages[i]) # 0 /\ ~(Pixels(pages[i]) > MaxPagePixels)
    BY <1>2 DEF OverLimit
  <2> QED  BY <2>3, <2>4, DocumentLimits
<1> QED  BY <1>1, <1>3, <1>4, <1>5, DocumentLimits DEF pages

(***************************************************************************)
(* What the import accepted, recognition can extract: every page of it, if *)
(* the store answers, the object is there and the child and pdftotext do   *)
(* their work; and it gives up a page for good only when the object is     *)
(* gone or the text layer of a PDF cannot be laid out within its limits.   *)
(***************************************************************************)
THEOREM AcceptedIsExtracted ==
    ASSUME NEW document \in ParsedDocuments, NEW inspected \in Fates, inspect(document, inspected) = "Ok",
           NEW source, AcceptedAs(source, document), source.object \in {"matches", "gone", "silent"},
           NEW page \in 1..source.count, NEW layout \in Layouts, NEW fate \in Fates
    PROVE  /\ /\ source.row = "stored" /\ source.object = "matches" /\ fate = "exits"
              /\ document.type = "pdf" => layout = "pages"
              => Extract(source, page, layout, fate) = "Ok"
           /\ Extract(source, page, layout, fate) = "Permanent" =>
                 \/ source.object = "gone"
                 \/ document.type = "pdf" /\ layout \in {"fewer_pages", "failed", "too_long"}
<1> DEFINE report == inspect_document(document)
           pages == report.pages
           child == extract_native_document(document, layout)
           laid == document.type # "pdf" \/ layout = "pages"
<1>1. /\ inspected = "exits" /\ document.type \in Supported /\ report.error = "none" /\ Len(pages) > 0
      /\ WithinLimits(Wire(pages, "exits"))
  BY InspectPasses
<1>2. pages \in Seq(Nat \X Nat) /\ Len(pages) \in Nat
  BY <1>1, ReportedPages
<1>3. /\ laid => child = report
      /\ ~laid => child.error = pdf_layout(layout) /\ layout # "pages" /\ document.type = "pdf"
  BY <1>1 DEF extract_native_document, pdf_layout, Failure, Layouts
<1>4. /\ source.document = document /\ source.geometries = pages /\ source.count = Len(pages)
      /\ page \in 1..Len(pages)
  BY DEF AcceptedAs
<1> HIDE DEF report, child
<1>5. source.row = "stored" => load_inner(source, page) = collect_verified(source.object)
  <2> SUFFICES ASSUME source.row = "stored" PROVE load_inner(source, page) = collect_verified(source.object)
    OBVIOUS
  <2>1. load_accepted_source(source) = "Ok"
    BY DEF load_accepted_source
  <2>2. page_geometry(source, page) = "Ok"
    BY <1>4 DEF page_geometry
  <2> QED  BY <2>1, <2>2 DEF load_inner, read_inner
<1>6. ASSUME laid
      PROVE  extract_native(document, layout, fate) = IF fate = "exits" THEN "Ok" ELSE "Unavailable"
  <2>1. run(document, child, fate) = IF fate = "dies" THEN "Unavailable" ELSE "Ok"
    BY <1>1, <1>3, <1>6 DEF run, error_exit, child
  <2>2. fate = "exits" => Wire(child.pages, fate).count # 0 /\ WithinLimits(Wire(child.pages, fate))
    BY <1>1, <1>2, <1>3, <1>6 DEF Wire
  <2> QED  BY <2>1, <2>2 DEF extract_native, child, Fates
<1>7. ASSUME ~laid, layout = "missing"
      PROVE  extract_native(document, layout, fate) = "Unavailable"
  <2>1. child.error = "NativeTextUnavailable"
    BY <1>3, <1>7 DEF pdf_layout
  <2>2. run(document, child, fate) = "Unavailable"
    BY <1>1, <2>1 DEF run, error_exit
  <2> QED  BY <2>2 DEF extract_native, child
<1>8. ASSUME source.row = "stored", source.object = "matches", laid, fate = "exits"
      PROVE  Extract(source, page, layout, fate) = "Ok"
  <2>1. load_inner(source, page) = "Ok" /\ extract_native(document, layout, fate) = "Ok"
    BY <1>5, <1>6, <1>8 DEF collect_verified
  <2>2. child.pages = pages /\ ~(page > Len(pages)) /\ SameGeometry(pages[page], source.geometries[page])
    BY <1>2, <1>3, <1>4, <1>8 DEF SameGeometry
  <2>3. Len(Kept(source, pages)) = source.count
    <3>1. CASE document.type = "tiff" /\ source.count = 1
      <4> HIDE DEF pages
      <4>a. Len(pages) = 1
        BY <1>4, <3>1
      <4>b. pages[1] \in Nat \X Nat
        <5>1. 1 \in 1..Len(pages)
          BY <4>a
        <5> QED  BY <1>2, <5>1, ElementOfSeq
      <4>1. \A i \in 1..1 : pages[i] \in Nat \X Nat
        BY <4>b
      <4>2. Len(SubSeq(pages, 1, 1)) = 1
        BY <4>1, SubSeqProperties
      <4> QED  BY <1>4, <3>1, <4>2 DEF Kept
    <3>2. CASE ~(document.type = "tiff" /\ source.count = 1)
      BY <1>4, <3>2 DEF Kept
    <3> QED  BY <3>1, <3>2
  <2> QED  BY <1>4, <2>1, <2>2, <2>3 DEF Extract, child
<1>9. ASSUME Extract(source, page, layout, fate) = "Permanent", source.object # "gone",
             ~(document.type = "pdf" /\ layout \in {"fewer_pages", "failed", "too_long"})
      PROVE  FALSE
  <2>0. source.row = "stored"
    <3>1. source.row = "silent" => load_inner(source, page) = "Unavailable"
      BY DEF load_accepted_source, load_inner
    <3>2. source.row = "silent" => Extract(source, page, layout, fate) = "Retryable"
      BY <3>1 DEF Extract, map_source_error
    <3> QED  BY <1>9, <3>2 DEF AcceptedAs
  <2>1. source.object = "matches"
    <3>1. source.object = "silent" => load_inner(source, page) = "Unavailable"
      BY <1>5, <2>0 DEF collect_verified
    <3>2. source.object = "silent" => Extract(source, page, layout, fate) = "Retryable"
      BY <3>1 DEF Extract, map_source_error
    <3> QED  BY <1>9, <3>2
  <2>2. load_inner(source, page) = "Ok"
    BY <1>5, <2>0, <2>1 DEF collect_verified
  <2>3. laid \/ layout = "missing"
    BY <1>9 DEF Layouts
  <2>4. ~(laid /\ fate = "exits")
    BY <1>8, <1>9, <2>0, <2>1
  <2>5. extract_native(document, layout, fate) = "Unavailable"
    BY <1>6, <1>7, <2>3, <2>4
  <2>6. Extract(source, page, layout, fate) = "Retryable"
    BY <1>4, <2>2, <2>5 DEF Extract, map_parser_error
  <2> QED  BY <1>9, <2>6
<1> QED  BY <1>8, <1>9
=============================================================================
