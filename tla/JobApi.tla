------------------------------- MODULE JobApi -------------------------------
(***************************************************************************)
(* The job endpoints of one (product, tenant) scope:                       *)
(*                                                                         *)
(*   request  create_job, get_job and cancel_job of ocr-service, each up   *)
(*            to its next await; the router drops a request after 10 s     *)
(*   rows     ocr_jobs and ocr_results (PgJobStore)                        *)
(*   entry    the job status cache in Valkey, one expiring key per job     *)
(*                                                                         *)
(* Time is a choice: an entry expires, a request is dropped and a cache    *)
(* write is given up in any state.  A write given up may still be carried  *)
(* out, since dropping the client's future does not unsend the command.    *)
(* What the workers do to a job (PageExecution) is two steps here.         *)
(***************************************************************************)
EXTENDS Integers, Sequences, FiniteSets, Bags

CONSTANTS
    Requests,       \* requests in progress at a time, over all API processes
    Keys,           \* Idempotency-Key values
    Bodies,         \* valid request bodies; two are equal when their digests are
    NoBody,
    Published,      \* the statuses a result is published with
    MaxJobs,        \* bound on rows, in CommitJob; the code needs one per key
    MaxDelayed      \* bound on cache writes given up and not yet carried out

ASSUME JobApiAssumption ==
    /\ NoBody \notin Keys \cup Bodies
    /\ Published \subseteq {"completed", "partial", "review_required"}
    /\ MaxJobs \in Nat \ {0}
    /\ MaxDelayed \in Nat

VARIABLES
    uploadAccepted, \* the source upload has passed inspection
    rows,           \* committed jobs; a job's id is its index
    entry,          \* the status cached for each job, "none" without an entry
    delayed,        \* bag of cache writes given up by their request
    request,        \* control and local state of each request
    granted,        \* <<key, body, job>>: the creations answered 202
    told            \* <<job, status>>: the terminal statuses answered

vars == <<uploadAccepted, rows, entry, delayed, request, granted, told>>

JobIds == 1..MaxJobs
Active == {"accepted", "processing"}
Terminal == {"cancelled"} \cup Published
Statuses == Active \cup Terminal
Idle == [pc |-> "idle", key |-> NoBody, body |-> NoBody, job |-> 0, status |-> "none"]

Init ==
    /\ uploadAccepted = FALSE
    /\ rows = <<>>
    /\ entry = [j \in JobIds |-> "none"]
    /\ delayed = EmptyBag
    /\ request = [r \in Requests |-> Idle]
    /\ granted = {}
    /\ told = {}

Move(r, record) == request' = [request EXCEPT ![r] = record]
Goto(r, label) == Move(r, [request[r] EXCEPT !.pc = label])

Hangup(r) == Move(r, Idle)

ToPut(r, j, status) ==
    Move(r, [request[r] EXCEPT !.pc = "put", !.job = j, !.status = status])

-----------------------------------------------------------------------------
(***************************************************************************)
(* create_job and PgJobStore::create.  The insert waits for another        *)
(* transaction that is inserting the same key.                             *)
(***************************************************************************)
JobOf(k) == {j \in DOMAIN rows : rows[j].key = k}
JobIn(j, statuses) == j \in DOMAIN rows /\ rows[j].status \in statuses
Inserting(k) == {r \in Requests : request[r].pc = "commit" /\ request[r].key = k}

\* The request has a key and a body within bounds; anything else is a 400.
PostJob(r, k, b) ==
    /\ request[r].pc = "idle"
    /\ Move(r, [Idle EXCEPT !.pc = "insert", !.key = k, !.body = b])
    /\ UNCHANGED <<uploadAccepted, rows, entry, delayed, granted, told>>

\* Mutant: the insert has no conflict target.
InsertAnyway(r) ==
    /\ request[r].pc = "insert"
    /\ Inserting(request[r].key) = {}
    /\ Goto(r, IF uploadAccepted THEN "commit" ELSE "lookup")
    /\ UNCHANGED <<uploadAccepted, rows, entry, delayed, granted, told>>

\* insert ... select from the accepted upload, on conflict do nothing.
InsertJob(r) ==
    /\ request[r].pc = "insert"
    /\ Inserting(request[r].key) = {}
    /\ Goto(r, IF uploadAccepted /\ JobOf(request[r].key) = {} THEN "commit" ELSE "lookup")
    /\ UNCHANGED <<uploadAccepted, rows, entry, delayed, granted, told>>

NewRow(r) ==
    [key |-> request[r].key, body |-> request[r].body, status |-> "accepted", result |-> FALSE]

\* The row, its event and its registration commit; the request may be gone.
CommitJob(r) ==
    /\ request[r].pc = "commit"
    /\ Len(rows) < MaxJobs
    /\ rows' = Append(rows, NewRow(r))
    /\ ToPut(r, Len(rows'), "accepted") \/ Hangup(r)
    /\ UNCHANGED <<uploadAccepted, entry, delayed, granted, told>>

\* The second statement: UploadSourceUnavailable, IdempotencyConflict or Existing.
LookupJob(r) ==
    /\ request[r].pc = "lookup"
    /\ LET same == {j \in JobOf(request[r].key) : rows[j].body = request[r].body}
       IN  IF same = {} THEN Hangup(r)
           ELSE \E j \in same : ToPut(r, j, rows[j].status)
    /\ UNCHANGED <<uploadAccepted, rows, entry, delayed, granted, told>>

-----------------------------------------------------------------------------
(***************************************************************************)
(* get_job: cache, then store, then cache.                                 *)
(***************************************************************************)
GetJob(r, j) ==
    /\ request[r].pc = "idle"
    /\ Move(r, [Idle EXCEPT !.pc = "read", !.job = j])
    /\ UNCHANGED <<uploadAccepted, rows, entry, delayed, granted, told>>

\* What a client is told that it may rely on.
Answer(r, j, status) ==
    /\ told' = IF status \in Terminal THEN told \cup {<<j, status>>} ELSE told
    /\ granted' = IF request[r].key \in Keys
                  THEN granted \cup {<<request[r].key, request[r].body, j>>} ELSE granted

\* Mutant: a hit writes the record back, renewing its life.
ReadAndRenew(r) ==
    LET j == request[r].job IN
    /\ request[r].pc = "read"
    /\ IF entry[j] # "none" THEN ToPut(r, j, entry[j]) ELSE Goto(r, "find")
    /\ UNCHANGED <<uploadAccepted, rows, entry, delayed, granted, told>>

\* read_cached_job_status: an error or a timeout is a miss.
ReadCache(r) ==
    LET j == request[r].job IN
    /\ request[r].pc = "read"
    /\ \/ entry[j] # "none" /\ Answer(r, j, entry[j]) /\ Hangup(r)
       \/ Goto(r, "find") /\ UNCHANGED <<granted, told>>
    /\ UNCHANGED <<uploadAccepted, rows, entry, delayed>>

\* PgJobStore::find; NotFound is not cached.
FindJob(r) ==
    LET j == request[r].job IN
    /\ request[r].pc = "find"
    /\ IF j \in DOMAIN rows THEN ToPut(r, j, rows[j].status) ELSE Hangup(r)
    /\ UNCHANGED <<uploadAccepted, rows, entry, delayed, granted, told>>

-----------------------------------------------------------------------------
(***************************************************************************)
(* cancel_job and PgJobStore::cancel.                                      *)
(***************************************************************************)
PostCancel(r, j) ==
    /\ request[r].pc = "idle"
    /\ Move(r, [Idle EXCEPT !.pc = "cancel", !.job = j])
    /\ UNCHANGED <<uploadAccepted, rows, entry, delayed, granted, told>>

\* Mutant: a job in any state is cancelled.
CancelAnyJob(r) ==
    LET j == request[r].job IN
    /\ request[r].pc = "cancel"
    /\ IF j \in DOMAIN rows
       THEN /\ rows' = [rows EXCEPT ![j].status = "cancelled"]
            /\ ToPut(r, j, "cancelled") \/ Hangup(r)
       ELSE Hangup(r) /\ UNCHANGED rows
    /\ UNCHANGED <<uploadAccepted, entry, delayed, granted, told>>

\* Requested, Existing, NotCancellable or NotFound; the request may be gone by
\* the time the transaction has committed.
CancelJob(r) ==
    LET j == request[r].job IN
    /\ request[r].pc = "cancel"
    /\ \/ /\ JobIn(j, Active)
          /\ rows' = [rows EXCEPT ![j].status = "cancelled"]
          /\ ToPut(r, j, "cancelled") \/ Hangup(r)
       \/ /\ JobIn(j, {"cancelled"})
          /\ ToPut(r, j, "cancelled")
          /\ UNCHANGED rows
       \/ /\ ~ JobIn(j, Active \cup {"cancelled"})
          /\ Hangup(r)
          /\ UNCHANGED rows
    /\ UNCHANGED <<uploadAccepted, entry, delayed, granted, told>>

-----------------------------------------------------------------------------
(***************************************************************************)
(* cache_job_status, and Valkey.                                           *)
(***************************************************************************)
\* put lands or fails, and the request is answered either way.
PutStatus(r) ==
    LET j == request[r].job IN
    /\ request[r].pc = "put"
    /\ entry' \in {entry, [entry EXCEPT ![j] = request[r].status]}
    /\ Answer(r, j, request[r].status)
    /\ Hangup(r)
    /\ UNCHANGED <<uploadAccepted, rows, delayed>>

\* put times out after 25 ms, or the request is dropped during it; the command
\* is on its way.
PutTimesOut(r) ==
    /\ request[r].pc = "put"
    /\ BagCardinality(delayed) < MaxDelayed
    /\ delayed' = delayed (+) SetToBag({<<request[r].job, request[r].status>>})
    /\ Answer(r, request[r].job, request[r].status) \/ UNCHANGED <<granted, told>>
    /\ Hangup(r)
    /\ UNCHANGED <<uploadAccepted, rows, entry>>

DelayedPutLands(j, status) ==
    /\ BagIn(<<j, status>>, delayed)
    /\ delayed' = delayed (-) SetToBag({<<j, status>>})
    /\ entry' = [entry EXCEPT ![j] = status]
    /\ UNCHANGED <<uploadAccepted, rows, request, granted, told>>

\* The active or the terminal TTL has passed.
EntryExpires(j) ==
    /\ entry[j] # "none"
    /\ entry' = [entry EXCEPT ![j] = "none"]
    /\ UNCHANGED <<uploadAccepted, rows, delayed, request, granted, told>>

\* The router's TimeoutLayer, a client that hangs up, a process that dies: an
\* open transaction is rolled back.
DropRequest(r) ==
    /\ request[r].pc # "idle"
    /\ Hangup(r)
    /\ UNCHANGED <<uploadAccepted, rows, entry, delayed, granted, told>>

-----------------------------------------------------------------------------
(***************************************************************************)
(* The other parts of the system.                                          *)
(***************************************************************************)
AcceptUpload ==
    /\ ~ uploadAccepted
    /\ uploadAccepted' = TRUE
    /\ UNCHANGED <<rows, entry, delayed, request, granted, told>>

\* create_page_workflow.
StartJob(j) ==
    /\ JobIn(j, {"accepted"})
    /\ rows' = [rows EXCEPT ![j].status = "processing"]
    /\ UNCHANGED <<uploadAccepted, entry, delayed, request, granted, told>>

\* Mutant: the result row and the status are two transactions, and the process
\* may die between them.
PublishApart(j, status) ==
    /\ JobIn(j, {"processing"})
    /\ rows' \in {[rows EXCEPT ![j].result = TRUE],
                  [rows EXCEPT ![j].status = status, ![j].result = TRUE]}
    /\ UNCHANGED <<uploadAccepted, entry, delayed, request, granted, told>>

\* commit_result: the result row and the status in one transaction.
PublishJob(j, status) ==
    /\ JobIn(j, {"processing"})
    /\ rows' = [rows EXCEPT ![j].status = status, ![j].result = TRUE]
    /\ UNCHANGED <<uploadAccepted, entry, delayed, request, granted, told>>

\* PgJobStore::find_result, which get_result asks; it changes nothing.
FindResult(j) ==
    CASE rows[j].result /\ rows[j].status \in Published -> "Ready"
      [] ~ rows[j].result /\ rows[j].status \in Active -> "NotReady"
      [] ~ rows[j].result /\ rows[j].status = "cancelled" -> "Unavailable"
      [] OTHER -> "InvalidStoredResult"

Serve(r) ==
    \/ InsertJob(r)
    \/ CommitJob(r)
    \/ LookupJob(r)
    \/ ReadCache(r)
    \/ FindJob(r)
    \/ CancelJob(r)
    \/ PutStatus(r)
    \/ PutTimesOut(r)
    \/ DropRequest(r)

Valkey ==
    \/ \E j \in JobIds : EntryExpires(j)
    \/ \E j \in JobIds, status \in Statuses : DelayedPutLands(j, status)

Next ==
    \/ \E r \in Requests, k \in Keys, b \in Bodies : PostJob(r, k, b)
    \/ \E r \in Requests, j \in JobIds : GetJob(r, j) \/ PostCancel(r, j)
    \/ \E r \in Requests : Serve(r)
    \/ Valkey
    \/ AcceptUpload
    \/ \E j \in JobIds : StartJob(j)
    \/ \E j \in JobIds, status \in Published : PublishJob(j, status)

Spec == Init /\ [][Next]_vars

\* A request is answered or dropped, since the router bounds it; an entry has a
\* TTL; a command on its way to Valkey arrives.
FairSpec ==
    /\ Spec
    /\ \A r \in Requests : WF_vars(Serve(r))
    /\ \A j \in JobIds : WF_vars(EntryExpires(j))
    /\ \A j \in JobIds, status \in Statuses : WF_vars(DelayedPutLands(j, status))
-----------------------------------------------------------------------------
(***************************************************************************)
(* Properties.                                                             *)
(***************************************************************************)
Pcs == {"idle", "insert", "commit", "lookup", "read", "find", "cancel", "put"}
Row == [key : Keys, body : Bodies, status : Statuses, result : BOOLEAN]
RequestRecord == [pc : Pcs, key : Keys \cup {NoBody}, body : Bodies \cup {NoBody},
                  job : {0} \cup JobIds, status : Statuses \cup {"none"}]

\* Every variable keeps its type, and every stored job is one that find_result
\* can read: cancellations and publications leave no result without its status
\* and no status without its result.
TypeOK ==
    /\ uploadAccepted \in BOOLEAN
    /\ rows \in Seq(Row) /\ Len(rows) <= MaxJobs
    /\ \A j \in DOMAIN rows : FindResult(j) # "InvalidStoredResult"
    /\ entry \in [JobIds -> Statuses \cup {"none"}]
    /\ IsABag(delayed) /\ BagToSet(delayed) \subseteq JobIds \X Statuses
    /\ request \in [Requests -> RequestRecord]
    /\ granted \subseteq Keys \X Bodies \X JobIds
    /\ told \subseteq JobIds \X Terminal

\* However creations race, are dropped after their commit or are replayed, all
\* that were granted with one key were granted one job, with one body, and that
\* job is stored.  (CONTRACTS.md: "Repeated requests with the same tenant/key and
\* identical digest return the original job.  Reuse with different input returns
\* 409".)
ReplaysAgree ==
    /\ \A g \in granted : g[3] \in DOMAIN rows /\ rows[g[3]].key = g[1]
    /\ \A g, h \in granted : g[1] = h[1] => g = h

\* A terminal status in the cache, on its way to it or told to a client is the
\* job's status: no delay makes it wrong later, and a published one means that
\* get_result finds the result.  (ADR 0005: "Terminal job states may use longer
\* TTLs because they are immutable".)
TerminalStatusIsTrue ==
    \A j \in JobIds, s \in Terminal :
        (entry[j] = s \/ BagIn(<<j, s>>, delayed) \/ <<j, s>> \in told)
            => JobIn(j, {s}) /\ FindResult(j) = IF s \in Published THEN "Ready" ELSE "Unavailable"

Stale(j) == entry[j] # "none" /\ ~ JobIn(j, {entry[j]})

\* A status read before the job ended may be written over a newer entry, by a
\* request in progress or a write given up, but that ends: at last the cache
\* holds the final status or nothing, for good.
CacheCatchesUp == \A j \in JobIds : JobIn(j, Terminal) ~> []~ Stale(j)
=============================================================================
