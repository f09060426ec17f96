---------------------------- MODULE UploadIntake ----------------------------
(***************************************************************************)
(* From a signed PUT to an accepted source, for the uploads of one         *)
(* (product, tenant) scope:                                                *)
(*                                                                         *)
(*   API         create_upload, complete_upload and create_job             *)
(*   quarantine  the client writes with a signed URL until it expires, so  *)
(*               an object may change after it was verified                *)
(*   dispatcher  WorkScopeDispatcher::dispatch_scope and                   *)
(*               UploadImporter::process: scan, read, parse, promote,      *)
(*               accept or reject, under an inspection lease               *)
(*                                                                         *)
(* A content is identified with its digest.  Time is a choice: a           *)
(* reservation and a live lease may expire at any moment.                  *)
(***************************************************************************)
EXTENDS DocumentParser

CONSTANTS
    Uploads,        \* uploads of the scope
    Digest,         \* the digest each upload's request declares
    Other,          \* a content of the declared length with another digest
    Dispatchers,    \* dispatch worker processes, by WORKER_ID
    NoOwner,        \* no lease
    Documents,      \* what the parser may find in an upload
    BatchLimit,     \* uploads per pass, UPLOAD_BATCH_SIZE
    MaxAttempts,    \* 10
    MaxPuts         \* bound on the writes to the quarantine bucket

Digests == {Digest[u] : u \in Uploads}
Contents == Digests \cup {Other}
Absent == "absent"

ASSUME UploadIntakeAssumption ==
    /\ IsFiniteSet(Uploads)
    /\ DOMAIN Digest = Uploads
    /\ Other \notin Digests
    /\ Absent \notin Contents
    /\ NoOwner \notin Dispatchers
    /\ BatchLimit \in Nat \ {0}
    /\ MaxAttempts \in Nat \ {0}
    /\ MaxPuts \in Nat \ {0}

VARIABLES
    upload,         \* ocr_uploads
    events,         \* ocr_upload_outbox: the event types of each upload, in order
    object,         \* the versions written to each quarantine object
    verified,       \* completions that have verified a version and not recorded it
    source,         \* the content-addressed objects of the source bucket
    uploadPending,  \* ocr_work_scopes.upload_pending
    dispatchPending,\* ocr_work_scopes.dispatch_pending
    lease,          \* the dispatcher whose lease of the scope is live
    dispatcher,     \* control and local state of each dispatcher
    clean,          \* history: the contents a scan of the upload found clean
    expiries        \* history: inspection leases of the upload that ran out

rows == <<upload, events, uploadPending>>
stores == <<object, source>>
history == <<clean, expiries>>
vars == <<upload, events, object, verified, source, uploadPending, dispatchPending,
          lease, dispatcher, clean, expiries>>

NoUpload == [status |-> "none", open |-> FALSE, version |-> 0, seq |-> 0,
             attempts |-> 0, owner |-> NoOwner, live |-> FALSE]
NoWork == <<>>
Idle == [pc |-> "idle", todo |-> {}, at |-> NoWork, version |-> 0]

\* The source bucket may already hold anything under a content-addressed name.
Init ==
    /\ upload = [u \in Uploads |-> NoUpload]
    /\ events = [u \in Uploads |-> <<>>]
    /\ object = [u \in Uploads |-> <<>>]
    /\ verified = [u \in Uploads |-> {}]
    /\ source \in [Digests -> {Absent, Other}]
    /\ uploadPending = FALSE
    /\ dispatchPending = FALSE
    /\ lease = NoOwner
    /\ dispatcher = [d \in Dispatchers |-> Idle]
    /\ clean = [u \in Uploads |-> {}]
    /\ expiries = [u \in Uploads |-> 0]

-----------------------------------------------------------------------------
(***************************************************************************)
(* The API and its clients.                                                *)
(***************************************************************************)

Reserved == [NoUpload EXCEPT !.status = "reserved", !.open = TRUE]

\* create_upload.  A replay of the same key returns the stored upload and
\* changes nothing.
CreateUpload(u) ==
    /\ upload[u].status = "none"
    /\ upload' = [upload EXCEPT ![u] = Reserved]
    /\ UNCHANGED <<events, object, verified, source, uploadPending, dispatchPending,
                   lease, dispatcher, history>>

Puts == UNION {{u} \X DOMAIN object[u] : u \in Uploads}

\* The client writes with the signed URL, which expires with the reservation.
PutObject(u, content) ==
    /\ upload[u].open
    /\ Cardinality(Puts) < MaxPuts
    /\ object' = [object EXCEPT ![u] = Append(@, content)]
    /\ UNCHANGED <<rows, verified, source, dispatchPending, lease, dispatcher, history>>

ReservationExpires(u) ==
    /\ upload[u].open
    /\ upload' = [upload EXCEPT ![u].open = FALSE]
    /\ UNCHANGED <<events, object, verified, source, uploadPending, dispatchPending,
                   lease, dispatcher, history>>

\* verify_stream: the latest version has the declared length, type and digest.
Declared(u) == object[u] # <<>> /\ object[u][Len(object[u])] = Digest[u]

\* complete_upload up to the verified artifact.
VerifyArtifact(u) ==
    /\ upload[u].status = "reserved"
    /\ upload[u].open
    /\ Declared(u)
    /\ verified' = [verified EXCEPT ![u] = @ \cup {Len(object[u])}]
    /\ UNCHANGED <<rows, stores, dispatchPending, lease, dispatcher, history>>

Recorded == {u \in Uploads : upload[u].seq > 0}

\* Mutant: the event is inserted for a replayed completion too.
RecordEveryCompletion(u, version) ==
    /\ version \in verified[u]
    /\ verified' = [verified EXCEPT ![u] = @ \ {version}]
    /\ upload[u].open
    /\ upload' = [upload EXCEPT ![u] =
            IF @.status = "reserved"
              THEN [@ EXCEPT !.status = "uploaded", !.version = version,
                             !.seq = Cardinality(Recorded) + 1]
              ELSE @]
    /\ events' = [events EXCEPT ![u] = Append(@, "received")]
    /\ uploadPending' = TRUE
    /\ UNCHANGED <<stores, dispatchPending, lease, dispatcher, history>>

\* record_uploaded: anything but an open reservation answers Existing, Expired
\* or NotRecordable.
RecordUploaded(u, version) ==
    /\ version \in verified[u]
    /\ verified' = [verified EXCEPT ![u] = @ \ {version}]
    /\ IF upload[u].status = "reserved" /\ upload[u].open
         THEN /\ upload' = [upload EXCEPT ![u].status = "uploaded", ![u].version = version,
                                          ![u].seq = Cardinality(Recorded) + 1]
              /\ events' = [events EXCEPT ![u] = Append(@, "received")]
              /\ uploadPending' = TRUE
         ELSE UNCHANGED rows
    /\ UNCHANGED <<stores, dispatchPending, lease, dispatcher, history>>

\* A job is created for an accepted upload; its event registers the scope.
CreateJob(u) ==
    /\ upload[u].status = "accepted"
    /\ ~ dispatchPending
    /\ dispatchPending' = TRUE
    /\ UNCHANGED <<rows, stores, verified, lease, dispatcher, history>>

-----------------------------------------------------------------------------
(***************************************************************************)
(* The dispatcher's pass over the scope.                                   *)
(***************************************************************************)
Move(d, record) == dispatcher' = [dispatcher EXCEPT ![d] = record]
Goto(d, label) == Move(d, [dispatcher[d] EXCEPT !.pc = label])

ClaimScope(d) ==
    /\ dispatcher[d].pc = "idle"
    /\ uploadPending \/ dispatchPending
    /\ lease \in {d, NoOwner}
    /\ lease' = d
    /\ Goto(d, "list")
    /\ UNCHANGED <<rows, stores, verified, dispatchPending, history>>

\* list_reconcilable_uploads: an upload under a live inspection lease is left out.
Reconcilable ==
    {u \in Uploads : \/ upload[u].status = "uploaded"
                     \/ upload[u].status = "inspecting" /\ ~ upload[u].live}

ListUploads(d) ==
    /\ dispatcher[d].pc = "list"
    /\ Move(d, [dispatcher[d] EXCEPT
            !.pc = "next",
            !.todo = {u \in Reconcilable :
                Cardinality({v \in Reconcilable : upload[v].seq < upload[u].seq}) < BatchLimit}])
    /\ UNCHANGED <<rows, stores, verified, dispatchPending, lease, history>>

NextUpload(d, u) ==
    /\ dispatcher[d].pc = "next"
    /\ u \in dispatcher[d].todo
    /\ \A v \in dispatcher[d].todo : upload[u].seq <= upload[v].seq
    /\ Move(d, [dispatcher[d] EXCEPT !.pc = "claim", !.todo = @ \ {u}, !.at = <<u>>])
    /\ UNCHANGED <<rows, stores, verified, dispatchPending, lease, history>>

\* The upload a dispatcher is processing.
At(d) == dispatcher[d].at[1]

\* process returns: the upload is done, busy, or retried once its lease is over.
Skip(d) == Move(d, [dispatcher[d] EXCEPT !.pc = "next", !.at = NoWork, !.version = 0])

\* Accepting or rejecting: status, lease, event and flag in one transaction.
Decide(u, status) ==
    /\ upload' = [upload EXCEPT ![u].status = status, ![u].owner = NoOwner, ![u].live = FALSE]
    /\ events' = [events EXCEPT ![u] = Append(@, status)]
    /\ uploadPending' = FALSE

\* Mutant: a live lease of another dispatcher does not exclude.
ClaimableAnyway(row) ==
    /\ row.status \in {"uploaded", "inspecting"}
    /\ row.attempts < MaxAttempts

\* Mutant: one attempt too many.
ClaimableOnceMore(row) ==
    /\ row.status = "uploaded" \/ (row.status = "inspecting" /\ ~ row.live)
    /\ row.attempts <= MaxAttempts

Claimable(row) ==
    /\ row.status = "uploaded" \/ (row.status = "inspecting" /\ ~ row.live)
    /\ row.attempts < MaxAttempts

Claimed(d, row) ==
    [row EXCEPT !.status = "inspecting", !.attempts = @ + 1, !.owner = d, !.live = TRUE]

Holds(d, row) == row.status = "inspecting" /\ row.owner = d /\ row.live

\* claim_upload_inspection.  Existing, which a dispatcher that only takes listed
\* uploads never meets, renews the lease and goes on; AttemptsExhausted, Busy and
\* NotInspectable end the upload's turn.
ClaimInspection(d) ==
    /\ dispatcher[d].pc = "claim"
    /\ LET row == upload[At(d)] IN
       \/ /\ Claimable(row)
          /\ upload' = [upload EXCEPT ![At(d)] = Claimed(d, row)]
          /\ Goto(d, "load")
          /\ UNCHANGED <<events, uploadPending>>
       \/ /\ ~ Claimable(row)
          /\ Holds(d, row)
          /\ Goto(d, "load")
          /\ UNCHANGED rows
       \/ /\ ~ Claimable(row)
          /\ row.status = "inspecting"
          /\ ~ row.live
          /\ Decide(At(d), "rejected")
          /\ Skip(d)
       \/ /\ ~ Claimable(row)
          /\ ~ Holds(d, row)
          /\ row.status = "inspecting" => row.live
          /\ Skip(d)
          /\ UNCHANGED rows
    /\ UNCHANGED <<stores, verified, dispatchPending, lease, history>>

\* load_claimed_upload: the row with its pinned version, or LeaseLost.
LoadClaimed(d) ==
    /\ dispatcher[d].pc = "load"
    /\ IF Holds(d, upload[At(d)])
         THEN Move(d, [dispatcher[d] EXCEPT !.pc = "scan", !.version = upload[At(d)].version])
         ELSE Skip(d)
    /\ UNCHANGED <<rows, stores, verified, dispatchPending, lease, history>>

\* Mutant: a read takes whatever the object holds now.
ReadLatest(u, version) == {object[u][Len(object[u])]}

\* What a read of one version of the quarantine object returns.  A version that
\* has been overwritten is kept or gone, as the bucket is versioned or not.
Read(u, version) ==
    {object[u][version]} \cup (IF version < Len(object[u]) THEN {Absent} ELSE {})

\* The importer goes on, leaves the lease to expire, or rejects.
After(d, outcome, label) ==
    IF outcome = "Unavailable" THEN Skip(d)
    ELSE Goto(d, IF outcome = "Ok" THEN label ELSE "reject")

\* ClamAV (external): its reply to the stream.
Replies == {"OK", "FOUND", "other", "none"}

\* ClamdScanner::scan: anything but the two known replies decides nothing.
scan(reply) ==
    CASE reply = "OK" -> "Ok" [] reply = "FOUND" -> "Infected" [] OTHER -> "Unavailable"

\* MalwareInspector::inspect: the version and the length are compared, not the
\* digest.
Scan(d) ==
    /\ dispatcher[d].pc = "scan"
    /\ \E content \in Read(At(d), dispatcher[d].version), answered \in BOOLEAN, reply \in Replies :
       LET got == collect_verified(IF ~answered THEN "silent"
                                   ELSE IF content = Absent THEN "gone" ELSE "matches")
           outcome == IF got = "Ok" THEN scan(reply) ELSE got
       IN /\ clean' = IF outcome = "Ok" THEN [clean EXCEPT ![At(d)] = @ \cup {content}] ELSE clean
          /\ After(d, outcome, "read")
    /\ UNCHANGED <<rows, stores, verified, dispatchPending, lease, expiries>>

\* UploadDocumentReader::read.
ReadDocument(d) ==
    /\ dispatcher[d].pc = "read"
    /\ \E content \in Read(At(d), dispatcher[d].version), answered \in BOOLEAN :
       After(d, collect_verified(IF ~answered THEN "silent"
                                 ELSE IF content = Digest[At(d)] THEN "matches" ELSE "gone"),
             "parse")
    /\ UNCHANGED <<rows, stores, verified, dispatchPending, lease, history>>

\* What the parser makes of an upload.  Two parses may differ, since a child may die.
ParseOutcomes == {inspect(document, fate) : document \in Documents, fate \in Fates}

ParseDocument(d) ==
    /\ dispatcher[d].pc = "parse"
    /\ \E outcome \in ParseOutcomes : After(d, outcome, "promote")
    /\ UNCHANGED <<rows, stores, verified, dispatchPending, lease, history>>

\* The destination is streamed and hashed.
verify_existing(u, content) ==
    IF content = Digest[u] THEN "Ok" ELSE "DestinationConflict"

\* The rewrite (external): what GCS may answer.  A 200 has created the destination,
\* also when the answer is lost.
RewriteStatuses(content, destination) ==
    {503} \cup (IF content = Absent THEN {404} ELSE {})
          \cup (IF destination # Absent THEN {412} ELSE {})
          \cup (IF content # Absent /\ destination = Absent THEN {200} ELSE {})

promote_inner(status, existing) ==
    CASE status = 412 -> existing
      [] status = 404 -> "InvalidSource"
      [] status = 200 -> "Ok"
      [] OTHER -> "Unavailable"

\* The destination is created from the pinned version if it is absent.
Promote(d) ==
    /\ dispatcher[d].pc = "promote"
    /\ LET u == At(d)
           destination == source[Digest[u]]
       IN \E content \in Read(u, dispatcher[d].version), answered \in BOOLEAN :
          \E status \in RewriteStatuses(content, destination) :
             /\ source' = IF status = 200 THEN [source EXCEPT ![Digest[u]] = content] ELSE source
             /\ After(d, IF answered THEN promote_inner(status, verify_existing(u, destination))
                         ELSE "Unavailable", "accept")
    /\ UNCHANGED <<rows, object, verified, dispatchPending, lease, history>>

\* Without GCS: the pinned version is read and verified, put if the destination is
\* absent, and the destination verified.
PromoteStream(d) ==
    /\ dispatcher[d].pc = "promote"
    /\ LET u == At(d)
           destination == source[Digest[u]]
       IN \E content \in Read(u, dispatcher[d].version) :
          \/ /\ content = Digest[u]
             /\ source' = [source EXCEPT ![Digest[u]] = IF @ = Absent THEN content ELSE @]
             /\ \E answered \in BOOLEAN :
                   After(d, IF answered THEN verify_existing(u, source'[Digest[u]])
                            ELSE "Unavailable", "accept")
          \/ /\ content # Digest[u]
             /\ After(d, IF content = Absent THEN "Unavailable" ELSE "InvalidSource", "accept")
             /\ UNCHANGED source
    /\ UNCHANGED <<rows, object, verified, dispatchPending, lease, history>>

\* accept_upload: only the live owner of the inspection; LeaseLost otherwise.
AcceptUpload(d) ==
    /\ dispatcher[d].pc = "accept"
    /\ IF Holds(d, upload[At(d)]) THEN Decide(At(d), "accepted") ELSE UNCHANGED rows
    /\ Skip(d)
    /\ UNCHANGED <<stores, verified, dispatchPending, lease, history>>

\* Mutant: the owner and its lease are not compared.
RejectWithoutLease(d) ==
    /\ dispatcher[d].pc = "reject"
    /\ Decide(At(d), "rejected")
    /\ Skip(d)
    /\ UNCHANGED <<stores, verified, dispatchPending, lease, history>>

\* reject_upload.
RejectUpload(d) ==
    /\ dispatcher[d].pc = "reject"
    /\ IF Holds(d, upload[At(d)]) THEN Decide(At(d), "rejected") ELSE UNCHANGED rows
    /\ Skip(d)
    /\ UNCHANGED <<stores, verified, dispatchPending, lease, history>>

\* The uploads are done: relay_scope delivers the job events (JobDispatch) and
\* clears its flag when none is left.
RelayJobs(d) ==
    /\ dispatcher[d].pc = "next"
    /\ dispatcher[d].todo = {}
    /\ Goto(d, "release")
    /\ dispatchPending' \in {dispatchPending, FALSE}
    /\ UNCHANGED <<rows, stores, verified, lease, history>>

\* ocr_release_work_scope: only a live lease of this owner.
ReleaseScope(d) ==
    /\ dispatcher[d].pc = "release"
    /\ lease' = IF lease = d THEN NoOwner ELSE lease
    /\ Move(d, Idle)
    /\ UNCHANGED <<rows, stores, verified, dispatchPending, history>>

-----------------------------------------------------------------------------
(***************************************************************************)
(* The environment.                                                        *)
(***************************************************************************)
\* An expired lease of the scope excludes nobody and cannot be released.
ScopeLeaseExpires ==
    /\ lease # NoOwner
    /\ lease' = NoOwner
    /\ UNCHANGED <<rows, stores, verified, dispatchPending, dispatcher, history>>

InspectionLeaseExpires(u) ==
    /\ upload[u].live
    /\ upload' = [upload EXCEPT ![u].live = FALSE]
    /\ expiries' = [expiries EXCEPT ![u] = @ + 1]
    /\ UNCHANGED <<events, uploadPending, stores, verified, dispatchPending, lease,
                   dispatcher, clean>>

\* A store call fails: the pass ends, the scope is released.
Outage(d) ==
    /\ dispatcher[d].pc \notin {"idle", "release"}
    /\ Move(d, [Idle EXCEPT !.pc = "release"])
    /\ UNCHANGED <<rows, stores, verified, dispatchPending, lease, history>>

\* The process dies, or the release fails, and it comes back under the same
\* WORKER_ID.
Restart(d) ==
    /\ dispatcher[d].pc # "idle"
    /\ Move(d, Idle)
    /\ UNCHANGED <<rows, stores, verified, dispatchPending, lease, history>>

Dispatch(d) ==
    \/ ClaimScope(d)
    \/ ListUploads(d)
    \/ \E u \in Uploads : NextUpload(d, u)
    \/ ClaimInspection(d)
    \/ LoadClaimed(d)
    \/ Scan(d)
    \/ ReadDocument(d)
    \/ ParseDocument(d)
    \/ Promote(d)
    \/ PromoteStream(d)
    \/ AcceptUpload(d)
    \/ RejectUpload(d)
    \/ RelayJobs(d)
    \/ ReleaseScope(d)

Next ==
    \/ \E u \in Uploads :
        \/ CreateUpload(u)
        \/ \E content \in {Digest[u], Other} : PutObject(u, content)
        \/ VerifyArtifact(u)
        \/ \E version \in verified[u] : RecordUploaded(u, version)
        \/ CreateJob(u)
        \/ ReservationExpires(u)
        \/ InspectionLeaseExpires(u)
    \/ \E d \in Dispatchers : Dispatch(d) \/ Outage(d) \/ Restart(d)
    \/ ScopeLeaseExpires

Spec == Init /\ [][Next]_vars
-----------------------------------------------------------------------------
(***************************************************************************)
(* Properties.                                                             *)
(***************************************************************************)
Statuses == {"none", "reserved", "uploaded", "inspecting", "accepted", "rejected"}
DispatcherPcs ==
    {"idle", "list", "next", "claim", "load", "scan", "read", "parse", "promote", "accept",
     "reject", "release"}

Row == [status : Statuses, open : BOOLEAN, version : 0..MaxPuts, seq : 0..Cardinality(Uploads),
        attempts : 0..MaxAttempts, owner : Dispatchers \cup {NoOwner}, live : BOOLEAN]

DispatcherRecord ==
    [pc : DispatcherPcs, todo : SUBSET Uploads, at : {NoWork} \cup {<<u>> : u \in Uploads},
     version : 0..MaxPuts]

\* The table constraint ocr_uploads_inspection_lease_shape: a statement that broke
\* it would fail, and the pass with it.
LeaseShape(row) ==
    /\ row.owner # NoOwner <=> row.status = "inspecting"
    /\ row.attempts > 0 <=> row.status \in {"inspecting", "accepted", "rejected"}

\* Every variable keeps its type and every upload its table constraint.
TypeOK ==
    /\ upload \in [Uploads -> Row]
    /\ \A u \in Uploads : LeaseShape(upload[u])
    /\ DOMAIN events = Uploads
    /\ object \in [Uploads -> Seq(Contents)]
    /\ \A u \in Uploads : Len(object[u]) <= MaxPuts
    /\ verified \in [Uploads -> SUBSET (1..MaxPuts)]
    /\ source \in [Digests -> Contents \cup {Absent}]
    /\ uploadPending \in BOOLEAN
    /\ dispatchPending \in BOOLEAN
    /\ lease \in Dispatchers \cup {NoOwner}
    /\ dispatcher \in [Dispatchers -> DispatcherRecord]
    /\ clean \in [Uploads -> SUBSET Contents]
    /\ expiries \in [Uploads -> 0..MaxAttempts]

\* The bytes a job will read are the bytes the client declared, and they have
\* been scanned: writing to the quarantine object after it was verified, two
\* importers promoting it at once, or a foreign object under the source's name
\* changes nothing.  (CONTRACTS.md: "Inspection pins the exact observed object
\* generation before promotion, so later writes cannot change the bytes being
\* processed".)
AcceptedSourceIsScanned ==
    \A u \in Uploads :
        upload[u].status = "accepted" =>
            /\ source[Digest[u]] = Digest[u]
            /\ Digest[u] \in clean[u]

\* An upload that is being inspected is still only received.
Shown(status) == IF status \in {"uploaded", "inspecting"} THEN "received" ELSE status

Promise == INSTANCE SourceIntake WITH
    stage <- [u \in Uploads |-> Shown(upload[u].status)],
    told <- events,
    cleared <- {u \in Uploads : Digest[u] \in clean[u]},
    bucket <- source

\* The importers, their leases and retries amount to SourceIntake: nothing enters
\* the source bucket that was not scanned, and nothing in it is replaced.
ImplementsSourceIntake == Promise!Spec

\* A decision is final, and so is the version it was taken on: an importer that
\* lost its lease neither rejects what was accepted nor accepts what was
\* rejected.
DecisionIsFinal ==
    [][\A u \in Uploads :
        /\ upload[u].status \in {"accepted", "rejected"}
             => upload'[u].status = upload[u].status
        /\ upload[u].version # 0 => upload'[u].version = upload[u].version]_vars

\* Each upload's outbox tells its story once: one received event when it is
\* recorded, one decision when it is decided.
EventsFollowStatus ==
    \A u \in Uploads :
        events[u] = CASE upload[u].status \in {"none", "reserved"} -> <<>>
                      [] upload[u].status \in {"uploaded", "inspecting"} -> <<"received">>
                      [] OTHER -> <<"received", upload[u].status>>

\* An attempt is spent only when the lease of the one before has run out, so an
\* upload is rejected for exhaustion only after MaxAttempts expired leases.
AttemptsArePaidFor ==
    \A u \in Uploads : upload[u].attempts <= 1 + expiries[u]

\* An upload nobody is processing is found again: with no dispatcher in the
\* scope, an upload that can be inspected keeps the scope pending.
\* (CONTRACTS.md: "Unavailable dependencies preserve a recoverable lease"; ADR
\* 0010: after a crash "the existing idempotent inspection/outbox state resumes
\* it".)
UploadsAreDiscoverable ==
    (\A d \in Dispatchers : dispatcher[d].pc = "idle")
        => (Reconcilable # {} => uploadPending)
=============================================================================
