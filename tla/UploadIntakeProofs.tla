------------------------- MODULE UploadIntakeProofs -------------------------
(***************************************************************************)
(* The safety of UploadIntake for any uploads, dispatchers, documents and  *)
(* bounds: what is accepted is what was declared and scanned, a decision   *)
(* is final, each upload's outbox and attempts tell its story, and the     *)
(* whole behaves as SourceIntake says.                                     *)
(***************************************************************************)
EXTENDS UploadIntake, FiniteSetTheorems, SequenceTheorems, TLAPS

Early == {"none", "reserved"}

\* The steps in which a dispatcher is at an upload; those in which it has loaded
\* the pinned version; those that come after a clean scan.
Working == {"claim", "load", "scan", "read", "parse", "promote", "accept", "reject"}
Pinned == {"scan", "read", "parse", "promote", "accept", "reject"}
Scanned == {"read", "parse", "promote", "accept"}

\* Every attempt but the current one is an inspection lease x that ran out.
Account(R, x) ==
    /\ R.live => R.status = "inspecting"
    /\ R.status \in Early \cup {"uploaded"} => R.attempts = 0 /\ x = 0
    /\ R.status = "inspecting" => R.attempts = x + IF R.live THEN 1 ELSE 0
    /\ R.status \in {"accepted", "rejected"} => x <= R.attempts /\ R.attempts <= x + 1

\* An upload has a place in the order and a version once it is recorded.
Numbered(R) ==
    /\ R.seq > 0 <=> R.status \notin Early
    /\ R.version # 0 <=> R.status \notin Early

\* A version that was verified, or recorded, has the declared content.
Declares(u, v) == v \in DOMAIN object[u] /\ object[u][v] = Digest[u]

PinInv(u) ==
    /\ upload[u].version # 0 => Declares(u, upload[u].version)
    /\ \A v \in verified[u] : Declares(u, v)

\* What a dispatcher relies on: the upload it is at, the version pinned in the
\* row, the scan and, to accept, the source.
Relies(R, rowOf, scanned, sources) ==
    /\ R.pc \in Working => R.at \in {<<u>> : u \in Uploads}
    /\ R.pc \in Pinned => R.version # 0 /\ R.version = rowOf[R.at[1]].version
    /\ R.pc \in Scanned => Digest[R.at[1]] \in scanned[R.at[1]]
    /\ R.pc = "accept" => sources[Digest[R.at[1]]] = Digest[R.at[1]]

IntakeInv ==
    /\ \A u \in Uploads : Account(upload[u], expiries[u])
    /\ \A u \in Uploads : Numbered(upload[u])
    /\ \A u \in Uploads : PinInv(u)
    /\ \A d \in Dispatchers : Relies(dispatcher[d], upload, clean, source)
    /\ EventsFollowStatus
    /\ AcceptedSourceIsScanned

-----------------------------------------------------------------------------
(***************************************************************************)
(* Rows.  What a step may do to the row of an upload, its events and its   *)
(* count of lost leases.                                                   *)
(***************************************************************************)
Quiet(u) == events'[u] = events[u] /\ expiries'[u] = expiries[u]
Stays(u) == upload'[u] = upload[u] /\ Quiet(u)
Reserving(u) == upload[u].status = "none" /\ upload'[u] = Reserved /\ Quiet(u)
Closing(u) == upload'[u] = [upload[u] EXCEPT !.open = FALSE] /\ Quiet(u)
Recording(u) ==
    /\ upload[u].status = "reserved"
    /\ \E v \in verified[u] :
          upload'[u] = [upload[u] EXCEPT !.status = "uploaded", !.version = v,
                                         !.seq = Cardinality(Recorded) + 1]
    /\ events'[u] = Append(events[u], "received")
    /\ expiries'[u] = expiries[u]
Claiming(u) ==
    /\ Claimable(upload[u])
    /\ \E d \in Dispatchers : upload'[u] = Claimed(d, upload[u])
    /\ Quiet(u)
Deciding(u) ==
    /\ upload[u].status = "inspecting"
    /\ \E s \in {"accepted", "rejected"} :
          /\ upload'[u] = [upload[u] EXCEPT !.status = s, !.owner = NoOwner, !.live = FALSE]
          /\ events'[u] = Append(events[u], s)
          /\ s = "accepted" => \E d \in Dispatchers : dispatcher[d].pc = "accept" /\ At(d) = u
    /\ expiries'[u] = expiries[u]
Expiring(u) ==
    /\ upload[u].live
    /\ upload'[u] = [upload[u] EXCEPT !.live = FALSE]
    /\ events'[u] = events[u]
    /\ expiries'[u] = expiries[u] + 1

RowChange(u) ==
    \/ Stays(u)
    \/ Reserving(u)
    \/ Closing(u)
    \/ Recording(u)
    \/ Claiming(u)
    \/ Deciding(u)
    \/ Expiring(u)

\* A dispatcher's upload.
LEMMA AtUpload ==
    ASSUME IntakeInv, NEW d \in Dispatchers, dispatcher[d].pc \in Working
    PROVE  At(d) \in Uploads
<1>1. PICK u \in Uploads : dispatcher[d].at = <<u>>
  BY DEF IntakeInv, Relies
<1> QED  BY <1>1 DEF At

\* A decision on the upload w, seen from the row of u.
LEMMA DecideRow ==
    ASSUME TypeOK, NEW w \in Uploads, upload[w].status = "inspecting", NEW s \in {"accepted", "rejected"},
           Decide(w, s), UNCHANGED expiries, NEW u \in Uploads,
           s = "accepted" => \E d \in Dispatchers : dispatcher[d].pc = "accept" /\ At(d) = w
    PROVE  Stays(u) \/ Deciding(u)
<1>1. upload \in [Uploads -> Row] /\ DOMAIN events = Uploads
  BY DEF TypeOK
<1>2. upload' = [upload EXCEPT ![w].status = s, ![w].owner = NoOwner, ![w].live = FALSE]
      /\ events' = [events EXCEPT ![w] = Append(@, s)]
  BY DEF Decide
<1>3. upload'[w] = [upload[w] EXCEPT !.status = s, !.owner = NoOwner, !.live = FALSE]
  BY <1>1, <1>2
<1>4. u # w => upload'[u] = upload[u] /\ events'[u] = events[u]
  BY <1>1, <1>2
<1>5. events'[w] = Append(events[w], s)
  BY <1>1, <1>2
<1> QED  BY <1>3, <1>4, <1>5 DEF Stays, Quiet, Deciding

\* What one of the dispatcher's steps does to a row.
LEMMA DispatchRow ==
    ASSUME TypeOK, IntakeInv, NEW d \in Dispatchers, Dispatch(d) \/ Outage(d) \/ Restart(d), NEW u \in Uploads
    PROVE  RowChange(u)
<1>1. upload \in [Uploads -> Row] /\ DOMAIN events = Uploads
  BY DEF TypeOK
<1>2. CASE UNCHANGED rows /\ UNCHANGED expiries
  BY <1>2 DEF rows, RowChange, Stays, Quiet
<1>3. CASE ClaimInspection(d)
  <2>1. At(d) \in Uploads /\ UNCHANGED expiries
    BY <1>3, AtUpload DEF ClaimInspection, Working, history
  <2>2. CASE UNCHANGED rows
    BY <1>2, <2>1, <2>2
  <2>3. CASE /\ Claimable(upload[At(d)])
             /\ upload' = [upload EXCEPT ![At(d)] = Claimed(d, upload[At(d)])]
             /\ UNCHANGED <<events, uploadPending>>
    <3>1. u = At(d) => upload'[u] = Claimed(d, upload[u])
      BY <1>1, <2>3
    <3>2. u # At(d) => upload'[u] = upload[u]
      BY <1>1, <2>3
    <3>3. Quiet(u)
      BY <2>1, <2>3 DEF Quiet
    <3> QED  BY <2>3, <3>1, <3>2, <3>3 DEF RowChange, Stays, Claiming
  <2>4. CASE upload[At(d)].status = "inspecting" /\ Decide(At(d), "rejected")
    BY <2>1, <2>4, DecideRow DEF RowChange
  <2> QED  BY <1>3, <2>2, <2>3, <2>4 DEF ClaimInspection
<1>4. CASE AcceptUpload(d)
  <2>1. dispatcher[d].pc = "accept" /\ At(d) \in Uploads /\ UNCHANGED expiries
    BY <1>4, AtUpload DEF AcceptUpload, Working, history
  <2>2. CASE UNCHANGED rows
    BY <1>2, <2>1, <2>2
  <2>3. CASE Holds(d, upload[At(d)]) /\ Decide(At(d), "accepted")
    BY <2>1, <2>3, DecideRow DEF RowChange, Holds
  <2> QED  BY <1>4, <2>2, <2>3 DEF AcceptUpload
<1>5. CASE RejectUpload(d)
  <2>1. At(d) \in Uploads /\ UNCHANGED expiries
    BY <1>5, AtUpload DEF RejectUpload, Working, history
  <2>2. CASE UNCHANGED rows
    BY <1>2, <2>1, <2>2
  <2>3. CASE Holds(d, upload[At(d)]) /\ Decide(At(d), "rejected")
    BY <2>1, <2>3, DecideRow DEF RowChange, Holds
  <2> QED  BY <1>5, <2>2, <2>3 DEF RejectUpload
<1>6. CASE \/ ClaimScope(d) \/ ListUploads(d) \/ \E v \in Uploads : NextUpload(d, v)
           \/ LoadClaimed(d) \/ Scan(d) \/ ReadDocument(d) \/ ParseDocument(d) \/ Promote(d)
           \/ PromoteStream(d) \/ RelayJobs(d) \/ ReleaseScope(d) \/ Outage(d) \/ Restart(d)
  BY <1>2, <1>6 DEF ClaimScope, ListUploads, NextUpload, LoadClaimed, Scan, ReadDocument,
     ParseDocument, Promote, PromoteStream, RelayJobs, ReleaseScope, Outage, Restart, history
<1> QED  BY <1>3, <1>4, <1>5, <1>6 DEF Dispatch

\* What any step does to a row.
LEMMA RowStep ==
    ASSUME TypeOK, IntakeInv, [Next]_vars, NEW u \in Uploads
    PROVE  RowChange(u)
<1>1. upload \in [Uploads -> Row] /\ DOMAIN events = Uploads /\ expiries \in [Uploads -> 0..MaxAttempts]
  BY DEF TypeOK
<1>2. CASE UNCHANGED rows /\ UNCHANGED expiries
  BY <1>2 DEF rows, RowChange, Stays, Quiet
<1>3. CASE \E w \in Uploads : CreateUpload(w)
  BY <1>1, <1>3 DEF CreateUpload, RowChange, Stays, Quiet, Reserving, history
<1>4. CASE \E w \in Uploads : ReservationExpires(w)
  <2>1. PICK w \in Uploads : ReservationExpires(w)
    BY <1>4
  <2>2. /\ upload'[w] = [upload[w] EXCEPT !.open = FALSE]
        /\ u # w => upload'[u] = upload[u]
    BY <1>1, <2>1 DEF ReservationExpires
  <2>3. Quiet(u)
    BY <2>1 DEF ReservationExpires, Quiet, history
  <2> QED  BY <2>2, <2>3 DEF RowChange, Stays, Closing
<1>5. CASE \E w \in Uploads : InspectionLeaseExpires(w)
  <2>1. PICK w \in Uploads : InspectionLeaseExpires(w)
    BY <1>5
  <2>2. /\ upload'[w] = [upload[w] EXCEPT !.live = FALSE]
        /\ upload[w].live
        /\ u # w => upload'[u] = upload[u]
    BY <1>1, <2>1 DEF InspectionLeaseExpires
  <2>3. events'[u] = events[u] /\ expiries'[w] = expiries[w] + 1 /\ (u # w => expiries'[u] = expiries[u])
    BY <1>1, <2>1 DEF InspectionLeaseExpires
  <2> QED  BY <2>2, <2>3 DEF RowChange, Stays, Quiet, Expiring
<1>6. CASE \E w \in Uploads : \E version \in verified[w] : RecordUploaded(w, version)
  <2>0. PICK w \in Uploads : \E version \in verified[w] : RecordUploaded(w, version)
    BY <1>6
  <2>1. PICK version \in verified[w] : RecordUploaded(w, version)
    BY <2>0
  <2>2. UNCHANGED expiries
    BY <2>1 DEF RecordUploaded, history
  <2>3. CASE UNCHANGED rows
    BY <1>2, <2>2, <2>3
  <2>4. CASE /\ upload[w].status = "reserved"
             /\ upload' = [upload EXCEPT ![w].status = "uploaded", ![w].version = version,
                                         ![w].seq = Cardinality(Recorded) + 1]
             /\ events' = [events EXCEPT ![w] = Append(@, "received")]
    <3>1. /\ upload'[w] = [upload[w] EXCEPT !.status = "uploaded", !.version = version,
                                            !.seq = Cardinality(Recorded) + 1]
          /\ u # w => upload'[u] = upload[u]
      BY <1>1, <2>4
    <3>2. events'[w] = Append(events[w], "received") /\ (u # w => events'[u] = events[u])
      BY <1>1, <2>4
    <3> QED  BY <2>2, <2>4, <3>1, <3>2 DEF RowChange, Stays, Quiet, Recording
  <2> QED  BY <2>1, <2>3, <2>4 DEF RecordUploaded
<1>7. CASE \E w \in Uploads : \/ \E content \in {Digest[w], Other} : PutObject(w, content)
                              \/ VerifyArtifact(w) \/ CreateJob(w)
  BY <1>2, <1>7 DEF PutObject, VerifyArtifact, CreateJob, history
<1>8. CASE ScopeLeaseExpires \/ UNCHANGED vars
  BY <1>2, <1>8 DEF ScopeLeaseExpires, vars, rows, history
<1>9. CASE \E d \in Dispatchers : Dispatch(d) \/ Outage(d) \/ Restart(d)
  BY <1>9, DispatchRow
<1> QED  BY <1>3, <1>4, <1>5, <1>6, <1>7, <1>8, <1>9 DEF Next

\* The next place in the order is within bounds while an upload is not recorded.
LEMMA NextPlace ==
    ASSUME TypeOK, IntakeInv, NEW u \in Uploads, upload[u].status = "reserved"
    PROVE  Cardinality(Recorded) + 1 \in 1..Cardinality(Uploads)
<1>1. u \notin Recorded
  BY DEF Recorded, IntakeInv, Numbered, Early
<1>2. IsFiniteSet(Uploads) /\ Recorded \in SUBSET (Uploads \ {u})
  BY <1>1, UploadIntakeAssumption DEF Recorded
<1>3. IsFiniteSet(Uploads \ {u}) /\ Cardinality(Uploads \ {u}) = Cardinality(Uploads) - 1
  BY <1>2, FS_RemoveElement
<1>4. IsFiniteSet(Recorded) /\ Cardinality(Recorded) <= Cardinality(Uploads) - 1
  BY <1>2, <1>3, FS_Subset
<1>5. Cardinality(Recorded) \in Nat /\ Cardinality(Uploads) \in Nat
  BY <1>2, <1>4, FS_CardinalityType
<1> QED  BY <1>4, <1>5

\* What TypeOK and IntakeInv say of one row and its count of lost leases.
RowOK(R, x) ==
    /\ R \in Row /\ x \in 0..MaxAttempts
    /\ LeaseShape(R) /\ Account(R, x) /\ Numbered(R)

\* A row is well formed before a step.
LEMMA RowBefore ==
    ASSUME TypeOK, IntakeInv, NEW u \in Uploads
    PROVE  RowOK(upload[u], expiries[u])
BY DEF TypeOK, IntakeInv, RowOK

\* A reservation is a well-formed row.
LEMMA ReservedRow ==
    IsFiniteSet(Uploads) => RowOK(NoUpload, 0) /\ RowOK(Reserved, 0)
<1> SUFFICES ASSUME IsFiniteSet(Uploads) PROVE RowOK(NoUpload, 0) /\ RowOK(Reserved, 0)
  OBVIOUS
<1>1. Cardinality(Uploads) \in Nat
  BY FS_CardinalityType
<1>2. RowOK(NoUpload, 0)
  BY <1>1, UploadIntakeAssumption
     DEF RowOK, NoUpload, Row, Statuses, LeaseShape, Account, Numbered, Early
<1>3. RowOK(Reserved, 0)
  <2>1. NoUpload \in Row /\ NoUpload.seq = 0 /\ NoUpload.version = 0 /\ NoUpload.attempts = 0
        /\ NoUpload.owner = NoOwner /\ NoUpload.live = FALSE
    BY <1>2 DEF RowOK, NoUpload
  <2>2. Reserved = [NoUpload EXCEPT !.status = "reserved", !.open = TRUE]
    BY DEF Reserved
  <2>3. Reserved \in Row
    BY <2>1, <2>2 DEF Row, Statuses
  <2>4. /\ Reserved.status = "reserved" /\ Reserved.seq = 0 /\ Reserved.version = 0
        /\ Reserved.attempts = 0 /\ Reserved.owner = NoOwner /\ Reserved.live = FALSE
    BY <2>1, <2>2 DEF Row
  <2> QED  BY <2>3, <2>4, UploadIntakeAssumption DEF RowOK, LeaseShape, Account, Numbered, Early
<1> QED  BY <1>2, <1>3

\* A row is well formed after a step.
LEMMA RowAfter ==
    ASSUME TypeOK, IntakeInv, [Next]_vars, NEW u \in Uploads
    PROVE  RowOK(upload'[u], expiries'[u])
<1> DEFINE R == upload[u]
           S == upload'[u]
           x == expiries[u]
           y == expiries'[u]
<1>1. RowOK(R, x) /\ RowChange(u)
  BY RowBefore, RowStep
<1>2. R \in Row /\ x \in 0..MaxAttempts /\ LeaseShape(R) /\ Account(R, x) /\ Numbered(R)
      /\ MaxAttempts \in Nat
  BY <1>1, UploadIntakeAssumption DEF RowOK
<1>3. CASE Stays(u)
  BY <1>1, <1>3 DEF Stays, Quiet
<1>4. CASE Reserving(u)
  <2>1. S = Reserved /\ y = x /\ x = 0
    BY <1>2, <1>4 DEF Reserving, Quiet, Account, Early
  <2> QED  BY <2>1, ReservedRow, UploadIntakeAssumption
<1>5. CASE Closing(u)
  <2>1. S = [R EXCEPT !.open = FALSE] /\ y = x
    BY <1>5 DEF Closing, Quiet
  <2> HIDE DEF R, S, x, y
  <2>2. /\ S.status = R.status /\ S.version = R.version /\ S.seq = R.seq
        /\ S.attempts = R.attempts /\ S.owner = R.owner /\ S.live = R.live
    BY <1>2, <2>1 DEF Row
  <2>3. S \in Row
    BY <1>2, <2>1 DEF Row
  <2>4. LeaseShape(S) /\ Numbered(S)
    BY <1>2, <2>2 DEF LeaseShape, Numbered
  <2>5. Account(S, y)
    BY <1>2, <2>1, <2>2 DEF Account
  <2> QED  BY <1>2, <2>1, <2>3, <2>4, <2>5 DEF RowOK, S, y
<1>6. CASE Recording(u)
  <2>1. Cardinality(Recorded) + 1 \in 1..Cardinality(Uploads) /\ verified[u] \in SUBSET (1..MaxPuts)
    BY <1>6, NextPlace DEF Recording, TypeOK
  <2> DEFINE n == Cardinality(Recorded) + 1
  <2>2. PICK v \in verified[u] : S = [R EXCEPT !.status = "uploaded", !.version = v, !.seq = n]
    BY <1>6 DEF Recording
  <2>3. y = x /\ R.status = "reserved" /\ v \in 1..MaxPuts /\ MaxPuts \in Nat /\ Cardinality(Uploads) \in Nat
    BY <1>6, <2>1, UploadIntakeAssumption, FS_CardinalityType DEF Recording
  <2>4. n \in 1..Cardinality(Uploads)
    BY <2>1
  <2> HIDE DEF R, S, x, y, n
  <2>5. /\ S.status = "uploaded" /\ S.version = v /\ S.seq = n
        /\ S.attempts = R.attempts /\ S.owner = R.owner /\ S.live = R.live
    BY <1>2, <2>2 DEF Row
  <2>6. S \in Row
    <3>1. n \in 0..Cardinality(Uploads) /\ v \in 0..MaxPuts
      BY <2>3, <2>4
    <3> QED  BY <1>2, <2>2, <3>1 DEF Row, Statuses
  <2>7. LeaseShape(S)
    BY <1>2, <2>3, <2>5 DEF LeaseShape
  <2>8. Numbered(S)
    BY <2>3, <2>4, <2>5 DEF Numbered, Early
  <2>9. Account(S, y)
    BY <1>2, <2>3, <2>5 DEF Account, Early
  <2> QED  BY <1>2, <2>3, <2>6, <2>7, <2>8, <2>9 DEF RowOK, S, y
<1>7. CASE Claiming(u)
  <2>1. PICK d \in Dispatchers : S = [R EXCEPT !.status = "inspecting", !.attempts = @ + 1, !.owner = d, !.live = TRUE]
    BY <1>7 DEF Claiming, Claimed
  <2>2. y = x /\ Claimable(R) /\ d # NoOwner
    BY <1>7, UploadIntakeAssumption DEF Claiming, Quiet
  <2> HIDE DEF R, S, x, y
  <2>3. /\ S.status = "inspecting" /\ S.version = R.version /\ S.seq = R.seq
        /\ S.attempts = R.attempts + 1 /\ S.owner = d /\ S.live = TRUE
    BY <1>2, <2>1 DEF Row
  <2>4. R.attempts \in 0..MaxAttempts /\ R.attempts < MaxAttempts /\ R.attempts + 1 \in 0..MaxAttempts
    BY <1>2, <2>2 DEF Row, Claimable
  <2>5. S \in Row
    BY <1>2, <2>1, <2>4 DEF Row, Statuses
  <2>6. LeaseShape(S)
    BY <2>2, <2>3, <2>4 DEF LeaseShape
  <2>7. R.status \notin Early
    BY <2>2 DEF Claimable, Early
  <2>8. Numbered(S)
    BY <1>2, <2>3, <2>7 DEF Numbered, Early
  <2>9. R.attempts = x
    BY <1>2, <2>2, <2>4 DEF Account, Claimable
  <2>10. Account(S, y)
    BY <2>2, <2>3, <2>9 DEF Account, Early
  <2> QED  BY <1>2, <2>2, <2>5, <2>6, <2>8, <2>10 DEF RowOK, S, y
<1>8. CASE Deciding(u)
  <2>1. PICK s \in {"accepted", "rejected"} : S = [R EXCEPT !.status = s, !.owner = NoOwner, !.live = FALSE]
    BY <1>8 DEF Deciding
  <2>2. y = x /\ R.status = "inspecting"
    BY <1>8 DEF Deciding
  <2> HIDE DEF R, S, x, y
  <2>3. /\ S.status = s /\ S.version = R.version /\ S.seq = R.seq
        /\ S.attempts = R.attempts /\ S.owner = NoOwner /\ S.live = FALSE
    BY <1>2, <2>1 DEF Row
  <2>4. S \in Row
    BY <1>2, <2>1 DEF Row, Statuses
  <2>5. LeaseShape(S)
    BY <1>2, <2>2, <2>3 DEF LeaseShape
  <2>6. Numbered(S)
    BY <1>2, <2>2, <2>3 DEF Numbered, Early
  <2>7. R.attempts \in Nat /\ x \in Nat
    BY <1>2 DEF Row
  <2>8. R.attempts = x \/ R.attempts = x + 1
    BY <1>2, <2>2, <2>7 DEF Account
  <2>9. x <= R.attempts /\ R.attempts <= x + 1
    BY <2>7, <2>8
  <2>10. Account(S, y)
    BY <2>2, <2>3, <2>9 DEF Account, Early
  <2> QED  BY <1>2, <2>2, <2>4, <2>5, <2>6, <2>10 DEF RowOK, S, y
<1>9. CASE Expiring(u)
  <2>1. S = [R EXCEPT !.live = FALSE] /\ y = x + 1 /\ R.live
    BY <1>9 DEF Expiring
  <2> HIDE DEF R, S, x, y
  <2>2. /\ S.status = R.status /\ S.version = R.version /\ S.seq = R.seq
        /\ S.attempts = R.attempts /\ S.owner = R.owner /\ S.live = FALSE
    BY <1>2, <2>1 DEF Row
  <2>3. R.status = "inspecting" /\ R.attempts = x + 1 /\ R.attempts \in 0..MaxAttempts
    BY <1>2, <2>1 DEF Account, Row
  <2>4. S \in Row /\ y \in 0..MaxAttempts
    BY <1>2, <2>1, <2>3 DEF Row
  <2>5. LeaseShape(S) /\ Numbered(S)
    BY <1>2, <2>2 DEF LeaseShape, Numbered
  <2>6. Account(S, y)
    BY <1>2, <2>1, <2>2, <2>3 DEF Account, Early
  <2> QED  BY <2>4, <2>5, <2>6 DEF RowOK, S, y
<1> QED  BY <1>1, <1>3, <1>4, <1>5, <1>6, <1>7, <1>8, <1>9 DEF RowChange

\* What stays of a row: a decision, and the version once there is one.
LEMMA RowFinal ==
    ASSUME TypeOK, IntakeInv, [Next]_vars, NEW u \in Uploads
    PROVE  /\ upload[u].status \in {"accepted", "rejected"} => upload'[u].status = upload[u].status
           /\ upload[u].version # 0 => upload'[u].version = upload[u].version
<1> DEFINE R == upload[u]
           S == upload'[u]
<1>1. R \in Row /\ Numbered(R) /\ Account(R, expiries[u]) /\ RowChange(u)
  BY RowBefore, RowStep DEF RowOK
<1>2. CASE Stays(u)
  BY <1>2 DEF Stays
<1>3. CASE Reserving(u)
  BY <1>1, <1>3 DEF Reserving, Numbered, Early
<1>4. CASE Closing(u)
  <2>1. S = [R EXCEPT !.open = FALSE]
    BY <1>4 DEF Closing
  <2> HIDE DEF R, S
  <2>2. S.status = R.status /\ S.version = R.version
    BY <1>1, <2>1 DEF Row
  <2> QED  BY <2>2 DEF R, S
<1>5. CASE Recording(u)
  BY <1>1, <1>5 DEF Recording, Numbered, Early
<1>6. CASE Claiming(u)
  <2>1. PICK d \in Dispatchers : S = [R EXCEPT !.status = "inspecting", !.attempts = @ + 1, !.owner = d, !.live = TRUE]
    BY <1>6 DEF Claiming, Claimed
  <2>2. R.status \notin {"accepted", "rejected"}
    BY <1>6 DEF Claiming, Claimable
  <2> HIDE DEF R, S
  <2>3. S.version = R.version
    BY <1>1, <2>1 DEF Row
  <2> QED  BY <2>2, <2>3 DEF R, S
<1>7. CASE Deciding(u)
  <2>1. PICK s \in {"accepted", "rejected"} : S = [R EXCEPT !.status = s, !.owner = NoOwner, !.live = FALSE]
    BY <1>7 DEF Deciding
  <2>2. R.status = "inspecting"
    BY <1>7 DEF Deciding
  <2> HIDE DEF R, S
  <2>3. S.version = R.version
    BY <1>1, <2>1 DEF Row
  <2> QED  BY <2>2, <2>3 DEF R, S
<1>8. CASE Expiring(u)
  <2>1. S = [R EXCEPT !.live = FALSE]
    BY <1>8 DEF Expiring
  <2> HIDE DEF R, S
  <2>2. S.status = R.status /\ S.version = R.version
    BY <1>1, <2>1 DEF Row
  <2> QED  BY <2>2 DEF R, S
<1> QED  BY <1>1, <1>2, <1>3, <1>4, <1>5, <1>6, <1>7, <1>8 DEF RowChange

\* Appending to one event.
LEMMA AppendToOne == ASSUME NEW a, NEW b PROVE Append(<<a>>, b) = <<a, b>>
<1> DEFINE T == {a, b}
<1>1. <<a>> \in Seq(T) /\ <<a, b>> \in Seq(T) /\ Len(<<a>>) = 1 /\ Len(<<a, b>>) = 2
  OBVIOUS
<1>2. /\ Append(<<a>>, b) \in Seq(T) /\ Len(Append(<<a>>, b)) = 2
      /\ Append(<<a>>, b)[1] = a /\ Append(<<a>>, b)[2] = b
  BY <1>1, AppendProperties
<1> DEFINE q == Append(<<a>>, b)
           p == <<a, b>>
<1>3. p[1] = a /\ p[2] = b
  OBVIOUS
<1>4. q \in Seq(T) /\ p \in Seq(T) /\ Len(q) = 2 /\ Len(p) = 2 /\ q[1] = p[1] /\ q[2] = p[2]
  BY <1>1, <1>2, <1>3
<1> HIDE DEF q, p
<1>5. \A i \in 1..Len(q) : q[i] = p[i]
  BY <1>4
<1>6. q = p
  BY <1>4, <1>5, SeqEqual
<1> QED  BY <1>6 DEF q, p

\* The events of an upload follow its row.
LEMMA EventsStep ==
    ASSUME TypeOK, IntakeInv, [Next]_vars
    PROVE  EventsFollowStatus'
<1> DEFINE Story(s) == CASE s \in {"none", "reserved"} -> <<>>
                         [] s \in {"uploaded", "inspecting"} -> <<"received">>
                         [] OTHER -> <<"received", s>>
<1>1. SUFFICES ASSUME NEW u \in Uploads PROVE events'[u] = Story(upload'[u].status)
  BY DEF EventsFollowStatus
<1> DEFINE R == upload[u]
           S == upload'[u]
<1>2. events[u] = Story(R.status)
  BY DEF IntakeInv, EventsFollowStatus
<1>3. R \in Row /\ RowChange(u) /\ Account(R, expiries[u])
  BY RowBefore, RowStep DEF RowOK
<1>4. CASE Stays(u)
  BY <1>2, <1>4 DEF Stays, Quiet
<1>5. CASE Reserving(u)
  BY <1>2, <1>5 DEF Reserving, Quiet, Reserved, NoUpload
<1>6. CASE Closing(u)
  <2>1. S = [R EXCEPT !.open = FALSE] /\ events'[u] = events[u]
    BY <1>6 DEF Closing, Quiet
  <2> HIDE DEF R, S
  <2>2. S.status = R.status
    BY <1>3, <2>1 DEF Row
  <2> HIDE DEF Story
  <2> QED  BY <1>2, <2>1, <2>2 DEF S
<1>7. CASE Recording(u)
  <2>1. PICK v \in verified[u] : S = [R EXCEPT !.status = "uploaded", !.version = v, !.seq = Cardinality(Recorded) + 1]
    BY <1>7 DEF Recording
  <2>2. R.status = "reserved" /\ events'[u] = Append(events[u], "received")
    BY <1>7 DEF Recording
  <2> HIDE DEF R, S
  <2>3. S.status = "uploaded"
    BY <1>3, <2>1 DEF Row
  <2>4. events[u] = <<>>
    BY <1>2, <2>2
  <2>5. events'[u] = <<"received">>
    BY <2>2, <2>4
  <2>6. Story(S.status) = <<"received">>
    BY <2>3
  <2> QED  BY <2>5, <2>6 DEF S
<1>8. CASE Claiming(u)
  <2>1. PICK d \in Dispatchers : S = [R EXCEPT !.status = "inspecting", !.attempts = @ + 1, !.owner = d, !.live = TRUE]
    BY <1>8 DEF Claiming, Claimed
  <2>2. R.status \in {"uploaded", "inspecting"} /\ events'[u] = events[u]
    BY <1>8 DEF Claiming, Claimable, Quiet
  <2> HIDE DEF R, S
  <2>3. S.status = "inspecting"
    BY <1>3, <2>1 DEF Row
  <2>4. Story(R.status) = <<"received">> /\ Story(S.status) = <<"received">>
    BY <2>2, <2>3
  <2> QED  BY <1>2, <2>2, <2>4 DEF S
<1>9. CASE Deciding(u)
  <2>1. PICK s \in {"accepted", "rejected"} :
            /\ S = [R EXCEPT !.status = s, !.owner = NoOwner, !.live = FALSE]
            /\ events'[u] = Append(events[u], s)
    BY <1>9 DEF Deciding
  <2>2. R.status = "inspecting"
    BY <1>9 DEF Deciding
  <2> HIDE DEF R, S
  <2>3. S.status = s
    BY <1>3, <2>1 DEF Row
  <2>4. events[u] = <<"received">>
    BY <1>2, <2>2
  <2>5. events'[u] = <<"received", s>>
    BY <2>1, <2>4, AppendToOne
  <2>6. Story(S.status) = <<"received", s>>
    BY <2>3
  <2> QED  BY <2>5, <2>6 DEF S
<1>10. CASE Expiring(u)
  <2>1. S = [R EXCEPT !.live = FALSE] /\ events'[u] = events[u]
    BY <1>10 DEF Expiring
  <2> HIDE DEF R, S
  <2>2. S.status = R.status
    BY <1>3, <2>1 DEF Row
  <2> HIDE DEF Story
  <2> QED  BY <1>2, <2>1, <2>2 DEF S
<1> QED  BY <1>3, <1>4, <1>5, <1>6, <1>7, <1>8, <1>9, <1>10 DEF RowChange

-----------------------------------------------------------------------------
(***************************************************************************)
(* The buckets.                                                            *)
(***************************************************************************)
\* The bound on writes bounds the versions of every object.
LEMMA PutsBound ==
    ASSUME TypeOK, NEW u \in Uploads
    PROVE  Cardinality(Puts) \in Nat /\ Len(object[u]) \in Nat /\ Len(object[u]) <= Cardinality(Puts)
<1>1. \A w \in Uploads : /\ object[w] \in Seq(Contents) /\ Len(object[w]) <= MaxPuts
                         /\ Len(object[w]) \in Nat /\ DOMAIN object[w] = 1..Len(object[w])
  BY LenProperties DEF TypeOK
<1>2. \A w \in Uploads : DOMAIN object[w] \subseteq 1..MaxPuts
  BY <1>1, UploadIntakeAssumption
<1>3. Puts \in SUBSET (Uploads \X (1..MaxPuts))
  BY <1>2 DEF Puts
<1>4. IsFiniteSet(Uploads \X (1..MaxPuts))
  <2>1. IsFiniteSet(1..MaxPuts)
    BY UploadIntakeAssumption, FS_Interval
  <2> QED  BY <2>1, UploadIntakeAssumption, FS_Product
<1>5. IsFiniteSet(Puts) /\ Cardinality(Puts) \in Nat
  BY <1>3, <1>4, FS_Subset, FS_CardinalityType
<1> DEFINE n == Len(object[u])
           f == [i \in 1..n |-> <<u, i>>]
<1>6. \A i \in 1..n : <<u, i>> \in Puts
  BY <1>1 DEF Puts
<1> HIDE DEF n
<1>7. f \in Injection(1..n, Puts)
  BY <1>6 DEF Injection, IsInjective
<1>8. Cardinality(1..n) <= Cardinality(Puts)
  BY <1>5, <1>7, FS_Injection
<1>9. n \in Nat /\ Cardinality(1..n) = n
  <2>1. n \in Nat
    BY <1>1 DEF n
  <2> QED  BY <2>1, FS_Interval
<1> QED  BY <1>5, <1>8, <1>9 DEF n

\* Versions are added to an object and never changed.
VersionsKept ==
    \A u \in Uploads : \A v \in DOMAIN object[u] :
        v \in DOMAIN object'[u] /\ object'[u][v] = object[u][v]

\* Quarantine objects keep their type and their versions.
LEMMA ObjectStep ==
    ASSUME TypeOK, [Next]_vars
    PROVE  /\ object' \in [Uploads -> Seq(Contents)]
           /\ \A u \in Uploads : Len(object'[u]) <= MaxPuts
           /\ VersionsKept
<1>1. object \in [Uploads -> Seq(Contents)] /\ \A u \in Uploads : Len(object[u]) <= MaxPuts
  BY DEF TypeOK
<1>2. CASE UNCHANGED object
  BY <1>1, <1>2 DEF VersionsKept
<1>3. CASE \E u \in Uploads : \E content \in {Digest[u], Other} : PutObject(u, content)
  <2>1. PICK u \in Uploads : \E content \in {Digest[u], Other} : PutObject(u, content)
    BY <1>3
  <2>2. PICK content \in {Digest[u], Other} : PutObject(u, content)
    BY <2>1
  <2>3. content \in Contents
    BY DEF Contents, Digests
  <2> DEFINE q == object[u]
             p == Append(object[u], content)
  <2>4. object' = [object EXCEPT ![u] = p] /\ Cardinality(Puts) < MaxPuts
    BY <2>2 DEF PutObject
  <2>5. q \in Seq(Contents) /\ Len(q) \in Nat /\ Len(q) <= Cardinality(Puts) /\ Cardinality(Puts) \in Nat
    BY <1>1, PutsBound
  <2>6. p \in Seq(Contents) /\ Len(p) = Len(q) + 1 /\ \A i \in 1..Len(q) : p[i] = q[i]
    BY <2>3, <2>5, AppendProperties
  <2>7. DOMAIN q = 1..Len(q) /\ DOMAIN p = 1..Len(p)
    BY <2>5, <2>6, LenProperties
  <2>8. Len(p) <= MaxPuts
    BY <2>4, <2>5, <2>6, UploadIntakeAssumption
  <2>9. \A v \in DOMAIN q : v \in DOMAIN p /\ p[v] = q[v]
    BY <2>5, <2>6, <2>7
  <2>10. object[u] = q
    OBVIOUS
  <2> HIDE DEF p, q
  <2>11. object'[u] = p /\ \A w \in Uploads : w # u => object'[w] = object[w]
    BY <1>1, <2>4
  <2>12. object' \in [Uploads -> Seq(Contents)]
    BY <1>1, <2>4, <2>6
  <2>13. \A w \in Uploads : Len(object'[w]) <= MaxPuts
    BY <1>1, <2>8, <2>11
  <2>14. VersionsKept
    BY <2>9, <2>10, <2>11 DEF VersionsKept
  <2> QED  BY <2>12, <2>13, <2>14
<1>4. CASE \E u \in Uploads : \/ CreateUpload(u) \/ VerifyArtifact(u)
                              \/ \E version \in verified[u] : RecordUploaded(u, version)
                              \/ CreateJob(u) \/ ReservationExpires(u) \/ InspectionLeaseExpires(u)
  BY <1>2, <1>4 DEF CreateUpload, VerifyArtifact, RecordUploaded, CreateJob, ReservationExpires,
     InspectionLeaseExpires, stores
<1>5. CASE \E d \in Dispatchers : Dispatch(d) \/ Outage(d) \/ Restart(d)
  BY <1>2, <1>5 DEF Dispatch, ClaimScope, ListUploads, NextUpload, ClaimInspection, LoadClaimed,
     Scan, ReadDocument, ParseDocument, Promote, PromoteStream, AcceptUpload, RejectUpload,
     RelayJobs, ReleaseScope, Outage, Restart, stores
<1>6. CASE ScopeLeaseExpires \/ UNCHANGED vars
  BY <1>2, <1>6 DEF ScopeLeaseExpires, vars, stores
<1> QED  BY <1>3, <1>4, <1>5, <1>6 DEF Next

\* A version is verified with the declared content, and recorded once verified.
LEMMA PinStep ==
    ASSUME TypeOK, IntakeInv, [Next]_vars
    PROVE  verified' \in [Uploads -> SUBSET (1..MaxPuts)] /\ \A u \in Uploads : PinInv(u)'
<1>1. verified \in [Uploads -> SUBSET (1..MaxPuts)] /\ VersionsKept
  BY ObjectStep DEF TypeOK
<1>3. /\ verified' \in [Uploads -> SUBSET (1..MaxPuts)]
      /\ \A u \in Uploads : \A v \in verified'[u] : Declares(u, v)
  <2>1. CASE UNCHANGED verified
    BY <1>1, <2>1 DEF IntakeInv, PinInv
  <2>2. CASE \E u \in Uploads : \E version \in verified[u] : RecordUploaded(u, version)
    <3>1. PICK u \in Uploads : \E version \in verified[u] : RecordUploaded(u, version)
      BY <2>2
    <3>2. PICK version \in verified[u] : verified' = [verified EXCEPT ![u] = @ \ {version}]
      BY <3>1 DEF RecordUploaded
    <3> QED  BY <1>1, <3>2 DEF IntakeInv, PinInv
  <2>3. CASE \E u \in Uploads : VerifyArtifact(u)
    <3>1. PICK u \in Uploads : VerifyArtifact(u)
      BY <2>3
    <3> DEFINE n == Len(object[u])
    <3>2. verified' = [verified EXCEPT ![u] = @ \cup {n}] /\ object[u] # <<>> /\ object[u][n] = Digest[u]
      BY <3>1 DEF VerifyArtifact, Declared
    <3>3. object[u] \in Seq(Contents) /\ n <= MaxPuts
      BY DEF TypeOK
    <3>4. n \in Nat \ {0} /\ DOMAIN object[u] = 1..n
      BY <3>2, <3>3, EmptySeq, LenProperties
    <3> HIDE DEF n
    <3>5. n \in DOMAIN object[u] /\ n \in 1..MaxPuts
      BY <3>3, <3>4, UploadIntakeAssumption
    <3>6. Declares(u, n)
      BY <3>2, <3>5 DEF Declares
    <3> QED  BY <1>1, <3>2, <3>5, <3>6 DEF IntakeInv, PinInv
  <2>4. CASE \E u \in Uploads : \/ CreateUpload(u) \/ \E content \in {Digest[u], Other} : PutObject(u, content)
                                \/ CreateJob(u) \/ ReservationExpires(u) \/ InspectionLeaseExpires(u)
    BY <2>1, <2>4 DEF CreateUpload, PutObject, CreateJob, ReservationExpires, InspectionLeaseExpires
  <2>5. CASE \E d \in Dispatchers : Dispatch(d) \/ Outage(d) \/ Restart(d)
    BY <2>1, <2>5 DEF Dispatch, ClaimScope, ListUploads, NextUpload, ClaimInspection, LoadClaimed,
       Scan, ReadDocument, ParseDocument, Promote, PromoteStream, AcceptUpload, RejectUpload,
       RelayJobs, ReleaseScope, Outage, Restart
  <2>6. CASE ScopeLeaseExpires \/ UNCHANGED vars
    BY <2>1, <2>6 DEF ScopeLeaseExpires, vars
  <2> QED  BY <2>2, <2>3, <2>4, <2>5, <2>6 DEF Next
<1>4. ASSUME NEW u \in Uploads, upload'[u].version # 0 PROVE Declares(u, upload'[u].version)
  <2> DEFINE R == upload[u]
             S == upload'[u]
  <2>1. CASE R.version # 0
    BY <2>1, RowFinal DEF IntakeInv, PinInv
  <2>2. CASE R.version = 0
    <3>1. S.version \in verified[u]
      <4>1. R \in Row /\ RowChange(u) /\ Numbered(R)
        BY RowBefore, RowStep DEF RowOK
      <4>2. R.status \in Early
        BY <2>2, <4>1 DEF Numbered
      <4>3. ~ Stays(u)
        BY <1>4, <2>2 DEF Stays
      <4>4. ~ Reserving(u)
        BY <1>4 DEF Reserving, Reserved, NoUpload
      <4>5. ~ Claiming(u) /\ ~ Deciding(u)
        BY <4>2 DEF Claiming, Claimable, Deciding, Early
      <4>6. CASE Closing(u)
        <5>1. S = [R EXCEPT !.open = FALSE]
          BY <4>6 DEF Closing
        <5> HIDE DEF R, S
        <5>2. S.version = R.version
          BY <4>1, <5>1 DEF Row
        <5> QED  BY <1>4, <2>2, <5>2 DEF S
      <4>7. CASE Expiring(u)
        <5>1. S = [R EXCEPT !.live = FALSE]
          BY <4>7 DEF Expiring
        <5> HIDE DEF R, S
        <5>2. S.version = R.version
          BY <4>1, <5>1 DEF Row
        <5> QED  BY <1>4, <2>2, <5>2 DEF S
      <4>8. CASE Recording(u)
        <5>1. PICK v \in verified[u] : S = [R EXCEPT !.status = "uploaded", !.version = v, !.seq = Cardinality(Recorded) + 1]
          BY <4>8 DEF Recording
        <5> HIDE DEF R, S
        <5>2. S.version = v
          BY <4>1, <5>1 DEF Row
        <5> QED  BY <5>2
      <4> QED  BY <4>1, <4>3, <4>4, <4>5, <4>6, <4>7, <4>8 DEF RowChange
    <3> QED  BY <3>1 DEF IntakeInv, PinInv
  <2> QED  BY <2>1, <2>2
<1>5. \A u \in Uploads : PinInv(u)'
  <2>1. SUFFICES ASSUME NEW u \in Uploads
                 PROVE  /\ upload'[u].version # 0 => Declares(u, upload[u].version)'
                        /\ \A v \in verified'[u] : Declares(u, v)'
    BY DEF PinInv
  <2>2. \A v : Declares(u, v) => v \in DOMAIN object'[u] /\ object'[u][v] = Digest[u]
    BY <1>1 DEF Declares, VersionsKept
  <2> QED  BY <1>3, <1>4, <2>2 DEF Declares
<1> QED  BY <1>3, <1>5

\* A read of the pinned version returns what was declared, or finds it gone.
LEMMA PinnedRead ==
    ASSUME IntakeInv, NEW d \in Dispatchers, dispatcher[d].pc \in Pinned,
           NEW content \in Read(At(d), dispatcher[d].version)
    PROVE  At(d) \in Uploads /\ content \in {Digest[At(d)], Absent} /\ Digest[At(d)] \in Digests
<1>1. dispatcher[d].pc \in Working
  BY DEF Pinned, Working
<1>2. At(d) \in Uploads
  BY <1>1, AtUpload
<1>3. dispatcher[d].version # 0 /\ dispatcher[d].version = upload[At(d)].version
  BY DEF IntakeInv, Relies, At
<1>4. object[At(d)][dispatcher[d].version] = Digest[At(d)]
  BY <1>2, <1>3 DEF IntakeInv, PinInv, Declares
<1>5. content \in {object[At(d)][dispatcher[d].version], Absent}
  BY DEF Read
<1> QED  BY <1>2, <1>4, <1>5 DEF Digests

\* A digest is not the mark of an absent object.
LEMMA DigestIsContent == \A g \in Digests : g # Absent /\ g \in Contents
BY UploadIntakeAssumption DEF Contents

\* The steps that neither scan nor promote.
Unscanned ==
    \/ \E u \in Uploads : \/ CreateUpload(u) \/ \E content \in {Digest[u], Other} : PutObject(u, content)
                          \/ VerifyArtifact(u) \/ \E version \in verified[u] : RecordUploaded(u, version)
                          \/ CreateJob(u) \/ ReservationExpires(u) \/ InspectionLeaseExpires(u)
    \/ \E d \in Dispatchers :
          \/ ClaimScope(d) \/ ListUploads(d) \/ \E u \in Uploads : NextUpload(d, u)
          \/ ClaimInspection(d) \/ LoadClaimed(d) \/ ReadDocument(d) \/ ParseDocument(d)
          \/ AcceptUpload(d) \/ RejectUpload(d) \/ RelayJobs(d) \/ ReleaseScope(d)
          \/ Outage(d) \/ Restart(d)
    \/ ScopeLeaseExpires
    \/ UNCHANGED vars

\* They leave the source bucket and the scans alone.
LEMMA UnscannedStays == Unscanned => UNCHANGED source /\ UNCHANGED clean
BY DEF Unscanned, CreateUpload, PutObject, VerifyArtifact, RecordUploaded, CreateJob,
   ReservationExpires, InspectionLeaseExpires, ClaimScope, ListUploads, NextUpload, ClaimInspection,
   LoadClaimed, ReadDocument, ParseDocument, AcceptUpload, RejectUpload, RelayJobs, ReleaseScope,
   Outage, Restart, ScopeLeaseExpires, vars, stores, history

\* A step is one of these, a scan or a promotion.
LEMMA StepKinds ==
    [Next]_vars => Unscanned \/ \E d \in Dispatchers : Scan(d) \/ Promote(d) \/ PromoteStream(d)
BY DEF Next, Dispatch, Unscanned

\* What a scan finds clean is the declared content.
LEMMA ScanCleans ==
    ASSUME TypeOK, IntakeInv, NEW d \in Dispatchers, Scan(d)
    PROVE  \/ UNCHANGED clean /\ (Skip(d) \/ Goto(d, "reject"))
           \/ clean' = [clean EXCEPT ![At(d)] = @ \cup {Digest[At(d)]}] /\ Goto(d, "read")
<1>1. dispatcher[d].pc \in Pinned
  BY DEF Scan, Pinned
<1>2. PICK content \in Read(At(d), dispatcher[d].version), answered \in BOOLEAN, reply \in Replies :
         LET got == collect_verified(IF ~answered THEN "silent"
                                     ELSE IF content = Absent THEN "gone" ELSE "matches")
             outcome == IF got = "Ok" THEN scan(reply) ELSE got
         IN /\ clean' = IF outcome = "Ok" THEN [clean EXCEPT ![At(d)] = @ \cup {content}] ELSE clean
            /\ After(d, outcome, "read")
  BY DEF Scan
<1> DEFINE got == collect_verified(IF ~answered THEN "silent"
                                   ELSE IF content = Absent THEN "gone" ELSE "matches")
           outcome == IF got = "Ok" THEN scan(reply) ELSE got
<1>3. /\ clean' = IF outcome = "Ok" THEN [clean EXCEPT ![At(d)] = @ \cup {content}] ELSE clean
      /\ After(d, outcome, "read")
  BY <1>2
<1>4. content = Absent => got # "Ok"
  BY DEF collect_verified
<1>5. outcome = "Ok" => got = "Ok"
  OBVIOUS
<1> HIDE DEF got, outcome
<1>6. CASE outcome = "Ok"
  <2>1. content = Digest[At(d)]
    BY <1>1, <1>4, <1>5, <1>6, PinnedRead
  <2>2. clean' = [clean EXCEPT ![At(d)] = @ \cup {Digest[At(d)]}]
    BY <1>3, <1>6, <2>1
  <2>3. Goto(d, "read")
    BY <1>3, <1>6 DEF After
  <2> QED  BY <2>2, <2>3
<1>7. CASE outcome # "Ok"
  BY <1>3, <1>7 DEF After
<1> QED  BY <1>6, <1>7

\* A promotion creates the source from the declared content, or leaves it; the
\* importer goes on only when the source has the declared content.
LEMMA PromoteWrites ==
    ASSUME TypeOK, IntakeInv, NEW d \in Dispatchers, Promote(d) \/ PromoteStream(d)
    PROVE  /\ \/ UNCHANGED source
              \/ /\ source[Digest[At(d)]] = Absent
                 /\ source' = [source EXCEPT ![Digest[At(d)]] = Digest[At(d)]]
           /\ \/ Skip(d) \/ Goto(d, "reject")
              \/ Goto(d, "accept") /\ source'[Digest[At(d)]] = Digest[At(d)]
<1> DEFINE u == At(d)
           g == Digest[u]
           destination == source[g]
<1>1. dispatcher[d].pc \in Pinned /\ dispatcher[d].pc \in Working
  BY DEF Promote, PromoteStream, Pinned, Working
<1>2. u \in Uploads /\ g \in Digests /\ g # Absent
  <2>1. u \in Uploads
    BY <1>1, AtUpload
  <2> QED  BY <2>1, DigestIsContent DEF Digests
<1>3. \A content \in Read(u, dispatcher[d].version) : content = g \/ content = Absent
  BY <1>1, PinnedRead
<1>4. source \in [Digests -> Contents \cup {Absent}]
  BY DEF TypeOK
<1>5. CASE Promote(d)
  <2>1. PICK content \in Read(u, dispatcher[d].version), answered \in BOOLEAN :
           \E status \in RewriteStatuses(content, destination) :
             /\ source' = IF status = 200 THEN [source EXCEPT ![g] = content] ELSE source
             /\ After(d, IF answered THEN promote_inner(status, verify_existing(u, destination))
                         ELSE "Unavailable", "accept")
    BY <1>5 DEF Promote
  <2>2. PICK status \in RewriteStatuses(content, destination) :
             /\ source' = IF status = 200 THEN [source EXCEPT ![g] = content] ELSE source
             /\ After(d, IF answered THEN promote_inner(status, verify_existing(u, destination))
                         ELSE "Unavailable", "accept")
    BY <2>1
  <2>3. content = g \/ content = Absent
    BY <1>3
  <2> HIDE DEF u, g, destination
  <2>4. status \in {200, 404, 412, 503} /\ (status = 200 => content = g /\ destination = Absent)
    BY <2>3 DEF RewriteStatuses
  <2>5. UNCHANGED source \/ (destination = Absent /\ source' = [source EXCEPT ![g] = g])
    BY <2>2, <2>4
  <2> DEFINE outcome == IF answered THEN promote_inner(status, verify_existing(u, destination))
                        ELSE "Unavailable"
  <2>6. outcome = "Ok" => status = 200 \/ (status = 412 /\ verify_existing(u, destination) = "Ok")
    BY <2>4 DEF promote_inner
  <2>7. verify_existing(u, destination) = "Ok" => destination = g
    BY DEF verify_existing, g
  <2>8. status = 200 => source'[g] = g
    BY <1>2, <1>4, <2>2, <2>4
  <2>9. outcome = "Ok" => source'[g] = g
    BY <2>2, <2>6, <2>7, <2>8 DEF destination
  <2>10. After(d, outcome, "accept")
    BY <2>2
  <2> HIDE DEF outcome
  <2>11. Skip(d) \/ Goto(d, "reject") \/ (Goto(d, "accept") /\ outcome = "Ok")
    BY <2>10 DEF After
  <2> QED  BY <2>5, <2>9, <2>11 DEF destination, g, u
<1>6. CASE PromoteStream(d)
  <2>1. PICK content \in Read(u, dispatcher[d].version) :
          \/ /\ content = g
             /\ source' = [source EXCEPT ![g] = IF @ = Absent THEN content ELSE @]
             /\ \E answered \in BOOLEAN :
                   After(d, IF answered THEN verify_existing(u, source'[g])
                            ELSE "Unavailable", "accept")
          \/ /\ content # g
             /\ After(d, IF content = Absent THEN "Unavailable" ELSE "InvalidSource", "accept")
             /\ UNCHANGED source
    BY <1>6 DEF PromoteStream
  <2> HIDE DEF u, g
  <2>2. CASE content # g
    BY <2>1, <2>2 DEF After, destination, u, g
  <2>3. CASE content = g
    <3>1. UNCHANGED source \/ (destination = Absent /\ source' = [source EXCEPT ![g] = g])
      <4>1. CASE source[g] = Absent
        BY <1>2, <1>4, <2>1, <2>3, <4>1
      <4>2. CASE source[g] # Absent
        <5>1. source' = [source EXCEPT ![g] = source[g]]
          BY <2>1, <2>3, <4>2
        <5> QED  BY <1>2, <1>4, <5>1
      <4> QED  BY <4>1, <4>2
    <3>2. PICK answered \in BOOLEAN :
              After(d, IF answered THEN verify_existing(u, source'[g]) ELSE "Unavailable", "accept")
      BY <2>1, <2>3
    <3> DEFINE outcome == IF answered THEN verify_existing(u, source'[g]) ELSE "Unavailable"
    <3>3. outcome = "Ok" => source'[g] = g
      BY DEF verify_existing, g
    <3>4. After(d, outcome, "accept")
      BY <3>2
    <3> HIDE DEF outcome
    <3>5. Skip(d) \/ Goto(d, "reject") \/ (Goto(d, "accept") /\ outcome = "Ok")
      BY <3>4 DEF After
    <3> QED  BY <3>1, <3>3, <3>5 DEF destination, g, u
  <2> QED  BY <2>2, <2>3
<1> QED  BY <1>5, <1>6

\* What a step keeps of what dispatchers rely on.
Kept ==
    /\ \A u \in Uploads : upload[u].version # 0 => upload'[u].version = upload[u].version
    /\ \A u \in Uploads : clean[u] \subseteq clean'[u]
    /\ \A g \in Digests : source[g] # Absent => source'[g] = source[g]

\* A step keeps it.
LEMMA StepKeeps ==
    ASSUME TypeOK, IntakeInv, [Next]_vars
    PROVE  /\ Kept
           /\ clean' \in [Uploads -> SUBSET Contents] /\ source' \in [Digests -> Contents \cup {Absent}]
<1>1. clean \in [Uploads -> SUBSET Contents] /\ source \in [Digests -> Contents \cup {Absent}]
  BY DEF TypeOK
<1>2. \A u \in Uploads : upload[u].version # 0 => upload'[u].version = upload[u].version
  BY RowFinal
<1>3. clean' \in [Uploads -> SUBSET Contents] /\ \A u \in Uploads : clean[u] \subseteq clean'[u]
  <2>1. CASE UNCHANGED clean
    BY <1>1, <2>1
  <2>2. CASE \E d \in Dispatchers : Scan(d)
    <3>1. PICK d \in Dispatchers : Scan(d)
      BY <2>2
    <3>2. At(d) \in Uploads
      BY <3>1, AtUpload DEF Scan, Working
    <3>3. Digest[At(d)] \in Contents
      BY <3>2 DEF Contents, Digests
    <3>4. UNCHANGED clean \/ clean' = [clean EXCEPT ![At(d)] = @ \cup {Digest[At(d)]}]
      BY <3>1, ScanCleans
    <3> QED  BY <1>1, <3>2, <3>3, <3>4
  <2>3. CASE \E d \in Dispatchers : Promote(d) \/ PromoteStream(d)
    BY <2>1, <2>3 DEF Promote, PromoteStream, history
  <2> QED  BY <2>1, <2>2, <2>3, StepKinds, UnscannedStays
<1>4. source' \in [Digests -> Contents \cup {Absent}]
      /\ \A g \in Digests : source[g] # Absent => source'[g] = source[g]
  <2>1. CASE UNCHANGED source
    BY <1>1, <2>1
  <2>2. CASE \E d \in Dispatchers : Promote(d) \/ PromoteStream(d)
    <3>1. PICK d \in Dispatchers : Promote(d) \/ PromoteStream(d)
      BY <2>2
    <3>2. At(d) \in Uploads
      BY <3>1, AtUpload DEF Promote, PromoteStream, Working
    <3> DEFINE g == Digest[At(d)]
    <3>3. g \in Digests /\ g \in Contents
      BY <3>2 DEF Contents, Digests
    <3>4. UNCHANGED source \/ (source[g] = Absent /\ source' = [source EXCEPT ![g] = g])
      BY <3>1, PromoteWrites
    <3> HIDE DEF g
    <3> QED  BY <1>1, <3>3, <3>4
  <2>3. CASE \E d \in Dispatchers : Scan(d)
    BY <2>1, <2>3 DEF Scan, stores
  <2> QED  BY <2>1, <2>2, <2>3, StepKinds, UnscannedStays
<1> QED  BY <1>2, <1>3, <1>4 DEF Kept

-----------------------------------------------------------------------------
(***************************************************************************)
(* Dispatchers.                                                            *)
(***************************************************************************)
Relied ==
    /\ dispatcher \in [Dispatchers -> DispatcherRecord]
    /\ \A d \in Dispatchers : Relies(dispatcher[d], upload, clean, source)

\* What a dispatcher relies on is not taken from it.
LEMMA ReliesKept ==
    ASSUME IntakeInv, Kept, NEW d \in Dispatchers
    PROVE  Relies(dispatcher[d], upload', clean', source')
<1> DEFINE R == dispatcher[d]
           u == R.at[1]
<1>1. Relies(R, upload, clean, source)
  BY DEF IntakeInv
<1>2. R.pc \in Working => u \in Uploads /\ R.at \in {<<w>> : w \in Uploads}
  BY <1>1 DEF Relies
<1>3. Pinned \subseteq Working /\ Scanned \subseteq Working /\ "accept" \in Working
  BY DEF Pinned, Scanned, Working
<1>4. R.pc \in Pinned => R.version # 0 /\ R.version = upload'[u].version
  BY <1>1, <1>2, <1>3 DEF Relies, Kept
<1>5. R.pc \in Scanned => Digest[u] \in clean'[u]
  BY <1>1, <1>2, <1>3 DEF Relies, Kept
<1>6. R.pc = "accept" => source'[Digest[u]] = Digest[u]
  <2>1. SUFFICES ASSUME R.pc = "accept" PROVE source'[Digest[u]] = Digest[u]
    OBVIOUS
  <2>2. source[Digest[u]] = Digest[u] /\ u \in Uploads
    BY <1>1, <1>2, <1>3, <2>1 DEF Relies
  <2>3. Digest[u] \in Digests /\ Digest[u] # Absent
    BY <2>2, DigestIsContent DEF Digests
  <2> QED  BY <2>2, <2>3 DEF Kept
<1> QED  BY <1>2, <1>4, <1>5, <1>6 DEF Relies

\* One dispatcher moves.
LEMMA DispatcherMoves ==
    ASSUME TypeOK, IntakeInv, Kept, NEW d \in Dispatchers, NEW w \in DispatcherRecord, Move(d, w),
           Relies(w, upload', clean', source')
    PROVE  Relied'
<1>1. dispatcher \in [Dispatchers -> DispatcherRecord]
  BY DEF TypeOK
<1>2. dispatcher' = [dispatcher EXCEPT ![d] = w]
  BY DEF Move
<1>3. dispatcher' \in [Dispatchers -> DispatcherRecord]
  BY <1>1, <1>2
<1>4. \A e \in Dispatchers : dispatcher'[e] = dispatcher[e] \/ dispatcher'[e] = w
  BY <1>1, <1>2
<1>5. \A e \in Dispatchers : Relies(dispatcher'[e], upload', clean', source')
  BY <1>4, ReliesKept
<1> QED  BY <1>3, <1>5 DEF Relied

\* None moves.
LEMMA DispatchersStay ==
    ASSUME TypeOK, IntakeInv, Kept, UNCHANGED dispatcher
    PROVE  Relied'
BY ReliesKept DEF Relied, TypeOK

\* A dispatcher that is at no upload relies on nothing.
LEMMA DispatcherRests ==
    ASSUME TypeOK, IntakeInv, Kept, NEW d \in Dispatchers, NEW w \in DispatcherRecord, Move(d, w),
           w.pc \notin Working
    PROVE  Relied'
<1>1. Pinned \subseteq Working /\ Scanned \subseteq Working /\ "accept" \in Working
  BY DEF Pinned, Scanned, Working
<1>2. Relies(w, upload', clean', source')
  BY <1>1 DEF Relies
<1> QED  BY <1>2, DispatcherMoves

\* A dispatcher's turn at an upload ends.
LEMMA DispatcherSkips ==
    ASSUME TypeOK, IntakeInv, Kept, NEW d \in Dispatchers, Skip(d)
    PROVE  Relied'
<1> DEFINE R == dispatcher[d]
           w == [R EXCEPT !.pc = "next", !.at = NoWork, !.version = 0]
<1>1. R \in DispatcherRecord /\ Move(d, w)
  BY DEF TypeOK, Skip
<1> HIDE DEF R
<1>2. w \in DispatcherRecord
  <2>1. 0 \in 0..MaxPuts /\ NoWork \in {NoWork} \cup {<<u>> : u \in Uploads} /\ "next" \in DispatcherPcs
    BY UploadIntakeAssumption DEF DispatcherPcs
  <2> QED  BY <1>1, <2>1 DEF DispatcherRecord
<1>3. w.pc = "next"
  BY <1>1 DEF DispatcherRecord
<1> HIDE DEF w
<1>4. w.pc \notin Working
  BY <1>3 DEF Working
<1> QED  BY <1>1, <1>2, <1>4, DispatcherRests

\* A dispatcher goes on with what the next step relies on.
LEMMA DispatcherGoes ==
    ASSUME TypeOK, IntakeInv, Kept, NEW d \in Dispatchers, NEW label \in DispatcherPcs, Goto(d, label),
           label \in Working => dispatcher[d].pc \in Working,
           label \in Pinned => dispatcher[d].pc \in Pinned,
           label \in Scanned => Digest[At(d)] \in clean'[At(d)],
           label = "accept" => source'[Digest[At(d)]] = Digest[At(d)]
    PROVE  Relied'
<1> DEFINE R == dispatcher[d]
           w == [R EXCEPT !.pc = label]
<1>1. R \in DispatcherRecord /\ Move(d, w)
  BY DEF TypeOK, Goto
<1>2. Relies(R, upload', clean', source')
  BY ReliesKept
<1>3. At(d) = R.at[1]
  BY DEF At
<1>4. w \in DispatcherRecord /\ w.pc = label /\ w.at = R.at /\ w.version = R.version
  <2> HIDE DEF R
  <2> QED  BY <1>1 DEF DispatcherRecord
<1>5. R.pc = dispatcher[d].pc
  OBVIOUS
<1> HIDE DEF R, w
<1>6. Relies(w, upload', clean', source')
  BY <1>2, <1>3, <1>4, <1>5 DEF Relies
<1> QED  BY <1>1, <1>4, <1>6, DispatcherMoves

\* Where an outcome takes the importer.
LEMMA DispatcherAfter ==
    ASSUME TypeOK, IntakeInv, Kept, NEW d \in Dispatchers, dispatcher[d].pc \in Pinned,
           NEW outcome, NEW label \in Pinned, After(d, outcome, label),
           label \in Scanned => Digest[At(d)] \in clean'[At(d)],
           label # "accept"
    PROVE  Relied'
<1>1. dispatcher[d].pc \in Working /\ label \in DispatcherPcs /\ "reject" \in DispatcherPcs
      /\ "reject" \notin Scanned
  BY DEF Pinned, Working, DispatcherPcs, Scanned
<1>2. CASE Skip(d)
  BY <1>2, DispatcherSkips
<1>3. CASE Goto(d, label)
  BY <1>1, <1>3, DispatcherGoes
<1>4. CASE Goto(d, "reject")
  BY <1>1, <1>4, DispatcherGoes
<1> QED  BY <1>2, <1>3, <1>4 DEF After

\* What dispatchers rely on holds after every step.
LEMMA ReliedStep ==
    ASSUME TypeOK, IntakeInv, [Next]_vars
    PROVE  Relied'
<1>0. Kept
  BY StepKeeps
<1>1. CASE UNCHANGED dispatcher
  BY <1>0, <1>1, DispatchersStay
<1>2. ASSUME NEW d \in Dispatchers, Dispatch(d) \/ Outage(d) \/ Restart(d) PROVE Relied'
  <2> DEFINE R == dispatcher[d]
  <2>1. R \in DispatcherRecord /\ Relies(R, upload, clean, source)
    BY DEF TypeOK, IntakeInv
  <2>2. CASE ClaimScope(d)
    BY <1>0, <2>2, DispatcherGoes DEF ClaimScope, DispatcherPcs, Working, Pinned, Scanned
  <2>3. CASE ListUploads(d)
    <3>1. PICK todo \in SUBSET Uploads : Move(d, [R EXCEPT !.pc = "next", !.todo = todo])
      <4>1. {u \in Reconcilable : Cardinality({v \in Reconcilable : upload[v].seq < upload[u].seq})
                                    < BatchLimit} \in SUBSET Uploads
        BY DEF Reconcilable
      <4> QED  BY <2>3, <4>1 DEF ListUploads
    <3> DEFINE w == [R EXCEPT !.pc = "next", !.todo = todo]
    <3>2. Move(d, w)
      BY <3>1
    <3> HIDE DEF R
    <3>3. w \in DispatcherRecord /\ w.pc = "next"
      BY <2>1 DEF DispatcherRecord, DispatcherPcs
    <3> HIDE DEF w
    <3>4. w.pc \notin Working
      BY <3>3 DEF Working
    <3> QED  BY <1>0, <3>2, <3>3, <3>4, DispatcherRests
  <2>4. CASE \E u \in Uploads : NextUpload(d, u)
    <3>1. PICK u \in Uploads : Move(d, [R EXCEPT !.pc = "claim", !.todo = @ \ {u}, !.at = <<u>>])
      BY <2>4 DEF NextUpload
    <3> DEFINE w == [R EXCEPT !.pc = "claim", !.todo = @ \ {u}, !.at = <<u>>]
    <3>2. Move(d, w)
      BY <3>1
    <3> HIDE DEF R
    <3>3. w \in DispatcherRecord
      BY <2>1 DEF DispatcherRecord, DispatcherPcs
    <3>4. w.pc = "claim" /\ w.at = <<u>>
      BY <2>1 DEF DispatcherRecord
    <3> HIDE DEF w
    <3>5. Relies(w, upload', clean', source')
      BY <3>4 DEF Relies, Pinned, Scanned
    <3> QED  BY <1>0, <3>2, <3>3, <3>5, DispatcherMoves
  <2>5. CASE ClaimInspection(d)
    <3>1. CASE Skip(d)
      BY <1>0, <3>1, DispatcherSkips
    <3>2. CASE Goto(d, "load")
      <4>1. R.pc \in Working /\ "load" \in DispatcherPcs /\ "load" \notin Pinned /\ "load" \notin Scanned
        BY <2>5 DEF ClaimInspection, Working, DispatcherPcs, Pinned, Scanned
      <4> QED  BY <1>0, <3>2, <4>1, DispatcherGoes
    <3> QED  BY <2>5, <3>1, <3>2 DEF ClaimInspection
  <2>6. CASE LoadClaimed(d)
    <3>1. CASE Skip(d)
      BY <1>0, <3>1, DispatcherSkips
    <3>2. CASE ~ Skip(d)
      <4> DEFINE u == At(d)
                 v == upload[u].version
                 w == [R EXCEPT !.pc = "scan", !.version = v]
      <4>1. Holds(d, upload[u]) /\ Move(d, w) /\ R.pc = "load" /\ UNCHANGED upload
        BY <2>6, <3>2 DEF LoadClaimed, rows
      <4>2. R.at \in {<<x>> : x \in Uploads} /\ u = R.at[1]
        BY <2>1, <4>1 DEF Relies, Working, At
      <4>3. u \in Uploads
        BY <4>2
      <4>4. v # 0
        BY <4>1, <4>3 DEF Holds, IntakeInv, Numbered, Early
      <4>5. v \in 0..MaxPuts
        BY <4>3 DEF TypeOK, Row
      <4>6. upload'[u].version = v
        BY <4>1
      <4> HIDE DEF R, u, v
      <4>7. w \in DispatcherRecord
        BY <2>1, <4>5 DEF DispatcherRecord, DispatcherPcs
      <4>8. w.pc = "scan" /\ w.at = R.at /\ w.version = v
        BY <2>1 DEF DispatcherRecord
      <4> HIDE DEF w
      <4>9. Relies(w, upload', clean', source')
        BY <4>2, <4>4, <4>6, <4>8 DEF Relies, Scanned
      <4> QED  BY <1>0, <4>1, <4>7, <4>9, DispatcherMoves
    <3> QED  BY <3>1, <3>2
  <2>7. CASE Scan(d)
    <3>1. R.pc \in Pinned /\ R.pc \in Working /\ At(d) \in Uploads
      BY <2>7, AtUpload DEF Scan, Pinned, Working
    <3>2. CASE Skip(d)
      BY <1>0, <3>2, DispatcherSkips
    <3>3. CASE Goto(d, "reject")
      BY <1>0, <3>1, <3>3, DispatcherGoes DEF DispatcherPcs, Scanned
    <3>4. CASE clean' = [clean EXCEPT ![At(d)] = @ \cup {Digest[At(d)]}] /\ Goto(d, "read")
      <4>1. clean \in [Uploads -> SUBSET Contents]
        BY DEF TypeOK
      <4>2. Digest[At(d)] \in clean'[At(d)]
        BY <3>1, <3>4, <4>1
      <4>3. "read" \in DispatcherPcs
        BY DEF DispatcherPcs
      <4> QED  BY <1>0, <3>1, <3>4, <4>2, <4>3, DispatcherGoes
    <3> QED  BY <2>7, <3>2, <3>3, <3>4, ScanCleans
  <2>8. CASE ReadDocument(d)
    <3>1. R.pc \in Pinned /\ R.pc \in Scanned /\ UNCHANGED clean
      BY <2>8 DEF ReadDocument, Pinned, Scanned, history
    <3>2. Digest[At(d)] \in clean'[At(d)]
      BY <2>1, <3>1 DEF Relies, At
    <3>3. PICK outcome : After(d, outcome, "parse")
      BY <2>8 DEF ReadDocument
    <3>4. "parse" \in Pinned
      BY DEF Pinned
    <3> QED  BY <1>0, <3>1, <3>2, <3>3, <3>4, DispatcherAfter
  <2>9. CASE ParseDocument(d)
    <3>1. R.pc \in Pinned /\ R.pc \in Scanned /\ UNCHANGED clean
      BY <2>9 DEF ParseDocument, Pinned, Scanned, history
    <3>2. Digest[At(d)] \in clean'[At(d)]
      BY <2>1, <3>1 DEF Relies, At
    <3>3. PICK outcome : After(d, outcome, "promote")
      BY <2>9 DEF ParseDocument
    <3>4. "promote" \in Pinned
      BY DEF Pinned
    <3> QED  BY <1>0, <3>1, <3>2, <3>3, <3>4, DispatcherAfter
  <2>10. CASE Promote(d) \/ PromoteStream(d)
    <3>1. R.pc \in Pinned /\ R.pc \in Working /\ R.pc \in Scanned /\ UNCHANGED clean
      BY <2>10 DEF Promote, PromoteStream, Pinned, Scanned, Working, history
    <3>2. Digest[At(d)] \in clean'[At(d)]
      BY <2>1, <3>1 DEF Relies, At
    <3>3. CASE Skip(d)
      BY <1>0, <3>3, DispatcherSkips
    <3>4. CASE Goto(d, "reject")
      BY <1>0, <3>1, <3>4, DispatcherGoes DEF DispatcherPcs, Scanned
    <3>5. CASE Goto(d, "accept") /\ source'[Digest[At(d)]] = Digest[At(d)]
      <4>1. "accept" \in DispatcherPcs
        BY DEF DispatcherPcs
      <4> QED  BY <1>0, <3>1, <3>2, <3>5, <4>1, DispatcherGoes
    <3> QED  BY <2>10, <3>3, <3>4, <3>5, PromoteWrites
  <2>11. CASE AcceptUpload(d) \/ RejectUpload(d)
    BY <1>0, <2>11, DispatcherSkips DEF AcceptUpload, RejectUpload
  <2>12. CASE RelayJobs(d)
    BY <1>0, <2>12, DispatcherGoes DEF RelayJobs, DispatcherPcs, Working, Pinned, Scanned
  <2>13. CASE ReleaseScope(d) \/ Restart(d)
    <3>1. Idle \in DispatcherRecord /\ Idle.pc \notin Working
      BY UploadIntakeAssumption DEF Idle, DispatcherRecord, DispatcherPcs, Working
    <3>2. Move(d, Idle)
      BY <2>13 DEF ReleaseScope, Restart
    <3> QED  BY <1>0, <3>1, <3>2, DispatcherRests
  <2>14. CASE Outage(d)
    <3> DEFINE w == [Idle EXCEPT !.pc = "release"]
    <3>1. w \in DispatcherRecord /\ w.pc \notin Working
      BY UploadIntakeAssumption DEF Idle, DispatcherRecord, DispatcherPcs, Working
    <3>2. Move(d, w)
      BY <2>14 DEF Outage
    <3> HIDE DEF w
    <3> QED  BY <1>0, <3>1, <3>2, DispatcherRests
  <2> QED  BY <1>2, <2>2, <2>3, <2>4, <2>5, <2>6, <2>7, <2>8, <2>9, <2>10, <2>11, <2>12, <2>13, <2>14
           DEF Dispatch
<1>3. CASE \E u \in Uploads : \/ CreateUpload(u) \/ \E content \in {Digest[u], Other} : PutObject(u, content)
                              \/ VerifyArtifact(u) \/ \E version \in verified[u] : RecordUploaded(u, version)
                              \/ CreateJob(u) \/ ReservationExpires(u) \/ InspectionLeaseExpires(u)
  BY <1>1, <1>3 DEF CreateUpload, PutObject, VerifyArtifact, RecordUploaded, CreateJob,
     ReservationExpires, InspectionLeaseExpires
<1>4. CASE ScopeLeaseExpires \/ UNCHANGED vars
  BY <1>1, <1>4 DEF ScopeLeaseExpires, vars
<1> QED  BY <1>2, <1>3, <1>4 DEF Next

-----------------------------------------------------------------------------
\* An accepted upload stays accepted, or becomes so at a dispatcher that has
\* scanned the content and seen it in the source.
LEMMA AcceptedStep ==
    ASSUME TypeOK, IntakeInv, [Next]_vars
    PROVE  AcceptedSourceIsScanned'
<1>1. SUFFICES ASSUME NEW u \in Uploads, upload'[u].status = "accepted"
               PROVE  source'[Digest[u]] = Digest[u] /\ Digest[u] \in clean'[u]
  BY DEF AcceptedSourceIsScanned
<1>2. source[Digest[u]] = Digest[u] /\ Digest[u] \in clean[u]
  <2> DEFINE R == upload[u]
             S == upload'[u]
  <2>1. R \in Row /\ RowChange(u)
    BY RowBefore, RowStep DEF RowOK
  <2>2. CASE R.status = "accepted"
    BY <2>2 DEF IntakeInv, AcceptedSourceIsScanned
  <2>3. CASE R.status # "accepted"
    <3>1. Deciding(u)
      <4>1. ~ Stays(u)
        BY <1>1, <2>3 DEF Stays
      <4>2. ~ Reserving(u)
        BY <1>1 DEF Reserving, Reserved, NoUpload
      <4>3. ~ Closing(u)
        <5>1. SUFFICES ASSUME S = [R EXCEPT !.open = FALSE] PROVE FALSE
          BY DEF Closing
        <5> HIDE DEF R, S
        <5>2. S.status = R.status
          BY <2>1, <5>1 DEF Row
        <5> QED  BY <1>1, <2>3, <5>2 DEF S
      <4>4. ~ Expiring(u)
        <5>1. SUFFICES ASSUME S = [R EXCEPT !.live = FALSE] PROVE FALSE
          BY DEF Expiring
        <5> HIDE DEF R, S
        <5>2. S.status = R.status
          BY <2>1, <5>1 DEF Row
        <5> QED  BY <1>1, <2>3, <5>2 DEF S
      <4>5. ~ Recording(u)
        <5>1. SUFFICES ASSUME NEW v, NEW n, S = [R EXCEPT !.status = "uploaded", !.version = v, !.seq = n]
                       PROVE  FALSE
          BY DEF Recording
        <5> HIDE DEF R, S
        <5>2. S.status = "uploaded"
          BY <2>1, <5>1 DEF Row
        <5> QED  BY <1>1, <5>2 DEF S
      <4>6. ~ Claiming(u)
        <5>1. SUFFICES ASSUME NEW d \in Dispatchers,
                              S = [R EXCEPT !.status = "inspecting", !.attempts = @ + 1, !.owner = d, !.live = TRUE]
                       PROVE  FALSE
          BY DEF Claiming, Claimed
        <5> HIDE DEF R, S
        <5>2. S.status = "inspecting"
          BY <2>1, <5>1 DEF Row
        <5> QED  BY <1>1, <5>2 DEF S
      <4> QED  BY <2>1, <4>1, <4>2, <4>3, <4>4, <4>5, <4>6 DEF RowChange
    <3>2. PICK s \in {"accepted", "rejected"} :
              /\ S = [R EXCEPT !.status = s, !.owner = NoOwner, !.live = FALSE]
              /\ s = "accepted" => \E d \in Dispatchers : dispatcher[d].pc = "accept" /\ At(d) = u
      BY <3>1 DEF Deciding
    <3>3. s = "accepted"
      <4> HIDE DEF R, S
      <4>1. S.status = s
        BY <2>1, <3>2 DEF Row
      <4> QED  BY <1>1, <4>1 DEF S
    <3>4. PICK d \in Dispatchers : dispatcher[d].pc = "accept" /\ At(d) = u
      BY <3>2, <3>3
    <3> QED  BY <3>4 DEF IntakeInv, Relies, At, Scanned
  <2> QED  BY <2>2, <2>3
<1>3. Digest[u] \in Digests /\ Digest[u] # Absent
  BY DigestIsContent DEF Digests
<1>4. Kept
  BY StepKeeps
<1> QED  BY <1>2, <1>3, <1>4 DEF Kept

\* The table and the count of lost leases stay functions of the uploads.
LEMMA FunctionsStay ==
    ASSUME TypeOK, [Next]_vars
    PROVE  /\ DOMAIN upload' = Uploads /\ upload' = [u \in DOMAIN upload' |-> upload'[u]]
           /\ DOMAIN expiries' = Uploads /\ expiries' = [u \in DOMAIN expiries' |-> expiries'[u]]
<1>1. upload \in [Uploads -> Row] /\ expiries \in [Uploads -> 0..MaxAttempts]
  BY DEF TypeOK
<1>2. CASE UNCHANGED <<upload, expiries>>
  BY <1>1, <1>2
<1>3. CASE \E u \in Uploads : CreateUpload(u) \/ ReservationExpires(u) \/ InspectionLeaseExpires(u)
  BY <1>1, <1>3 DEF CreateUpload, ReservationExpires, InspectionLeaseExpires, history
<1>4. CASE \E u \in Uploads : \E version \in verified[u] : RecordUploaded(u, version)
  BY <1>1, <1>4 DEF RecordUploaded, rows, history
<1>5. CASE \E d \in Dispatchers : ClaimInspection(d) \/ AcceptUpload(d) \/ RejectUpload(d)
  BY <1>1, <1>5 DEF ClaimInspection, AcceptUpload, RejectUpload, Decide, rows, history
<1>6. CASE \/ \E u \in Uploads : \/ \E content \in {Digest[u], Other} : PutObject(u, content)
                                 \/ VerifyArtifact(u) \/ CreateJob(u)
           \/ \E d \in Dispatchers :
                 \/ ClaimScope(d) \/ ListUploads(d) \/ \E u \in Uploads : NextUpload(d, u)
                 \/ LoadClaimed(d) \/ Scan(d) \/ ReadDocument(d) \/ ParseDocument(d)
                 \/ Promote(d) \/ PromoteStream(d) \/ RelayJobs(d) \/ ReleaseScope(d)
                 \/ Outage(d) \/ Restart(d)
           \/ ScopeLeaseExpires
           \/ UNCHANGED vars
  BY <1>2, <1>6 DEF vars, PutObject, VerifyArtifact, CreateJob, ClaimScope, ListUploads, NextUpload,
     LoadClaimed, Scan, ReadDocument, ParseDocument, Promote, PromoteStream,
     RelayJobs, ReleaseScope, Outage, Restart, ScopeLeaseExpires, rows, history
<1> QED  BY <1>3, <1>4, <1>5, <1>6 DEF Next, Dispatch

\* The flags and the lease of the scope, and the outbox's uploads.
LEMMA ScopeStep ==
    ASSUME TypeOK, [Next]_vars
    PROVE  /\ uploadPending' \in BOOLEAN /\ dispatchPending' \in BOOLEAN
           /\ lease' \in Dispatchers \cup {NoOwner}
           /\ DOMAIN events' = Uploads
<1>1. uploadPending \in BOOLEAN /\ dispatchPending \in BOOLEAN /\ lease \in Dispatchers \cup {NoOwner}
      /\ DOMAIN events = Uploads
  BY DEF TypeOK
<1>2. UNCHANGED dispatchPending \/ dispatchPending' \in BOOLEAN
  BY <1>1 DEF Next, vars, Dispatch, CreateUpload, PutObject, VerifyArtifact, RecordUploaded, CreateJob,
     ReservationExpires, InspectionLeaseExpires, ClaimScope, ListUploads, NextUpload, ClaimInspection,
     LoadClaimed, Scan, ReadDocument, ParseDocument, Promote, PromoteStream, AcceptUpload, RejectUpload,
     RelayJobs, ReleaseScope, Outage, Restart, ScopeLeaseExpires
<1>3. UNCHANGED lease \/ lease' \in Dispatchers \cup {NoOwner}
  BY <1>1 DEF Next, vars, Dispatch, CreateUpload, PutObject, VerifyArtifact, RecordUploaded, CreateJob,
     ReservationExpires, InspectionLeaseExpires, ClaimScope, ListUploads, NextUpload, ClaimInspection,
     LoadClaimed, Scan, ReadDocument, ParseDocument, Promote, PromoteStream, AcceptUpload, RejectUpload,
     RelayJobs, ReleaseScope, Outage, Restart, ScopeLeaseExpires
<1>4. UNCHANGED <<uploadPending, events>> \/ (uploadPending' \in BOOLEAN /\ DOMAIN events' = Uploads)
  <2>1. CASE \E u \in Uploads : \E version \in verified[u] : RecordUploaded(u, version)
    BY <1>1, <2>1 DEF RecordUploaded, rows
  <2>2. CASE \E d \in Dispatchers : ClaimInspection(d) \/ AcceptUpload(d) \/ RejectUpload(d)
    BY <1>1, <2>2 DEF ClaimInspection, AcceptUpload, RejectUpload, Decide, rows
  <2>3. CASE \/ \E u \in Uploads : \/ CreateUpload(u) \/ \E content \in {Digest[u], Other} : PutObject(u, content)
                                   \/ VerifyArtifact(u) \/ CreateJob(u)
                                   \/ ReservationExpires(u) \/ InspectionLeaseExpires(u)
             \/ \E d \in Dispatchers :
                   \/ ClaimScope(d) \/ ListUploads(d) \/ \E u \in Uploads : NextUpload(d, u)
                   \/ LoadClaimed(d) \/ Scan(d) \/ ReadDocument(d) \/ ParseDocument(d)
                   \/ Promote(d) \/ PromoteStream(d) \/ RelayJobs(d) \/ ReleaseScope(d)
                   \/ Outage(d) \/ Restart(d)
             \/ ScopeLeaseExpires
             \/ UNCHANGED vars
    BY <2>3 DEF vars, CreateUpload, PutObject, VerifyArtifact, CreateJob,
       ReservationExpires, InspectionLeaseExpires, ClaimScope, ListUploads, NextUpload,
       LoadClaimed, Scan, ReadDocument, ParseDocument, Promote, PromoteStream,
       RelayJobs, ReleaseScope, Outage, Restart, ScopeLeaseExpires, rows
  <2> QED  BY <2>1, <2>2, <2>3 DEF Next, Dispatch
<1> QED  BY <1>1, <1>2, <1>3, <1>4

\* The start.
LEMMA IntakeInit == Init => TypeOK /\ IntakeInv
<1> SUFFICES ASSUME Init PROVE TypeOK /\ IntakeInv
  OBVIOUS
<1>1. RowOK(NoUpload, 0)
  BY ReservedRow, UploadIntakeAssumption
<1>2. \A u \in Uploads : upload[u] = NoUpload /\ expiries[u] = 0 /\ RowOK(upload[u], expiries[u])
  BY <1>1 DEF Init
<1>3. NoUpload.status = "none" /\ NoUpload.version = 0
  BY DEF NoUpload
<1>4. Idle \in DispatcherRecord /\ Idle.pc = "idle"
  BY UploadIntakeAssumption DEF Idle, DispatcherRecord, DispatcherPcs
<1>5. TypeOK
  <2>1. upload \in [Uploads -> Row] /\ \A u \in Uploads : LeaseShape(upload[u])
    BY <1>1, <1>2 DEF Init, RowOK
  <2>2. expiries \in [Uploads -> 0..MaxAttempts] /\ DOMAIN events = Uploads
    BY UploadIntakeAssumption DEF Init
  <2>3. object \in [Uploads -> Seq(Contents)] /\ \A u \in Uploads : Len(object[u]) <= MaxPuts
    BY UploadIntakeAssumption, EmptySeq DEF Init
  <2>4. verified \in [Uploads -> SUBSET (1..MaxPuts)] /\ clean \in [Uploads -> SUBSET Contents]
    BY DEF Init
  <2>5. source \in [Digests -> Contents \cup {Absent}]
    BY DEF Init, Contents
  <2>6. dispatcher \in [Dispatchers -> DispatcherRecord]
    BY <1>4 DEF Init
  <2> QED  BY <2>1, <2>2, <2>3, <2>4, <2>5, <2>6 DEF Init, TypeOK
<1>6. \A u \in Uploads : Account(upload[u], expiries[u]) /\ Numbered(upload[u])
  BY <1>2 DEF RowOK
<1>7. \A u \in Uploads : PinInv(u)
  BY <1>2, <1>3 DEF PinInv, Init
<1>8. \A d \in Dispatchers : Relies(dispatcher[d], upload, clean, source)
  <2>1. \A d \in Dispatchers : dispatcher[d].pc = "idle"
    BY <1>4 DEF Init
  <2> QED  BY <2>1 DEF Relies, Working, Pinned, Scanned
<1>9. EventsFollowStatus /\ AcceptedSourceIsScanned
  <2>1. \A u \in Uploads : events[u] = <<>> /\ upload[u].status = "none"
    BY <1>2, <1>3 DEF Init
  <2> QED  BY <2>1 DEF EventsFollowStatus, AcceptedSourceIsScanned
<1> QED  BY <1>5, <1>6, <1>7, <1>8, <1>9 DEF IntakeInv

\* The invariant is inductive.
LEMMA IntakeNext ==
    TypeOK /\ IntakeInv /\ [Next]_vars => TypeOK' /\ IntakeInv'
<1> SUFFICES ASSUME TypeOK, IntakeInv, [Next]_vars PROVE TypeOK' /\ IntakeInv'
  OBVIOUS
<1>1. \A u \in Uploads : RowOK(upload'[u], expiries'[u])
  BY RowAfter
<1>2. upload' \in [Uploads -> Row] /\ expiries' \in [Uploads -> 0..MaxAttempts]
  <2>1. DOMAIN upload' = Uploads /\ upload' = [u \in DOMAIN upload' |-> upload'[u]]
        /\ DOMAIN expiries' = Uploads /\ expiries' = [u \in DOMAIN expiries' |-> expiries'[u]]
    BY FunctionsStay
  <2> QED  BY <1>1, <2>1 DEF RowOK
<1>3. \A u \in Uploads : /\ LeaseShape(upload'[u]) /\ Account(upload'[u], expiries'[u])
                         /\ Numbered(upload'[u])
  BY <1>1 DEF RowOK
<1>4. TypeOK'
  BY <1>2, <1>3, ObjectStep, PinStep, StepKeeps, ScopeStep, ReliedStep DEF TypeOK, Relied
<1>5. IntakeInv'
  BY <1>3, PinStep, ReliedStep, EventsStep, AcceptedStep DEF IntakeInv, Relied
<1> QED  BY <1>4, <1>5

-----------------------------------------------------------------------------
\* The invariant of the intake: what a row, its versions, its events and a
\* dispatcher's progress say of each other.
THEOREM Intake == Spec => [](TypeOK /\ IntakeInv)
<1>1. TypeOK /\ IntakeInv /\ [Next]_vars => (TypeOK /\ IntakeInv)'
  BY IntakeNext
<1> QED  BY <1>1, IntakeInit, PTL DEF Spec

\* Every variable keeps its type and every upload the table constraint on its
\* inspection lease, so no statement of the importer fails on it.
THEOREM TypeCorrect == Spec => []TypeOK
BY Intake, PTL

\* An accepted upload has the declared bytes in the source bucket, and those bytes
\* were scanned, whatever was written to quarantine and whoever promoted.
THEOREM AcceptedIsScanned == Spec => []AcceptedSourceIsScanned
<1>1. TypeOK /\ IntakeInv => AcceptedSourceIsScanned
  BY DEF IntakeInv
<1> QED  BY <1>1, Intake, PTL

\* The outbox of an upload holds one received event once it is recorded and one
\* decision once it is decided.
THEOREM EventsFollow == Spec => []EventsFollowStatus
<1>1. TypeOK /\ IntakeInv => EventsFollowStatus
  BY DEF IntakeInv
<1> QED  BY <1>1, Intake, PTL

\* Every attempt after the first has an expired inspection lease behind it.
THEOREM AttemptsPaid == Spec => []AttemptsArePaidFor
<1>1. ASSUME TypeOK, IntakeInv PROVE AttemptsArePaidFor
  <2>1. SUFFICES ASSUME NEW u \in Uploads PROVE upload[u].attempts <= 1 + expiries[u]
    BY DEF AttemptsArePaidFor
  <2>2. Account(upload[u], expiries[u]) /\ upload[u] \in Row /\ expiries[u] \in 0..MaxAttempts
    BY <1>1 DEF IntakeInv, TypeOK
  <2>3. upload[u].attempts \in Nat /\ expiries[u] \in Nat /\ upload[u].status \in Statuses
    BY <2>2 DEF Row
  <2> QED  BY <2>2, <2>3 DEF Account, Early, Statuses
<1> QED  BY <1>1, Intake, PTL

\* A decision and the version it was taken on never change.
THEOREM Decisions == Spec => DecisionIsFinal
<1>1. TypeOK /\ IntakeInv /\ [Next]_vars =>
        [\A u \in Uploads :
            /\ upload[u].status \in {"accepted", "rejected"} => upload'[u].status = upload[u].status
            /\ upload[u].version # 0 => upload'[u].version = upload[u].version]_vars
  BY RowFinal
<1> QED  BY <1>1, Intake, PTL DEF Spec, DecisionIsFinal

-----------------------------------------------------------------------------
(***************************************************************************)
(* The refinement of SourceIntake.                                         *)
(***************************************************************************)
Stage == [u \in Uploads |-> Shown(upload[u].status)]
Cleared == {u \in Uploads : Digest[u] \in clean[u]}

\* The rest of the row of an upload is not shown.
LEMMA StageKept ==
    ASSUME TypeOK, NEW u \in Uploads, NEW R, upload' = [upload EXCEPT ![u] = R],
           Shown(R.status) = Shown(upload[u].status)
    PROVE  Stage' = Stage
BY DEF TypeOK, Stage

\* One upload moves on.
LEMMA StageMoves ==
    ASSUME TypeOK, NEW u \in Uploads, NEW R, upload' = [upload EXCEPT ![u] = R]
    PROVE  Stage' = [Stage EXCEPT ![u] = Shown(R.status)]
BY DEF TypeOK, Stage

\* A decision is a step of SourceIntake: an acceptance finds the upload cleared and
\* in the bucket.
LEMMA DecideShown ==
    ASSUME TypeOK, IntakeInv, NEW u \in Uploads, upload[u].status = "inspecting",
           NEW s \in {"accepted", "rejected"}, Decide(u, s), UNCHANGED <<source, clean>>,
           s = "accepted" => Digest[u] \in clean[u] /\ source[Digest[u]] = Digest[u]
    PROVE  Promise!Accept(u) \/ Promise!Reject(u)
<1> DEFINE R == [upload[u] EXCEPT !.status = s, !.owner = NoOwner, !.live = FALSE]
<1>1. upload \in [Uploads -> Row] /\ upload[u] \in Row
  BY DEF TypeOK
<1>2. upload' = [upload EXCEPT ![u] = R] /\ events' = [events EXCEPT ![u] = Append(@, s)]
  BY <1>1 DEF Decide
<1>3. R.status = s
  BY <1>1 DEF Row
<1>4. Shown(s) = s
  BY DEF Shown
<1> HIDE DEF R
<1>5. Stage' = [Stage EXCEPT ![u] = s] /\ Stage[u] = "received"
  BY <1>2, <1>3, <1>4, StageMoves DEF Stage, Shown
<1>6. Cleared' = Cleared /\ (s = "accepted" => u \in Cleared)
  BY DEF Cleared
<1>7. Promise!Tell(u, s)
  BY <1>2, <1>5, <1>6 DEF Promise!Tell, Stage, Cleared
<1> QED  BY <1>5, <1>6, <1>7 DEF Promise!Accept, Promise!Reject, Stage, Cleared

\* What the API does to an upload.
LEMMA ApiRefines ==
    ASSUME TypeOK, IntakeInv, NEW u \in Uploads,
           \/ CreateUpload(u) \/ ReservationExpires(u) \/ InspectionLeaseExpires(u)
           \/ \E version \in verified[u] : RecordUploaded(u, version)
    PROVE  [Promise!Next]_(Promise!intakeVars)
<1> USE DEF Promise!intakeVars
<1>1. upload \in [Uploads -> Row] /\ upload[u] \in Row
  BY DEF TypeOK
<1>2. UNCHANGED <<clean, source>> /\ Cleared' = Cleared
  BY DEF CreateUpload, ReservationExpires, InspectionLeaseExpires, RecordUploaded, history, stores, Cleared
<1>3. CASE CreateUpload(u)
  <2>1. Reserved.status = "reserved"
    BY DEF Reserved, NoUpload
  <2>2. upload' = [upload EXCEPT ![u] = Reserved] /\ upload[u].status = "none" /\ UNCHANGED events
    BY <1>3 DEF CreateUpload
  <2>3. Stage' = [Stage EXCEPT ![u] = "reserved"] /\ Stage[u] = "none"
    BY <2>1, <2>2, StageMoves DEF Stage, Shown
  <2>4. Promise!Reserve(u)
    BY <1>2, <2>2, <2>3 DEF Promise!Reserve, Stage, Cleared
  <2> QED  BY <2>4 DEF Promise!Next
<1>4. CASE ReservationExpires(u) \/ InspectionLeaseExpires(u)
  <2>1. UNCHANGED events
    BY <1>4 DEF ReservationExpires, InspectionLeaseExpires
  <2>2. ASSUME NEW R, R.status = upload[u].status, upload' = [upload EXCEPT ![u] = R]
        PROVE  Stage' = Stage
    BY <2>2, StageKept
  <2>3. CASE ReservationExpires(u)
    <3> DEFINE R == [upload[u] EXCEPT !.open = FALSE]
    <3>1. upload' = [upload EXCEPT ![u] = R] /\ R.status = upload[u].status
      BY <1>1, <2>3 DEF ReservationExpires, Row
    <3> HIDE DEF R
    <3> QED  BY <1>2, <2>1, <2>2, <3>1 DEF Stage, Cleared
  <2>4. CASE InspectionLeaseExpires(u)
    <3> DEFINE R == [upload[u] EXCEPT !.live = FALSE]
    <3>1. upload' = [upload EXCEPT ![u] = R] /\ R.status = upload[u].status
      BY <1>1, <2>4 DEF InspectionLeaseExpires, Row
    <3> HIDE DEF R
    <3> QED  BY <1>2, <2>1, <2>2, <3>1 DEF Stage, Cleared
  <2> QED  BY <1>4, <2>3, <2>4
<1>5. ASSUME NEW version \in verified[u], RecordUploaded(u, version)
      PROVE  [Promise!Next]_(Promise!intakeVars)
  <2>1. CASE upload[u].status = "reserved" /\ upload[u].open
    <3> DEFINE R == [upload[u] EXCEPT !.status = "uploaded", !.version = version,
                                      !.seq = Cardinality(Recorded) + 1]
    <3>1. upload' = [upload EXCEPT ![u] = R] /\ events' = [events EXCEPT ![u] = Append(@, "received")]
      BY <1>1, <1>5, <2>1 DEF RecordUploaded
    <3>2. R.status = "uploaded"
      BY <1>1 DEF Row
    <3> HIDE DEF R
    <3>3. Stage' = [Stage EXCEPT ![u] = "received"] /\ Stage[u] = "reserved"
      BY <2>1, <3>1, <3>2, StageMoves DEF Stage, Shown
    <3>4. Promise!Receive(u)
      BY <1>2, <3>1, <3>3 DEF Promise!Receive, Promise!Tell, Stage, Cleared
    <3> QED  BY <3>4 DEF Promise!Next
  <2>2. CASE ~ (upload[u].status = "reserved" /\ upload[u].open)
    <3>1. UNCHANGED <<upload, events>>
      BY <1>5, <2>2 DEF RecordUploaded, rows
    <3>2. Stage' = Stage
      BY <3>1 DEF Stage
    <3> QED  BY <1>2, <3>1, <3>2 DEF Stage, Cleared
  <2> QED  BY <2>1, <2>2
<1> QED  BY <1>3, <1>4, <1>5

\* What an importer does to an upload.
LEMMA ImporterRefines ==
    ASSUME TypeOK, IntakeInv, NEW d \in Dispatchers,
           \/ ClaimInspection(d) \/ AcceptUpload(d) \/ RejectUpload(d)
    PROVE  [Promise!Next]_(Promise!intakeVars)
<1> DEFINE u == At(d)
<1> USE DEF Promise!intakeVars
<1>1. upload \in [Uploads -> Row] /\ u \in Uploads /\ upload[u] \in Row
  BY AtUpload DEF TypeOK, ClaimInspection, AcceptUpload, RejectUpload, Working
<1>2. UNCHANGED <<clean, source>> /\ Cleared' = Cleared
  BY DEF ClaimInspection, AcceptUpload, RejectUpload, history, stores, Cleared
<1>3. ASSUME UNCHANGED rows PROVE [Promise!Next]_(Promise!intakeVars)
  <2>1. UNCHANGED <<upload, events>>
    BY <1>3 DEF rows
  <2>2. Stage' = Stage
    BY <2>1 DEF Stage
  <2> QED  BY <1>2, <2>1, <2>2 DEF Stage, Cleared
<1>4. ASSUME upload[u].status = "inspecting", NEW s \in {"accepted", "rejected"}, Decide(u, s),
             s = "accepted" => dispatcher[d].pc = "accept"
      PROVE  Promise!Next
  <2>1. s = "accepted" => Digest[u] \in clean[u] /\ source[Digest[u]] = Digest[u]
    BY <1>4 DEF IntakeInv, Relies, Scanned, At
  <2>2. Promise!Accept(u) \/ Promise!Reject(u)
    BY <1>1, <1>2, <1>4, <2>1, DecideShown
  <2> QED  BY <1>1, <2>2 DEF Promise!Next
<1>5. ASSUME Claimable(upload[u]), upload' = [upload EXCEPT ![u] = Claimed(d, upload[u])], UNCHANGED events
      PROVE  [Promise!Next]_(Promise!intakeVars)
  <2>1. Claimed(d, upload[u]).status = "inspecting" /\ upload[u].status \in {"uploaded", "inspecting"}
    BY <1>1, <1>5 DEF Claimed, Claimable, Row
  <2>2. Stage' = Stage
    BY <1>1, <1>5, <2>1, StageKept DEF Shown
  <2> QED  BY <1>2, <1>5, <2>2 DEF Stage, Cleared
<1>6. CASE ClaimInspection(d)
  <2>1. \/ Claimable(upload[u]) /\ upload' = [upload EXCEPT ![u] = Claimed(d, upload[u])] /\ UNCHANGED events
        \/ UNCHANGED rows
        \/ upload[u].status = "inspecting" /\ Decide(u, "rejected")
    BY <1>6 DEF ClaimInspection
  <2> QED  BY <1>3, <1>4, <1>5, <2>1
<1>7. CASE AcceptUpload(d)
  <2>1. \/ UNCHANGED rows
        \/ upload[u].status = "inspecting" /\ Decide(u, "accepted") /\ dispatcher[d].pc = "accept"
    BY <1>7 DEF AcceptUpload, Holds
  <2> QED  BY <1>3, <1>4, <2>1
<1>8. CASE RejectUpload(d)
  <2>1. UNCHANGED rows \/ (upload[u].status = "inspecting" /\ Decide(u, "rejected"))
    BY <1>8 DEF RejectUpload, Holds
  <2> QED  BY <1>3, <1>4, <2>1
<1> QED  BY <1>6, <1>7, <1>8

\* What a scan and a promotion add.
LEMMA StoresRefine ==
    ASSUME TypeOK, IntakeInv, NEW d \in Dispatchers, Scan(d) \/ Promote(d) \/ PromoteStream(d)
    PROVE  [Promise!Next]_(Promise!intakeVars)
<1>u. PICK u \in Uploads : u = At(d)
  BY AtUpload DEF Scan, Promote, PromoteStream, Working
<1> USE DEF Promise!intakeVars
<1>1. clean \in [Uploads -> SUBSET Contents] /\ upload[u] \in Row
  BY DEF TypeOK
<1>2. UNCHANGED <<upload, events>> /\ Stage' = Stage
  BY DEF Scan, Promote, PromoteStream, rows, Stage
<1>3. CASE Scan(d)
  <2>1. UNCHANGED source
    BY <1>3 DEF Scan, stores
  <2>2. CASE UNCHANGED clean
    <3>1. Cleared' = Cleared
      BY <2>2 DEF Cleared
    <3> QED  BY <1>2, <2>1, <3>1 DEF Stage, Cleared
  <2>3. CASE clean' = [clean EXCEPT ![u] = @ \cup {Digest[u]}]
    <3>1. Cleared' = Cleared \cup {u}
      BY <1>1, <2>3 DEF Cleared
    <3>2. upload[u].status \in {"uploaded", "inspecting", "accepted", "rejected"}
      <4>1. dispatcher[d].version # 0 /\ dispatcher[d].version = upload[u].version
        BY <1>u, <1>3 DEF IntakeInv, Relies, Scan, Pinned, At
      <4>2. upload[u].status \notin Early /\ upload[u].status \in Statuses
        BY <1>1, <4>1 DEF IntakeInv, Numbered, Row
      <4> QED  BY <4>2 DEF Early, Statuses
    <3>3. Stage[u] \in {"received", "accepted", "rejected"}
      BY <1>1, <3>2 DEF Stage, Shown
    <3>4. CASE u \in Cleared
      <4>1. Cleared' = Cleared
        BY <3>1, <3>4
      <4> QED  BY <1>2, <2>1, <4>1 DEF Stage, Cleared
    <3>5. CASE u \notin Cleared
      <4>1. Promise!Clear(u)
        BY <1>2, <2>1, <3>1, <3>3, <3>5 DEF Promise!Clear, Stage, Cleared
      <4> QED  BY <4>1 DEF Promise!Next
    <3> QED  BY <3>4, <3>5
  <2> QED  BY <1>u, <1>3, <2>2, <2>3, ScanCleans
<1>4. CASE Promote(d) \/ PromoteStream(d)
  <2>1. Cleared' = Cleared
    BY <1>4 DEF Promote, PromoteStream, history, Cleared
  <2>2. Digest[u] \in clean[u]
    BY <1>u, <1>4 DEF IntakeInv, Relies, Promote, PromoteStream, Scanned, At
  <2>3. CASE UNCHANGED source
    BY <1>2, <2>1, <2>3 DEF Stage, Cleared
  <2>4. CASE source[Digest[u]] = Absent /\ source' = [source EXCEPT ![Digest[u]] = Digest[u]]
    <3>1. u \in Cleared
      BY <1>1, <2>2 DEF Cleared
    <3>2. Promise!Store(u)
      BY <1>2, <2>1, <2>4, <3>1 DEF Promise!Store, Stage, Cleared
    <3> QED  BY <3>2 DEF Promise!Next
  <2> QED  BY <1>u, <1>4, <2>3, <2>4, PromoteWrites
<1> QED  BY <1>3, <1>4

\* Every other step leaves rows, scans and bucket alone.
LEMMA RefinementStep ==
    TypeOK /\ IntakeInv /\ [Next]_vars => [Promise!Next]_(Promise!intakeVars)
<1> SUFFICES ASSUME TypeOK, IntakeInv, [Next]_vars
             PROVE  [Promise!Next]_(Promise!intakeVars)
  OBVIOUS
<1>1. ASSUME UNCHANGED <<upload, events, source, clean>> PROVE [Promise!Next]_(Promise!intakeVars)
  <2>1. Stage' = Stage /\ Cleared' = Cleared
    BY <1>1 DEF Stage, Cleared
  <2> QED  BY <1>1, <2>1 DEF Promise!intakeVars, Stage, Cleared
<1>2. ASSUME NEW u \in Uploads,
             \/ \E content \in {Digest[u], Other} : PutObject(u, content)
             \/ VerifyArtifact(u) \/ CreateJob(u)
      PROVE  UNCHANGED <<upload, events, source, clean>>
  BY <1>2 DEF PutObject, VerifyArtifact, CreateJob, rows, stores, history
<1>3. ASSUME NEW d \in Dispatchers,
             \/ ClaimScope(d) \/ ListUploads(d) \/ \E u \in Uploads : NextUpload(d, u)
             \/ LoadClaimed(d) \/ ReadDocument(d) \/ ParseDocument(d)
             \/ RelayJobs(d) \/ ReleaseScope(d) \/ Outage(d) \/ Restart(d)
      PROVE  UNCHANGED <<upload, events, source, clean>>
  BY <1>3 DEF ClaimScope, ListUploads, NextUpload, LoadClaimed, ReadDocument, ParseDocument, RelayJobs,
     ReleaseScope, Outage, Restart, rows, stores, history
<1>4. ScopeLeaseExpires \/ UNCHANGED vars => UNCHANGED <<upload, events, source, clean>>
  BY DEF ScopeLeaseExpires, vars, rows, stores, history
<1> QED
  BY <1>1, <1>2, <1>3, <1>4, ApiRefines, ImporterRefines, StoresRefine DEF Next, Dispatch

\* Whatever clients write to quarantine and whichever importers die or come back
\* late, an upload behaves as SourceIntake says: nothing enters the source bucket
\* unscanned, and nothing in it is replaced.
THEOREM Implementation == Spec => ImplementsSourceIntake
<1>1. Init => Promise!Init
  <2> SUFFICES ASSUME Init PROVE Promise!Init
    OBVIOUS
  <2>1. \A u \in Uploads : upload[u].status = "none" /\ clean[u] = {}
    BY DEF Init, NoUpload
  <2>2. Stage = [u \in Uploads |-> "none"] /\ Cleared = {}
    BY <2>1 DEF Stage, Cleared, Shown
  <2>3. \A u \in Uploads : source[Digest[u]] # Digest[u]
    BY UploadIntakeAssumption DEF Init, Digests, Contents
  <2> QED  BY <2>2, <2>3 DEF Promise!Init, Init, Stage, Cleared
<1> QED
  BY <1>1, RefinementStep, Intake, PTL DEF Spec, ImplementsSourceIntake, Promise!Spec
=============================================================================
