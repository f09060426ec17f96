---------------------------- MODULE SourceIntake ----------------------------
(***************************************************************************)
(* What the intake promises of an upload, with no signed URL, version,     *)
(* lease, scanner or parser in sight:                                      *)
(*                                                                         *)
(*   - it is reserved, received and decided, each once and in this order,  *)
(*     and its outbox is told of the last two;                             *)
(*   - nothing enters the source bucket under the name of a digest but the *)
(*     content of that digest, cleared by a scan, where there was nothing; *)
(*   - only an upload that was cleared and is in the source bucket is      *)
(*     accepted.                                                           *)
(*                                                                         *)
(* The states are those of ocr_upload_status                               *)
(* (migrations/0003_upload_intents.sql), with "uploaded" and "inspecting"  *)
(* both "received".  UploadIntake implements this specification.           *)
(***************************************************************************)
EXTENDS Sequences

CONSTANTS
    Uploads,
    Digest,     \* the digest each upload declares
    Absent      \* no object

VARIABLES
    stage,      \* of each upload
    told,       \* the events of each upload, in order
    cleared,    \* the uploads whose declared content a scan found clean
    bucket      \* the source bucket, by digest

intakeVars == <<stage, told, cleared, bucket>>

\* The bucket may hold foreign objects.
Init ==
    /\ stage = [u \in Uploads |-> "none"]
    /\ told = [u \in Uploads |-> <<>>]
    /\ cleared = {}
    /\ \A u \in Uploads : bucket[Digest[u]] # Digest[u]

Reserve(u) ==
    /\ stage[u] = "none"
    /\ stage' = [stage EXCEPT ![u] = "reserved"]
    /\ UNCHANGED <<told, cleared, bucket>>

Tell(u, status) ==
    /\ stage' = [stage EXCEPT ![u] = status]
    /\ told' = [told EXCEPT ![u] = Append(@, status)]
    /\ UNCHANGED <<cleared, bucket>>

Receive(u) == stage[u] = "reserved" /\ Tell(u, "received")

\* Clearing and storing may also be the work of somebody who has been overtaken:
\* the upload may be decided.
Clear(u) ==
    /\ u \notin cleared
    /\ stage[u] \in {"received", "accepted", "rejected"}
    /\ cleared' = cleared \cup {u}
    /\ UNCHANGED <<stage, told, bucket>>

Store(u) ==
    /\ u \in cleared
    /\ bucket[Digest[u]] = Absent
    /\ bucket' = [bucket EXCEPT ![Digest[u]] = Digest[u]]
    /\ UNCHANGED <<stage, told, cleared>>

Accept(u) ==
    /\ stage[u] = "received"
    /\ u \in cleared
    /\ bucket[Digest[u]] = Digest[u]
    /\ Tell(u, "accepted")

Reject(u) == stage[u] = "received" /\ Tell(u, "rejected")

Next == \E u \in Uploads :
    Reserve(u) \/ Receive(u) \/ Clear(u) \/ Store(u) \/ Accept(u) \/ Reject(u)

Spec == Init /\ [][Next]_intakeVars
=============================================================================
