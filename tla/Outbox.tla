------------------------------- MODULE Outbox -------------------------------
(***************************************************************************)
(* What the transactional outbox promises of each of its events, with no   *)
(* lease, relay, retry or limit in sight:                                  *)
(*                                                                         *)
(*   - an event is inserted once, and its effect does not happen before;   *)
(*   - it is acknowledged only when its effect has happened;               *)
(*   - acknowledged or given up, it is settled for good; its effect, which *)
(*     somebody may still be delivering, is not undone.                    *)
(*                                                                         *)
(* JobDispatch (the workflow events) and WebhookRelay (the terminal        *)
(* events), two consumers of one table, implement this specification.  The *)
(* states are those ocr_outbox_delivery_shape tells apart                  *)
(* (migrations/0011_job_outbox_delivery_lease.sql).                        *)
(***************************************************************************)
CONSTANT Entries

VARIABLES
    stage,      \* of each event: none, queued, published or dead
    effective   \* the events whose effect has happened at the receiver

outboxVars == <<stage, effective>>

Init ==
    /\ stage = [e \in Entries |-> "none"]
    /\ effective = {}

Insert(e) ==
    /\ stage[e] = "none"
    /\ stage' = [stage EXCEPT ![e] = "queued"]
    /\ UNCHANGED effective

\* Also by a consumer that has been overtaken: the event may be settled.
Deliver(e) ==
    /\ stage[e] # "none"
    /\ effective' = effective \cup {e}
    /\ UNCHANGED stage

Acknowledge(e) ==
    /\ stage[e] = "queued"
    /\ e \in effective
    /\ stage' = [stage EXCEPT ![e] = "published"]
    /\ UNCHANGED effective

\* One claim gives up every event whose deliveries are used up.
GiveUp(spent) ==
    /\ \A e \in spent : stage[e] = "queued"
    /\ stage' = [e \in Entries |-> IF e \in spent THEN "dead" ELSE stage[e]]
    /\ UNCHANGED effective

Next ==
    \/ \E e \in Entries : Insert(e) \/ Deliver(e) \/ Acknowledge(e)
    \/ \E spent \in SUBSET Entries : GiveUp(spent)

Spec == Init /\ [][Next]_outboxVars
=============================================================================
