---------------------------- MODULE DocumentJob ----------------------------
(***************************************************************************)
(* What a caller of the service is promised about one job, with no runner, *)
(* relay, retry or revision in sight:                                      *)
(*                                                                         *)
(*   - every page is decided at most once, kept or lost, and no page is    *)
(*     decided after the job's work has been stopped;                      *)
(*   - work is stopped only for a cancelled job;                           *)
(*   - a job is published at most once, only when it was not cancelled and *)
(*     every page is decided, and its result holds exactly the kept pages. *)
(*                                                                         *)
(* PageExecution implements this specification.  The states and the        *)
(* published outcomes are those of JobState (ocr-domain/src/lib.rs) and    *)
(* commit_result (ocr-store/src/lib.rs).                                   *)
(***************************************************************************)
CONSTANT DocumentPages

VARIABLES
    state,      \* the job's state as the API shows it
    decision,   \* of each page: open, kept or lost
    stopped,    \* no page is decided any more
    published   \* the pages of the result

docVars == <<state, decision, stopped, published>>

Init ==
    /\ state = "accepted"
    /\ decision = [p \in DocumentPages |-> "open"]
    /\ stopped = FALSE
    /\ published = {}

Begin ==
    /\ state = "accepted"
    /\ state' = "processing"
    /\ UNCHANGED <<decision, stopped, published>>

Decide ==
    /\ ~ stopped
    /\ state # "accepted"
    /\ decision' \in [DocumentPages -> {"open", "kept", "lost"}]
    /\ \A p \in DocumentPages : decision[p] # "open" => decision'[p] = decision[p]
    /\ UNCHANGED <<state, stopped, published>>

Cancel ==
    /\ state \in {"accepted", "processing"}
    /\ state' = "cancelled"
    /\ UNCHANGED <<decision, stopped, published>>

Stop ==
    /\ state = "cancelled"
    /\ stopped' = TRUE
    /\ UNCHANGED <<state, decision, published>>

Kept == {p \in DocumentPages : decision[p] = "kept"}

Publish ==
    /\ state = "processing"
    /\ \A p \in DocumentPages : decision[p] # "open"
    /\ state' \in IF Kept = DocumentPages
                  THEN {"completed", "review_required"} ELSE {"partial"}
    /\ published' = Kept
    /\ UNCHANGED <<decision, stopped>>

Next == Begin \/ Decide \/ Cancel \/ Stop \/ Publish

Spec == Init /\ [][Next]_docVars
=============================================================================
