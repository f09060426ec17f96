-------------------------- MODULE MCPageExecution --------------------------
(***************************************************************************)
(* Instances of PageExecution for TLC.  Activity slots and relays are      *)
(* interchangeable.                                                        *)
(***************************************************************************)
EXTENDS PageExecution, TLC

Slots == Permutations(Workers) \cup Permutations(Relays)
=============================================================================
