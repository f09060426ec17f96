--------------------------- MODULE MCJobDispatch ---------------------------
(***************************************************************************)
(* Instances of JobDispatch for TLC.  Jobs and dispatchers are             *)
(* interchangeable.                                                        *)
(***************************************************************************)
EXTENDS JobDispatch, TLC

Peers == Permutations(Jobs) \cup Permutations(Dispatchers)
=============================================================================
