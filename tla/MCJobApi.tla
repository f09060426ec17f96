------------------------------ MODULE MCJobApi ------------------------------
(***************************************************************************)
(* An instance of JobApi for TLC.  No symmetry: the run has a liveness     *)
(* property.                                                               *)
(***************************************************************************)
EXTENDS JobApi
=============================================================================
