--------------------------- MODULE MCWebhookRelay ---------------------------
(***************************************************************************)
(* An instance of WebhookRelay for TLC.  The relays are interchangeable    *)
(* and every property of the run is a safety property.                     *)
(***************************************************************************)
EXTENDS WebhookRelay, TLC

RelaySymmetry == Permutations(Relays)
=============================================================================
