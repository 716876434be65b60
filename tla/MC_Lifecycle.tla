---------------------------- MODULE MC_Lifecycle ----------------------------
(***************************************************************************)
(* Instances of Lifecycle.  Nothing is bounded but the number of payloads. *)
(***************************************************************************)
EXTENDS Lifecycle
=============================================================================
