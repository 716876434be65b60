---------------------------- MODULE MC_CycleLoop ----------------------------
(***************************************************************************)
(* Instances of CycleLoop.                                                 *)
(***************************************************************************)
EXTENDS CycleLoop

=============================================================================
