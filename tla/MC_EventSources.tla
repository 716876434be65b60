---------------------------- MODULE MC_EventSources ---------------------------
(***************************************************************************)
(* Instances of EventSources.                                              *)
(***************************************************************************)
EXTENDS EventSources

OneDelay == <<1>>
==============================================================================
