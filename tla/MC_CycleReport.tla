---------------------------- MODULE MC_CycleReport ---------------------------
(***************************************************************************)
(* An instance of CycleReport with one modem that falls ill, climbs the    *)
(* ladder and recovers.                                                    *)
(***************************************************************************)
EXTENDS CycleReport

AllOk == [q \in Metrics |-> "ok"]

Snap(issues) == [issues |-> issues, signal |-> AllOk, simRead |-> TRUE]

Clean == Snap(<< >>)
Searching == Snap(<<<<"registration", "not_registered_searching">>>>)
Disconnected == Snap(<<<<"datapath", "session_disconnected">>>>)
Climbing == {Clean, Searching, Disconnected}
=============================================================================
