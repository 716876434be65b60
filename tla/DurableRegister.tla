--------------------------- MODULE DurableRegister ---------------------------
(***************************************************************************)
(* What a state file promises its readers: a register.  A write may be     *)
(* lost in a power failure until it is acknowledged, and from then on not  *)
(* any more; what is read is always something that was written, as a       *)
(* whole.  The detailed specification is StateFile.                        *)
(***************************************************************************)
CONSTANTS Values,     \* what can be written
          Initials    \* what the register may hold at first

VARIABLES value,      \* what a reader gets
          possible,   \* what a reader may get after a power failure now
          acked       \* the last write was acknowledged

vars == <<value, possible, acked>>

Init == value \in Initials /\ possible = {value} /\ acked = TRUE

Put(v) ==
    /\ value' = v
    /\ possible' = possible \cup {v}
    /\ acked' = FALSE

Acknowledge ==
    /\ possible' = {value} /\ acked' = TRUE
    /\ UNCHANGED value

\* The medium may be ahead of what it has promised.
Settle ==
    /\ possible' = {value}
    /\ UNCHANGED <<value, acked>>

Lose ==
    /\ value' \in possible /\ possible' = {value'}
    /\ UNCHANGED acked

Next == (\E v \in Values : Put(v)) \/ Acknowledge \/ Settle \/ Lose

Spec == Init /\ [][Next]_vars
==============================================================================
