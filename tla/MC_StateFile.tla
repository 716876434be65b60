----------------------------- MODULE MC_StateFile -----------------------------
(***************************************************************************)
(* An instance of StateFile: two tasks of the daemon, and a CLI.           *)
(***************************************************************************)
EXTENDS StateFile

CONSTANTS Cycle, Choreography, Ctl, Daemon, Cli, A, B

ThreeTasks == {Cycle, Choreography, Ctl}
TwoProcs == {Daemon, Cli}
Homes == [t \in ThreeTasks |-> IF t = Ctl THEN Cli ELSE Daemon]
Calls == [t \in ThreeTasks |-> CASE t = Cycle        -> {"load", "save", "reset"}
                                  [] t = Choreography -> {"save"}
                                  [] t = Ctl          -> {"load", "save"}]
TwoValues == {A, B}
WithoutCounters == [v \in TwoValues |-> A]
==============================================================================
