--------------------------- MODULE RecoveryBudget ---------------------------
(***************************************************************************)
(* What the recovery promises about each modem, whoever decides and        *)
(* however: a modem is reset only out of a finite budget per rung, the     *)
(* budget comes back only after K healthy rounds in a row or with a new    *)
(* SIM, a modem found healthy is left alone, and destructive actions are   *)
(* decided at least MinInterval apart.                                     *)
(* PolicyEngine implements it, and so does CycleDriver while its daemon    *)
(* does not crash.                                                         *)
(***************************************************************************)
EXTENDS Integers

CONSTANTS Modems, Rungs, Destructive, Budget, MinInterval, K

VARIABLES
    now,         \* the monotonic clock
    spent,       \* [Modems -> [Rungs -> Nat]]: resets of m since it was last well
    lastFired,   \* [Modems -> time]: when m's last destructive action was decided, or -1
    healthyRun   \* [Modems -> 0 .. K]: healthy rounds in a row

vars == <<now, spent, lastFired, healthyRun>>

None == [k \in Rungs |-> 0]

Init ==
    /\ now = 0
    /\ spent = [m \in Modems |-> None]
    /\ lastFired = [m \in Modems |-> -1]
    /\ healthyRun = [m \in Modems |-> 0]

\* What a round may do to one modem: nothing at all ...
Skipped(m) ==
    /\ UNCHANGED <<spent[m], lastFired[m], healthyRun[m]>>

\* ... find it healthy, one step closer to a fresh budget ...
FoundHealthy(m) ==
    /\ healthyRun'[m] = IF healthyRun[m] < K THEN healthyRun[m] + 1 ELSE 1
    /\ spent'[m] = IF healthyRun'[m] = K THEN None ELSE spent[m]
    /\ UNCHANGED lastFired[m]

\* ... find it ill and hold back, or run something outside the ladder, which
\* when destructive (the driver reset of a dead proxy) keeps the interval ...
Spaced(m) == lastFired[m] = -1 \/ lastFired'[m] - lastFired[m] >= MinInterval

FoundIll(m) ==
    /\ healthyRun'[m] = 0
    /\ UNCHANGED spent[m]
    /\ \/ UNCHANGED lastFired[m]
       \/ lastFired'[m] \in 0 .. now /\ Spaced(m)

\* ... find it ill and climb a rung that still has budget ...
Reset(m, k) ==
    /\ healthyRun'[m] = 0
    /\ spent[m][k] < Budget[k]
    /\ spent'[m] = [spent[m] EXCEPT ![k] = @ + 1]
    /\ IF k \in Destructive THEN lastFired'[m] \in 0 .. now /\ Spaced(m)
                            ELSE UNCHANGED lastFired[m]

\* ... or meet a new SIM in it.
NewSim(m) ==
    /\ healthyRun'[m] = 0
    /\ spent'[m] = None
    /\ UNCHANGED lastFired[m]

Round ==
    /\ \A m \in Modems : \/ Skipped(m) \/ FoundHealthy(m) \/ FoundIll(m) \/ NewSim(m)
                         \/ \E k \in Rungs : Reset(m, k)
    /\ spent' = [m \in Modems |-> spent'[m]]
    /\ lastFired' = [m \in Modems |-> lastFired'[m]]
    /\ healthyRun' = [m \in Modems |-> healthyRun'[m]]
    /\ UNCHANGED now

Tick == now' = now + 1 /\ UNCHANGED <<spent, lastFired, healthyRun>>

Next == Round \/ Tick

Spec == Init /\ [][Next]_vars
=============================================================================
