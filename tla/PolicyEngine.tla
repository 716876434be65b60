---------------------------- MODULE PolicyEngine ----------------------------
(***************************************************************************)
(* policy.engine.run_cycle, called again and again with its own output:    *)
(* what the daemon, the replay harness and the CLI's dry run do with it.   *)
(* A step is one call.  Its inputs (which modems were observed, their      *)
(* snapshots, the maintenance flag, the thermal flag, the expected modem   *)
(* count) are arbitrary; states and globals are the ones the previous call *)
(* returned; the monotonic clock only moves forward.                       *)
(*                                                                         *)
(* plans and hostPlan are the returned plans.  lastFired, spent and        *)
(* healthyRun are history variables: nothing reads them but properties.    *)
(***************************************************************************)
EXTENDS Policy

CONSTANTS
    Modems,          \* usb_paths
    Snapshots,       \* the observations a cycle may deliver: [issues, signal]
    ExpectedCounts,  \* values of PolicyContext.expected_modem_count
    ThermalFlags,    \* whether host_issues may hold a thermal issue
    MaxTime          \* model bound: the clock stops here

ASSUME EngineAssumption ==
    /\ MaxTime \in Nat
    /\ IsFiniteSet(Modems)
    /\ ExpectedCounts \subseteq Nat
    /\ ThermalFlags \subseteq BOOLEAN

VARIABLES
    states,      \* [Modems -> ModemStates]: new_states of the last call
    driverReset, \* [last, count]: the driver-reset fields of GlobalsState
    now,         \* clock.monotonic()
    plans,       \* [Modems -> Plans]: the per-modem plans of the last call
    hostPlan,    \* TRUE iff the last call planned the global driver reset
    lastFired,   \* history: when m last got a destructive plan that executes
    spent,       \* history: rungs m has executed since it was last well
    healthyRun   \* history: consecutive healthy cycles of m, at most K

engineVars == <<states, driverReset, plans, hostPlan>>
historyVars == <<lastFired, spent, healthyRun>>
vars == <<engineVars, now, historyVars>>

Init ==
    /\ states = [m \in Modems |-> FreshState]
    /\ driverReset = [last |-> Never, count |-> 0]
    /\ now = 0
    /\ plans = [m \in Modems |-> NoPlan]
    /\ hostPlan = FALSE
    /\ lastFired = [m \in Modems |-> Never]
    /\ spent = [m \in Modems |-> [k \in LadderRungs |-> 0]]
    /\ healthyRun = [m \in Modems |-> 0]

-----------------------------------------------------------------------------
(* History *)

\* A modem is well again after K healthy cycles in a row.
RunAfter(m, healthy) ==
    IF ~healthy THEN 0
    ELSE IF healthyRun[m] >= HealthyStreakDecayK THEN 1 ELSE healthyRun[m] + 1

RecordHistory(D, newStates, newPlans) ==
    /\ healthyRun' = [m \in Modems |->
          IF m \in D THEN RunAfter(m, newStates[m].state = "healthy") ELSE healthyRun[m]]
    /\ spent' = [m \in Modems |-> [k \in LadderRungs |->
          IF healthyRun'[m] >= HealthyStreakDecayK THEN 0
          ELSE IF WouldExecute(newPlans[m]) /\ newPlans[m].kind = k THEN spent[m][k] + 1
          ELSE spent[m][k]]]
    /\ lastFired' = [m \in Modems |->
          IF WouldExecute(newPlans[m]) /\ newPlans[m].kind \in DestructiveKinds
            THEN now ELSE lastFired[m]]

-----------------------------------------------------------------------------
(* run_cycle *)

\* The short circuit: only the transition function runs on the modems, streaks
\* and counters stay as they were, no per-modem plan is made.
DriverResetCycle(D, diag, thermal, expected) ==
    /\ DriverResetEligible(diag, thermal, driverReset.last, expected, now)
    /\ states' = [m \in Modems |->
          IF m \in D THEN Transition(states[m], diag[m]) ELSE states[m]]
    /\ driverReset' = [last |-> now, count |-> driverReset.count + 1]
    /\ plans' = [m \in Modems |-> NoPlan]
    /\ hostPlan' = TRUE
    /\ RecordHistory(D, states', plans')
    /\ UNCHANGED now

PerModemCycle(D, diag, maintenance, thermal, expected) ==
    /\ ~DriverResetEligible(diag, thermal, driverReset.last, expected, now)
    /\ plans' = [m \in Modems |->
          IF m \in D THEN PlanFor(states[m], diag[m], now, maintenance) ELSE NoPlan]
    /\ states' = [m \in Modems |->
          IF m \in D THEN FinalizePerModemState(states[m], diag[m], plans'[m], now)
                     ELSE states[m]]
    /\ hostPlan' = FALSE
    /\ RecordHistory(D, states', plans')
    /\ UNCHANGED <<driverReset, now>>

CycleOver(Ds) ==
    \E D \in Ds : \E diag \in [D -> Snapshots] :
    \E thermal \in ThermalFlags, expected \in ExpectedCounts :
       \/ DriverResetCycle(D, diag, thermal, expected)
       \/ \E maintenance \in BOOLEAN : PerModemCycle(D, diag, maintenance, thermal, expected)

Cycle == CycleOver(SUBSET Modems)
CycleObserving(m) == CycleOver({D \in SUBSET Modems : m \in D})

Tick ==
    /\ now < MaxTime
    /\ now' = now + 1
    /\ UNCHANGED <<engineVars, historyVars>>

Next == Cycle \/ Tick

Spec == Init /\ [][Next]_vars

\* The daemon cycles for ever, and a modem that stays plugged in is observed.
FairSpec == Spec /\ \A m \in Modems : WF_vars(CycleObserving(m))

-----------------------------------------------------------------------------
(* Properties *)

TypeOK ==
    /\ states \in [Modems -> ModemStates]
    /\ driverReset \in [last : Timestamps, count : Nat]
    /\ now \in Nat
    /\ plans \in [Modems -> Plans]
    /\ hostPlan \in BOOLEAN
    /\ lastFired \in [Modems -> Timestamps]
    /\ spent \in [Modems -> [LadderRungs -> Nat]]
    /\ healthyRun \in [Modems -> 0 .. HealthyStreakDecayK]

\* FR-26, RECOVERY_SPEC 3.3 and 4.1: between two runs of K consecutive healthy
\* cycles a modem gets at most max_soft soft resets, max_modem modem resets and
\* max_usb usb resets, whatever issues come and go, however often the base
\* action changes, and whatever interrupts the healthy runs.
LadderBudget == \A m \in Modems, k \in LadderRungs : spent[m][k] <= Ceiling[k]

\* The step is a cycle, and its plan for m executes an action of one of the kinds.
Executes(m, kinds) ==
    now' = now /\ WouldExecute(plans'[m]) /\ plans'[m].kind \in kinds

\* FR-25.1, gates.py gate_ladder_backoff: two destructive actions on one modem,
\* of any two kinds, are LadderMinInterval apart.  A counter decay in between
\* does not shorten the interval.
DestructiveSpacing ==
    [][\A m \in Modems :
         (Executes(m, DestructiveKinds) /\ lastFired[m] /= Never)
            => now - lastFired[m] >= LadderMinInterval]_vars

\* RECOVERY_SPEC 4.1: while no observation asks for a usb_reset outright, a modem
\* is re-enumerated only after every modem_reset of its budget has been spent.
NoRungSkipped ==
    \A m \in Modems :
       spent[m]["usb_reset"] > 0 => spent[m]["modem_reset"] >= MaxModem

\* RECOVERY_SPEC 6.1 and 3.1, FR-20: a destructive action goes to a modem that
\* this very cycle found ill and above the signal floors.
DestructiveOnlyWhenCalledFor ==
    \A m \in Modems :
       WouldExecute(plans[m]) /\ plans[m].kind \in DestructiveKinds
          => ~states[m].rf_blocked /\ states[m].state /= "healthy"

\* FR-26, PRD M4 (no modem stuck without budget): a modem that stays healthy for
\* ever has its counters cleared again and again.
BudgetRestored ==
    \A m \in Modems :
       <>[](healthyRun[m] > 0) => []<>(states[m].counters = ZeroCounters)

\* FR-26, RECOVERY_SPEC 3.3 and 6.4: the cycle of a global driver reset leaves the
\* healthy streak of an ill modem standing (the short circuit of run_cycle only runs
\* the transition), so its counters may be cleared before K healthy cycles in a row.
\* Each such cycle costs at most one more budget, and the cooldown bounds how many
\* of them there can be.
BudgetUpToResets ==
    \A m \in Modems, k \in LadderRungs :
       spent[m][k] <= Ceiling[k] * (2 + now \div GlobalBackoff)

\* The engine implements the abstract promise; the history variables are the
\* abstract state.
Promise == INSTANCE RecoveryBudget WITH
    Rungs <- LadderRungs, Destructive <- DestructiveKinds, Budget <- Ceiling,
    MinInterval <- LadderMinInterval, K <- HealthyStreakDecayK

ImplementsBudget == Promise!Spec
=============================================================================
