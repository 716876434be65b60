----------------------------- MODULE CycleDriver ----------------------------
(***************************************************************************)
(* daemon.cycle_driver.CycleDriver.run_one_cycle over the files of         *)
(* state_store.StateStore: observe, detect SIM swaps, hydrate, decide,     *)
(* dispatch, persist.  Every await of the cycle that other actors can slip *)
(* through is a step boundary: time passes, an operator runs               *)
(* `ctl maintenance`, a SIM card is exchanged, the process dies, the box   *)
(* reboots.                                                                *)
(*                                                                         *)
(* The daemon carries nothing but its configuration from one cycle to the  *)
(* next, everything else is read back from disk.  A crash and restart, the *)
(* cancellation of SIGTERM and an exception that main.py's loop swallows   *)
(* therefore have one effect: the rest of the cycle never happens          *)
(* (Interrupt).  Each file is written by temp-fsync-rename under a lock,   *)
(* so one write is one step.                                               *)
(*                                                                         *)
(* Time: now is real time, the daemon reads MonotonicNow, which restarts   *)
(* at 0 with each boot while the stored timestamps survive.                *)
(***************************************************************************)
EXTENDS Policy

CONSTANTS
    Modems,          \* numbered in the order of their usb_paths
    Snapshots,       \* [issues, signal, simRead]: what a probe may report
    Iccids,          \* SIM cards that exist
    WindowLengths,   \* durations `maintenance on` is given
    MaxTime, MaxInterrupts, MaxReboots, MaxSwaps   \* model bounds

ASSUME DriverAssumption ==
    /\ Modems \subseteq Nat /\ IsFiniteSet(Modems)
    /\ WindowLengths \subseteq Nat \ {0}
    /\ \A b \in {MaxTime, MaxInterrupts, MaxReboots, MaxSwaps} : b \in Nat

NoSim == "unread"

VARIABLES
    pc,            \* where run_one_cycle is
    scanned,       \* inventory.scan(): the modems of this cycle
    snaps,         \* [scanned -> Snapshots]
    swapped,       \* modems whose reset after a SIM swap is still to be written
    newStates,     \* CycleResult.new_states
    newGlobals,    \* CycleResult.new_globals, or Nothing if unchanged
    plans,         \* CycleResult.plans
    toRun,         \* plans not yet dispatched
    unsaved,       \* new_states not yet persisted
    diskStates,    \* state/by-usb/<usb_path>.json
    diskGlobals,   \* globals.json: [lastReset, resetCount, window, expires]
    diskIdentity,  \* identity map: usb_path -> ICCID or NoSim
    sim,           \* the SIM card really in each modem
    now, boot,     \* real time, and when the machine last booted
    interrupts, reboots, swaps,   \* how many of each so far
    lastFired, spent, healthyRun, \* history, as in RecoveryBudget
    lost,          \* history: executions of each kind whose record was lost
    forgot,        \* history: TRUE if m's last destructive action was lost
    swapDue,       \* history: m's ICCID changed and no decision since is saved,
                   \* nor was the swap forgotten in an interruption
    lastRead,      \* history: the last ICCID read from m, until the map drops it
    windowHeld     \* history: a window has been open since before the cycle's decision

cycleVars == <<pc, scanned, snaps, swapped, newStates, newGlobals, plans, toRun, unsaved>>
diskVars == <<diskStates, diskGlobals, diskIdentity>>
envVars == <<sim, now, boot, interrupts, reboots, swaps>>
simHistory == <<swapDue, lastRead>>
runHistory == <<lastFired, spent, lost, forgot>>
historyVars == <<runHistory, healthyRun, simHistory, windowHeld>>
vars == <<cycleVars, diskVars, envVars, historyVars>>

MonotonicNow == now - boot

NoSpent == [k \in LadderRungs |-> 0]
FreshGlobals == [lastReset |-> Never, resetCount |-> 0, window |-> FALSE, expires |-> 0]
Nothing == << >>

Init ==
    /\ pc = "idle" /\ scanned = {} /\ snaps = Nothing /\ swapped = {}
    /\ newStates = Nothing /\ newGlobals = Nothing /\ plans = Nothing
    /\ toRun = {} /\ unsaved = {}
    /\ diskStates = [m \in Modems |-> FreshState]   \* no file loads as fresh
    /\ diskGlobals = FreshGlobals
    /\ diskIdentity = [m \in Modems |-> NoSim]
    /\ sim \in [Modems -> Iccids]
    /\ \A m, n \in Modems : sim[m] = sim[n] => m = n
    /\ now = 0 /\ boot = 0 /\ interrupts = 0 /\ reboots = 0 /\ swaps = 0
    /\ lastFired = [m \in Modems |-> Never]
    /\ spent = [m \in Modems |-> NoSpent]
    /\ healthyRun = [m \in Modems |-> 0]
    /\ lost = [m \in Modems |-> ZeroCounters] /\ forgot = [m \in Modems |-> FALSE]
    /\ swapDue = [m \in Modems |-> FALSE] /\ lastRead = diskIdentity
    /\ windowHeld = FALSE

First(m, S) == m \in S /\ \A n \in S : m <= n

-----------------------------------------------------------------------------
(* run_one_cycle *)

\* scan and observe_all; what the probes saw is fixed from here on.
Observe ==
    /\ pc = "idle"
    /\ pc' = "identity"
    /\ \E D \in SUBSET Modems : \E seen \in [D -> Snapshots] :
          LET read == [m \in D |-> IF seen[m].simRead THEN sim[m] ELSE NoSim]
          IN  /\ scanned' = D
              /\ snaps' = [m \in D |-> [issues |-> seen[m].issues,
                                        signal |-> seen[m].signal, iccid |-> read[m]]]
              /\ lastRead' = [m \in Modems |->
                    IF m \in D /\ read[m] /= NoSim THEN read[m] ELSE lastRead[m]]
              /\ swapDue' = [m \in Modems |->
                    swapDue[m] \/ (NoSim /= lastRead[m] /\ lastRead'[m] /= lastRead[m])]
    /\ windowHeld' = diskGlobals.window
    /\ UNCHANGED <<swapped, newStates, newGlobals, plans, toRun, unsaved, diskVars, envVars,
                   runHistory, healthyRun>>

\* _detect_and_handle_sim_swaps: the new map holds only the modems whose ICCID
\* was read, and replaces the old one when any of them changed.
SaveIdentity ==
    /\ pc = "identity"
    /\ LET current == {m \in scanned : snaps[m].iccid /= NoSim}
           changed == {m \in current : diskIdentity[m] /= snaps[m].iccid}
           Kept(map) == IF changed = {} THEN map
                        ELSE [m \in Modems |-> IF m \in current THEN snaps[m].iccid ELSE NoSim]
       IN  /\ diskIdentity' = Kept(diskIdentity)
           /\ lastRead' = Kept(lastRead)
           /\ swapped' = {m \in changed : diskIdentity[m] /= NoSim}
    /\ pc' = "reset"
    /\ UNCHANGED <<scanned, snaps, newStates, newGlobals, plans, toRun, unsaved, diskStates,
                   diskGlobals, envVars, runHistory, healthyRun, swapDue, windowHeld>>

\* Mutant: the counters stay.
ResetStreakOnly(st) == [st EXCEPT !.streak = 0]

\* Mutant: the timestamps go, too.
ResetEverything(st) == FreshState

\* What a reset keeps is what the gates need: the timestamps.
ResetStreakAndCounters(st) == [st EXCEPT !.streak = 0, !.counters = ZeroCounters]

\* StateStore.reset_modem_streak_and_counters, one swapped modem after another.
ResetSwapped(m) ==
    /\ pc = "reset" /\ First(m, swapped)
    /\ swapped' = swapped \ {m}
    /\ diskStates' = [diskStates EXCEPT ![m] = ResetStreakAndCounters(@)]
    /\ spent' = [spent EXCEPT ![m] = NoSpent]
    /\ lost' = [lost EXCEPT ![m] = ZeroCounters]
    /\ healthyRun' = [healthyRun EXCEPT ![m] = 0]
    /\ UNCHANGED <<pc, scanned, snaps, newStates, newGlobals, plans, toRun, unsaved, diskGlobals,
                   diskIdentity, envVars, lastFired, forgot, simHistory, windowHeld>>

ExpectedCount == IF scanned = {} THEN 4 ELSE Cardinality(scanned)

\* Hydrate and policy_engine.run_cycle.  ctx.maintenance_active is the stored
\* flag; the expiry stamps are not consulted.  build_diag passes no host issue.
Decide ==
    /\ pc = "reset" /\ swapped = {}
    /\ LET eligible == DriverResetEligible(snaps, FALSE, diskGlobals.lastReset,
                                           ExpectedCount, MonotonicNow)
           plan == [m \in scanned |->
                      IF eligible THEN NoPlan
                      ELSE PlanFor(diskStates[m], snaps[m], MonotonicNow, diskGlobals.window)]
       IN  /\ plans' = plan
           /\ newStates' = [m \in scanned |->
                IF eligible THEN Transition(diskStates[m], snaps[m])
                ELSE FinalizePerModemState(diskStates[m], snaps[m], plan[m], MonotonicNow)]
           /\ newGlobals' =
                IF eligible THEN [diskGlobals EXCEPT !.lastReset = MonotonicNow,
                                                     !.resetCount = @ + 1]
                            ELSE Nothing
           /\ toRun' = {m \in scanned : WouldExecute(plan[m])}
    /\ unsaved' = scanned
    /\ pc' = "dispatch"
    /\ snaps' = Nothing
    /\ UNCHANGED <<scanned, swapped, diskVars, envVars, historyVars>>
\* _dispatch_actions: the plans that passed the gates, in scan order.  The
\* action has started when the step is over; its outcome is not stored.
Dispatch(m) ==
    /\ pc = "dispatch" /\ First(m, toRun)
    /\ toRun' = toRun \ {m}
    /\ LET k == plans[m].kind
       IN  /\ spent' = IF k \in LadderRungs THEN [spent EXCEPT ![m][k] = @ + 1] ELSE spent
           /\ IF k \in DestructiveKinds
                THEN /\ lastFired' = [lastFired EXCEPT ![m] = newStates[m].last[k] + boot]
                     /\ forgot' = [forgot EXCEPT ![m] = FALSE]
                ELSE UNCHANGED <<lastFired, forgot>>
    /\ UNCHANGED <<pc, scanned, snaps, swapped, newStates, newGlobals, plans, unsaved,
                   diskVars, envVars, lost, healthyRun, simHistory, windowHeld>>

RunAfter(m) ==
    IF newStates[m].state /= "healthy" THEN 0
    ELSE IF healthyRun[m] >= HealthyStreakDecayK THEN 1 ELSE healthyRun[m] + 1

WellAfter(m) == RunAfter(m) = HealthyStreakDecayK

\* Mutant: saving does not wait for the dispatcher.
DecidedAtAll == pc = "dispatch"

AllDispatched == pc = "dispatch" /\ toRun = {}

\* _persist_states_and_globals: save_modem_state for each modem ...
Persist(m) ==
    /\ AllDispatched /\ First(m, unsaved)
    /\ unsaved' = unsaved \ {m}
    /\ diskStates' = [diskStates EXCEPT ![m] = newStates[m]]
    /\ healthyRun' = [healthyRun EXCEPT ![m] = RunAfter(m)]
    /\ swapDue' = [swapDue EXCEPT ![m] = FALSE]
    /\ spent' = IF WellAfter(m) THEN [spent EXCEPT ![m] = NoSpent] ELSE spent
    /\ lost' = IF WellAfter(m) THEN [lost EXCEPT ![m] = ZeroCounters] ELSE lost
    /\ UNCHANGED <<pc, scanned, snaps, swapped, newStates, newGlobals, plans, toRun,
                   diskGlobals, diskIdentity, envVars, lastFired, forgot,
                   lastRead, windowHeld>>

EndCycle ==
    /\ pc' = "idle" /\ scanned' = {} /\ snaps' = Nothing /\ swapped' = {}
    /\ newStates' = Nothing /\ newGlobals' = Nothing /\ plans' = Nothing
    /\ toRun' = {} /\ unsaved' = {}

\* ... then save_globals, if they changed: the whole record as loaded by Decide.
Finish ==
    /\ AllDispatched /\ unsaved = {}
    /\ diskGlobals' = IF newGlobals = Nothing THEN diskGlobals ELSE newGlobals
    /\ EndCycle
    /\ UNCHANGED <<diskStates, diskIdentity, envVars, historyVars>>

\* Crash and restart, cancellation, or an exception the cycle loop swallows.  A
\* swap whose ICCID is saved and whose reset is not is never noticed again; an
\* ICCID that was not saved counts as not read.
Interrupt ==
    /\ pc /= "idle" /\ interrupts < MaxInterrupts
    /\ interrupts' = interrupts + 1
    /\ LET ran == IF pc = "dispatch"
                    THEN {m \in unsaved : WouldExecute(plans[m]) /\ m \notin toRun} ELSE {}
       IN  /\ lost' = [m \in Modems |->
                IF m \in ran THEN [lost[m] EXCEPT ![plans[m].kind] = @ + 1] ELSE lost[m]]
           /\ forgot' = [m \in Modems |->
                forgot[m] \/ (m \in ran /\ plans[m].kind \in DestructiveKinds)]
    /\ swapDue' = [m \in Modems |-> swapDue[m] /\ m \notin swapped
                                               /\ lastRead[m] = diskIdentity[m]]
    /\ lastRead' = diskIdentity
    /\ EndCycle
    /\ UNCHANGED <<diskVars, sim, now, boot, reboots, swaps, lastFired, spent,
                   healthyRun, windowHeld>>

Step == Observe \/ SaveIdentity \/ Decide \/ Finish
        \/ \E m \in Modems : ResetSwapped(m) \/ Dispatch(m) \/ Persist(m)

-----------------------------------------------------------------------------
(* Surroundings *)

Tick ==
    /\ now < MaxTime
    /\ now' = now + 1
    /\ UNCHANGED <<cycleVars, diskVars, sim, boot, interrupts, reboots, swaps, historyVars>>

\* A reboot of the box between two cycles; one during a cycle is an Interrupt
\* followed by a Reboot.
Reboot ==
    /\ pc = "idle" /\ reboots < MaxReboots /\ boot < now
    /\ boot' = now /\ reboots' = reboots + 1
    /\ UNCHANGED <<cycleVars, diskVars, sim, now, interrupts, swaps, historyVars>>

\* Somebody puts another card, not now in use, into modem m.
SwapSim(m) ==
    /\ swaps < MaxSwaps
    /\ \E c \in Iccids \ {sim[n] : n \in Modems} : sim' = [sim EXCEPT ![m] = c]
    /\ swaps' = swaps + 1
    /\ UNCHANGED <<cycleVars, diskVars, now, boot, interrupts, reboots, historyVars>>

\* `ctl maintenance on --duration` and `off`, another process.  Their load and
\* save are two locked sections; nothing else writes globals.json in between,
\* since the daemon only does after a global driver reset.
MaintenanceOn ==
    /\ \E d \in WindowLengths :
          diskGlobals' = [diskGlobals EXCEPT !.window = TRUE, !.expires = MonotonicNow + d]
    /\ windowHeld' = (windowHeld \/ pc \in {"identity", "reset"})
    /\ UNCHANGED <<cycleVars, diskStates, diskIdentity, envVars,
                   runHistory, healthyRun, simHistory>>

MaintenanceOff ==
    /\ diskGlobals.window
    /\ diskGlobals' = [diskGlobals EXCEPT !.window = FALSE, !.expires = 0]
    /\ windowHeld' = FALSE
    /\ UNCHANGED <<cycleVars, diskStates, diskIdentity, envVars,
                   runHistory, healthyRun, simHistory>>

Environment == Tick \/ MaintenanceOn \/ MaintenanceOff \/ \E m \in Modems : SwapSim(m)

Next == Step \/ Environment

Spec == Init /\ [][Next]_vars

\* With interruptions and reboots.  CycleReport runs the driver among them.
FaultyNext == Next \/ Interrupt \/ Reboot

FaultySpec == Init /\ [][FaultyNext]_vars

-----------------------------------------------------------------------------
(* Properties *)

TypeOK ==
    /\ pc \in {"idle", "identity", "reset", "dispatch"}
    /\ scanned \subseteq Modems /\ swapped \subseteq scanned
    /\ toRun \subseteq scanned /\ unsaved \subseteq scanned
    /\ newStates = Nothing \/ newStates \in [scanned -> ModemStates]
    /\ plans = Nothing \/ plans \in [scanned -> Plans]
    /\ diskStates \in [Modems -> ModemStates]
    /\ diskIdentity \in [Modems -> Iccids \cup {NoSim}]
    /\ sim \in [Modems -> Iccids]
    /\ boot \in Nat /\ now \in Nat /\ boot <= now
    /\ lastFired \in [Modems -> Timestamps]
    /\ spent \in [Modems -> [LadderRungs -> Nat]]
    /\ healthyRun \in [Modems -> 0 .. HealthyStreakDecayK]
    /\ lost \in [Modems -> [ActionKinds -> Nat]]

\* FR-26, FR-26.1 and the write order of cycle_driver.py: over crashes, reboots
\* and SIM swaps, what a modem went through since it was last well stays within
\* the ladder's budget, save for the executions whose record a crash destroyed:
\* each costs one, and no more.
BudgetUpToLoss ==
    \A m \in Modems, k \in LadderRungs : spent[m][k] <= Ceiling[k] + lost[m][k]

\* The step dispatches a destructive plan for m.
StartsDestructive(m) ==
    /\ m \in toRun \ toRun' /\ pc' = "dispatch"
    /\ plans[m].kind \in DestructiveKinds

\* FR-25.1 over the files: in real time, reboots and SIM swaps included, two
\* destructive actions on a modem are decided LadderMinInterval apart unless the
\* record of the earlier one was lost in a crash.
DecisionSpacing ==
    [][\A m \in Modems :
         (StartsDestructive(m) /\ lastFired[m] /= Never /\ ~forgot[m])
            => lastFired'[m] - lastFired[m] >= LadderMinInterval]_vars

\* C-01, FR-54: while a window is open that was opened before the cycle decided, be it
\* after what it decides about was observed, no destructive action is waiting to run.
MaintenanceRespected ==
    windowHeld => \A m \in toRun : plans[m].kind \notin DestructiveKinds

\* FR-4: once another ICCID than the modem's last one has been read, its next
\* action is decided with a fresh budget.  A modem that is absent or unreadable
\* while another one's identity changes drops out of the map, and is exempt; so
\* is a swap between whose two writes the cycle was interrupted.
SwapResetsBudget ==
    \A m \in unsaved : swapDue[m] => diskStates[m].counters = ZeroCounters

\* One modem is never acted on twice in a cycle, and never after its outcome is
\* saved: what waits to run also waits to be saved, with the bump that counts it.
RunBeforeSave ==
    \A m \in toRun :
       /\ m \in unsaved
       /\ newStates[m].counters[plans[m].kind] = diskStates[m].counters[plans[m].kind] + 1

\* The driver implements the abstract promise while nothing interrupts it.  A
\* decided cycle counts as over although its states still wait to be saved.
Promise == INSTANCE RecoveryBudget WITH
    Rungs <- LadderRungs, Destructive <- DestructiveKinds, Budget <- Ceiling,
    MinInterval <- LadderMinInterval, K <- HealthyStreakDecayK,
    healthyRun <- [m \in Modems |-> IF m \in unsaved THEN RunAfter(m) ELSE healthyRun[m]],
    spent <- [m \in Modems |-> IF m \in unsaved /\ WellAfter(m) THEN NoSpent ELSE spent[m]]

ImplementsBudget == Promise!Spec
=============================================================================
