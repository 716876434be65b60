------------------------- MODULE PolicyEngine_proofs -------------------------
(***************************************************************************)
(* Theorems about PolicyEngine, for every number of modems and every value *)
(* of the settings.                                                        *)
(*                                                                         *)
(* Three inductive invariants carry them.  SpacingInv ties the history of  *)
(* destructive actions to the timestamps the gate reads.  BudgetInv ties   *)
(* the history of rungs to the stored counters, and the run of healthy     *)
(* cycles to the stored streak; a global driver reset breaks the latter    *)
(* (it leaves the streak alone), so what rests on BudgetInv assumes        *)
(* NoneHung: no observation carries qmi_channel_hung.  The observer of the *)
(* daemon emits none (issue_extractor.py), replayed traces may.  ResetsInv *)
(* needs no such assumption: it counts what the driver resets may have     *)
(* cost.                                                                   *)
(***************************************************************************)
EXTENDS PolicyEngine, Policy_proofs

NoneHung == \A s \in Snapshots : ~ChannelHung(s)

\* No observation asks for a usb_reset outright.
NoneAsksForUsbReset ==
    \A s \in Snapshots :
       s.issues /= << >> => LookupAction(SelectTopPriorityIssue(s.issues)) /= "usb_reset"

SpacingInv ==
    \A m \in Modems :
       lastFired[m] /= Never =>
          \E k \in DestructiveKinds : states[m].last[k] = lastFired[m]

BudgetInv ==
    \A m \in Modems :
       /\ states[m].streak = IF healthyRun[m] = HealthyStreakDecayK THEN 0 ELSE healthyRun[m]
       /\ \A k \in LadderRungs :
             /\ spent[m][k] = states[m].counters[k]
             /\ spent[m][k] <= Ceiling[k]
             /\ healthyRun[m] = HealthyStreakDecayK => spent[m][k] = 0

-----------------------------------------------------------------------------
(* Single steps *)

LEMMA HistoryType ==
    ASSUME TypeOK, NEW D, NEW newStates, NEW newPlans \in [Modems -> Plans],
           RecordHistory(D, newStates, newPlans)
    PROVE  /\ healthyRun' \in [Modems -> 0 .. HealthyStreakDecayK]
           /\ spent' \in [Modems -> [LadderRungs -> Nat]]
           /\ lastFired' \in [Modems -> Timestamps]
<1>1. ASSUME NEW m \in Modems
      PROVE  RunAfter(m, newStates[m].state = "healthy") \in 0 .. HealthyStreakDecayK
  <2>1. healthyRun[m] \in 0 .. HealthyStreakDecayK
    BY DEF TypeOK
  <2>2. HealthyStreakDecayK \in Nat \ {0}
    BY SettingsAssumption DEF SettingsAssumption
  <2>3. QED
    BY <2>1, <2>2 DEF RunAfter
<1>2. healthyRun' \in [Modems -> 0 .. HealthyStreakDecayK]
  BY <1>1 DEF RecordHistory, TypeOK
<1>3. spent' \in [Modems -> [LadderRungs -> Nat]]
  BY DEF RecordHistory, TypeOK
<1>4. lastFired' \in [Modems -> Timestamps]
  BY DEF RecordHistory, TypeOK, Timestamps
<1>5. QED
  BY <1>2, <1>3, <1>4

LEMMA InitType == Init => TypeOK
<1> SUFFICES ASSUME Init PROVE TypeOK
  OBVIOUS
<1>1. FreshState \in ModemStates
  BY DEF FreshState, ModemStates, StateNames, ZeroCounters, Timestamps
<1>2. NoPlan \in Plans
  BY DEF NoPlan, Plans, Reasons
<1>3. 0 \in 0 .. HealthyStreakDecayK
  BY SettingsAssumption DEF SettingsAssumption
<1>4. QED
  BY <1>1, <1>2, <1>3 DEF Init, TypeOK, Timestamps

\* What run_cycle does to an observed modem, outside the short circuit.
LEMMA PerModemEffect ==
    ASSUME TypeOK, NEW D \in SUBSET Modems, NEW diag \in [D -> Snapshots],
           NEW maintenance, NEW thermal, NEW expected,
           PerModemCycle(D, diag, maintenance, thermal, expected),
           NEW m \in Modems
    PROVE  /\ plans'[m] \in Plans
           /\ states'[m] \in ModemStates
           /\ m \notin D => plans'[m] = NoPlan /\ states'[m] = states[m]
           /\ m \in D =>
                 /\ plans'[m] = PlanFor(states[m], diag[m], now, maintenance)
                 /\ states'[m] = FinalizePerModemState(states[m], diag[m], plans'[m], now)
<1>1. states[m] \in ModemStates /\ now \in Nat
  BY DEF TypeOK
<1>2. CASE m \notin D
  <2>1. plans'[m] = NoPlan /\ states'[m] = states[m]
    BY <1>2 DEF PerModemCycle
  <2>2. NoPlan \in Plans
    BY DEF NoPlan, Plans, Reasons
  <2>3. QED
    BY <1>1, <1>2, <2>1, <2>2
<1>3. CASE m \in D
  <2>1. plans'[m] = PlanFor(states[m], diag[m], now, maintenance)
    BY <1>3 DEF PerModemCycle
  <2>2. states'[m] = FinalizePerModemState(states[m], diag[m], plans'[m], now)
    BY <1>3 DEF PerModemCycle
  <2>3. plans'[m] \in Plans /\ (WouldExecute(plans'[m]) => plans'[m].kind \in ActionKinds)
    BY <1>1, <2>1, PlanSound
  <2>4. FinalizePerModemState(states[m], diag[m], plans'[m], now) \in ModemStates
    BY <1>1, <2>3, FinalizeSound
  <2>5. QED
    BY <1>3, <2>1, <2>2, <2>3, <2>4
<1>4. QED
  BY <1>2, <1>3

LEMMA NextType == TypeOK /\ [Next]_vars => TypeOK'
<1> SUFFICES ASSUME TypeOK, [Next]_vars PROVE TypeOK'
  OBVIOUS
<1>1. ASSUME NEW D \in SUBSET Modems, NEW diag \in [D -> Snapshots],
             NEW thermal \in ThermalFlags, NEW expected \in ExpectedCounts,
             DriverResetCycle(D, diag, thermal, expected)
      PROVE  TypeOK'
  <2>1. \A m \in Modems : m \in D => Transition(states[m], diag[m]) \in ModemStates
    BY TransitionType DEF TypeOK
  <2>2. states' \in [Modems -> ModemStates]
    BY <1>1, <2>1 DEF DriverResetCycle, TypeOK
  <2>3. plans' \in [Modems -> Plans]
    BY <1>1 DEF DriverResetCycle, NoPlan, Plans, Reasons
  <2>4. driverReset' \in [last : Timestamps, count : Nat]
    BY <1>1 DEF DriverResetCycle, TypeOK, Timestamps
  <2>5. RecordHistory(D, states', plans') /\ hostPlan' = TRUE /\ now' = now
    BY <1>1 DEF DriverResetCycle
  <2>6. QED
    BY <2>2, <2>3, <2>4, <2>5, HistoryType DEF TypeOK
<1>2. ASSUME NEW D \in SUBSET Modems, NEW diag \in [D -> Snapshots],
             NEW thermal \in ThermalFlags, NEW expected \in ExpectedCounts,
             NEW maintenance \in BOOLEAN,
             PerModemCycle(D, diag, maintenance, thermal, expected)
      PROVE  TypeOK'
  <2>1. \A m \in Modems : plans'[m] \in Plans /\ states'[m] \in ModemStates
    BY <1>2, PerModemEffect
  <2>2. /\ states' \in [Modems -> ModemStates]
        /\ plans' \in [Modems -> Plans]
    BY <1>2, <2>1 DEF PerModemCycle
  <2>3. /\ RecordHistory(D, states', plans')
        /\ hostPlan' = FALSE /\ UNCHANGED <<driverReset, now>>
    BY <1>2 DEF PerModemCycle
  <2>4. QED
    BY <2>2, <2>3, HistoryType DEF TypeOK
<1>3. CASE Tick
  BY <1>3 DEF Tick, TypeOK, engineVars, historyVars
<1>4. CASE UNCHANGED vars
  BY <1>4 DEF TypeOK, vars, engineVars, historyVars
<1>5. QED
  BY <1>1, <1>2, <1>3, <1>4 DEF Next, Cycle, CycleOver

\* The stored states, the plans and the clock keep their types.
THEOREM TypeCorrect == Spec => []TypeOK
  BY InitType, NextType, PTL DEF Spec

-----------------------------------------------------------------------------
(* Spacing *)

\* A modem's timestamps change only where a plan executes, and that plan's gates
\* were computed from the timestamps it changes.
LEMMA LastEffect ==
    ASSUME TypeOK, NEW D \in SUBSET Modems, NEW diag \in [D -> Snapshots],
           NEW maintenance, NEW thermal, NEW expected,
           PerModemCycle(D, diag, maintenance, thermal, expected),
           NEW m \in Modems
    PROVE  LET k == plans'[m].kind
               last == states[m].last
           IN  /\ ~WouldExecute(plans'[m]) => states'[m].last = last
               /\ WouldExecute(plans'[m]) =>
                     /\ m \in D
                     /\ k \in ActionKinds
                     /\ states'[m].last = [last EXCEPT ![k] = now]
                     /\ k \in DestructiveKinds => \A j \in DestructiveKinds :
                           last[j] /= Never => now - last[j] >= LadderMinInterval
<1> DEFINE st == states[m]
           plan == plans'[m]
           k == plan.kind
<1>1. st \in ModemStates /\ now \in Nat /\ plan \in Plans
  BY PerModemEffect DEF TypeOK
<1>2. CASE m \notin D
  <2>1. plan = NoPlan /\ states'[m] = st
    BY <1>2, PerModemEffect
  <2>2. ~WouldExecute(plan)
    BY <2>1 DEF WouldExecute, NoPlan, NoAction
  <2>3. QED
    BY <2>1, <2>2
<1>3. CASE m \in D
  <2>1. plan = PlanFor(st, diag[m], now, maintenance)
    BY <1>3, PerModemEffect
  <2>2. WouldExecute(plan) => k \in ActionKinds
    BY <1>1, <2>1, PlanSound
  <2>3. states'[m] = FinalizePerModemState(st, diag[m], plan, now)
    BY <1>3, PerModemEffect
  <2>4. FinalizePerModemState(st, diag[m], plan, now).last =
          IF WouldExecute(plan) THEN [st.last EXCEPT ![k] = now] ELSE st.last
    BY <1>1, <2>2, FinalizeSound
  <2>5. Transition(st, diag[m]).last = st.last
    BY <1>1, TransitionType
  <2>6. WouldExecute(plan) => ~GateLadderBackoff(Transition(st, diag[m]), k, now)
    BY <1>1, <2>1, PlanSound
  <2>7. LadderMinInterval \in Nat
    BY SettingsAssumption DEF SettingsAssumption
  <2>8. st.last \in [ActionKinds -> Timestamps]
    BY <1>1 DEF ModemStates
  <2>9. WouldExecute(plan) /\ k \in DestructiveKinds => \A j \in DestructiveKinds :
            st.last[j] /= Never => now - st.last[j] >= LadderMinInterval
    BY <1>1, <2>5, <2>6, <2>7, <2>8, KindFacts DEF GateLadderBackoff, Timestamps, Never
  <2>10. QED
    BY <1>3, <2>2, <2>3, <2>4, <2>9
<1>4. QED
  BY <1>2, <1>3

LEMMA FiredEffect ==
    ASSUME TypeOK, NEW D, NEW newStates, NEW newPlans, RecordHistory(D, newStates, newPlans),
           NEW m \in Modems
    PROVE  lastFired'[m] = IF WouldExecute(newPlans[m]) /\ newPlans[m].kind \in DestructiveKinds
                             THEN now ELSE lastFired[m]
  BY DEF RecordHistory

\* One destructive action after another, on one modem.
Spaced(m) ==
    (Executes(m, DestructiveKinds) /\ lastFired[m] /= Never)
       => now - lastFired[m] >= LadderMinInterval

LEMMA PerModemSpacing ==
    ASSUME TypeOK, SpacingInv, NEW D \in SUBSET Modems, NEW diag \in [D -> Snapshots],
           NEW maintenance, NEW thermal, NEW expected,
           PerModemCycle(D, diag, maintenance, thermal, expected)
    PROVE  SpacingInv' /\ \A m \in Modems : Spaced(m)
<1> SUFFICES ASSUME NEW m \in Modems
             PROVE  /\ lastFired'[m] /= Never =>
                          \E k \in DestructiveKinds : states'[m].last[k] = lastFired'[m]
                    /\ Spaced(m)
  BY DEF SpacingInv
<1> DEFINE k == plans'[m].kind
           fires == WouldExecute(plans'[m]) /\ k \in DestructiveKinds
<1>1. RecordHistory(D, states', plans')
  BY DEF PerModemCycle
<1>2. lastFired'[m] = IF fires THEN now ELSE lastFired[m]
  BY <1>1, FiredEffect
<1>3. states[m].last \in [ActionKinds -> Timestamps]
  BY DEF TypeOK, ModemStates
<1>4. lastFired[m] /= Never =>
        \E j \in DestructiveKinds : states[m].last[j] = lastFired[m]
  BY DEF SpacingInv
<1>5. CASE fires
  <2>1. states'[m].last = [states[m].last EXCEPT ![k] = now] /\ k \in ActionKinds
    BY <1>5, LastEffect
  <2>2. states'[m].last[k] = lastFired'[m]
    BY <1>2, <1>3, <1>5, <2>1
  <2>3. \A j \in DestructiveKinds :
            states[m].last[j] /= Never => now - states[m].last[j] >= LadderMinInterval
    BY <1>5, LastEffect
  <2>4. Spaced(m)
    BY <1>4, <2>3 DEF Spaced
  <2>5. QED
    BY <1>5, <2>2, <2>4
<1>6. CASE ~fires
  <2>1. lastFired'[m] = lastFired[m]
    BY <1>2, <1>6
  <2>2. \A j \in DestructiveKinds : states'[m].last[j] = states[m].last[j]
    <3>1. CASE ~WouldExecute(plans'[m])
      BY <3>1, LastEffect
    <3>2. CASE WouldExecute(plans'[m])
      <4>1. states'[m].last = [states[m].last EXCEPT ![k] = now] /\ k \notin DestructiveKinds
        BY <1>6, <3>2, LastEffect
      <4>2. QED
        BY <1>3, <4>1, KindFacts
    <3>3. QED
      BY <3>1, <3>2
  <2>3. QED
    BY <1>4, <1>6, <2>1, <2>2 DEF Spaced, Executes
<1>7. QED
  BY <1>5, <1>6

\* The short circuit of the global driver reset starts no per-modem action.
LEMMA DriverResetEffect ==
    ASSUME TypeOK, NEW D \in SUBSET Modems, NEW diag \in [D -> Snapshots],
           NEW thermal, NEW expected, DriverResetCycle(D, diag, thermal, expected),
           NEW m \in Modems
    PROVE  /\ ~WouldExecute(plans'[m])
           /\ states'[m].last = states[m].last /\ states'[m].counters = states[m].counters
           /\ lastFired'[m] = lastFired[m]
<1>1. plans'[m] = NoPlan
  BY DEF DriverResetCycle
<1>2. ~WouldExecute(plans'[m])
  BY <1>1 DEF WouldExecute, NoPlan, NoAction
<1>3. states'[m] = IF m \in D THEN Transition(states[m], diag[m]) ELSE states[m]
  BY DEF DriverResetCycle
<1>4. states'[m].last = states[m].last /\ states'[m].counters = states[m].counters
  BY <1>3, TransitionType DEF TypeOK
<1>5. RecordHistory(D, states', plans')
  BY DEF DriverResetCycle
<1>6. lastFired'[m] = lastFired[m]
  BY <1>2, <1>5, FiredEffect
<1>7. QED
  BY <1>2, <1>4, <1>6

LEMMA NextSpacing ==
    TypeOK /\ SpacingInv /\ [Next]_vars
       => SpacingInv' /\ [\A m \in Modems : Spaced(m)]_vars
<1> SUFFICES ASSUME TypeOK, SpacingInv, [Next]_vars
             PROVE  SpacingInv' /\ [\A m \in Modems : Spaced(m)]_vars
  OBVIOUS
<1>1. ASSUME NEW D \in SUBSET Modems, NEW diag \in [D -> Snapshots],
             NEW thermal \in ThermalFlags, NEW expected \in ExpectedCounts,
             DriverResetCycle(D, diag, thermal, expected)
      PROVE  SpacingInv' /\ \A m \in Modems : Spaced(m)
  BY <1>1, DriverResetEffect DEF SpacingInv, Spaced, Executes
<1>2. ASSUME NEW D \in SUBSET Modems, NEW diag \in [D -> Snapshots],
             NEW thermal \in ThermalFlags, NEW expected \in ExpectedCounts,
             NEW maintenance \in BOOLEAN,
             PerModemCycle(D, diag, maintenance, thermal, expected)
      PROVE  SpacingInv' /\ \A m \in Modems : Spaced(m)
  BY <1>2, PerModemSpacing
<1>3. CASE Tick
  <2>1. now' /= now
    BY <1>3 DEF Tick, TypeOK
  <2>2. QED
    BY <1>3, <2>1 DEF Tick, SpacingInv, Spaced, Executes, engineVars, historyVars
<1>4. CASE UNCHANGED vars
  BY <1>4 DEF SpacingInv, vars, engineVars, historyVars
<1>5. QED
  BY <1>1, <1>2, <1>3, <1>4 DEF Next, Cycle, CycleOver

LEMMA InitSpacing == Init => SpacingInv
  BY DEF Init, SpacingInv

\* FR-25.1: however many modems, whatever is observed and however the counters
\* decay, two destructive actions on a modem are LadderMinInterval apart.
THEOREM DestructiveSpacingHolds == Spec => DestructiveSpacing
<1>1. [\A m \in Modems : Spaced(m)]_vars
        => [\A m \in Modems :
              (Executes(m, DestructiveKinds) /\ lastFired[m] /= Never)
                 => now - lastFired[m] >= LadderMinInterval]_vars
  BY DEF Spaced
<1>2. QED
  BY <1>1, InitType, NextType, InitSpacing, NextSpacing, PTL
     DEF Spec, DestructiveSpacing

-----------------------------------------------------------------------------
(* Budget *)

LEMMA NoDriverReset ==
    ASSUME NoneHung, NEW D, NEW diag \in [D -> Snapshots], NEW thermal, NEW last,
           NEW expected
    PROVE  ~DriverResetEligible(diag, thermal, last, expected, now)
<1>1. \A m \in DOMAIN diag : ~ChannelHung(diag[m])
  BY DEF NoneHung
<1>2. QED
  BY <1>1 DEF DriverResetEligible, HungModems

\* Under NoneHung a step of the engine is a per-modem cycle, a tick or a stutter.
LEMMA StepCases ==
    ASSUME NoneHung, [Next]_vars
    PROVE  \/ \E D \in SUBSET Modems : \E diag \in [D -> Snapshots] :
              \E thermal \in ThermalFlags, expected \in ExpectedCounts, maintenance \in BOOLEAN :
                 PerModemCycle(D, diag, maintenance, thermal, expected)
           \/ Tick
           \/ UNCHANGED vars
<1>1. ASSUME NEW D \in SUBSET Modems, NEW diag \in [D -> Snapshots],
             NEW thermal \in ThermalFlags, NEW expected \in ExpectedCounts
      PROVE  ~DriverResetCycle(D, diag, thermal, expected)
  BY <1>1, NoDriverReset DEF DriverResetCycle
<1>2. QED
  BY <1>1 DEF Next, Cycle, CycleOver

\* The stored streak, the decay it triggers and the plan, in terms of the history:
\* the engine clears the counters exactly when K healthy cycles in a row are full,
\* and never in a cycle that acts.
LEMMA RunEffect ==
    ASSUME TypeOK, BudgetInv, NEW D \in SUBSET Modems, NEW diag \in [D -> Snapshots],
           NEW maintenance, NEW thermal, NEW expected,
           PerModemCycle(D, diag, maintenance, thermal, expected), NEW m \in D
    PROVE  LET healthy == Transition(states[m], diag[m]).state = "healthy"
           IN  /\ states'[m].state = Transition(states[m], diag[m]).state
               /\ healthyRun'[m] = NewStreak(states[m], diag[m])
               /\ healthyRun'[m] = IF ~healthy THEN 0
                                   ELSE IF healthyRun[m] < HealthyStreakDecayK
                                          THEN healthyRun[m] + 1 ELSE 1
               /\ Decays(states[m], diag[m]) <=> healthyRun'[m] = HealthyStreakDecayK
               /\ WouldExecute(plans'[m]) => ~healthy /\ ~Decays(states[m], diag[m])
<1> DEFINE st == states[m]
           snap == diag[m]
           plan == plans'[m]
           healthy == Transition(st, snap).state = "healthy"
<1>1. /\ st \in ModemStates /\ now \in Nat /\ plan \in Plans /\ m \in Modems
      /\ healthyRun[m] \in 0 .. HealthyStreakDecayK
  BY PerModemEffect DEF TypeOK
<1>2. HealthyStreakDecayK \in Nat \ {0}
  BY SettingsAssumption DEF SettingsAssumption
<1>3. /\ plan = PlanFor(st, snap, now, maintenance)
      /\ states'[m] = FinalizePerModemState(st, snap, plan, now)
  BY <1>1, PerModemEffect
<1>4. WouldExecute(plan) => plan.kind \in ActionKinds /\ snap.issues /= << >>
  BY <1>1, <1>3, PlanSound
<1>5. FinalizePerModemState(st, snap, plan, now).state = Transition(st, snap).state
  BY <1>1, FinalizeKeepsVerdict
<1>6. healthyRun'[m] = RunAfter(m, states'[m].state = "healthy")
  BY <1>1 DEF PerModemCycle, RecordHistory
<1>7. healthyRun'[m] = IF ~healthy THEN 0
                       ELSE IF healthyRun[m] < HealthyStreakDecayK THEN healthyRun[m] + 1 ELSE 1
  BY <1>1, <1>2, <1>3, <1>5, <1>6 DEF RunAfter
<1>8. st.streak = IF healthyRun[m] = HealthyStreakDecayK THEN 0 ELSE healthyRun[m]
  BY <1>1 DEF BudgetInv
<1>9. healthyRun'[m] = NewStreak(st, snap)
  BY <1>1, <1>2, <1>7, <1>8 DEF NewStreak
<1>10. Decays(st, snap) <=> healthyRun'[m] = HealthyStreakDecayK
  BY <1>1, <1>2, <1>7, <1>9 DEF Decays
<1>11. WouldExecute(plan) => ~healthy
  BY <1>1, <1>4, IssuesMeanIll
<1>12. QED
  BY <1>2, <1>3, <1>5, <1>7, <1>9, <1>10, <1>11

LEMMA SpentEffect ==
    ASSUME TypeOK, BudgetInv, NEW D \in SUBSET Modems, NEW diag \in [D -> Snapshots],
           NEW maintenance, NEW thermal, NEW expected,
           PerModemCycle(D, diag, maintenance, thermal, expected), NEW m \in D
    PROVE  LET plan == plans'[m]
               climbs == WouldExecute(plan) /\ plan.kind \in LadderRungs
           IN  /\ spent'[m] = IF healthyRun'[m] = HealthyStreakDecayK
                                THEN [k \in LadderRungs |-> 0]
                              ELSE IF climbs THEN [spent[m] EXCEPT ![plan.kind] = @ + 1]
                              ELSE spent[m]
               /\ climbs => spent[m][plan.kind] < Ceiling[plan.kind]
               /\ \A k \in LadderRungs : spent'[m][k] = states'[m].counters[k]
<1> DEFINE st == states[m]
           snap == diag[m]
           plan == plans'[m]
           kept == DecayedCounters(st, snap)
           climbs == WouldExecute(plan) /\ plan.kind \in LadderRungs
<1>1. /\ st \in ModemStates /\ now \in Nat /\ plan \in Plans /\ m \in Modems
      /\ spent[m] \in [LadderRungs -> Nat]
      /\ healthyRun'[m] \in 0 .. HealthyStreakDecayK
  <2>1. healthyRun' \in [Modems -> 0 .. HealthyStreakDecayK]
    <3>1. plans' \in [Modems -> Plans]
      BY PerModemEffect DEF PerModemCycle
    <3>2. RecordHistory(D, states', plans')
      BY DEF PerModemCycle
    <3>3. QED
      BY <3>1, <3>2, HistoryType
  <2>2. QED
    BY <2>1, PerModemEffect DEF TypeOK
<1>2. HealthyStreakDecayK \in Nat \ {0}
  BY SettingsAssumption DEF SettingsAssumption
<1>3. /\ plan = PlanFor(st, snap, now, maintenance)
      /\ states'[m] = FinalizePerModemState(st, snap, plan, now)
  BY <1>1, PerModemEffect
<1>4. WouldExecute(plan) =>
         /\ plan.kind \in ActionKinds
         /\ plan.kind \in LadderRungs => kept[plan.kind] < Ceiling[plan.kind]
  BY <1>1, <1>3, PlanSound
<1>5. kept \in [ActionKinds -> Nat] /\ st.counters \in [ActionKinds -> Nat]
  BY <1>1, StreakType DEF ModemStates
<1>6. FinalizePerModemState(st, snap, plan, now).counters =
        IF WouldExecute(plan) THEN [kept EXCEPT ![plan.kind] = @ + 1] ELSE kept
  <2>1. WouldExecute(plan) => plan.kind \in ActionKinds
    BY <1>4
  <2>2. QED
    BY <1>1, <2>1, FinalizeSound
<1>7. /\ Decays(st, snap) <=> healthyRun'[m] = HealthyStreakDecayK
      /\ WouldExecute(plan) => ~Decays(st, snap)
  BY RunEffect
<1>8. kept = IF healthyRun'[m] = HealthyStreakDecayK THEN ZeroCounters ELSE st.counters
  BY <1>7 DEF DecayedCounters
<1>9. spent'[m] = [k \in LadderRungs |->
          IF healthyRun'[m] >= HealthyStreakDecayK THEN 0
          ELSE IF WouldExecute(plan) /\ plan.kind = k THEN spent[m][k] + 1
          ELSE spent[m][k]]
  BY <1>1 DEF PerModemCycle, RecordHistory
<1>10. spent'[m] = IF healthyRun'[m] = HealthyStreakDecayK THEN [k \in LadderRungs |-> 0]
                   ELSE IF climbs THEN [spent[m] EXCEPT ![plan.kind] = @ + 1]
                   ELSE spent[m]
  <2>1. healthyRun'[m] >= HealthyStreakDecayK <=> healthyRun'[m] = HealthyStreakDecayK
    BY <1>1, <1>2
  <2>2. CASE healthyRun'[m] = HealthyStreakDecayK
    BY <1>9, <2>1, <2>2
  <2>3. CASE healthyRun'[m] /= HealthyStreakDecayK /\ climbs
    BY <1>1, <1>9, <2>1, <2>3
  <2>4. CASE healthyRun'[m] /= HealthyStreakDecayK /\ ~climbs
    BY <1>1, <1>9, <2>1, <2>4
  <2>5. QED
    BY <2>2, <2>3, <2>4
<1>11. \A k \in LadderRungs : spent[m][k] = st.counters[k]
  BY <1>1 DEF BudgetInv
<1>12. climbs => spent[m][plan.kind] < Ceiling[plan.kind]
  BY <1>4, <1>7, <1>8, <1>11
<1>13. ASSUME NEW k \in LadderRungs
       PROVE  spent'[m][k] = states'[m].counters[k]
  <2>1. k \in ActionKinds
    BY KindFacts
  <2>2. CASE healthyRun'[m] = HealthyStreakDecayK
    BY <1>3, <1>6, <1>7, <1>8, <1>10, <2>1, <2>2 DEF ZeroCounters
  <2>3. CASE healthyRun'[m] /= HealthyStreakDecayK /\ WouldExecute(plan)
    BY <1>1, <1>3, <1>4, <1>5, <1>6, <1>8, <1>10, <1>11, <2>1, <2>3
  <2>4. CASE healthyRun'[m] /= HealthyStreakDecayK /\ ~WouldExecute(plan)
    BY <1>1, <1>3, <1>5, <1>6, <1>8, <1>10, <1>11, <2>1, <2>4
  <2>5. QED
    BY <2>2, <2>3, <2>4
<1>14. QED
  BY <1>10, <1>12, <1>13

LEMMA PerModemBudget ==
    ASSUME TypeOK, BudgetInv, NEW D \in SUBSET Modems, NEW diag \in [D -> Snapshots],
           NEW maintenance, NEW thermal, NEW expected,
           PerModemCycle(D, diag, maintenance, thermal, expected)
    PROVE  BudgetInv'
<1> SUFFICES ASSUME NEW m \in Modems
             PROVE  /\ states'[m].streak = IF healthyRun'[m] = HealthyStreakDecayK
                                             THEN 0 ELSE healthyRun'[m]
                    /\ \A k \in LadderRungs :
                          /\ spent'[m][k] = states'[m].counters[k]
                          /\ spent'[m][k] <= Ceiling[k]
                          /\ healthyRun'[m] = HealthyStreakDecayK => spent'[m][k] = 0
  BY DEF BudgetInv
<1>1. HealthyStreakDecayK \in Nat \ {0} /\ healthyRun[m] \in 0 .. HealthyStreakDecayK
  BY SettingsAssumption DEF SettingsAssumption, TypeOK
<1>2. RecordHistory(D, states', plans')
  BY DEF PerModemCycle
<1>3. \A k \in LadderRungs : Ceiling[k] \in Nat /\ spent[m][k] \in Nat
  BY CeilingType DEF TypeOK
<1>4. CASE m \notin D
  <2>1. states'[m] = states[m] /\ plans'[m] = NoPlan
    BY <1>4, PerModemEffect
  <2>2. ~WouldExecute(plans'[m])
    BY <2>1 DEF WouldExecute, NoPlan, NoAction
  <2>3. healthyRun'[m] = healthyRun[m]
    BY <1>2, <1>4 DEF RecordHistory
  <2>4. \A k \in LadderRungs :
           spent'[m][k] = IF healthyRun[m] >= HealthyStreakDecayK THEN 0 ELSE spent[m][k]
    BY <1>2, <2>2, <2>3 DEF RecordHistory
  <2>5. \A k \in LadderRungs : spent'[m][k] = spent[m][k]
    BY <1>1, <2>4 DEF BudgetInv
  <2>6. QED
    BY <2>1, <2>3, <2>5 DEF BudgetInv
<1>5. CASE m \in D
  <2> DEFINE plan == plans'[m]
             new == FinalizePerModemState(states[m], diag[m], plan, now)
  <2>1. /\ plan = PlanFor(states[m], diag[m], now, maintenance)
        /\ plan \in Plans /\ states'[m] = new
        /\ states[m] \in ModemStates /\ now \in Nat
    BY <1>5, PerModemEffect DEF TypeOK
  <2>2. WouldExecute(plan) => plan.kind \in ActionKinds
    BY <2>1, PlanSound
  <2>3. new.streak = IF Decays(states[m], diag[m]) THEN 0 ELSE NewStreak(states[m], diag[m])
    BY <2>1, <2>2, FinalizeSound
  <2>4. /\ healthyRun'[m] = NewStreak(states[m], diag[m])
        /\ Decays(states[m], diag[m]) <=> healthyRun'[m] = HealthyStreakDecayK
    BY <1>5, RunEffect
  <2>5. states'[m].streak = IF healthyRun'[m] = HealthyStreakDecayK THEN 0 ELSE healthyRun'[m]
    BY <2>1, <2>3, <2>4
  <2>6. \A k \in LadderRungs : spent'[m][k] = states'[m].counters[k]
    BY <1>5, SpentEffect
  <2>7. healthyRun'[m] = HealthyStreakDecayK => \A k \in LadderRungs : spent'[m][k] = 0
    BY <1>5, SpentEffect
  <2>8. ASSUME NEW k \in LadderRungs PROVE spent'[m][k] <= Ceiling[k]
    <3> DEFINE climbs == WouldExecute(plan) /\ plan.kind \in LadderRungs
    <3>1. /\ spent'[m] = IF healthyRun'[m] = HealthyStreakDecayK THEN [j \in LadderRungs |-> 0]
                         ELSE IF climbs THEN [spent[m] EXCEPT ![plan.kind] = @ + 1]
                         ELSE spent[m]
          /\ climbs => spent[m][plan.kind] < Ceiling[plan.kind]
      BY <1>5, SpentEffect
    <3>2. spent[m] \in [LadderRungs -> Nat] /\ spent[m][k] <= Ceiling[k]
      BY DEF TypeOK, BudgetInv
    <3> HIDE DEF climbs
    <3>3. QED
      BY <1>3, <3>1, <3>2
  <2>9. QED
    BY <2>5, <2>6, <2>7, <2>8
<1>6. QED
  BY <1>4, <1>5

LEMMA NextBudget ==
    ASSUME NoneHung PROVE TypeOK /\ BudgetInv /\ [Next]_vars => BudgetInv'
<1> SUFFICES ASSUME TypeOK, BudgetInv, [Next]_vars PROVE BudgetInv'
  OBVIOUS
<1>1. CASE UNCHANGED <<engineVars, historyVars>>
  BY <1>1 DEF BudgetInv, engineVars, historyVars
<1>2. QED
  BY <1>1, StepCases, PerModemBudget DEF Tick, vars

LEMMA InitBudget == Init => BudgetInv
<1>1. \A k \in LadderRungs : 0 <= Ceiling[k]
  BY CeilingType
<1>2. FreshState.streak = 0 /\ \A k \in LadderRungs : FreshState.counters[k] = 0
  BY KindFacts DEF FreshState, ZeroCounters
<1>3. HealthyStreakDecayK /= 0
  BY SettingsAssumption DEF SettingsAssumption
<1>4. QED
  BY <1>1, <1>2, <1>3 DEF Init, BudgetInv

\* FR-26, RECOVERY_SPEC 4.1: where no channel hangs, no rung is ever executed
\* more often than its ceiling between two full runs of healthy cycles.
THEOREM LadderBudgetHolds ==
    ASSUME NoneHung PROVE Spec => []LadderBudget
<1>1. BudgetInv => LadderBudget
  BY DEF BudgetInv, LadderBudget
<1>2. QED
  BY <1>1, InitType, NextType, InitBudget, NextBudget, PTL DEF Spec

-----------------------------------------------------------------------------
(* The promise *)

\* A modem's part of a cycle is one of the things the promise allows a round to do.
LEMMA ModemRefines ==
    ASSUME TypeOK, SpacingInv, BudgetInv, NEW D \in SUBSET Modems,
           NEW diag \in [D -> Snapshots], NEW maintenance, NEW thermal, NEW expected,
           PerModemCycle(D, diag, maintenance, thermal, expected), NEW m \in Modems
    PROVE  \/ Promise!Skipped(m) \/ Promise!FoundHealthy(m) \/ Promise!FoundIll(m)
           \/ \E k \in LadderRungs : Promise!Reset(m, k)
<1> DEFINE plan == plans'[m]
           K == HealthyStreakDecayK
           climbs == WouldExecute(plan) /\ plan.kind \in LadderRungs
           fires == WouldExecute(plan) /\ plan.kind \in DestructiveKinds
<1>1. /\ K \in Nat \ {0} /\ healthyRun[m] \in 0 .. K
      /\ spent[m] \in [LadderRungs -> Nat] /\ now \in Nat
      /\ lastFired[m] \in Timestamps
  BY SettingsAssumption DEF SettingsAssumption, TypeOK
<1>2. lastFired'[m] = IF fires THEN now ELSE lastFired[m]
  <2>1. RecordHistory(D, states', plans')
    BY DEF PerModemCycle
  <2>2. QED
    BY <2>1, FiredEffect
<1>3. fires => lastFired[m] = -1 \/ now - lastFired[m] >= LadderMinInterval
  <2> SUFFICES ASSUME fires, lastFired[m] /= Never
               PROVE  now - lastFired[m] >= LadderMinInterval
    BY DEF Never
  <2>1. PICK j \in DestructiveKinds : states[m].last[j] = lastFired[m]
    BY DEF SpacingInv
  <2>2. QED
    BY <2>1, LastEffect
<1>4. CASE m \notin D
  <2>1. ~WouldExecute(plan)
    BY <1>4, PerModemEffect DEF WouldExecute, NoPlan, NoAction
  <2>2. healthyRun'[m] = healthyRun[m]
    BY <1>4 DEF PerModemCycle, RecordHistory
  <2>3. spent'[m] = [k \in LadderRungs |-> IF healthyRun[m] >= K THEN 0 ELSE spent[m][k]]
    BY <2>1, <2>2 DEF PerModemCycle, RecordHistory
  <2>4. \A k \in LadderRungs : healthyRun[m] >= K => spent[m][k] = 0
    BY <1>1 DEF BudgetInv
  <2>5. spent'[m] = spent[m]
    BY <1>1, <2>3, <2>4
  <2>6. Promise!Skipped(m)
    BY <1>2, <2>1, <2>2, <2>5 DEF Promise!Skipped
  <2>7. QED
    BY <2>6
<1>5. CASE m \in D
  <2> DEFINE healthy == Transition(states[m], diag[m]).state = "healthy"
  <2>1. /\ healthyRun'[m] = IF ~healthy THEN 0
                            ELSE IF healthyRun[m] < K THEN healthyRun[m] + 1 ELSE 1
        /\ WouldExecute(plan) => ~healthy
    BY <1>5, RunEffect
  <2>2. /\ spent'[m] = IF healthyRun'[m] = K THEN [k \in LadderRungs |-> 0]
                       ELSE IF climbs THEN [spent[m] EXCEPT ![plan.kind] = @ + 1]
                       ELSE spent[m]
        /\ climbs => spent[m][plan.kind] < Ceiling[plan.kind]
    BY <1>5, SpentEffect
  <2> HIDE DEF healthy
  <2>3. CASE healthy
    BY <1>1, <1>2, <2>1, <2>2, <2>3 DEF Promise!FoundHealthy, Promise!None
  <2>4. CASE ~healthy /\ ~climbs
    <3>1. healthyRun'[m] = 0 /\ spent'[m] = spent[m]
      BY <1>1, <2>1, <2>2, <2>4
    <3>2. lastFired'[m] = lastFired[m] \/ (lastFired'[m] = now /\ fires)
      BY <1>2
    <3>3. now \in 0 .. now
      BY <1>1
    <3>4. Promise!FoundIll(m)
      BY <1>3, <3>1, <3>2, <3>3 DEF Promise!FoundIll, Promise!Spaced
    <3>5. QED
      BY <3>4
  <2>5. CASE ~healthy /\ climbs
    <3>1. /\ healthyRun'[m] = 0
          /\ spent'[m] = [spent[m] EXCEPT ![plan.kind] = @ + 1]
          /\ spent[m][plan.kind] < Ceiling[plan.kind]
      BY <1>1, <2>1, <2>2, <2>5
    <3>2. IF plan.kind \in DestructiveKinds
            THEN lastFired'[m] \in 0 .. now /\ Promise!Spaced(m)
            ELSE lastFired'[m] = lastFired[m]
      BY <1>1, <1>2, <1>3, <2>5 DEF Promise!Spaced
    <3>3. Promise!Reset(m, plan.kind)
      BY <3>1, <3>2 DEF Promise!Reset
    <3>4. QED
      BY <2>5, <3>3
  <2>6. QED
    BY <2>3, <2>4, <2>5
<1>6. QED
  BY <1>4, <1>5

LEMMA StepRefines ==
    ASSUME NoneHung
    PROVE  TypeOK /\ SpacingInv /\ BudgetInv /\ [Next]_vars => [Promise!Next]_(Promise!vars)
<1> SUFFICES ASSUME TypeOK, SpacingInv, BudgetInv, [Next]_vars
             PROVE  [Promise!Next]_(Promise!vars)
  OBVIOUS
<1>1. ASSUME NEW D \in SUBSET Modems, NEW diag \in [D -> Snapshots],
             NEW thermal \in ThermalFlags, NEW expected \in ExpectedCounts,
             NEW maintenance \in BOOLEAN,
             PerModemCycle(D, diag, maintenance, thermal, expected)
      PROVE  Promise!Round
  <2>1. \A m \in Modems : \/ Promise!Skipped(m) \/ Promise!FoundHealthy(m)
                           \/ Promise!FoundIll(m) \/ Promise!NewSim(m)
                           \/ \E k \in LadderRungs : Promise!Reset(m, k)
    BY <1>1, ModemRefines
  <2>2. /\ spent' = [m \in Modems |-> spent'[m]]
        /\ lastFired' = [m \in Modems |-> lastFired'[m]]
        /\ healthyRun' = [m \in Modems |-> healthyRun'[m]]
    <3>1. RecordHistory(D, states', plans')
      BY <1>1 DEF PerModemCycle
    <3>2. plans' \in [Modems -> Plans]
      BY <1>1, PerModemEffect DEF PerModemCycle
    <3>3. QED
      BY <3>1, <3>2, HistoryType
  <2>3. UNCHANGED now
    BY <1>1 DEF PerModemCycle
  <2>4. QED
    BY <2>1, <2>2, <2>3 DEF Promise!Round
<1>2. CASE Tick
  BY <1>2 DEF Tick, historyVars, Promise!Tick, Promise!Next
<1>3. CASE UNCHANGED vars
  BY <1>3 DEF vars, historyVars, Promise!vars
<1>4. QED
  BY <1>1, <1>2, <1>3, StepCases DEF Promise!Next

LEMMA InitRefines == Init => Promise!Init
  BY DEF Init, Promise!Init, Promise!None, Never

\* The engine, called on its own output for ever, keeps what RecoveryBudget
\* promises, where no channel hangs.
THEOREM EngineImplementsBudget ==
    ASSUME NoneHung PROVE Spec => ImplementsBudget
  BY InitType, NextType, InitSpacing, NextSpacing, InitBudget, NextBudget, InitRefines,
     StepRefines, PTL DEF Spec, ImplementsBudget, Promise!Spec

-----------------------------------------------------------------------------
(* What a single plan is allowed to be *)

\* A usb_reset the ladder escalated to comes after the last modem_reset.
LEMMA UsbComesLast ==
    ASSUME NoneAsksForUsbReset, NEW st \in ModemStates, NEW snap \in Snapshots,
           SelectAction(st, snap) = "usb_reset"
    PROVE  DecayedCounters(st, snap)["modem_reset"] >= MaxModem
<1> DEFINE base == LookupAction(SelectTopPriorityIssue(snap.issues))
           counters == DecayedCounters(st, snap)
<1>1. "usb_reset" \in LadderRungs /\ "modem_reset" \in LadderRungs
  BY DEF LadderRungs
<1>2. snap.issues /= << >>
  BY <1>1, KindFacts DEF SelectAction
<1>3. SelectRung(base, counters) = "usb_reset" /\ base /= "usb_reset"
  BY <1>2 DEF SelectAction, NoneAsksForUsbReset
<1>4. counters \in [ActionKinds -> Nat]
  BY StreakType
<1> HIDE DEF base, counters
<1>5. /\ base \in LadderRungs
      /\ RungIndex[base] <= RungIndex["modem_reset"]
            /\ RungIndex["modem_reset"] < RungIndex["usb_reset"]
            => counters["modem_reset"] >= Ceiling["modem_reset"]
  BY <1>1, <1>3, <1>4, RungHasBudget
<1>6. RungIndex[base] <= RungIndex["modem_reset"]
  BY <1>3, <1>5 DEF LadderRungs, RungIndex
<1>7. RungIndex["modem_reset"] < RungIndex["usb_reset"] /\ Ceiling["modem_reset"] = MaxModem
  BY DEF RungIndex, Ceiling
<1>8. QED
  BY <1>5, <1>6, <1>7 DEF counters

\* RECOVERY_SPEC 4.1: where no channel hangs and nothing asks for a usb_reset
\* outright, a modem is re-enumerated only after its modem_resets are spent.
THEOREM NoRungSkippedHolds ==
    ASSUME NoneHung, NoneAsksForUsbReset PROVE Spec => []NoRungSkipped
<1>1. Init => NoRungSkipped
  BY DEF Init, NoRungSkipped, LadderRungs
<1>2. TypeOK /\ BudgetInv /\ NoRungSkipped /\ [Next]_vars => NoRungSkipped'
  <2> SUFFICES ASSUME TypeOK, BudgetInv, NoRungSkipped, [Next]_vars, NEW m \in Modems
               PROVE  spent'[m]["usb_reset"] > 0 => spent'[m]["modem_reset"] >= MaxModem
    BY DEF NoRungSkipped
  <2>1. "usb_reset" \in LadderRungs /\ "modem_reset" \in LadderRungs
    BY DEF LadderRungs
  <2>2. /\ spent[m] \in [LadderRungs -> Nat]
        /\ spent[m]["usb_reset"] > 0 => spent[m]["modem_reset"] >= MaxModem
        /\ MaxModem \in Nat
    BY SettingsAssumption DEF TypeOK, NoRungSkipped, SettingsAssumption
  <2>3. ASSUME NEW D \in SUBSET Modems, NEW diag \in [D -> Snapshots],
               NEW thermal \in ThermalFlags, NEW expected \in ExpectedCounts,
               NEW maintenance \in BOOLEAN,
               PerModemCycle(D, diag, maintenance, thermal, expected)
        PROVE  spent'[m]["usb_reset"] > 0 => spent'[m]["modem_reset"] >= MaxModem
    <3> DEFINE plan == plans'[m]
               climbs == WouldExecute(plan) /\ plan.kind \in LadderRungs
    <3>1. CASE m \notin D
      <4>1. ~WouldExecute(plan)
        BY <2>3, <3>1, PerModemEffect DEF WouldExecute, NoPlan, NoAction
      <4>2. /\ healthyRun'[m] = healthyRun[m]
            /\ \A k \in LadderRungs :
                  spent'[m][k] = IF healthyRun'[m] >= HealthyStreakDecayK THEN 0 ELSE spent[m][k]
        BY <2>3, <3>1, <4>1 DEF PerModemCycle, RecordHistory
      <4>3. QED
        BY <2>1, <2>2, <4>2
    <3>2. CASE m \in D
      <4>1. spent'[m] = IF healthyRun'[m] = HealthyStreakDecayK THEN [k \in LadderRungs |-> 0]
                        ELSE IF climbs THEN [spent[m] EXCEPT ![plan.kind] = @ + 1]
                        ELSE spent[m]
        BY <2>3, <3>2, SpentEffect
      <4>2. ASSUME climbs, plan.kind = "usb_reset"
            PROVE  spent[m]["modem_reset"] >= MaxModem
        <5>1. states[m] \in ModemStates /\ diag[m] \in Snapshots
          BY <3>2 DEF TypeOK
        <5>2. plan = PlanFor(states[m], diag[m], now, maintenance)
          BY <2>3, <3>2, PerModemEffect
        <5>3. SelectAction(states[m], diag[m]) = "usb_reset"
          BY <4>2, <5>1, <5>2, PlanSound
        <5>4. DecayedCounters(states[m], diag[m])["modem_reset"] >= MaxModem
          BY <5>1, <5>3, UsbComesLast
        <5>5. DecayedCounters(states[m], diag[m]) = states[m].counters
          BY <2>3, <3>2, <4>2, RunEffect DEF DecayedCounters
        <5>6. QED
          BY <2>1, <5>4, <5>5 DEF BudgetInv
      <4> HIDE DEF climbs, plan
      <4>3. CASE healthyRun'[m] = HealthyStreakDecayK
        BY <2>1, <4>1, <4>3
      <4>4. CASE healthyRun'[m] /= HealthyStreakDecayK /\ climbs
        <5>1. plan.kind \in LadderRungs
          BY <4>4 DEF climbs
        <5>2. QED
          BY <2>1, <2>2, <4>1, <4>2, <4>4, <5>1
      <4>5. CASE healthyRun'[m] /= HealthyStreakDecayK /\ ~climbs
        BY <2>2, <4>1, <4>5
      <4>6. QED
        BY <4>3, <4>4, <4>5
    <3>3. QED
      BY <3>1, <3>2
  <2>4. CASE UNCHANGED <<engineVars, historyVars>>
    BY <2>2, <2>4 DEF historyVars
  <2>5. QED
    BY <2>3, <2>4, StepCases DEF Tick, vars
<1>3. QED
  BY <1>1, <1>2, InitType, NextType, InitBudget, NextBudget, PTL DEF Spec

\* FR-20, RECOVERY_SPEC 6.1: no destructive action is planned for a modem that the
\* same cycle found healthy or below a signal floor.
THEOREM DestructiveOnlyWhenCalledForHolds == Spec => []DestructiveOnlyWhenCalledFor
<1> DEFINE Called(m) ==
             WouldExecute(plans[m]) /\ plans[m].kind \in DestructiveKinds
                => ~states[m].rf_blocked /\ states[m].state /= "healthy"
<1>1. Init => DestructiveOnlyWhenCalledFor
  BY DEF Init, DestructiveOnlyWhenCalledFor, WouldExecute, NoPlan, NoAction
<1>2. TypeOK /\ DestructiveOnlyWhenCalledFor /\ [Next]_vars => DestructiveOnlyWhenCalledFor'
  <2> SUFFICES ASSUME TypeOK, DestructiveOnlyWhenCalledFor, [Next]_vars, NEW m \in Modems
               PROVE  Called(m)'
    BY DEF DestructiveOnlyWhenCalledFor
  <2>1. ASSUME NEW D \in SUBSET Modems, NEW diag \in [D -> Snapshots],
               NEW thermal \in ThermalFlags, NEW expected \in ExpectedCounts,
               DriverResetCycle(D, diag, thermal, expected)
        PROVE  Called(m)'
    BY <2>1, DriverResetEffect
  <2>2. ASSUME NEW D \in SUBSET Modems, NEW diag \in [D -> Snapshots],
               NEW thermal \in ThermalFlags, NEW expected \in ExpectedCounts,
               NEW maintenance \in BOOLEAN,
               PerModemCycle(D, diag, maintenance, thermal, expected)
        PROVE  Called(m)'
    <3> SUFFICES ASSUME WouldExecute(plans'[m]), plans'[m].kind \in DestructiveKinds
                 PROVE  ~states'[m].rf_blocked /\ states'[m].state /= "healthy"
      OBVIOUS
    <3>1. m \in D
      BY <2>2, LastEffect
    <3> DEFINE new == Transition(states[m], diag[m])
               final == FinalizePerModemState(states[m], diag[m], plans'[m], now)
    <3>2. /\ states[m] \in ModemStates /\ now \in Nat /\ plans'[m] \in Plans
          /\ plans'[m] = PlanFor(states[m], diag[m], now, maintenance)
          /\ states'[m] = final
      BY <2>2, <3>1, PerModemEffect DEF TypeOK
    <3>3. /\ plans'[m].kind \in ActionKinds /\ diag[m].issues /= << >>
          /\ ~GateSignal(new, plans'[m].kind)
      BY <3>2, PlanSound
    <3>4. final.state = new.state /\ final.rf_blocked = new.rf_blocked
      BY <3>2, FinalizeKeepsVerdict
    <3>5. new.state /= "healthy"
      BY <3>2, <3>3, IssuesMeanIll
    <3>6. ~new.rf_blocked
      BY <3>3 DEF GateSignal
    <3>7. QED
      BY <3>2, <3>4, <3>5, <3>6
  <2>3. CASE UNCHANGED <<engineVars, historyVars>>
    BY <2>3 DEF DestructiveOnlyWhenCalledFor, engineVars
  <2>4. QED
    BY <2>1, <2>2, <2>3 DEF Next, Cycle, CycleOver, Tick, vars
<1>3. QED
  BY <1>1, <1>2, InitType, NextType, PTL DEF Spec

-----------------------------------------------------------------------------
(* The global driver reset *)

\* What n driver resets can cost a rung, and the time they take.
Price(k, n) == Ceiling[k] * n
Span(n) == GlobalBackoff * n

\* A streak that runs ahead of the run of healthy cycles is one budget still to be
\* given away, which some driver reset has paid for.
Covered(m, k) ==
    /\ states[m].counters[k] <= Ceiling[k]
    /\ healthyRun[m] = HealthyStreakDecayK => spent[m][k] = 0
    /\ spent[m][k] <= states[m].counters[k] + Price(k, driverReset.count)
    /\ states[m].streak > healthyRun[m] =>
          spent[m][k] + Ceiling[k] <= states[m].counters[k] + Price(k, driverReset.count)

ResetsInv ==
    /\ driverReset.last = Never => driverReset.count = 0
    /\ driverReset.last <= now
    /\ Span(driverReset.count) <= driverReset.last + GlobalBackoff
          \/ driverReset.count = 0
    /\ \A m \in Modems :
          /\ states[m].streak < HealthyStreakDecayK
          /\ driverReset.count = 0 =>
                states[m].streak = IF healthyRun[m] = HealthyStreakDecayK THEN 0 ELSE healthyRun[m]
          /\ \A k \in LadderRungs : Covered(m, k)

LEMMA PriceFacts ==
    ASSUME NEW k \in LadderRungs, NEW n \in Nat
    PROVE  /\ Price(k, n) \in Nat /\ Ceiling[k] \in Nat
           /\ Price(k, n + 1) = Price(k, n) + Ceiling[k]
           /\ n > 0 => Price(k, n) >= Ceiling[k]
<1>1. Ceiling[k] \in Nat
  BY CeilingType
<1>2. \A c \in Nat : c * n \in Nat /\ c * (n + 1) = c * n + c
  OBVIOUS
<1>3. \A c \in Nat : n > 0 => c * (n - 1) \in Nat /\ c * n = c * (n - 1) + c
  OBVIOUS
<1>4. QED
  BY <1>1, <1>2, <1>3 DEF Price

LEMMA SpanFacts ==
    ASSUME NEW n \in Nat
    PROVE  /\ Span(n) \in Nat /\ GlobalBackoff \in Nat /\ GlobalBackoff > 0
           /\ Span(n + 1) = Span(n) + GlobalBackoff
           /\ Span(1) = GlobalBackoff
<1>1. GlobalBackoff \in Nat /\ GlobalBackoff > 0
  BY SettingsAssumption DEF SettingsAssumption
<1>2. \A c \in Nat : c * n \in Nat /\ c * (n + 1) = c * n + c /\ c * 1 = c
  OBVIOUS
<1>3. QED
  BY <1>1, <1>2 DEF Span

\* What a cycle without driver reset does to a modem: it was not observed, or found
\* healthy, or found ill and perhaps acted on.
LEMMA CycleMoves ==
    ASSUME TypeOK, NEW D \in SUBSET Modems, NEW diag \in [D -> Snapshots],
           NEW maintenance, NEW thermal, NEW expected,
           PerModemCycle(D, diag, maintenance, thermal, expected), NEW m \in Modems
    PROVE  LET K == HealthyStreakDecayK
               st == states[m]
               new == states'[m]
           IN  \/ /\ new.streak = st.streak /\ healthyRun'[m] = healthyRun[m]
                  /\ \A k \in LadderRungs :
                        /\ new.counters[k] = st.counters[k]
                        /\ spent'[m][k] = IF healthyRun[m] >= K THEN 0 ELSE spent[m][k]
               \/ /\ healthyRun'[m] = IF healthyRun[m] >= K THEN 1 ELSE healthyRun[m] + 1
                  /\ new.streak = IF st.streak + 1 >= K THEN 0 ELSE st.streak + 1
                  /\ \A k \in LadderRungs :
                        /\ new.counters[k] = IF st.streak + 1 >= K THEN 0 ELSE st.counters[k]
                        /\ spent'[m][k] = IF healthyRun'[m] >= K THEN 0 ELSE spent[m][k]
               \/ /\ healthyRun'[m] = 0 /\ new.streak = 0
                  /\ \A k \in LadderRungs :
                        \/ new.counters[k] = st.counters[k] /\ spent'[m][k] = spent[m][k]
                        \/ /\ st.counters[k] < Ceiling[k]
                           /\ new.counters[k] = st.counters[k] + 1
                           /\ spent'[m][k] = spent[m][k] + 1
<1> DEFINE K == HealthyStreakDecayK
           st == states[m]
           snap == diag[m]
           plan == plans'[m]
           new == states'[m]
           kept == DecayedCounters(st, snap)
           healthy == Transition(st, snap).state = "healthy"
<1>1. /\ K \in Nat /\ K > 0 /\ st \in ModemStates /\ now \in Nat /\ plan \in Plans
      /\ st.streak \in Nat /\ st.counters \in [ActionKinds -> Nat]
      /\ healthyRun[m] \in 0 .. K
  <2>1. K \in Nat /\ K > 0
    BY SettingsAssumption DEF SettingsAssumption
  <2>2. plan \in Plans
    BY PerModemEffect
  <2>3. st \in ModemStates /\ now \in Nat /\ healthyRun[m] \in 0 .. K
    BY DEF TypeOK
  <2>4. st.streak \in Nat /\ st.counters \in [ActionKinds -> Nat]
    BY <2>3 DEF ModemStates
  <2>5. QED
    BY <2>1, <2>2, <2>3, <2>4
<1>2. \A k \in LadderRungs : spent'[m][k] =
         IF healthyRun'[m] >= K THEN 0
         ELSE IF WouldExecute(plan) /\ plan.kind = k THEN spent[m][k] + 1 ELSE spent[m][k]
  BY DEF PerModemCycle, RecordHistory
<1>3. CASE m \notin D
  <2>1. new = st /\ ~WouldExecute(plan)
    BY <1>3, PerModemEffect DEF WouldExecute, NoPlan, NoAction
  <2>2. healthyRun'[m] = healthyRun[m]
    BY <1>3 DEF PerModemCycle, RecordHistory
  <2>3. QED
    BY <1>2, <2>1, <2>2
<1>4. CASE m \in D
  <2>1. /\ plan = PlanFor(st, snap, now, maintenance)
        /\ new = FinalizePerModemState(st, snap, plan, now)
    BY <1>4, PerModemEffect
  <2>2. WouldExecute(plan) =>
           /\ plan.kind \in ActionKinds /\ snap.issues /= << >>
           /\ plan.kind \in LadderRungs => kept[plan.kind] < Ceiling[plan.kind]
    BY <1>1, <2>1, PlanSound
  <2>3. /\ new.streak = IF Decays(st, snap) THEN 0 ELSE NewStreak(st, snap)
        /\ new.counters = IF WouldExecute(plan) THEN [kept EXCEPT ![plan.kind] = @ + 1]
                                                ELSE kept
    <3>1. WouldExecute(plan) => plan.kind \in ActionKinds
      BY <2>2
    <3>2. FinalizePerModemState(st, snap, plan, now).streak =
             IF Decays(st, snap) THEN 0 ELSE NewStreak(st, snap)
      BY <1>1, <3>1, FinalizeSound
    <3>3. FinalizePerModemState(st, snap, plan, now).counters =
             IF WouldExecute(plan) THEN [kept EXCEPT ![plan.kind] = @ + 1] ELSE kept
      BY <1>1, <3>1, FinalizeSound
    <3>4. QED
      BY <2>1, <3>2, <3>3
  <2>4. healthyRun'[m] = RunAfter(m, healthy)
    <3>1. new.state = Transition(st, snap).state
      BY <1>1, <2>1, FinalizeKeepsVerdict
    <3>2. QED
      BY <1>4, <3>1 DEF PerModemCycle, RecordHistory
  <2>5. CASE healthy
    <3>1. ~WouldExecute(plan)
      BY <1>1, <2>2, <2>5, IssuesMeanIll
    <3>2. NewStreak(st, snap) = st.streak + 1 /\ (Decays(st, snap) <=> st.streak + 1 >= K)
      BY <2>5 DEF NewStreak, Decays
    <3>3. new.streak = IF st.streak + 1 >= K THEN 0 ELSE st.streak + 1
      BY <2>3, <3>2
    <3>4. \A k \in LadderRungs :
             new.counters[k] = IF st.streak + 1 >= K THEN 0 ELSE st.counters[k]
      BY <2>3, <3>1, <3>2, KindFacts DEF DecayedCounters, ZeroCounters
    <3>5. healthyRun'[m] = IF healthyRun[m] >= K THEN 1 ELSE healthyRun[m] + 1
      BY <2>4, <2>5 DEF RunAfter
    <3>6. \A k \in LadderRungs : spent'[m][k] = IF healthyRun'[m] >= K THEN 0 ELSE spent[m][k]
      BY <1>2, <3>1
    <3>7. QED
      BY <3>3, <3>4, <3>5, <3>6
  <2>6. CASE ~healthy
    <3>1. NewStreak(st, snap) = 0 /\ ~Decays(st, snap)
      BY <1>1, <2>6 DEF NewStreak, Decays
    <3>2. new.streak = 0 /\ kept = st.counters
      BY <2>3, <3>1 DEF DecayedCounters
    <3>3. healthyRun'[m] = 0
      BY <2>4, <2>6 DEF RunAfter
    <3>4. ASSUME NEW k \in LadderRungs
          PROVE  \/ new.counters[k] = st.counters[k] /\ spent'[m][k] = spent[m][k]
                 \/ /\ st.counters[k] < Ceiling[k]
                    /\ new.counters[k] = st.counters[k] + 1
                    /\ spent'[m][k] = spent[m][k] + 1
      <4>1. k \in ActionKinds
        BY KindFacts
      <4>2. spent'[m][k] = IF WouldExecute(plan) /\ plan.kind = k THEN spent[m][k] + 1
                           ELSE spent[m][k]
        BY <1>1, <1>2, <3>3
      <4>3. CASE WouldExecute(plan) /\ plan.kind = k
        BY <1>1, <2>2, <2>3, <3>2, <4>1, <4>2, <4>3
      <4>4. CASE ~(WouldExecute(plan) /\ plan.kind = k)
        BY <1>1, <2>2, <2>3, <3>2, <4>1, <4>2, <4>4
      <4>5. QED
        BY <4>3, <4>4
    <3>5. QED
      BY <3>2, <3>3, <3>4
  <2>7. QED
    BY <2>5, <2>6
<1>5. QED
  BY <1>3, <1>4

\* The short circuit leaves streak and counters, whatever the modem is found to be.
LEMMA DriverResetMoves ==
    ASSUME TypeOK, NEW D \in SUBSET Modems, NEW diag \in [D -> Snapshots],
           NEW thermal, NEW expected, DriverResetCycle(D, diag, thermal, expected),
           NEW m \in Modems
    PROVE  /\ states'[m].streak = states[m].streak
           /\ states'[m].counters = states[m].counters
           /\ healthyRun'[m] \in 0 .. HealthyStreakDecayK
           /\ \A k \in LadderRungs :
                 spent'[m][k] = IF healthyRun'[m] >= HealthyStreakDecayK THEN 0 ELSE spent[m][k]
<1>1. plans' \in [Modems -> Plans] /\ ~WouldExecute(plans'[m])
  BY DEF DriverResetCycle, WouldExecute, NoPlan, NoAction, Plans, Reasons
<1>2. RecordHistory(D, states', plans')
  BY DEF DriverResetCycle
<1>3. healthyRun'[m] \in 0 .. HealthyStreakDecayK
  BY <1>1, <1>2, HistoryType
<1>4. states'[m] = IF m \in D THEN Transition(states[m], diag[m]) ELSE states[m]
  BY DEF DriverResetCycle
<1>5. states'[m].streak = states[m].streak /\ states'[m].counters = states[m].counters
  BY <1>4, TransitionType DEF TypeOK
<1>6. \A k \in LadderRungs :
         spent'[m][k] = IF healthyRun'[m] >= HealthyStreakDecayK THEN 0 ELSE spent[m][k]
  BY <1>1, <1>2 DEF RecordHistory
<1>7. QED
  BY <1>3, <1>5, <1>6

\* Never is smaller than any time, and a cooldown that is over is over by at least
\* GlobalBackoff.
LEMMA ResetSpan ==
    ASSUME TypeOK, ResetsInv, NEW D \in SUBSET Modems, NEW diag \in [D -> Snapshots],
           NEW thermal, NEW expected, DriverResetCycle(D, diag, thermal, expected)
    PROVE  /\ driverReset'.count = driverReset.count + 1 /\ driverReset'.last = now /\ now' = now
           /\ Span(driverReset'.count) <= driverReset'.last + GlobalBackoff
<1>1. driverReset'.count = driverReset.count + 1 /\ driverReset'.last = now /\ now' = now
  BY DEF DriverResetCycle
<1>2. driverReset.last = Never \/ now - driverReset.last >= GlobalBackoff
  BY DEF DriverResetCycle, DriverResetEligible
<1>3. driverReset.count \in Nat /\ now \in Nat /\ driverReset.last \in Nat \cup {-1}
  BY DEF TypeOK, Timestamps, Never
<1>4. CASE driverReset.count = 0
  BY <1>1, <1>3, <1>4, SpanFacts
<1>5. CASE driverReset.count /= 0
  <2>1. driverReset.last /= Never /\ Span(driverReset.count) <= driverReset.last + GlobalBackoff
    BY <1>5 DEF ResetsInv
  <2>2. Span(driverReset.count + 1) = Span(driverReset.count) + GlobalBackoff
        /\ Span(driverReset.count) \in Nat /\ GlobalBackoff \in Nat
    BY <1>3, SpanFacts
  <2>3. QED
    BY <1>1, <1>2, <1>3, <2>1, <2>2
<1>6. QED
  BY <1>1, <1>4, <1>5

LEMMA NextResets == TypeOK /\ ResetsInv /\ [Next]_vars => ResetsInv'
<1> SUFFICES ASSUME TypeOK, ResetsInv, [Next]_vars PROVE ResetsInv'
  OBVIOUS
<1>0. /\ driverReset.count \in Nat /\ driverReset.last \in Nat \cup {-1} /\ now \in Nat
      /\ HealthyStreakDecayK \in Nat /\ HealthyStreakDecayK > 0
      /\ \A m \in Modems :
            /\ healthyRun[m] \in 0 .. HealthyStreakDecayK /\ states[m].streak \in Nat
            /\ \A k \in LadderRungs : states[m].counters[k] \in Nat /\ spent[m][k] \in Nat
  BY SettingsAssumption, KindFacts DEF SettingsAssumption, TypeOK, Timestamps, Never, ModemStates
<1>1. ASSUME NEW D \in SUBSET Modems, NEW diag \in [D -> Snapshots],
             NEW thermal \in ThermalFlags, NEW expected \in ExpectedCounts,
             DriverResetCycle(D, diag, thermal, expected)
      PROVE  ResetsInv'
  <2>1. /\ driverReset'.count = driverReset.count + 1 /\ driverReset'.last = now /\ now' = now
        /\ Span(driverReset'.count) <= driverReset'.last + GlobalBackoff
    BY <1>1, ResetSpan
  <2>2. driverReset'.last /= Never /\ driverReset'.last <= now' /\ driverReset'.count /= 0
    BY <1>0, <2>1 DEF Never
  <2>3. ASSUME NEW m \in Modems
        PROVE  /\ states'[m].streak < HealthyStreakDecayK
               /\ \A k \in LadderRungs : Covered(m, k)'
    <3>1. states'[m].streak = states[m].streak /\ states'[m].counters = states[m].counters
      BY <1>1, DriverResetMoves
    <3>2. \A k \in LadderRungs :
             spent'[m][k] = IF healthyRun'[m] >= HealthyStreakDecayK THEN 0 ELSE spent[m][k]
      BY <1>1, DriverResetMoves
    <3>3. healthyRun'[m] \in 0 .. HealthyStreakDecayK
      BY <1>1, DriverResetMoves
    <3>4. ASSUME NEW k \in LadderRungs PROVE Covered(m, k)'
      <4>1. /\ states[m].counters[k] <= Ceiling[k]
            /\ spent[m][k] <= states[m].counters[k] + Price(k, driverReset.count)
        BY DEF ResetsInv, Covered
      <4>2. /\ Price(k, driverReset.count) \in Nat /\ Ceiling[k] \in Nat
            /\ Price(k, driverReset.count + 1) = Price(k, driverReset.count) + Ceiling[k]
        BY <1>0, PriceFacts
      <4>3. spent'[m][k] <= spent[m][k]
        BY <1>0, <3>2
      <4>4. healthyRun'[m] = HealthyStreakDecayK => spent'[m][k] = 0
        BY <1>0, <3>2
      <4>5. spent'[m][k] \in Nat
        BY <1>0, <3>2
      <4>6. spent'[m][k] + Ceiling[k]
               <= states'[m].counters[k] + Price(k, driverReset'.count)
        BY <1>0, <2>1, <3>1, <4>1, <4>2, <4>3, <4>5
      <4>7. spent'[m][k] <= states'[m].counters[k] + Price(k, driverReset'.count)
        BY <1>0, <2>1, <3>1, <4>1, <4>2, <4>3, <4>5
      <4>8. QED
        BY <3>1, <4>1, <4>4, <4>6, <4>7 DEF Covered, Price
    <3>5. QED
      BY <3>1, <3>4 DEF ResetsInv
  <2>4. QED
    BY <2>1, <2>2, <2>3 DEF ResetsInv, Covered, Price, Span
<1>2. ASSUME NEW D \in SUBSET Modems, NEW diag \in [D -> Snapshots],
             NEW thermal \in ThermalFlags, NEW expected \in ExpectedCounts,
             NEW maintenance \in BOOLEAN,
             PerModemCycle(D, diag, maintenance, thermal, expected)
      PROVE  ResetsInv'
  <2>1. driverReset' = driverReset /\ now' = now
    BY <1>2 DEF PerModemCycle
  <2>2. ASSUME NEW m \in Modems
        PROVE  /\ states'[m].streak < HealthyStreakDecayK
               /\ driverReset.count = 0 => states'[m].streak =
                     IF healthyRun'[m] = HealthyStreakDecayK THEN 0 ELSE healthyRun'[m]
               /\ \A k \in LadderRungs : Covered(m, k)'
    <3> DEFINE K == HealthyStreakDecayK
               st == states[m]
               new == states'[m]
               h == healthyRun[m]
               hh == healthyRun'[m]
    <3>1. /\ st.streak < K
          /\ driverReset.count = 0 => st.streak = IF h = K THEN 0 ELSE h
      BY DEF ResetsInv
    <3>2. ASSUME NEW k \in LadderRungs
          PROVE  /\ Price(k, driverReset.count) \in Nat /\ Ceiling[k] \in Nat
                 /\ driverReset.count > 0 => Price(k, driverReset.count) >= Ceiling[k]
                 /\ st.counters[k] <= Ceiling[k]
                 /\ h = K => spent[m][k] = 0
                 /\ spent[m][k] <= st.counters[k] + Price(k, driverReset.count)
                 /\ st.streak > h =>
                       spent[m][k] + Ceiling[k] <= st.counters[k] + Price(k, driverReset.count)
      BY <1>0, PriceFacts DEF ResetsInv, Covered
    <3>3. CASE /\ new.streak = st.streak /\ hh = h
               /\ \A k \in LadderRungs : /\ new.counters[k] = st.counters[k]
                                         /\ spent'[m][k] = IF h >= K THEN 0 ELSE spent[m][k]
      <4>1. \A k \in LadderRungs : spent'[m][k] = spent[m][k]
        BY <1>0, <3>2, <3>3
      <4>2. \A k \in LadderRungs : Covered(m, k)'
        BY <2>1, <3>2, <3>3, <4>1 DEF Covered, Price
      <4>3. QED
        BY <3>1, <3>3, <4>2
    <3>4. CASE /\ hh = IF h >= K THEN 1 ELSE h + 1
               /\ new.streak = IF st.streak + 1 >= K THEN 0 ELSE st.streak + 1
               /\ \A k \in LadderRungs :
                     /\ new.counters[k] = IF st.streak + 1 >= K THEN 0 ELSE st.counters[k]
                     /\ spent'[m][k] = IF hh >= K THEN 0 ELSE spent[m][k]
      <4>1. new.streak < K
        BY <1>0, <3>4
      <4>2. driverReset.count = 0 => new.streak = IF hh = K THEN 0 ELSE hh
        BY <1>0, <3>1, <3>4
      <4>3. ASSUME NEW k \in LadderRungs PROVE Covered(m, k)'
        <5> DEFINE c == st.counters[k]
                   cc == new.counters[k]
                   x == spent[m][k]
                   xx == spent'[m][k]
                   p == Price(k, driverReset.count)
                   C == Ceiling[k]
        <5>1. /\ c \in Nat /\ x \in Nat /\ p \in Nat /\ C \in Nat /\ K \in Nat /\ K > 0
              /\ h \in 0 .. K /\ st.streak \in Nat /\ driverReset.count \in Nat
          BY <1>0, <3>2
        <5>2. /\ hh = IF h >= K THEN 1 ELSE h + 1
              /\ new.streak = IF st.streak + 1 >= K THEN 0 ELSE st.streak + 1
              /\ cc = IF st.streak + 1 >= K THEN 0 ELSE c
              /\ xx = IF hh >= K THEN 0 ELSE x
          BY <3>4
        <5>3. /\ driverReset.count > 0 => p >= C
              /\ c <= C /\ (h = K => x = 0) /\ x <= c + p
              /\ st.streak > h => x + C <= c + p
          BY <3>2
        <5>4. st.streak < K /\ (driverReset.count = 0 => st.streak = IF h = K THEN 0 ELSE h)
          BY <3>1
        <5> HIDE DEF c, cc, x, xx, p, C
        <5>5. cc <= C /\ (hh = K => xx = 0)
          BY <5>1, <5>2, <5>3
        <5>6. xx <= cc + p
          <6>1. CASE hh >= K
            BY <5>1, <5>2, <6>1
          <6>2. CASE hh < K /\ st.streak + 1 < K
            BY <5>1, <5>2, <5>3, <6>2
          <6>3. CASE hh < K /\ st.streak + 1 >= K
            BY <5>1, <5>2, <5>3, <5>4, <6>3
          <6>4. hh \in Nat
            BY <5>1, <5>2
          <6>5. QED
            BY <5>1, <6>1, <6>2, <6>3, <6>4
        <5>7. new.streak > hh => xx + C <= cc + p
          <6>1. CASE h = K
            BY <5>1, <5>2, <5>3, <5>4, <6>1
          <6>2. CASE h < K
            BY <5>1, <5>2, <5>3, <5>4, <6>2
          <6>3. QED
            BY <5>1, <6>1, <6>2
        <5>8. Price(k, driverReset'.count) = p
          BY <2>1 DEF p
        <5>9. QED
          BY <2>1, <5>5, <5>6, <5>7, <5>8 DEF Covered, c, cc, x, xx, p, C, Price
      <4>4. QED
        BY <4>1, <4>2, <4>3
    <3>5. CASE /\ hh = 0 /\ new.streak = 0
               /\ \A k \in LadderRungs :
                     \/ new.counters[k] = st.counters[k] /\ spent'[m][k] = spent[m][k]
                     \/ /\ st.counters[k] < Ceiling[k]
                        /\ new.counters[k] = st.counters[k] + 1
                        /\ spent'[m][k] = spent[m][k] + 1
      <4>1. ASSUME NEW k \in LadderRungs
            PROVE  /\ new.counters[k] <= Ceiling[k]
                   /\ spent'[m][k] <= new.counters[k] + Price(k, driverReset.count)
        BY <1>0, <3>2, <3>5
      <4>2. hh /= K /\ ~(new.streak > hh) /\ new.streak < K
        BY <1>0, <3>5
      <4>3. \A k \in LadderRungs : Covered(m, k)'
        BY <2>1, <4>1, <4>2 DEF Covered, Price
      <4>4. QED
        BY <3>5, <4>2, <4>3
    <3> HIDE DEF K, st, new, h, hh
    <3>6. QED
      BY <1>2, <3>3, <3>4, <3>5, CycleMoves DEF K, st, new, h, hh
  <2>3. QED
    BY <2>1, <2>2 DEF ResetsInv, Span
<1>3. CASE Tick
  <2>1. UNCHANGED <<engineVars, historyVars>> /\ now' = now + 1
    BY <1>3 DEF Tick
  <2>2. driverReset.last <= now'
    BY <1>0, <2>1 DEF ResetsInv
  <2>3. QED
    BY <2>1, <2>2 DEF ResetsInv, Covered, Price, Span, engineVars, historyVars
<1>4. CASE UNCHANGED vars
  BY <1>4 DEF ResetsInv, Covered, Price, Span, vars, engineVars, historyVars
<1>5. QED
  BY <1>1, <1>2, <1>3, <1>4 DEF Next, Cycle, CycleOver

LEMMA InitResets == Init => ResetsInv
<1> SUFFICES ASSUME Init PROVE ResetsInv
  OBVIOUS
<1>1. /\ driverReset.last = -1 /\ driverReset.count = 0 /\ now = 0
  BY DEF Init, Never
<1>2. HealthyStreakDecayK \in Nat /\ HealthyStreakDecayK > 0
  BY SettingsAssumption DEF SettingsAssumption
<1>3. ASSUME NEW m \in Modems
      PROVE  /\ states[m].streak = 0 /\ healthyRun[m] = 0
             /\ \A k \in LadderRungs : states[m].counters[k] = 0 /\ spent[m][k] = 0
  BY KindFacts DEF Init, FreshState, ZeroCounters
<1>4. \A k \in LadderRungs : Price(k, 0) \in Nat /\ Ceiling[k] \in Nat
  BY PriceFacts
<1>5. \A m \in Modems, k \in LadderRungs : Covered(m, k)
  BY <1>1, <1>2, <1>3, <1>4 DEF Covered
<1>6. QED
  BY <1>1, <1>2, <1>3, <1>5 DEF ResetsInv, Never

\* n intervals of length c that fit into t, and a last one under way.
LEMMA CooldownsFit ==
    ASSUME NEW n \in Nat, NEW c \in Nat \ {0}, NEW t \in Nat, c * n <= t + c
    PROVE  n <= 1 + t \div c /\ t \div c \in Nat
<1> DEFINE q == t \div c
<1>1. q \in Nat /\ t < c * (q + 1)
  OBVIOUS
<1> HIDE DEF q
<1>2. c * (q + 1) + c = c * (q + 2)
  BY <1>1
<1>3. c * n < c * (q + 2)
  BY <1>1, <1>2
<1>4. n < q + 2
  <2> SUFFICES ASSUME n >= q + 2 PROVE FALSE
    BY <1>1
  <2>1. n - (q + 2) \in Nat
    BY <1>1
  <2>2. c * (n - (q + 2)) >= 0
    BY <2>1
  <2>3. c * (n - (q + 2)) = c * n - c * (q + 2)
    BY <1>1
  <2>4. QED
    BY <1>1, <1>3, <2>2, <2>3
<1>5. QED
  BY <1>1, <1>4 DEF q

\* FR-26, RECOVERY_SPEC 3.3 and 6.4: whatever is observed, hung channels included, a
\* modem gets between two full runs of healthy cycles one budget, and one more for
\* each global driver reset the cooldown leaves room for.
THEOREM BudgetUpToResetsHolds == Spec => []BudgetUpToResets
<1>1. TypeOK /\ ResetsInv => BudgetUpToResets
  <2> SUFFICES ASSUME TypeOK, ResetsInv, NEW m \in Modems, NEW k \in LadderRungs
               PROVE  spent[m][k] <= Ceiling[k] * (2 + now \div GlobalBackoff)
    BY DEF BudgetUpToResets
  <2> DEFINE q == now \div GlobalBackoff
             n == driverReset.count
             C == Ceiling[k]
  <2>1. /\ n \in Nat /\ now \in Nat /\ driverReset.last \in Nat \cup {-1}
        /\ GlobalBackoff \in Nat \ {0} /\ C \in Nat /\ spent[m][k] \in Nat
        /\ states[m].counters[k] \in Nat
    BY SettingsAssumption, CeilingType, KindFacts
       DEF SettingsAssumption, TypeOK, Timestamps, Never, ModemStates
  <2>2. /\ driverReset.last <= now
        /\ Span(n) <= driverReset.last + GlobalBackoff \/ n = 0
        /\ states[m].counters[k] <= C
        /\ spent[m][k] <= states[m].counters[k] + Price(k, n)
    BY DEF ResetsInv, Covered
  <2>3. GlobalBackoff * n <= now + GlobalBackoff
    <3>1. Span(n) \in Nat
      BY <2>1, SpanFacts
    <3>2. CASE n = 0
      BY <2>1, <3>2
    <3>3. CASE n /= 0
      BY <2>1, <2>2, <3>1, <3>3 DEF Span
    <3>4. QED
      BY <3>2, <3>3
  <2>4. n <= 1 + q /\ q \in Nat
    BY <2>1, <2>3, CooldownsFit
  <2> HIDE DEF q, n, C
  <2>5. Price(k, n) \in Nat /\ spent[m][k] <= C + Price(k, n)
    <3>1. Price(k, n) \in Nat
      BY <2>1, PriceFacts
    <3>2. QED
      BY <2>1, <2>2, <3>1
  <2>6. Price(k, n) = C * n
    BY DEF Price, C
  <2>7. C * n <= C * (1 + q)
    <3>1. 1 + q - n \in Nat
      BY <2>1, <2>4
    <3>2. C * (1 + q - n) >= 0
      BY <2>1, <3>1
    <3>3. C * (1 + q - n) = C * (1 + q) - C * n
      BY <2>1, <2>4
    <3>4. QED
      BY <2>1, <2>4, <3>2, <3>3
  <2>8. C + C * (1 + q) = C * (2 + q)
    BY <2>1, <2>4
  <2>9. spent[m][k] <= C * (2 + q)
    BY <2>1, <2>4, <2>5, <2>6, <2>7, <2>8
  <2>10. QED
    BY <2>9 DEF q, C
<1>2. QED
  BY <1>1, InitType, NextType, InitResets, NextResets, PTL DEF Spec

-----------------------------------------------------------------------------
(* The states a modem can be in *)

\* However long a modem is ill and whatever is tried on it, the engine calls it neither
\* recovering nor exhausted, so gate_exhausted turns no plan away.
THEOREM ExhaustedIsNeverEntered ==
    Spec => [](\A m \in Modems : states[m].state \in Entered)
<1> DEFINE Inv == \A m \in Modems : states[m].state \in Entered
<1>1. Init => Inv
  BY DEF Init, FreshState, Entered
<1>2. TypeOK /\ Inv /\ [Next]_vars => Inv'
  <2> SUFFICES ASSUME TypeOK, Inv, [Next]_vars, NEW m \in Modems
               PROVE  states'[m].state \in Entered
    OBVIOUS
  <2>1. states[m] \in ModemStates /\ states[m].state \in Entered /\ now \in Nat
    BY DEF TypeOK
  <2>2. \A snap : Transition(states[m], snap).state \in Entered
    BY <2>1, TransitionEnters
  <2>3. ASSUME NEW D \in SUBSET Modems, NEW diag \in [D -> Snapshots],
               NEW thermal \in ThermalFlags, NEW expected \in ExpectedCounts,
               DriverResetCycle(D, diag, thermal, expected)
        PROVE  states'[m].state \in Entered
    BY <2>1, <2>2, <2>3 DEF DriverResetCycle
  <2>4. ASSUME NEW D \in SUBSET Modems, NEW diag \in [D -> Snapshots],
               NEW thermal \in ThermalFlags, NEW expected \in ExpectedCounts,
               NEW maintenance \in BOOLEAN,
               PerModemCycle(D, diag, maintenance, thermal, expected)
        PROVE  states'[m].state \in Entered
    <3>1. CASE m \notin D
      BY <2>1, <2>4, <3>1, PerModemEffect
    <3>2. CASE m \in D
      <4>1. /\ plans'[m] \in Plans
            /\ states'[m] = FinalizePerModemState(states[m], diag[m], plans'[m], now)
        BY <2>4, <3>2, PerModemEffect
      <4>2. states'[m].state = Transition(states[m], diag[m]).state
        BY <2>1, <4>1, FinalizeKeepsVerdict
      <4>3. QED
        BY <2>2, <4>2
    <3>3. QED
      BY <3>1, <3>2
  <2>5. CASE UNCHANGED <<engineVars, historyVars>>
    BY <2>1, <2>5 DEF engineVars
  <2>6. QED
    BY <2>3, <2>4, <2>5 DEF Next, Cycle, CycleOver, Tick, vars
<1>3. QED
  BY <1>1, <1>2, InitType, NextType, PTL DEF Spec
=============================================================================
