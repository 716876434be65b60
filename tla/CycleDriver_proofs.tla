-------------------------- MODULE CycleDriver_proofs --------------------------
(***************************************************************************)
(* Theorems about CycleDriver with its faults, alone and under CycleReport,*)
(* for every number of modems, SIM cards, interruptions and reboots and    *)
(* every value of the settings.                                            *)
(***************************************************************************)
EXTENDS CycleReport, Policy_proofs

\* A cycle whose policy raises, and a report that is cut off, as the driver sees them.
GiveUp ==
    /\ pc = "reset" /\ swapped = {} /\ EndCycle
    /\ UNCHANGED <<diskVars, envVars, historyVars>>

CountOnly == UNCHANGED <<cycleVars, diskVars, sim, now, boot, reboots, swaps, historyVars>>

DriverNext == FaultyNext \/ GiveUp \/ CountOnly

\* So what is shown of DriverNext holds with and without the reports.
LEMMA StepsOfDriver ==
    /\ [FaultyNext]_vars => [DriverNext]_vars
    /\ [ReportNext]_allVars => [DriverNext]_vars
  <1>1. [FaultyNext]_vars => [DriverNext]_vars
    BY DEF DriverNext
  <1>2. ASSUME ReportNext PROVE DriverNext \/ UNCHANGED vars
    <2>1. CASE Look \/ Judge \/ Act \/ Saved \/ \E m \in Modems : Save(m)
      BY <2>1 DEF Look, Judge, Act, Saved, Save, DriverNext, FaultyNext, Next, Step
    <2>2. CASE PolicyRaises
      BY <2>2 DEF PolicyRaises, GiveUp, DriverNext
    <2>3. CASE LogTransitions \/ WriteStatus \/ \E m \in Modems : Announce(m)
      BY <2>3 DEF LogTransitions, WriteStatus, Announce
    <2>4. CASE CutBody
      BY <2>4 DEF CutBody, DriverNext, FaultyNext
    <2>5. CASE CutTail
      BY <2>5 DEF CutTail, DriverNext, CountOnly
    <2>6. CASE Surroundings
      BY <2>6 DEF Surroundings, DriverNext, FaultyNext, Next
    <2> QED
      BY <1>2, <2>1, <2>2, <2>3, <2>4, <2>5, <2>6 DEF ReportNext
  <1>3. UNCHANGED allVars => UNCHANGED vars
    BY DEF allVars
  <1> QED
    BY <1>1, <1>2, <1>3

-----------------------------------------------------------------------------
(* Types *)

GlobalsRecords == [lastReset : Timestamps, resetCount : Nat, window : BOOLEAN, expires : Nat]
Identities == [Modems -> Iccids \cup {NoSim}]

\* Types, and which of the cycle's variables are in use where.
Typed ==
    /\ pc \in {"idle", "identity", "reset", "dispatch"}
    /\ scanned \subseteq Modems /\ swapped \subseteq scanned
    /\ unsaved \subseteq scanned /\ toRun \subseteq unsaved
    /\ diskStates \in [Modems -> ModemStates]
    /\ diskGlobals \in GlobalsRecords
    /\ diskIdentity \in Identities /\ lastRead \in Identities
    /\ sim \in [Modems -> Iccids]
    /\ swapDue \in [Modems -> BOOLEAN] /\ forgot \in [Modems -> BOOLEAN]
    /\ boot \in Nat /\ now \in Nat /\ boot <= now
    /\ lastFired \in [Modems -> Timestamps]
    /\ spent \in [Modems -> [LadderRungs -> Nat]]
    /\ healthyRun \in [Modems -> 0 .. HealthyStreakDecayK]
    /\ lost \in [Modems -> [ActionKinds -> Nat]]
    /\ IF pc = "dispatch"
         THEN /\ newStates \in [scanned -> ModemStates] /\ plans \in [scanned -> Plans]
              /\ newGlobals = Nothing \/ newGlobals \in GlobalsRecords
              /\ \A m \in toRun : plans[m].kind \in ActionKinds
         ELSE newStates = Nothing /\ plans = Nothing /\ unsaved = {}
    /\ pc = "identity" => \A m \in scanned : snaps[m].iccid \in Iccids \cup {NoSim}
    /\ pc /= "reset" => swapped = {}

LEMMA MonotonicType == Typed => MonotonicNow \in Nat
  BY DEF Typed, MonotonicNow

LEMMA Fresh ==
    /\ FreshState \in ModemStates /\ ZeroCounters \in [ActionKinds -> Nat]
    /\ NoSpent \in [LadderRungs -> Nat] /\ HealthyStreakDecayK \in Nat \ {0}
    /\ Timestamps \subseteq Int /\ Never \in Timestamps
  BY SettingsAssumption DEF SettingsAssumption, FreshState, ModemStates, StateNames, ZeroCounters,
     NoSpent, Timestamps, Never

LEMMA ResetType ==
    ASSUME NEW st \in ModemStates
    PROVE  LET new == ResetStreakAndCounters(st)
           IN  /\ new \in ModemStates
               /\ new.streak = 0 /\ new.counters = ZeroCounters /\ new.last = st.last
               /\ new.state = st.state
  BY Fresh DEF ResetStreakAndCounters, ModemStates

LEMMA InitTyped == Init => Typed
  <1> SUFFICES ASSUME Init PROVE Typed
    OBVIOUS
  <1>1. diskGlobals \in GlobalsRecords
    BY Fresh DEF Init, FreshGlobals, GlobalsRecords
  <1>2. diskIdentity \in Identities /\ lastRead \in Identities
    BY DEF Init, Identities
  <1>3. 0 \in 0 .. HealthyStreakDecayK
    BY Fresh
  <1> QED
    BY <1>1, <1>2, <1>3, Fresh DEF Init, Typed

-----------------------------------------------------------------------------
(* Decide *)

Eligible == DriverResetEligible(snaps, FALSE, diskGlobals.lastReset, ExpectedCount, MonotonicNow)

\* What one modem gets: the plan and the state to be stored.
LEMMA DecideEffect ==
    ASSUME Typed, Decide, NEW m \in scanned
    PROVE  /\ Eligible => plans'[m] = NoPlan /\ newStates'[m] = Transition(diskStates[m], snaps[m])
           /\ ~Eligible =>
                /\ plans'[m] = PlanFor(diskStates[m], snaps[m], MonotonicNow, diskGlobals.window)
                /\ newStates'[m] = FinalizePerModemState(diskStates[m], snaps[m], plans'[m],
                                                         MonotonicNow)
           /\ m \in toRun' <=> WouldExecute(plans'[m])
  BY DEF Decide, Eligible

\* A plan that is carried out: the ladder has room for it, it is counted, the gates
\* let it pass, and the modem is ill.
LEMMA Decided ==
    ASSUME Typed, Decide, NEW m \in scanned
    PROVE  LET st == diskStates[m]
               new == newStates'[m]
               plan == plans'[m]
               k == plan.kind
           IN  /\ plan \in Plans /\ new \in ModemStates
               /\ m \in toRun' <=> WouldExecute(plan)
               /\ ~WouldExecute(plan) => new.last = st.last
               /\ WouldExecute(plan) =>
                     /\ k \in ActionKinds
                     /\ new.counters = [st.counters EXCEPT ![k] = @ + 1]
                     /\ new.last = [st.last EXCEPT ![k] = MonotonicNow]
                     /\ k \in LadderRungs => st.counters[k] < Ceiling[k]
                     /\ new.state /= "healthy"
                     /\ ~GateMaintenance(diskGlobals.window, k)
                     /\ ~GateLadderBackoff(Transition(st, snaps[m]), k, MonotonicNow)
  <1> DEFINE st == diskStates[m]
             new == newStates'[m]
             plan == plans'[m]
             k == plan.kind
  <1>1. st \in ModemStates /\ MonotonicNow \in Nat
    BY MonotonicType DEF Typed
  <1>2. m \in toRun' <=> WouldExecute(plan)
    BY DecideEffect
  <1>3. CASE Eligible
    <2>1. plan = NoPlan /\ new = Transition(st, snaps[m])
      BY <1>3, DecideEffect
    <2>2. plan \in Plans /\ ~WouldExecute(plan)
      BY <2>1 DEF NoPlan, Plans, Reasons, WouldExecute, NoAction
    <2>3. new \in ModemStates /\ new.last = st.last
      BY <2>1, <1>1, TransitionType
    <2> QED
      BY <1>2, <2>2, <2>3
  <1>4. CASE ~Eligible
    <2>1. /\ plan = PlanFor(st, snaps[m], MonotonicNow, diskGlobals.window)
          /\ new = FinalizePerModemState(st, snaps[m], plan, MonotonicNow)
      BY <1>4, DecideEffect
    <2>2. /\ plan \in Plans
          /\ WouldExecute(plan) =>
                /\ k \in ActionKinds
                /\ k \in LadderRungs => DecayedCounters(st, snaps[m])[k] < Ceiling[k]
                /\ snaps[m].issues /= << >>
                /\ ~GateMaintenance(diskGlobals.window, k)
                /\ ~GateLadderBackoff(Transition(st, snaps[m]), k, MonotonicNow)
      BY <2>1, <1>1, PlanSound
    <2>3. /\ new \in ModemStates
          /\ new.counters = IF WouldExecute(plan)
                              THEN [DecayedCounters(st, snaps[m]) EXCEPT ![k] = @ + 1]
                              ELSE DecayedCounters(st, snaps[m])
          /\ new.last = IF WouldExecute(plan) THEN [st.last EXCEPT ![k] = MonotonicNow]
                                              ELSE st.last
      <3> HIDE DEF st, new, plan, k
      <3> DEFINE F == FinalizePerModemState(st, snaps[m], plan, MonotonicNow)
      <3>1. WouldExecute(plan) => plan.kind \in ActionKinds
        BY <2>2 DEF k
      <3>2. /\ F \in ModemStates
            /\ F.counters = IF WouldExecute(plan)
                              THEN [DecayedCounters(st, snaps[m]) EXCEPT ![plan.kind] = @ + 1]
                              ELSE DecayedCounters(st, snaps[m])
            /\ F.last = IF WouldExecute(plan) THEN [st.last EXCEPT ![plan.kind] = MonotonicNow]
                                              ELSE st.last
        BY <3>1, <2>2, <1>1, FinalizeSound
      <3> QED
        BY <3>2, <2>1 DEF k
    <2>4. WouldExecute(plan) => Transition(st, snaps[m]).state /= "healthy"
      BY <2>2, <1>1, IssuesMeanIll
    <2>5. new.state = Transition(st, snaps[m]).state
      BY <2>1, <1>1, FinalizeKeepsVerdict
    <2>6. WouldExecute(plan) => DecayedCounters(st, snaps[m]) = st.counters
      BY <2>4, Fresh DEF DecayedCounters, Decays, NewStreak
    <2> QED
      BY <1>2, <2>2, <2>3, <2>4, <2>5, <2>6
  <1> QED
    BY <1>3, <1>4

-----------------------------------------------------------------------------
(* Types *)

LEMMA Bumped ==
    ASSUME NEW f \in [ActionKinds -> Nat], NEW k
    PROVE  /\ [f EXCEPT ![k] = @ + 1] \in [ActionKinds -> Nat]
           /\ \A j \in ActionKinds : [f EXCEPT ![k] = @ + 1][j] = IF j = k THEN f[j] + 1 ELSE f[j]
  <1> DEFINE g == [f EXCEPT ![k] = @ + 1]
  <1>1. g = [j \in ActionKinds |-> IF j = k THEN f[k] + 1 ELSE f[j]]
    OBVIOUS
  <1>2. \A j \in ActionKinds : g[j] = IF j = k THEN f[j] + 1 ELSE f[j]
    BY <1>1
  <1>3. \A j \in ActionKinds : f[j] + 1 \in Nat /\ f[j] \in Nat
    OBVIOUS
  <1> HIDE DEF g
  <1>4. \A j \in ActionKinds : g[j] \in Nat
    BY <1>2, <1>3
  <1>5. g \in [ActionKinds -> Nat]
    BY <1>1, <1>2, <1>4
  <1> QED
    BY <1>2, <1>5 DEF g

\* What ran and is not saved is lost, and nothing else is.
LEMMA InterruptEffect ==
    ASSUME Typed, Interrupt, NEW m \in Modems
    PROVE  LET ran == m \in unsaved \ toRun /\ WouldExecute(plans[m])
           IN  /\ lost'[m] = IF ran THEN [lost[m] EXCEPT ![plans[m].kind] = @ + 1] ELSE lost[m]
               /\ forgot'[m] = (forgot[m] \/ (ran /\ plans[m].kind \in DestructiveKinds))
  <1>1. CASE pc = "dispatch"
    BY <1>1 DEF Interrupt
  <1>2. CASE pc /= "dispatch"
    BY <1>2 DEF Interrupt, Typed
  <1> QED
    BY <1>1, <1>2

LEMMA TypedStep ==
    ASSUME Typed, [DriverNext]_vars
    PROVE  Typed'
  <1> USE DEF cycleVars, diskVars, envVars, simHistory, runHistory, historyVars
  <1>1. CASE Observe
    <2>0. PICK D \in SUBSET Modems : \E seen \in [D -> Snapshots] :
             LET read == [m \in D |-> IF seen[m].simRead THEN sim[m] ELSE NoSim]
             IN  /\ scanned' = D
                 /\ snaps' = [m \in D |-> [issues |-> seen[m].issues,
                                           signal |-> seen[m].signal, iccid |-> read[m]]]
                 /\ lastRead' = [m \in Modems |->
                       IF m \in D /\ read[m] /= NoSim THEN read[m] ELSE lastRead[m]]
                 /\ swapDue' = [m \in Modems |->
                       swapDue[m] \/ (NoSim /= lastRead[m] /\ lastRead'[m] /= lastRead[m])]
      BY <1>1 DEF Observe
    <2>1. PICK seen \in [D -> Snapshots] :
             LET read == [m \in D |-> IF seen[m].simRead THEN sim[m] ELSE NoSim]
             IN  /\ scanned' = D
                 /\ snaps' = [m \in D |-> [issues |-> seen[m].issues,
                                           signal |-> seen[m].signal, iccid |-> read[m]]]
                 /\ lastRead' = [m \in Modems |->
                       IF m \in D /\ read[m] /= NoSim THEN read[m] ELSE lastRead[m]]
                 /\ swapDue' = [m \in Modems |->
                       swapDue[m] \/ (NoSim /= lastRead[m] /\ lastRead'[m] /= lastRead[m])]
      BY <2>0
    <2> DEFINE read == [m \in D |-> IF seen[m].simRead THEN sim[m] ELSE NoSim]
    <2>2. \A m \in D : read[m] \in Iccids \cup {NoSim}
      BY DEF Typed
    <2>3. \A m \in scanned' : snaps'[m].iccid \in Iccids \cup {NoSim}
      BY <2>1, <2>2
    <2>4. lastRead' \in Identities
      BY <2>1, <2>2 DEF Identities, Typed
    <2>5. swapDue' \in [Modems -> BOOLEAN]
      BY <2>1 DEF Typed
    <2>6. scanned' \subseteq Modems
      BY <2>1
    <2>7. /\ pc = "idle" /\ pc' = "identity"
          /\ UNCHANGED <<swapped, newStates, newGlobals, plans, toRun, unsaved, diskVars, envVars,
                         runHistory, healthyRun>>
      BY <1>1 DEF Observe
    <2>8. swapped = {} /\ unsaved = {} /\ toRun = {} /\ newStates = Nothing /\ plans = Nothing
      BY <2>7 DEF Typed
    <2> QED
      BY <2>3, <2>4, <2>5, <2>6, <2>7, <2>8 DEF Typed
  <1>2. CASE SaveIdentity
    <2>1. /\ diskIdentity' \in Identities /\ lastRead' \in Identities
          /\ swapped' \subseteq scanned
      BY <1>2 DEF SaveIdentity, Typed, Identities
    <2>2. /\ pc = "identity" /\ pc' = "reset"
          /\ UNCHANGED <<scanned, snaps, newStates, newGlobals, plans, toRun, unsaved, diskStates,
                         diskGlobals, envVars, runHistory, healthyRun, swapDue>>
      BY <1>2 DEF SaveIdentity
    <2> QED
      BY <2>1, <2>2 DEF Typed
  <1>3. ASSUME NEW m \in Modems, ResetSwapped(m) PROVE Typed'
    <2>1. ResetStreakAndCounters(diskStates[m]) \in ModemStates
      BY ResetType DEF Typed
    <2>2. /\ diskStates' \in [Modems -> ModemStates]
          /\ spent' \in [Modems -> [LadderRungs -> Nat]]
          /\ lost' \in [Modems -> [ActionKinds -> Nat]]
          /\ healthyRun' \in [Modems -> 0 .. HealthyStreakDecayK]
      BY <1>3, <2>1, Fresh DEF ResetSwapped, Typed
    <2>3. /\ pc = "reset" /\ swapped' = swapped \ {m}
          /\ UNCHANGED <<pc, scanned, snaps, newStates, newGlobals, plans, toRun, unsaved,
                         diskGlobals, diskIdentity, envVars, lastFired, forgot, simHistory>>
      BY <1>3 DEF ResetSwapped
    <2> QED
      BY <2>2, <2>3 DEF Typed
  <1>4. CASE Decide
    <2>1. /\ pc = "reset" /\ swapped = {} /\ pc' = "dispatch" /\ unsaved' = scanned
          /\ plans' = [m \in scanned |-> plans'[m]]
          /\ newStates' = [m \in scanned |-> newStates'[m]]
          /\ UNCHANGED <<scanned, swapped, diskVars, envVars, historyVars>>
      BY <1>4 DEF Decide
    <2>2. \A m \in scanned : plans'[m] \in Plans /\ newStates'[m] \in ModemStates
      BY <1>4, Decided
    <2>3. newStates' \in [scanned -> ModemStates] /\ plans' \in [scanned -> Plans]
      BY <2>1, <2>2
    <2>4. newGlobals' = Nothing \/ newGlobals' \in GlobalsRecords
      <3>1. \/ newGlobals' = Nothing
            \/ newGlobals' = [diskGlobals EXCEPT !.lastReset = MonotonicNow, !.resetCount = @ + 1]
        BY <1>4 DEF Decide
      <3>2. diskGlobals \in GlobalsRecords /\ MonotonicNow \in Timestamps
        BY MonotonicType DEF Typed, Timestamps
      <3>3. diskGlobals.resetCount + 1 \in Nat
        BY <3>2 DEF GlobalsRecords
      <3>4. [diskGlobals EXCEPT !.lastReset = MonotonicNow, !.resetCount = @ + 1]
                \in GlobalsRecords
        BY <3>2, <3>3 DEF GlobalsRecords
      <3> QED
        BY <3>1, <3>4
    <2>5. toRun' \subseteq scanned /\ \A m \in toRun' : WouldExecute(plans'[m])
      BY <1>4 DEF Decide
    <2>6. \A m \in toRun' : plans'[m].kind \in ActionKinds
      BY <1>4, <2>5, Decided
    <2> QED
      BY <2>1, <2>3, <2>4, <2>5, <2>6 DEF Typed
  <1>5. ASSUME NEW m \in Modems, Dispatch(m) PROVE Typed'
    <2>1. /\ pc = "dispatch" /\ m \in toRun /\ toRun' = toRun \ {m}
          /\ UNCHANGED <<pc, scanned, snaps, swapped, newStates, newGlobals, plans, unsaved,
                         diskVars, envVars, lost, healthyRun, simHistory>>
      BY <1>5 DEF Dispatch, First
    <2>2. newStates[m].last \in [ActionKinds -> Timestamps] /\ plans[m].kind \in ActionKinds
      BY <2>1 DEF Typed, ModemStates
    <2>3. spent' \in [Modems -> [LadderRungs -> Nat]]
      BY <1>5 DEF Dispatch, Typed
    <2>4. forgot' \in [Modems -> BOOLEAN] /\ lastFired' \in [Modems -> Timestamps]
      <3>1. CASE plans[m].kind \notin DestructiveKinds
        BY <1>5, <3>1 DEF Dispatch, Typed
      <3>2. CASE plans[m].kind \in DestructiveKinds
        <4>1. /\ lastFired' = [lastFired EXCEPT ![m] = newStates[m].last[plans[m].kind] + boot]
              /\ forgot' = [forgot EXCEPT ![m] = FALSE]
          BY <1>5, <3>2 DEF Dispatch
        <4>2. newStates[m].last[plans[m].kind] + boot \in Timestamps
          <5>1. \A t \in Timestamps, b \in Nat : t + b \in Timestamps
            BY DEF Timestamps, Never
          <5> QED
            BY <2>2, <5>1 DEF Typed
        <4> QED
          BY <4>1, <4>2 DEF Typed
      <3> QED
        BY <3>1, <3>2
    <2> QED
      BY <2>1, <2>3, <2>4 DEF Typed
  <1>6. ASSUME NEW m \in Modems, Persist(m) PROVE Typed'
    <2>1. /\ pc = "dispatch" /\ toRun = {} /\ m \in unsaved /\ unsaved' = unsaved \ {m}
          /\ UNCHANGED <<pc, scanned, snaps, swapped, newStates, newGlobals, plans, toRun,
                         diskGlobals, diskIdentity, envVars, lastFired, forgot, lastRead>>
      BY <1>6 DEF Persist, AllDispatched, First
    <2>2. RunAfter(m) \in 0 .. HealthyStreakDecayK
      BY Fresh DEF RunAfter, Typed
    <2>3. /\ diskStates' \in [Modems -> ModemStates]
          /\ healthyRun' \in [Modems -> 0 .. HealthyStreakDecayK]
          /\ swapDue' \in [Modems -> BOOLEAN]
      BY <1>6, <2>1, <2>2 DEF Persist, Typed
    <2>4. /\ spent' \in [Modems -> [LadderRungs -> Nat]]
          /\ lost' \in [Modems -> [ActionKinds -> Nat]]
      BY <1>6, Fresh DEF Persist, Typed
    <2> QED
      BY <2>1, <2>3, <2>4 DEF Typed
  <1>7. CASE Finish
    <2>1. diskGlobals' \in GlobalsRecords
      BY <1>7 DEF Finish, AllDispatched, Typed
    <2>2. pc' = "idle" /\ scanned' = {} /\ swapped' = {} /\ newStates' = Nothing
          /\ plans' = Nothing /\ toRun' = {} /\ unsaved' = {}
          /\ UNCHANGED <<diskStates, diskIdentity, envVars, historyVars>>
      BY <1>7 DEF Finish, EndCycle
    <2> QED
      BY <2>1, <2>2 DEF Typed
  <1>8. CASE Interrupt
    <2>1. lost' \in [Modems -> [ActionKinds -> Nat]]
      <3>1. \A m \in Modems : lost'[m] \in [ActionKinds -> Nat]
        <4> SUFFICES ASSUME NEW m \in Modems PROVE lost'[m] \in [ActionKinds -> Nat]
          OBVIOUS
        <4>1. lost[m] \in [ActionKinds -> Nat]
          BY DEF Typed
        <4>2. [lost[m] EXCEPT ![plans[m].kind] = @ + 1] \in [ActionKinds -> Nat]
          BY <4>1, Bumped
        <4> QED
          BY <1>8, <4>1, <4>2, InterruptEffect
      <3>2. lost' = [m \in Modems |-> lost'[m]]
        BY <1>8 DEF Interrupt
      <3> QED
        BY <3>1, <3>2
    <2>2. forgot' \in [Modems -> BOOLEAN] /\ swapDue' \in [Modems -> BOOLEAN]
      BY <1>8 DEF Interrupt, Typed
    <2> QED
      BY <1>8, <2>1, <2>2 DEF Interrupt, EndCycle, Typed
  <1>9. CASE Reboot
    BY <1>9 DEF Reboot, Typed
  <1>10. CASE Tick
    BY <1>10 DEF Tick, Typed
  <1>11. ASSUME NEW m \in Modems, SwapSim(m) PROVE Typed'
    <2>1. sim' \in [Modems -> Iccids]
      BY <1>11 DEF SwapSim, Typed
    <2> QED
      BY <1>11, <2>1 DEF SwapSim, Typed
  <1>12. CASE MaintenanceOn
    <2>1. PICK d \in WindowLengths :
             diskGlobals' = [diskGlobals EXCEPT !.window = TRUE, !.expires = MonotonicNow + d]
      BY <1>12 DEF MaintenanceOn
    <2>2. MonotonicNow + d \in Nat
      BY MonotonicType, DriverAssumption DEF DriverAssumption
    <2>3. diskGlobals' \in GlobalsRecords
      BY <2>1, <2>2 DEF GlobalsRecords, Typed
    <2> QED
      BY <1>12, <2>3 DEF MaintenanceOn, Typed
  <1>13. CASE MaintenanceOff
    <2>1. diskGlobals' \in GlobalsRecords
      BY <1>13 DEF MaintenanceOff, GlobalsRecords, Typed
    <2> QED
      BY <1>13, <2>1 DEF MaintenanceOff, Typed
  <1>14. CASE GiveUp
    BY <1>14 DEF GiveUp, EndCycle, Typed
  <1>15. CASE CountOnly \/ UNCHANGED vars
    BY <1>15 DEF CountOnly, vars, Typed
  <1> QED
    BY <1>1, <1>2, <1>3, <1>4, <1>5, <1>6, <1>7, <1>8, <1>9, <1>10, <1>11, <1>12, <1>13, <1>14,
       <1>15 DEF DriverNext, FaultyNext, Next, Step, Environment

\* TypeOK is what a reader needs of Typed.
THEOREM DriverTypeCorrect == FaultySpec \/ ReportSpec => []TypeOK
  <1>1. Typed => TypeOK
    BY DEF Typed, TypeOK, Identities
  <1>2. Typed /\ [DriverNext]_vars => Typed'
    BY TypedStep
  <1> QED
    BY InitTyped, <1>1, <1>2, StepsOfDriver, PTL DEF FaultySpec, ReportSpec, ReportInit

\* What a modem is to get is settled by Decide, and stays as it is until it is saved.
LEMMA SettledStep ==
    ASSUME Typed, [DriverNext]_vars, NEW m \in unsaved'
    PROVE  \/ Decide /\ m \in scanned
           \/ /\ m \in unsaved /\ (m \in toRun' => m \in toRun)
              /\ newStates'[m] = newStates[m] /\ plans'[m] = plans[m]
              /\ diskStates'[m] = diskStates[m] /\ healthyRun'[m] = healthyRun[m]
              /\ boot' = boot
  <1> USE DEF cycleVars, diskVars, envVars, simHistory, runHistory, historyVars
  <1>1. CASE Observe \/ SaveIdentity \/ Finish \/ Interrupt \/ Reboot \/ GiveUp
    <2>1. unsaved' = {}
      BY <1>1 DEF Observe, SaveIdentity, Finish, Interrupt, Reboot, GiveUp, EndCycle, Typed
    <2> QED
      BY <2>1
  <1>2. ASSUME NEW n \in Modems, ResetSwapped(n) PROVE FALSE
    BY <1>2 DEF ResetSwapped, Typed
  <1>3. CASE Decide
    BY <1>3 DEF Decide
  <1>4. ASSUME NEW n \in Modems, Dispatch(n)
        PROVE  /\ m \in unsaved /\ toRun' \subseteq toRun
               /\ UNCHANGED <<newStates, plans, diskStates, healthyRun, boot>>
    BY <1>4 DEF Dispatch
  <1>5. ASSUME NEW n \in Modems, Persist(n)
        PROVE  /\ m \in unsaved /\ toRun' \subseteq toRun
               /\ UNCHANGED <<newStates, plans, boot>>
               /\ diskStates'[m] = diskStates[m] /\ healthyRun'[m] = healthyRun[m]
    <2>1. m \in unsaved /\ m /= n /\ m \in Modems
      BY <1>5 DEF Persist, Typed
    <2> QED
      BY <1>5, <2>1 DEF Persist, Typed
  <1>6. ASSUME Environment \/ CountOnly \/ UNCHANGED vars
        PROVE  UNCHANGED <<unsaved, toRun, newStates, plans, diskStates, healthyRun, boot>>
    BY <1>6 DEF Environment, Tick, SwapSim, MaintenanceOn, MaintenanceOff, CountOnly, vars
  <1> QED
    BY <1>1, <1>2, <1>3, <1>4, <1>5, <1>6 DEF DriverNext, FaultyNext, Next, Step

-----------------------------------------------------------------------------
(* What waits to run *)

\* A plan that is carried out is counted in the state that waits to be saved.
Counted ==
    /\ \A m \in toRun : WouldExecute(plans[m])
    /\ \A m \in unsaved : WouldExecute(plans[m]) =>
          /\ plans[m].kind \in ActionKinds
          /\ newStates[m].counters = [diskStates[m].counters EXCEPT ![plans[m].kind] = @ + 1]

LEMMA CountedStep ==
    ASSUME Typed, Typed', Counted, [DriverNext]_vars
    PROVE  Counted'
  <1>1. ASSUME NEW m \in toRun' PROVE WouldExecute(plans[m])'
    <2>1. m \in unsaved'
      BY <1>1 DEF Typed
    <2>2. CASE Decide /\ m \in scanned
      BY <1>1, <2>2, Decided
    <2>3. CASE m \in toRun /\ plans'[m] = plans[m]
      BY <2>3 DEF Counted, WouldExecute
    <2> QED
      BY <1>1, <2>1, <2>2, <2>3, SettledStep
  <1>2. ASSUME NEW m \in unsaved', WouldExecute(plans'[m])
        PROVE  /\ plans'[m].kind \in ActionKinds
               /\ newStates'[m].counters =
                    [diskStates'[m].counters EXCEPT ![plans'[m].kind] = @ + 1]
    <2>1. CASE Decide /\ m \in scanned
      <3>1. diskStates' = diskStates
        BY <2>1 DEF Decide, diskVars
      <3> QED
        BY <1>2, <2>1, <3>1, Decided
    <2>2. CASE m \in unsaved /\ plans'[m] = plans[m] /\ newStates'[m] = newStates[m]
               /\ diskStates'[m] = diskStates[m]
      BY <1>2, <2>2 DEF Counted
    <2> QED
      BY <2>1, <2>2, SettledStep
  <1> QED
    BY <1>1, <1>2 DEF Counted, WouldExecute

\* A window that has been open since before the decision is in the globals it reads.
Windowed ==
    windowHeld =>
       /\ pc \in {"identity", "reset"} => diskGlobals.window
       /\ \A m \in toRun : plans[m].kind \notin DestructiveKinds

LEMMA WindowedStep ==
    ASSUME Typed, Typed', Windowed, [DriverNext]_vars
    PROVE  Windowed'
  <1> USE DEF cycleVars, diskVars, envVars, simHistory, runHistory, historyVars
  <1>1. ASSUME windowHeld', pc' \in {"identity", "reset"} PROVE diskGlobals'.window
    <2>1. CASE Observe
      BY <1>1, <2>1 DEF Observe
    <2>2. CASE MaintenanceOn
      <3>1. PICK d \in WindowLengths :
               diskGlobals' = [diskGlobals EXCEPT !.window = TRUE, !.expires = MonotonicNow + d]
        BY <2>2 DEF MaintenanceOn
      <3> QED
        BY <3>1 DEF Typed, GlobalsRecords
    <2>3. CASE MaintenanceOff
      BY <1>1, <2>3 DEF MaintenanceOff
    <2>4. ASSUME SaveIdentity \/ (\E m \in Modems : ResetSwapped(m) \/ SwapSim(m)) \/ Tick
                 \/ CountOnly \/ UNCHANGED vars
          PROVE  diskGlobals'.window
      <3>1. UNCHANGED <<diskGlobals, windowHeld>> /\ (pc \in {"identity", "reset"})
        BY <1>1, <2>4 DEF SaveIdentity, ResetSwapped, SwapSim, Tick, CountOnly, vars
      <3> QED
        BY <1>1, <3>1 DEF Windowed
    <2>5. ASSUME Decide \/ Finish \/ Interrupt \/ GiveUp \/ Reboot
                 \/ (\E m \in Modems : Dispatch(m) \/ Persist(m))
          PROVE  FALSE
      BY <1>1, <2>5 DEF Decide, Finish, Interrupt, GiveUp, Reboot, Dispatch, Persist, EndCycle,
                        AllDispatched
    <2> QED
      BY <2>1, <2>2, <2>3, <2>4, <2>5 DEF DriverNext, FaultyNext, Next, Step, Environment
  <1>2. ASSUME windowHeld', NEW m \in toRun' PROVE plans'[m].kind \notin DestructiveKinds
    <2>1. m \in unsaved'
      BY <1>2 DEF Typed
    <2>2. CASE Decide /\ m \in scanned
      <3>1. pc = "reset" /\ windowHeld
        BY <1>2, <2>2 DEF Decide
      <3>2. ~GateMaintenance(diskGlobals.window, plans'[m].kind)
        BY <1>2, <2>2, Decided
      <3> QED
        BY <3>1, <3>2 DEF Windowed, GateMaintenance
    <2>3. CASE m \in toRun /\ plans'[m] = plans[m]
      <3>1. pc = "dispatch"
        BY <2>3 DEF Typed
      <3>2. windowHeld
        BY <1>2, <3>1 DEF DriverNext, FaultyNext, Next, Step, Environment, Observe, SaveIdentity,
              ResetSwapped, Decide, Dispatch, Persist, Finish, Interrupt, Reboot, Tick, SwapSim,
              MaintenanceOn, MaintenanceOff, GiveUp, CountOnly, vars
      <3> QED
        BY <2>3, <3>2 DEF Windowed
    <2> QED
      BY <1>2, <2>1, <2>2, <2>3, SettledStep
  <1> QED
    BY <1>1, <1>2 DEF Windowed

-----------------------------------------------------------------------------
(* SIM swaps *)

\* Outside the step that compares ICCIDs the map on disk is what was last read; a
\* swap is still to be noticed, still to be written, or written.
SwapSeen ==
    /\ pc /= "identity" => lastRead = diskIdentity
    /\ pc = "identity" => \A m \in Modems :
          lastRead[m] = IF m \in scanned /\ snaps[m].iccid /= NoSim THEN snaps[m].iccid
                                                                    ELSE diskIdentity[m]
    /\ \A m \in Modems : swapDue[m] =>
          \/ pc = "identity" /\ diskIdentity[m] /= NoSim /\ lastRead[m] /= diskIdentity[m]
          \/ m \in swapped
          \/ diskStates[m].counters = ZeroCounters

LEMMA SwapSeenStep ==
    ASSUME Typed, SwapSeen, [DriverNext]_vars
    PROVE  SwapSeen'
  <1> USE DEF cycleVars, diskVars, envVars, simHistory, runHistory, historyVars
  <1>1. CASE Observe
    <2>0. PICK D \in SUBSET Modems : \E seen \in [D -> Snapshots] :
             LET read == [m \in D |-> IF seen[m].simRead THEN sim[m] ELSE NoSim]
             IN  /\ scanned' = D
                 /\ snaps' = [m \in D |-> [issues |-> seen[m].issues,
                                           signal |-> seen[m].signal, iccid |-> read[m]]]
                 /\ lastRead' = [m \in Modems |->
                       IF m \in D /\ read[m] /= NoSim THEN read[m] ELSE lastRead[m]]
                 /\ swapDue' = [m \in Modems |->
                       swapDue[m] \/ (NoSim /= lastRead[m] /\ lastRead'[m] /= lastRead[m])]
      BY <1>1 DEF Observe
    <2>1. \A m \in Modems :
             /\ lastRead'[m] = IF m \in D /\ snaps'[m].iccid /= NoSim THEN snaps'[m].iccid
                                                                       ELSE lastRead[m]
             /\ swapDue'[m] = (swapDue[m] \/ (NoSim /= lastRead[m] /\ lastRead'[m] /= lastRead[m]))
      BY <2>0
    <2>2. /\ pc = "idle" /\ pc' = "identity" /\ scanned' = D
          /\ UNCHANGED <<swapped, diskStates, diskIdentity>>
      BY <1>1, <2>0 DEF Observe
    <2>3. lastRead = diskIdentity /\ swapped = {}
      BY <2>2 DEF SwapSeen, Typed
    <2>4. ASSUME NEW m \in Modems, swapDue'[m]
          PROVE  \/ diskIdentity[m] /= NoSim /\ lastRead'[m] /= diskIdentity[m]
                 \/ diskStates[m].counters = ZeroCounters
      BY <2>1, <2>2, <2>3, <2>4 DEF SwapSeen
    <2> QED
      BY <2>1, <2>2, <2>3, <2>4 DEF SwapSeen
  <1>2. CASE SaveIdentity
    <2> DEFINE current == {m \in scanned : snaps[m].iccid /= NoSim}
               changed == {m \in current : diskIdentity[m] /= snaps[m].iccid}
    <2>1. /\ pc = "identity" /\ pc' = "reset" /\ UNCHANGED <<swapDue, diskStates>>
          /\ swapped' = {m \in changed : diskIdentity[m] /= NoSim}
      BY <1>2 DEF SaveIdentity
    <2>2. lastRead' = diskIdentity'
      <3>1. CASE changed = {}
        <4>1. lastRead' = lastRead /\ diskIdentity' = diskIdentity
          BY <1>2, <3>1 DEF SaveIdentity
        <4>2. \A m \in Modems : lastRead[m] = diskIdentity[m]
          BY <2>1, <3>1 DEF SwapSeen
        <4>3. lastRead \in Identities /\ diskIdentity \in Identities
          BY DEF Typed
        <4> QED
          BY <4>1, <4>2, <4>3 DEF Identities
      <3>2. CASE changed /= {}
        BY <1>2, <3>2 DEF SaveIdentity
      <3> QED
        BY <3>1, <3>2
    <2>3. ASSUME NEW m \in Modems, diskIdentity[m] /= NoSim, lastRead[m] /= diskIdentity[m]
          PROVE  m \in swapped'
      BY <2>1, <2>3 DEF SwapSeen
    <2>4. swapped = {}
      BY <2>1 DEF Typed
    <2> QED
      BY <2>1, <2>2, <2>3, <2>4 DEF SwapSeen
  <1>3. ASSUME NEW n \in Modems, ResetSwapped(n) PROVE SwapSeen'
    <2>1. /\ pc = "reset" /\ swapped' = swapped \ {n}
          /\ UNCHANGED <<pc, lastRead, diskIdentity, swapDue>>
          /\ diskStates' = [diskStates EXCEPT ![n] = ResetStreakAndCounters(@)]
      BY <1>3 DEF ResetSwapped
    <2>2. diskStates'[n].counters = ZeroCounters
      BY <2>1, ResetType DEF Typed
    <2>3. \A m \in Modems \ {n} : diskStates'[m] = diskStates[m]
      BY <2>1 DEF Typed
    <2> QED
      BY <2>1, <2>2, <2>3 DEF SwapSeen
  <1>4. ASSUME NEW n \in Modems, Persist(n) PROVE SwapSeen'
    <2>1. /\ pc = "dispatch" /\ UNCHANGED <<pc, swapped, lastRead, diskIdentity>>
          /\ ~swapDue'[n]
          /\ \A m \in Modems \ {n} : swapDue'[m] = swapDue[m] /\ diskStates'[m] = diskStates[m]
      BY <1>4 DEF Persist, AllDispatched, Typed
    <2> QED
      BY <2>1 DEF SwapSeen
  <1>5. CASE Interrupt
    <2>1. /\ pc' = "idle" /\ lastRead' = diskIdentity /\ UNCHANGED <<diskStates, diskIdentity>>
          /\ \A m \in Modems :
                swapDue'[m] = (swapDue[m] /\ m \notin swapped /\ lastRead[m] = diskIdentity[m])
      BY <1>5 DEF Interrupt, EndCycle
    <2> QED
      BY <2>1 DEF SwapSeen
  <1>6. CASE Finish \/ GiveUp
    <2>1. /\ pc /= "identity" /\ pc' = "idle" /\ swapped = {}
          /\ UNCHANGED <<diskStates, diskIdentity, lastRead, swapDue>>
      BY <1>6 DEF Finish, AllDispatched, GiveUp, EndCycle, Typed
    <2> QED
      BY <2>1 DEF SwapSeen
  <1>7. CASE Decide
    <2>1. pc = "reset" /\ pc' = "dispatch" /\ UNCHANGED <<swapped, diskVars, historyVars>>
      BY <1>7 DEF Decide
    <2> QED
      BY <2>1 DEF SwapSeen
  <1>8. ASSUME (\E n \in Modems : Dispatch(n) \/ SwapSim(n)) \/ Reboot \/ Tick \/ MaintenanceOn
               \/ MaintenanceOff \/ CountOnly \/ UNCHANGED vars
        PROVE  SwapSeen'
    <2>1. UNCHANGED <<pc, scanned, snaps, swapped, diskStates, diskIdentity, lastRead, swapDue>>
      BY <1>8 DEF Dispatch, SwapSim, Reboot, Tick, MaintenanceOn, MaintenanceOff, CountOnly, vars
    <2> QED
      BY <2>1 DEF SwapSeen
  <1> QED
    BY <1>1, <1>2, <1>3, <1>4, <1>5, <1>6, <1>7, <1>8
    DEF DriverNext, FaultyNext, Next, Step, Environment

-----------------------------------------------------------------------------
(* Spacing *)

\* m's destructive action has started, and its timestamp is not saved yet.
Fired(m) == m \in unsaved \ toRun /\ WouldExecute(plans[m]) /\ plans[m].kind \in DestructiveKinds

\* Some destructive timestamp on disk is as late as m's last destructive action, in
\* the time of this boot or counted too early by an older one.
OnRecord(m) ==
    \E k \in DestructiveKinds :
       diskStates[m].last[k] /= Never /\ diskStates[m].last[k] + boot >= lastFired[m]

Spacing ==
    /\ \A m \in Modems : lastFired[m] /= Never /\ ~forgot[m] =>
          IF Fired(m) THEN newStates[m].last[plans[m].kind] + boot >= lastFired[m]
                      ELSE OnRecord(m)
    /\ \A m \in unsaved :
          /\ ~WouldExecute(plans[m]) => newStates[m].last = diskStates[m].last
          /\ WouldExecute(plans[m]) =>
                /\ newStates[m].last[plans[m].kind] \in Nat
                /\ newStates[m].last =
                      [diskStates[m].last EXCEPT ![plans[m].kind] = newStates[m].last[plans[m].kind]]
    /\ \A m \in toRun :
          plans[m].kind \in DestructiveKinds /\ lastFired[m] /= Never /\ ~forgot[m]
             => newStates[m].last[plans[m].kind] + boot - lastFired[m] >= LadderMinInterval

\* The history changes where an action starts, and where one is lost.
LEMMA FiredStep ==
    ASSUME Typed, [DriverNext]_vars, NEW m \in Modems
    PROVE  \/ Dispatch(m)
           \/ lastFired'[m] = lastFired[m] /\ (Interrupt \/ forgot'[m] = forgot[m])
  <1> USE DEF cycleVars, diskVars, envVars, simHistory, runHistory, historyVars
  <1>1. ASSUME NEW n \in Modems, Dispatch(n), n /= m
        PROVE  lastFired'[m] = lastFired[m] /\ forgot'[m] = forgot[m]
    <2>1. \/ UNCHANGED <<lastFired, forgot>>
          \/ /\ lastFired' = [lastFired EXCEPT ![n] = newStates[n].last[plans[n].kind] + boot]
             /\ forgot' = [forgot EXCEPT ![n] = FALSE]
      BY <1>1 DEF Dispatch
    <2> QED
      BY <1>1, <2>1 DEF Typed
  <1>2. CASE Interrupt
    BY <1>2 DEF Interrupt
  <1>3. ASSUME Observe \/ SaveIdentity \/ Decide \/ Finish \/ Reboot \/ Environment \/ GiveUp
               \/ CountOnly \/ UNCHANGED vars \/ \E n \in Modems : ResetSwapped(n) \/ Persist(n)
        PROVE  UNCHANGED <<lastFired, forgot>>
    BY <1>3 DEF Observe, SaveIdentity, Decide, Finish, Reboot, Environment, Tick, SwapSim,
       MaintenanceOn, MaintenanceOff, GiveUp, CountOnly, vars, ResetSwapped, Persist
  <1> QED
    BY <1>1, <1>2, <1>3 DEF DriverNext, FaultyNext, Next, Step

\* What Decide stores of the timestamps, and what its gates have seen of them.
LEMMA DecidedSpacing ==
    ASSUME Typed, Spacing, Decide, NEW m \in scanned
    PROVE  LET k == plans'[m].kind
               new == newStates'[m]
           IN  /\ ~WouldExecute(plans'[m]) => new.last = diskStates[m].last
               /\ WouldExecute(plans'[m]) =>
                     /\ new.last[k] \in Nat
                     /\ new.last = [diskStates[m].last EXCEPT ![k] = new.last[k]]
                     /\ k \in DestructiveKinds /\ lastFired[m] /= Never /\ ~forgot[m]
                          => new.last[k] + boot - lastFired[m] >= LadderMinInterval
  <1> DEFINE k == plans'[m].kind
             new == newStates'[m]
             st == diskStates[m]
  <1>1. m \in Modems /\ st \in ModemStates /\ MonotonicNow \in Nat /\ pc = "reset"
    BY MonotonicType DEF Typed, Decide
  <1>2. st.last \in [ActionKinds -> Timestamps]
    BY <1>1 DEF ModemStates
  <1>3. ~WouldExecute(plans'[m]) => new.last = st.last
    BY Decided
  <1>4. ASSUME WouldExecute(plans'[m])
        PROVE  /\ k \in ActionKinds
               /\ new.last = [st.last EXCEPT ![k] = MonotonicNow]
               /\ ~GateLadderBackoff(Transition(st, snaps[m]), k, MonotonicNow)
    BY <1>4, Decided
  <1>5. WouldExecute(plans'[m]) =>
           new.last[k] = MonotonicNow /\ new.last = [st.last EXCEPT ![k] = new.last[k]]
    <2> HIDE DEF k, new, st
    <2> QED
      BY <1>2, <1>4
  <1>6. ASSUME WouldExecute(plans'[m]), k \in DestructiveKinds, lastFired[m] /= Never, ~forgot[m]
        PROVE  MonotonicNow + boot - lastFired[m] >= LadderMinInterval
    <2>1. OnRecord(m)
      <3>1. ~Fired(m)
        BY <1>1 DEF Fired, Typed
      <3> QED
        BY <3>1, <1>1, <1>6 DEF Spacing
    <2>2. PICK j \in DestructiveKinds : st.last[j] /= Never /\ st.last[j] + boot >= lastFired[m]
      BY <2>1 DEF OnRecord
    <2>3. Transition(st, snaps[m]).last = st.last
      BY <1>1, TransitionType
    <2>4. ~(MonotonicNow - st.last[j] < LadderMinInterval)
      BY <1>4, <1>6, <2>2, <2>3 DEF GateLadderBackoff
    <2>5. /\ st.last[j] \in Int /\ lastFired[m] \in Int /\ boot \in Int /\ MonotonicNow \in Int
          /\ LadderMinInterval \in Int
      <3>1. j \in ActionKinds
        BY KindFacts
      <3>2. st.last[j] \in Timestamps
        BY <3>1, <1>2
      <3>3. lastFired[m] \in Timestamps /\ boot \in Nat
        BY <1>1 DEF Typed
      <3>4. LadderMinInterval \in Nat
        BY SettingsAssumption DEF SettingsAssumption
      <3>5. \A t \in Timestamps : t \in Int
        BY DEF Timestamps, Never
      <3>6. st.last[j] \in Int
        BY <3>2, <3>5
      <3>7. lastFired[m] \in Int
        BY <3>3, <3>5
      <3>8. MonotonicNow \in Int
        BY <1>1
      <3> HIDE DEF st
      <3> QED
        BY <3>3, <3>4, <3>6, <3>7, <3>8
    <2> HIDE DEF st, k, new
    <2> QED
      BY <2>2, <2>4, <2>5
  <1> QED
    BY <1>1, <1>3, <1>5, <1>6

LEMMA SpacingStep ==
    ASSUME Typed, Typed', Counted, Spacing, [DriverNext]_vars
    PROVE  Spacing'
  <1> USE DEF cycleVars, diskVars, envVars, simHistory, runHistory, historyVars
  <1>1. ASSUME NEW m \in unsaved'
        PROVE  /\ ~WouldExecute(plans'[m]) => newStates'[m].last = diskStates'[m].last
               /\ WouldExecute(plans'[m]) =>
                    /\ newStates'[m].last[plans'[m].kind] \in Nat
                    /\ newStates'[m].last = [diskStates'[m].last EXCEPT ![plans'[m].kind] =
                                                newStates'[m].last[plans'[m].kind]]
    <2>1. CASE Decide /\ m \in scanned
      <3>1. diskStates' = diskStates
        BY <2>1 DEF Decide
      <3> QED
        BY <2>1, <3>1, DecidedSpacing
    <2>2. CASE m \in unsaved /\ plans'[m] = plans[m] /\ newStates'[m] = newStates[m]
               /\ diskStates'[m] = diskStates[m]
      BY <2>2 DEF Spacing
    <2> QED
      BY <2>1, <2>2, SettledStep
  <1>2. ASSUME NEW m \in toRun', plans'[m].kind \in DestructiveKinds, lastFired'[m] /= Never,
               ~forgot'[m]
        PROVE  newStates'[m].last[plans'[m].kind] + boot' - lastFired'[m] >= LadderMinInterval
    <2>1. m \in unsaved' /\ m \in Modems
      BY <1>2 DEF Typed
    <2>2. CASE Decide /\ m \in scanned
      <3>1. UNCHANGED <<lastFired, forgot, boot>>
        BY <2>2 DEF Decide
      <3>2. WouldExecute(plans'[m])
        BY <1>2, <2>2, Decided
      <3> QED
        BY <1>2, <2>2, <3>1, <3>2, DecidedSpacing
    <2>3. CASE /\ m \in toRun /\ plans'[m] = plans[m] /\ newStates'[m] = newStates[m]
               /\ boot' = boot
      <3>1. ~Dispatch(m) /\ ~Interrupt
        BY <1>2 DEF Dispatch, Interrupt, EndCycle
      <3>2. lastFired'[m] = lastFired[m] /\ forgot'[m] = forgot[m]
        BY <2>1, <3>1, FiredStep
      <3> QED
        BY <1>2, <2>3, <3>2 DEF Spacing
    <2> QED
      BY <1>2, <2>1, <2>2, <2>3, SettledStep
  <1>3. ASSUME NEW m \in Modems, lastFired'[m] /= Never, ~forgot'[m]
        PROVE  IF Fired(m)' THEN newStates'[m].last[plans'[m].kind] + boot' >= lastFired'[m]
                            ELSE OnRecord(m)'
    <2>1. CASE Dispatch(m)
      <3>1. /\ pc = "dispatch" /\ m \in toRun /\ toRun' = toRun \ {m} /\ m \in unsaved
            /\ UNCHANGED <<unsaved, plans, newStates, diskStates, boot>>
        BY <2>1 DEF Dispatch, First, Typed
      <3>2. CASE plans[m].kind \in DestructiveKinds
        <4>1. lastFired'[m] = newStates[m].last[plans[m].kind] + boot
          BY <2>1, <3>2 DEF Dispatch, Typed
        <4>2. Fired(m)'
          BY <3>1, <3>2 DEF Fired, Counted, WouldExecute
        <4>3. lastFired'[m] \in Int
          BY Fresh DEF Typed
        <4> QED
          BY <3>1, <4>1, <4>2, <4>3
      <3>3. CASE plans[m].kind \notin DestructiveKinds
        <4>1. UNCHANGED <<lastFired, forgot>>
          BY <2>1, <3>3 DEF Dispatch
        <4>2. ~Fired(m)' /\ ~Fired(m)
          BY <3>1, <3>3 DEF Fired
        <4>3. OnRecord(m)
          BY <1>3, <4>1, <4>2 DEF Spacing
        <4> QED
          BY <3>1, <4>1, <4>2, <4>3 DEF OnRecord
      <3> QED
        BY <3>2, <3>3
    <2>2. CASE Interrupt
      <3>1. lastFired'[m] = lastFired[m] /\ ~Fired(m)' /\ UNCHANGED <<diskStates, boot>>
        BY <2>2 DEF Interrupt, EndCycle, Fired
      <3>2. ~forgot[m] /\ ~Fired(m)
        BY <1>3, <2>2, InterruptEffect DEF Fired
      <3>3. OnRecord(m)
        BY <1>3, <3>1, <3>2 DEF Spacing
      <3> QED
        BY <3>1, <3>3 DEF OnRecord
    <2>3. CASE ~Dispatch(m) /\ ~Interrupt
      <3>1. lastFired'[m] = lastFired[m] /\ ~forgot[m] /\ lastFired[m] /= Never
        BY <1>3, <2>3, FiredStep
      <3>2. IF Fired(m) THEN newStates[m].last[plans[m].kind] + boot >= lastFired[m]
                        ELSE OnRecord(m)
        BY <3>1 DEF Spacing
      <3>3. CASE Persist(m)
        <4>1. /\ m \in unsaved /\ toRun = {} /\ m \notin unsaved' /\ boot' = boot
              /\ diskStates'[m] = newStates[m] /\ newStates[m] \in ModemStates
              /\ diskStates[m] \in ModemStates
          BY <3>3 DEF Persist, AllDispatched, First, Typed
        <4>2. ~Fired(m)'
          BY <4>1 DEF Fired
        <4>3. CASE Fired(m)
          <5>1. newStates[m].last[plans[m].kind] \in Nat /\ plans[m].kind \in DestructiveKinds
            BY <4>1, <4>3 DEF Spacing, Fired
          <5>2. newStates[m].last[plans[m].kind] /= Never
            BY <5>1 DEF Never
          <5> QED
            BY <3>1, <3>2, <4>1, <4>2, <4>3, <5>1, <5>2 DEF OnRecord
        <4>4. CASE ~Fired(m)
          <5>1. PICK k \in DestructiveKinds :
                   diskStates[m].last[k] /= Never /\ diskStates[m].last[k] + boot >= lastFired[m]
            BY <3>2, <4>4 DEF OnRecord
          <5>2. newStates[m].last[k] = diskStates[m].last[k]
            <6>1. CASE ~WouldExecute(plans[m])
              BY <4>1, <6>1 DEF Spacing
            <6>2. CASE WouldExecute(plans[m])
              <7>1. plans[m].kind /= k
                BY <4>1, <4>4, <6>2 DEF Fired
              <7>2. newStates[m].last =
                       [diskStates[m].last EXCEPT ![plans[m].kind] = newStates[m].last[plans[m].kind]]
                BY <4>1, <6>2 DEF Spacing
              <7>3. diskStates[m].last \in [ActionKinds -> Timestamps] /\ k \in ActionKinds
                BY <4>1, KindFacts DEF ModemStates
              <7> QED
                BY <7>1, <7>2, <7>3
            <6> QED
              BY <6>1, <6>2
          <5> QED
            BY <3>1, <4>1, <4>2, <5>1, <5>2 DEF OnRecord
        <4> QED
          BY <4>3, <4>4
      <3>4. CASE \E n \in Modems : ResetSwapped(n)
        <4>1. PICK n \in Modems : ResetSwapped(n)
          BY <3>4
        <4>2. ~Fired(m) /\ ~Fired(m)' /\ boot' = boot
          BY <4>1 DEF ResetSwapped, Fired, Typed
        <4>3. diskStates'[m].last = diskStates[m].last
          <5>1. diskStates' = [diskStates EXCEPT ![n] = ResetStreakAndCounters(@)]
            BY <4>1 DEF ResetSwapped
          <5>2. ResetStreakAndCounters(diskStates[n]).last = diskStates[n].last
            BY ResetType DEF Typed
          <5> QED
            BY <5>1, <5>2 DEF Typed
        <4> QED
          BY <3>1, <3>2, <4>2, <4>3 DEF OnRecord
      <3>5. CASE Reboot
        <4>1. ~Fired(m) /\ ~Fired(m)' /\ diskStates' = diskStates /\ boot' >= boot
          BY <3>5 DEF Reboot, Fired, Typed
        <4>2. PICK k \in DestructiveKinds :
                 diskStates[m].last[k] /= Never /\ diskStates[m].last[k] + boot >= lastFired[m]
          BY <3>2, <4>1 DEF OnRecord
        <4>3. /\ diskStates[m].last[k] \in Int /\ lastFired[m] \in Int /\ boot \in Int
              /\ boot' \in Int
          BY Fresh, KindFacts DEF Typed, ModemStates
        <4>4. diskStates[m].last[k] + boot' >= lastFired[m]
          BY <4>1, <4>2, <4>3
        <4> QED
          BY <3>1, <4>1, <4>2, <4>4 DEF OnRecord
      <3>6. CASE Observe \/ SaveIdentity \/ Decide \/ Finish \/ GiveUp
        <4>1. ~Fired(m) /\ diskStates' = diskStates /\ boot' = boot
          BY <3>6 DEF Observe, SaveIdentity, Decide, Finish, GiveUp, Fired, Typed
        <4>2. ~Fired(m)'
          <5>1. CASE Decide
            BY <5>1, Decided DEF Fired, Decide
          <5>2. CASE Observe \/ SaveIdentity \/ Finish \/ GiveUp
            BY <5>2 DEF Observe, SaveIdentity, Finish, GiveUp, EndCycle, Fired, Typed
          <5> QED
            BY <3>6, <5>1, <5>2
        <4> QED
          BY <3>1, <3>2, <4>1, <4>2 DEF OnRecord
      <3>7. CASE \E n \in Modems : n /= m /\ (Dispatch(n) \/ Persist(n))
        <4>1. /\ newStates' = newStates /\ plans' = plans /\ boot' = boot
              /\ diskStates'[m] = diskStates[m]
              /\ m \in unsaved' <=> m \in unsaved
              /\ m \in toRun' <=> m \in toRun
          BY <3>7 DEF Dispatch, Persist, Typed
        <4> QED
          BY <3>1, <3>2, <4>1 DEF OnRecord, Fired, WouldExecute
      <3>8. CASE Environment \/ CountOnly \/ UNCHANGED vars
        <4>1. UNCHANGED <<newStates, plans, boot, diskStates, unsaved, toRun>>
          BY <3>8 DEF Environment, Tick, SwapSim, MaintenanceOn, MaintenanceOff, CountOnly, vars
        <4> QED
          BY <3>1, <3>2, <4>1 DEF OnRecord, Fired, WouldExecute
      <3> QED
        BY <2>3, <3>3, <3>4, <3>5, <3>6, <3>7, <3>8 DEF DriverNext, FaultyNext, Next, Step
    <2> QED
      BY <2>1, <2>2, <2>3
  <1> QED
    BY <1>1, <1>2, <1>3 DEF Spacing, WouldExecute, Fired

-----------------------------------------------------------------------------
(* The budget over crashes *)

\* As in PolicyEngine_proofs: the observer of the daemon emits no hung channel, and a
\* global driver reset leaves the streak of an ill modem alone.
NoneHung == \A s \in Snapshots : ~ChannelHung(s)

Unhung == pc \in {"identity", "reset"} =>
             DOMAIN snaps = scanned /\ \A m \in scanned : ~ChannelHung(snaps[m])

\* m's action has started, and the counter that says so is not saved yet.
Uncounted(m, k) == m \in unsaved \ toRun /\ WouldExecute(plans[m]) /\ plans[m].kind = k

Budgeted ==
    /\ \A m \in Modems :
          /\ diskStates[m].streak =
                IF healthyRun[m] = HealthyStreakDecayK THEN 0 ELSE healthyRun[m]
          /\ \A k \in LadderRungs :
                /\ diskStates[m].counters[k] <= Ceiling[k]
                /\ spent[m][k] <= diskStates[m].counters[k] + lost[m][k]
                                     + (IF Uncounted(m, k) THEN 1 ELSE 0)
    /\ \A m \in unsaved :
          /\ newStates[m].streak = IF WellAfter(m) THEN 0 ELSE RunAfter(m)
          /\ \A k \in LadderRungs : newStates[m].counters[k] <= Ceiling[k]
          /\ WouldExecute(plans[m]) /\ plans[m].kind \in LadderRungs
                => diskStates[m].counters[plans[m].kind] < Ceiling[plans[m].kind]
          /\ ~WellAfter(m) /\ ~WouldExecute(plans[m])
                => newStates[m].counters = diskStates[m].counters

LEMMA UnhungStep ==
    ASSUME NoneHung, Typed, Unhung, [DriverNext]_vars
    PROVE  Unhung'
  <1> USE DEF cycleVars, diskVars, envVars, simHistory, runHistory, historyVars
  <1>1. CASE Observe
    <2>0. PICK D \in SUBSET Modems : \E seen \in [D -> Snapshots] :
             LET read == [m \in D |-> IF seen[m].simRead THEN sim[m] ELSE NoSim]
             IN  /\ scanned' = D
                 /\ snaps' = [m \in D |-> [issues |-> seen[m].issues,
                                           signal |-> seen[m].signal, iccid |-> read[m]]]
      BY <1>1 DEF Observe
    <2>1. PICK seen \in [D -> Snapshots] :
             LET read == [m \in D |-> IF seen[m].simRead THEN sim[m] ELSE NoSim]
             IN  /\ scanned' = D
                 /\ snaps' = [m \in D |-> [issues |-> seen[m].issues,
                                           signal |-> seen[m].signal, iccid |-> read[m]]]
      BY <2>0
    <2>2. ASSUME NEW m \in D PROVE ~ChannelHung(snaps'[m])
      <3>1. snaps'[m].issues = seen[m].issues /\ seen[m] \in Snapshots
        BY <2>1
      <3> QED
        BY <3>1 DEF NoneHung, ChannelHung
    <2> QED
      BY <2>1, <2>2 DEF Unhung
  <1>2. CASE SaveIdentity \/ \E m \in Modems : ResetSwapped(m)
    BY <1>2 DEF SaveIdentity, ResetSwapped, Unhung
  <1>3. CASE Decide \/ Finish \/ Interrupt \/ Reboot \/ GiveUp
             \/ \E m \in Modems : Dispatch(m) \/ Persist(m)
    <2>1. pc' \notin {"identity", "reset"}
      BY <1>3 DEF Decide, Finish, Interrupt, Reboot, GiveUp, EndCycle, Dispatch, Persist,
         AllDispatched
    <2> QED
      BY <2>1 DEF Unhung
  <1>4. CASE Environment \/ CountOnly \/ UNCHANGED vars
    BY <1>4 DEF Environment, Tick, SwapSim, MaintenanceOn, MaintenanceOff, CountOnly, vars, Unhung
  <1> QED
    BY <1>1, <1>2, <1>3, <1>4 DEF DriverNext, FaultyNext, Next, Step

\* Without hung channels there is no global driver reset.
LEMMA NeverEligible ==
    ASSUME Unhung, pc = "reset"
    PROVE  ~Eligible
  BY DEF Unhung, Eligible, DriverResetEligible, HungModems

LEMMA CounterTypes ==
    ASSUME Typed, NEW m \in Modems, NEW k \in LadderRungs
    PROVE  /\ diskStates[m].counters \in [ActionKinds -> Nat]
           /\ diskStates[m].counters[k] \in Nat /\ diskStates[m].streak \in Nat
           /\ spent[m][k] \in Nat /\ lost[m][k] \in Nat /\ lost[m] \in [ActionKinds -> Nat]
           /\ Ceiling[k] \in Nat /\ k \in ActionKinds /\ healthyRun[m] \in Nat
  BY CeilingType, KindFacts, Fresh DEF Typed, ModemStates

\* A decided state has the streak that the healthy run will have, and no counter that
\* the run does not clear is taken back.
LEMMA DecidedBudget ==
    ASSUME Typed, Typed', Unhung, Budgeted, Decide, NEW m \in scanned
    PROVE  LET st == diskStates[m]
               new == newStates'[m]
               plan == plans'[m]
           IN  /\ new.streak = IF WellAfter(m)' THEN 0 ELSE RunAfter(m)'
               /\ \A k \in LadderRungs : new.counters[k] <= Ceiling[k]
               /\ WouldExecute(plan) /\ plan.kind \in LadderRungs
                     => st.counters[plan.kind] < Ceiling[plan.kind]
               /\ ~WellAfter(m)' /\ ~WouldExecute(plan) => new.counters = st.counters
  <1> DEFINE st == diskStates[m]
             snap == snaps[m]
             new == newStates'[m]
             plan == plans'[m]
  <1>1. m \in Modems /\ st \in ModemStates /\ MonotonicNow \in Nat /\ pc = "reset"
    BY MonotonicType DEF Typed, Decide
  <1>2. new = FinalizePerModemState(st, snap, plan, MonotonicNow) /\ plan \in Plans
    BY <1>1, NeverEligible, DecideEffect, Decided
  <1>3. WouldExecute(plan) => /\ plan.kind \in ActionKinds
                              /\ new.counters = [st.counters EXCEPT ![plan.kind] = @ + 1]
                              /\ plan.kind \in LadderRungs
                                    => st.counters[plan.kind] < Ceiling[plan.kind]
    BY Decided
  <1>4. /\ new.streak = IF Decays(st, snap) THEN 0 ELSE NewStreak(st, snap)
        /\ ~WouldExecute(plan) => new.counters = DecayedCounters(st, snap)
        /\ new.state = Transition(st, snap).state
    <2> HIDE DEF st, snap, plan, new
    <2> DEFINE F == FinalizePerModemState(st, snap, plan, MonotonicNow)
    <2>1. /\ F.streak = IF Decays(st, snap) THEN 0 ELSE NewStreak(st, snap)
          /\ F.counters = IF WouldExecute(plan)
                            THEN [DecayedCounters(st, snap) EXCEPT ![plan.kind] = @ + 1]
                            ELSE DecayedCounters(st, snap)
      BY <1>1, <1>2, <1>3, FinalizeSound
    <2>2. F.state = Transition(st, snap).state
      BY <1>1, FinalizeKeepsVerdict
    <2> QED
      BY <1>2, <2>1, <2>2
  <1>5. NewStreak(st, snap) = RunAfter(m)'
    <2>1. /\ healthyRun' = healthyRun
          /\ new.state /= "healthy" <=> Transition(st, snap).state /= "healthy"
      BY <1>4 DEF Decide, historyVars
    <2>2. st.streak = IF healthyRun[m] = HealthyStreakDecayK THEN 0 ELSE healthyRun[m]
      BY <1>1 DEF Budgeted
    <2>3. healthyRun[m] \in 0 .. HealthyStreakDecayK /\ HealthyStreakDecayK \in Nat \ {0}
      BY <1>1, Fresh DEF Typed
    <2>4. RunAfter(m)' = IF new.state /= "healthy" THEN 0
                         ELSE IF healthyRun[m] >= HealthyStreakDecayK THEN 1 ELSE healthyRun[m] + 1
      BY <2>1 DEF RunAfter
    <2>5. NewStreak(st, snap) = IF Transition(st, snap).state = "healthy" THEN st.streak + 1 ELSE 0
      BY DEF NewStreak
    <2> HIDE DEF st, snap, new
    <2> QED
      BY <2>1, <2>2, <2>3, <2>4, <2>5
  <1>6. Decays(st, snap) <=> WellAfter(m)'
    <2>1. RunAfter(m)' \in 0 .. HealthyStreakDecayK /\ HealthyStreakDecayK \in Nat
      <3>1. healthyRun'[m] \in 0 .. HealthyStreakDecayK /\ HealthyStreakDecayK \in Nat \ {0}
        BY <1>1, Fresh DEF Typed
      <3> QED
        BY <3>1 DEF RunAfter
    <2> QED
      BY <1>5, <2>1 DEF Decays, WellAfter
  <1>7. ASSUME NEW k \in LadderRungs PROVE new.counters[k] <= Ceiling[k]
    <2>1. st.counters \in [ActionKinds -> Nat] /\ k \in ActionKinds /\ Ceiling[k] \in Nat
          /\ st.counters[k] \in Nat
      BY <1>1, CounterTypes
    <2>2. st.counters[k] <= Ceiling[k]
      BY <1>1 DEF Budgeted
    <2>3. CASE WouldExecute(plan)
      <3>1. new.counters[k] = IF k = plan.kind THEN st.counters[k] + 1 ELSE st.counters[k]
        BY <1>3, <2>1, <2>3, Bumped
      <3>2. k = plan.kind => st.counters[k] < Ceiling[k]
        BY <1>3, <2>3
      <3> HIDE DEF new, st, plan
      <3> QED
        BY <2>1, <2>2, <3>1, <3>2
    <2>4. CASE ~WouldExecute(plan)
      <3>1. new.counters[k] = st.counters[k] \/ new.counters[k] = 0
        BY <1>4, <2>1, <2>4 DEF DecayedCounters, ZeroCounters
      <3> HIDE DEF new, st, plan
      <3> QED
        BY <2>1, <2>2, <3>1
    <2> QED
      BY <2>3, <2>4
  <1>8. ~WellAfter(m)' /\ ~WouldExecute(plan) => new.counters = st.counters
    BY <1>4, <1>6 DEF DecayedCounters
  <1>9. new.streak = IF WellAfter(m)' THEN 0 ELSE RunAfter(m)'
    BY <1>4, <1>5, <1>6
  <1> QED
    BY <1>3, <1>7, <1>8, <1>9

\* An execution adds one to what was spent when it starts, to what is on record when
\* it is saved, and to what is lost when the cycle is interrupted in between.
LEMMA SpentStep ==
    ASSUME Typed, Typed', Counted, Budgeted, [DriverNext]_vars,
           NEW m \in Modems, NEW k \in LadderRungs
    PROVE  (spent[m][k] <= diskStates[m].counters[k] + lost[m][k]
                              + (IF Uncounted(m, k) THEN 1 ELSE 0))'
  <1> USE DEF cycleVars, diskVars, envVars, simHistory, runHistory, historyVars
  <1> DEFINE One == IF Uncounted(m, k) THEN 1 ELSE 0
  <1>1. /\ spent[m][k] \in Nat /\ lost[m][k] \in Nat /\ diskStates[m].counters[k] \in Nat
        /\ diskStates[m].counters \in [ActionKinds -> Nat] /\ lost[m] \in [ActionKinds -> Nat]
        /\ k \in ActionKinds
    BY CounterTypes
  <1>2. spent'[m][k] \in Nat /\ lost'[m][k] \in Nat /\ diskStates'[m].counters[k] \in Nat
    <2>1. spent'[m] \in [LadderRungs -> Nat] /\ lost'[m] \in [ActionKinds -> Nat]
          /\ diskStates'[m] \in ModemStates
      BY DEF Typed
    <2> QED
      BY <2>1, <1>1 DEF ModemStates
  <1>3. spent[m][k] <= diskStates[m].counters[k] + lost[m][k] + One
    BY DEF Budgeted
  <1>s. ASSUME spent'[m][k] = spent[m][k], lost'[m][k] = lost[m][k],
               diskStates'[m].counters[k] = diskStates[m].counters[k],
               Uncounted(m, k) => Uncounted(m, k)'
        PROVE  spent'[m][k] <= diskStates'[m].counters[k] + lost'[m][k] + One'
    BY <1>s, <1>1, <1>2, <1>3
  <1>z. ASSUME spent'[m][k] = 0
        PROVE  spent'[m][k] <= diskStates'[m].counters[k] + lost'[m][k] + One'
    BY <1>z, <1>2
  <1>4. CASE Dispatch(m)
    <2>1. /\ m \in toRun /\ m \in unsaved /\ toRun' = toRun \ {m} /\ WouldExecute(plans[m])
          /\ UNCHANGED <<unsaved, plans, diskStates, lost>>
      BY <1>4 DEF Dispatch, First, Typed, Counted
    <2>2. ~Uncounted(m, k)
      BY <2>1 DEF Uncounted
    <2>3. CASE plans[m].kind = k
      <3>1. spent'[m][k] = spent[m][k] + 1
        BY <1>4, <2>3 DEF Dispatch, Typed
      <3>2. Uncounted(m, k)'
        BY <2>1, <2>3 DEF Uncounted, WouldExecute
      <3> QED
        BY <2>1, <2>2, <3>1, <3>2, <1>1, <1>3
    <2>4. CASE plans[m].kind /= k
      <3>1. spent'[m][k] = spent[m][k]
        BY <1>4, <2>4 DEF Dispatch, Typed
      <3> QED
        BY <2>1, <2>2, <3>1, <1>s
    <2> QED
      BY <2>3, <2>4
  <1>5. CASE Persist(m)
    <2>1. /\ m \in unsaved /\ toRun = {} /\ diskStates'[m] = newStates[m] /\ m \notin unsaved'
          /\ ~WellAfter(m) => spent' = spent /\ lost' = lost
          /\ WellAfter(m) => spent'[m] = NoSpent
      BY <1>5 DEF Persist, AllDispatched, First, Typed
    <2>2. CASE WellAfter(m)
      BY <2>1, <2>2, <1>z DEF NoSpent
    <2>3. CASE ~WellAfter(m)
      <3>1. CASE WouldExecute(plans[m])
        <4>1. newStates[m].counters = [diskStates[m].counters EXCEPT ![plans[m].kind] = @ + 1]
          BY <2>1, <3>1 DEF Counted
        <4>2. diskStates'[m].counters[k] = IF k = plans[m].kind THEN diskStates[m].counters[k] + 1
                                                                ELSE diskStates[m].counters[k]
          BY <2>1, <4>1, <1>1, Bumped
        <4>3. Uncounted(m, k) => k = plans[m].kind
          BY DEF Uncounted
        <4>4. ~Uncounted(m, k)'
          BY <2>1 DEF Uncounted
        <4> QED
          BY <2>1, <2>3, <4>2, <4>3, <4>4, <1>1, <1>3
      <3>2. CASE ~WouldExecute(plans[m])
        <4>1. newStates[m].counters = diskStates[m].counters /\ ~Uncounted(m, k)
          BY <2>1, <2>3, <3>2 DEF Budgeted, Uncounted
        <4> QED
          BY <2>1, <2>3, <4>1, <1>s
      <3> QED
        BY <3>1, <3>2
    <2> QED
      BY <2>2, <2>3
  <1>6. CASE ResetSwapped(m)
    <2>1. spent'[m] = NoSpent
      BY <1>6 DEF ResetSwapped, Typed
    <2> QED
      BY <2>1, <1>z DEF NoSpent
  <1>7. CASE Interrupt
    <2>1. /\ spent' = spent /\ diskStates' = diskStates /\ ~Uncounted(m, k)'
      BY <1>7 DEF Interrupt, EndCycle, Uncounted
    <2>2. lost'[m] = IF m \in unsaved \ toRun /\ WouldExecute(plans[m])
                       THEN [lost[m] EXCEPT ![plans[m].kind] = @ + 1] ELSE lost[m]
      BY <1>7, InterruptEffect
    <2>3. CASE Uncounted(m, k)
      <3>1. lost'[m][k] = lost[m][k] + 1
        BY <2>2, <2>3, <1>1, Bumped DEF Uncounted
      <3> QED
        BY <2>1, <2>3, <3>1, <1>1, <1>3
    <2>4. CASE ~Uncounted(m, k)
      <3>1. lost'[m][k] = lost[m][k]
        BY <2>2, <2>4, <1>1, Bumped DEF Uncounted
      <3> QED
        BY <2>1, <2>4, <3>1, <1>s
    <2> QED
      BY <2>3, <2>4
  <1>8. CASE Observe \/ SaveIdentity \/ Decide \/ Finish \/ GiveUp \/ Reboot
    <2>1. ~Uncounted(m, k) /\ UNCHANGED <<spent, lost, diskStates>>
      BY <1>8 DEF Observe, SaveIdentity, Decide, Finish, GiveUp, Reboot, Uncounted, Typed
    <2> QED
      BY <2>1, <1>s
  <1>9. ASSUME NEW n \in Modems, n /= m, Dispatch(n) \/ Persist(n) \/ ResetSwapped(n)
        PROVE  spent'[m][k] <= diskStates'[m].counters[k] + lost'[m][k] + One'
    <2>1. /\ plans' = plans /\ diskStates'[m] = diskStates[m]
          /\ m \in unsaved' <=> m \in unsaved
          /\ m \in toRun' <=> m \in toRun
      BY <1>9 DEF Dispatch, Persist, ResetSwapped, Typed
    <2>2. spent'[m] = spent[m] /\ lost'[m] = lost[m]
      BY <1>9 DEF Dispatch, Persist, ResetSwapped, Typed
    <2>3. Uncounted(m, k) => Uncounted(m, k)'
      BY <2>1 DEF Uncounted, WouldExecute
    <2> QED
      BY <2>1, <2>2, <2>3, <1>s
  <1>10. CASE Environment \/ CountOnly \/ UNCHANGED vars
    <2>1. UNCHANGED <<plans, unsaved, toRun, diskStates, spent, lost>>
      BY <1>10 DEF Environment, Tick, SwapSim, MaintenanceOn, MaintenanceOff, CountOnly, vars
    <2> QED
      BY <2>1, <1>s DEF Uncounted, WouldExecute
  <1> QED
    BY <1>4, <1>5, <1>6, <1>7, <1>8, <1>9, <1>10 DEF DriverNext, FaultyNext, Next, Step

LEMMA BudgetedStep ==
    ASSUME Typed, Typed', Counted, Unhung, Budgeted, [DriverNext]_vars
    PROVE  Budgeted'
  <1> USE DEF cycleVars, diskVars, envVars, simHistory, runHistory, historyVars
  <1>1. ASSUME NEW m \in Modems
        PROVE  /\ diskStates'[m].streak =
                     IF healthyRun'[m] = HealthyStreakDecayK THEN 0 ELSE healthyRun'[m]
               /\ \A k \in LadderRungs : diskStates'[m].counters[k] <= Ceiling[k]
    <2>1. CASE Persist(m)
      <3>1. /\ m \in unsaved /\ diskStates'[m] = newStates[m] /\ healthyRun'[m] = RunAfter(m)
        BY <2>1 DEF Persist, First, Typed
      <3> QED
        BY <3>1 DEF Budgeted, WellAfter
    <2>2. CASE ResetSwapped(m)
      <3>1. diskStates'[m] = ResetStreakAndCounters(diskStates[m]) /\ healthyRun'[m] = 0
        BY <2>2 DEF ResetSwapped, Typed
      <3>2. diskStates'[m].streak = 0 /\ diskStates'[m].counters = ZeroCounters
        BY <3>1, ResetType DEF Typed
      <3>3. \A k \in LadderRungs : diskStates'[m].counters[k] = 0 /\ 0 <= Ceiling[k]
        BY <3>2, KindFacts, CeilingType DEF ZeroCounters
      <3> QED
        BY <3>1, <3>2, <3>3
    <2>3. CASE ~Persist(m) /\ ~ResetSwapped(m)
      <3>1. diskStates'[m] = diskStates[m] /\ healthyRun'[m] = healthyRun[m]
        <4>1. ASSUME NEW n \in Modems, n /= m, Persist(n) \/ ResetSwapped(n)
              PROVE  diskStates'[m] = diskStates[m] /\ healthyRun'[m] = healthyRun[m]
          BY <4>1 DEF Persist, ResetSwapped, Typed
        <4>2. ASSUME Observe \/ SaveIdentity \/ Decide \/ Finish \/ Interrupt \/ Reboot
                     \/ Environment \/ GiveUp \/ CountOnly \/ UNCHANGED vars
                     \/ \E n \in Modems : Dispatch(n)
              PROVE  UNCHANGED <<diskStates, healthyRun>>
          BY <4>2 DEF Observe, SaveIdentity, Decide, Finish, Interrupt, Reboot, Environment, Tick,
             SwapSim, MaintenanceOn, MaintenanceOff, GiveUp, CountOnly, vars, Dispatch
        <4> QED
          BY <2>3, <4>1, <4>2 DEF DriverNext, FaultyNext, Next, Step
      <3> QED
        BY <3>1 DEF Budgeted
    <2> QED
      BY <2>1, <2>2, <2>3
  <1>2. ASSUME NEW m \in unsaved'
        PROVE  /\ newStates'[m].streak = IF WellAfter(m)' THEN 0 ELSE RunAfter(m)'
               /\ \A k \in LadderRungs : newStates'[m].counters[k] <= Ceiling[k]
               /\ WouldExecute(plans'[m]) /\ plans'[m].kind \in LadderRungs
                     => diskStates'[m].counters[plans'[m].kind] < Ceiling[plans'[m].kind]
               /\ ~WellAfter(m)' /\ ~WouldExecute(plans'[m])
                     => newStates'[m].counters = diskStates'[m].counters
    <2>1. CASE Decide /\ m \in scanned
      <3>1. diskStates' = diskStates
        BY <2>1 DEF Decide
      <3> QED
        BY <2>1, <3>1, DecidedBudget
    <2>2. CASE m \in unsaved /\ plans'[m] = plans[m] /\ newStates'[m] = newStates[m]
               /\ diskStates'[m] = diskStates[m] /\ healthyRun'[m] = healthyRun[m]
      <3>1. RunAfter(m)' = RunAfter(m) /\ (WellAfter(m)' <=> WellAfter(m))
        BY <2>2 DEF RunAfter, WellAfter
      <3> QED
        BY <2>2, <3>1 DEF Budgeted
    <2> QED
      BY <2>1, <2>2, SettledStep
  <1> QED
    BY <1>1, <1>2, SpentStep DEF Budgeted, WouldExecute

-----------------------------------------------------------------------------
(* Theorems *)

DriverInv == Typed /\ Counted /\ Windowed /\ SwapSeen /\ Spacing

LEMMA DriverInitially == Init => DriverInv /\ Unhung /\ Budgeted
  <1> SUFFICES ASSUME Init PROVE DriverInv /\ Unhung /\ Budgeted
    OBVIOUS
  <1>1. Typed
    BY InitTyped
  <1>2. /\ pc = "idle" /\ unsaved = {} /\ toRun = {} /\ ~windowHeld /\ lastRead = diskIdentity
        /\ \A m \in Modems : /\ ~swapDue[m] /\ lastFired[m] = Never /\ healthyRun[m] = 0
                             /\ diskStates[m] = FreshState /\ spent[m] = NoSpent
    BY DEF Init
  <1>3. Counted /\ Windowed /\ SwapSeen /\ Spacing /\ Unhung
    BY <1>2 DEF Counted, Windowed, SwapSeen, Spacing, Unhung
  <1>4. ASSUME NEW m \in Modems
        PROVE  /\ diskStates[m].streak =
                     IF healthyRun[m] = HealthyStreakDecayK THEN 0 ELSE healthyRun[m]
               /\ \A k \in LadderRungs :
                     /\ diskStates[m].counters[k] <= Ceiling[k]
                     /\ spent[m][k] <= diskStates[m].counters[k] + lost[m][k]
                                          + (IF Uncounted(m, k) THEN 1 ELSE 0)
    <2>1. diskStates[m].streak = 0 /\ diskStates[m].counters = ZeroCounters
      BY <1>2 DEF FreshState
    <2>2. ASSUME NEW k \in LadderRungs
          PROVE  /\ diskStates[m].counters[k] = 0 /\ spent[m][k] = 0 /\ 0 <= Ceiling[k]
                 /\ lost[m][k] \in Nat
      BY <1>1, <1>2, <2>1, KindFacts, CounterTypes DEF ZeroCounters, NoSpent
    <2> QED
      BY <1>2, <2>1, <2>2
  <1> QED
    BY <1>1, <1>2, <1>3, <1>4 DEF DriverInv, Budgeted

LEMMA DriverStep == DriverInv /\ [DriverNext]_vars => DriverInv'
  BY TypedStep, CountedStep, WindowedStep, SwapSeenStep, SpacingStep DEF DriverInv

\* Whatever is interrupted, and however a cycle's report ends, a modem is never acted
\* on twice in a cycle nor after its outcome is saved.
THEOREM RunBeforeSaveHolds == FaultySpec \/ ReportSpec => []RunBeforeSave
  <1>1. DriverInv => RunBeforeSave
    <2> SUFFICES ASSUME DriverInv, NEW m \in toRun
                 PROVE  /\ m \in unsaved
                        /\ newStates[m].counters[plans[m].kind] =
                              diskStates[m].counters[plans[m].kind] + 1
      BY DEF RunBeforeSave
    <2>1. m \in unsaved /\ m \in Modems
      BY DEF DriverInv, Typed
    <2>2. /\ plans[m].kind \in ActionKinds
          /\ newStates[m].counters = [diskStates[m].counters EXCEPT ![plans[m].kind] = @ + 1]
      BY <2>1 DEF DriverInv, Counted
    <2>3. diskStates[m].counters \in [ActionKinds -> Nat]
      BY <2>1 DEF DriverInv, Typed, ModemStates
    <2> QED
      BY <2>1, <2>2, <2>3, Bumped
  <1> QED
    BY <1>1, DriverInitially, DriverStep, StepsOfDriver, PTL DEF FaultySpec, ReportSpec, ReportInit

\* No state file ever says recovering or exhausted: neither a decision nor the reset after
\* a SIM swap writes it, and what is read back is what was written.  The status report
\* and the gauges are taken from the same states.
THEOREM DriverNeverExhausts ==
    FaultySpec \/ ReportSpec => [](\A m \in Modems : diskStates[m].state \in Entered)
  <1> DEFINE OnDisk == \A m \in Modems : diskStates[m].state \in Entered
             ToDisk == \A m \in unsaved : newStates[m].state \in Entered
  <1>1. Init => OnDisk /\ ToDisk
    BY DEF Init, FreshState, Entered
  <1>2. ASSUME Typed, OnDisk, ToDisk, [DriverNext]_vars PROVE OnDisk' /\ ToDisk'
    <2> USE DEF cycleVars, diskVars, envVars, simHistory, runHistory, historyVars
    <2>0. unsaved \subseteq Modems /\ diskStates \in [Modems -> ModemStates]
      BY <1>2 DEF Typed
    <2>1. CASE Decide
      <3>1. ASSUME NEW m \in scanned PROVE newStates'[m].state \in Entered
        <4>1. diskStates[m] \in ModemStates /\ diskStates[m].state \in Entered
          BY <1>2 DEF Typed
        <4>2. Transition(diskStates[m], snaps[m]).state \in Entered
          BY <4>1, TransitionEnters
        <4>3. newStates'[m].state = Transition(diskStates[m], snaps[m]).state
          BY <1>2, <2>1, <4>1, DecideEffect, FinalizeKeepsVerdict
        <4> QED
          BY <4>2, <4>3
      <3>2. unsaved' = scanned /\ UNCHANGED diskStates
        BY <2>1 DEF Decide
      <3> QED
        BY <1>2, <3>1, <3>2
    <2>2. ASSUME NEW m \in Modems, ResetSwapped(m) PROVE OnDisk' /\ ToDisk'
      <3>1. ResetStreakAndCounters(diskStates[m]).state = diskStates[m].state
        BY <2>0, ResetType
      <3>2. diskStates' = [diskStates EXCEPT ![m] = ResetStreakAndCounters(diskStates[m])]
        BY <2>2 DEF ResetSwapped
      <3>3. UNCHANGED <<unsaved, newStates>>
        BY <2>2 DEF ResetSwapped
      <3> QED
        BY <1>2, <2>0, <3>1, <3>2, <3>3
    <2>3. ASSUME NEW m \in Modems, Persist(m) PROVE OnDisk' /\ ToDisk'
      <3>1. /\ m \in unsaved /\ unsaved' = unsaved \ {m} /\ UNCHANGED newStates
            /\ diskStates' = [diskStates EXCEPT ![m] = newStates[m]]
        BY <2>3 DEF Persist, First
      <3> QED
        BY <1>2, <2>0, <3>1
    <2>4. CASE EndCycle /\ UNCHANGED diskStates
      BY <1>2, <2>4 DEF EndCycle
    <2>5. CASE UNCHANGED <<unsaved, newStates, diskStates>>
      BY <1>2, <2>5
    <2>6. CASE Step
      BY <2>1, <2>2, <2>3, <2>4, <2>5, <2>6 DEF Step, Observe, SaveIdentity, Finish, Dispatch
    <2>7. CASE Environment
      BY <2>5, <2>7 DEF Environment, Tick, MaintenanceOn, MaintenanceOff, SwapSim
    <2>8. CASE Interrupt
      BY <2>4, <2>8 DEF Interrupt
    <2>9. CASE Reboot \/ GiveUp \/ CountOnly \/ UNCHANGED vars
      BY <2>4, <2>5, <2>9 DEF Reboot, GiveUp, CountOnly, vars
    <2> QED
      BY <1>2, <2>6, <2>7, <2>8, <2>9 DEF DriverNext, FaultyNext, Next
  <1>3. Typed /\ [DriverNext]_vars => Typed'
    BY TypedStep
  <1> QED
    BY <1>1, <1>2, <1>3, InitTyped, StepsOfDriver, PTL DEF FaultySpec, ReportSpec, ReportInit

\* With a window open since before the decision no destructive action waits to run.
THEOREM MaintenanceRespectedHolds == FaultySpec \/ ReportSpec => []MaintenanceRespected
  <1>1. DriverInv => MaintenanceRespected
    BY DEF DriverInv, Windowed, MaintenanceRespected
  <1> QED
    BY <1>1, DriverInitially, DriverStep, StepsOfDriver, PTL DEF FaultySpec, ReportSpec, ReportInit

\* After another ICCID was read the next action is decided with a fresh budget.
THEOREM SwapResetsBudgetHolds == FaultySpec \/ ReportSpec => []SwapResetsBudget
  <1>1. DriverInv => SwapResetsBudget
    <2> SUFFICES ASSUME DriverInv, NEW m \in unsaved, swapDue[m]
                 PROVE  diskStates[m].counters = ZeroCounters
      BY DEF SwapResetsBudget
    <2>1. pc = "dispatch" /\ swapped = {} /\ m \in Modems
      BY DEF DriverInv, Typed
    <2> QED
      BY <2>1 DEF DriverInv, SwapSeen
  <1> QED
    BY <1>1, DriverInitially, DriverStep, StepsOfDriver, PTL DEF FaultySpec, ReportSpec, ReportInit

\* Over crashes, reboots and SIM swaps, two destructive actions on a modem are the
\* interval apart unless the record of the first was lost.
THEOREM DecisionSpacingHolds == FaultySpec \/ ReportSpec => DecisionSpacing
  <1>1. ASSUME DriverInv, DriverNext, NEW m \in Modems, StartsDestructive(m),
               lastFired[m] /= Never, ~forgot[m]
        PROVE  lastFired'[m] - lastFired[m] >= LadderMinInterval
    <2>1. Dispatch(m)
      <3>1. m \in toRun /\ m \notin toRun' /\ pc' = "dispatch" /\ pc = "dispatch"
        BY <1>1 DEF StartsDestructive, DriverInv, Typed
      <3> QED
        BY <1>1, <3>1 DEF DriverNext, FaultyNext, Next, Step, Environment, Observe, SaveIdentity,
           ResetSwapped, Decide, Dispatch, Persist, Finish, Interrupt, Reboot, Tick, SwapSim,
           MaintenanceOn, MaintenanceOff, GiveUp, CountOnly, EndCycle, cycleVars
    <2>2. m \in toRun /\ plans[m].kind \in DestructiveKinds
      BY <1>1 DEF StartsDestructive
    <2>3. lastFired'[m] = newStates[m].last[plans[m].kind] + boot
      BY <1>1, <2>1, <2>2 DEF Dispatch, DriverInv, Typed
    <2> QED
      <3>1. newStates[m].last[plans[m].kind] + boot - lastFired[m] >= LadderMinInterval
        BY <1>1, <2>2 DEF DriverInv, Spacing
      <3>2. newStates[m].last[plans[m].kind] \in Nat
        BY <1>1, <2>2 DEF DriverInv, Spacing, Counted, Typed
      <3>3. boot \in Int /\ lastFired[m] \in Timestamps /\ LadderMinInterval \in Int
        BY <1>1, SettingsAssumption DEF DriverInv, Typed, SettingsAssumption
      <3>4. lastFired[m] \in Int
        BY <3>3 DEF Timestamps, Never
      <3> QED
        BY <2>3, <3>1, <3>2, <3>3, <3>4
  <1>2. DriverInv /\ [DriverNext]_vars
          => [\A m \in Modems :
                (StartsDestructive(m) /\ lastFired[m] /= Never /\ ~forgot[m])
                   => lastFired'[m] - lastFired[m] >= LadderMinInterval]_vars
    BY <1>1
  <1> QED
    BY <1>2, DriverInitially, DriverStep, StepsOfDriver, PTL
    DEF FaultySpec, ReportSpec, ReportInit, DecisionSpacing

\* What a modem goes through stays within the ladder's budget, but for one execution
\* for every record that a crash destroyed.
THEOREM BudgetUpToLossHolds == ASSUME NoneHung PROVE FaultySpec \/ ReportSpec => []BudgetUpToLoss
  <1>1. DriverInv /\ Budgeted => BudgetUpToLoss
    <2> SUFFICES ASSUME DriverInv, Budgeted, NEW m \in Modems, NEW k \in LadderRungs
                 PROVE  spent[m][k] <= Ceiling[k] + lost[m][k]
      BY DEF BudgetUpToLoss
    <2>1. /\ spent[m][k] \in Nat /\ lost[m][k] \in Nat /\ diskStates[m].counters[k] \in Nat
          /\ Ceiling[k] \in Nat
      BY CounterTypes DEF DriverInv
    <2>2. /\ diskStates[m].counters[k] <= Ceiling[k]
          /\ spent[m][k] <= diskStates[m].counters[k] + lost[m][k]
                               + (IF Uncounted(m, k) THEN 1 ELSE 0)
      BY DEF Budgeted
    <2>3. Uncounted(m, k) => diskStates[m].counters[k] < Ceiling[k]
      BY DEF Budgeted, Uncounted
    <2> QED
      BY <2>1, <2>2, <2>3
  <1>2. DriverInv /\ Unhung /\ Budgeted /\ [DriverNext]_vars => (DriverInv /\ Unhung /\ Budgeted)'
    BY DriverStep, UnhungStep, BudgetedStep DEF DriverInv
  <1> QED
    BY <1>1, <1>2, DriverInitially, StepsOfDriver, PTL DEF FaultySpec, ReportSpec, ReportInit

-----------------------------------------------------------------------------
(* The promise *)

\* While nothing is interrupted no record is lost; and what waits to run was decided
\* on an ill modem, not later than now.
Calm ==
    /\ boot = 0
    /\ \A m \in Modems : ~forgot[m] /\ \A k \in LadderRungs : lost[m][k] = 0
    /\ \A m \in toRun : /\ newStates[m].state /= "healthy"
                        /\ newStates[m].last[plans[m].kind] \in 0 .. now

LEMMA CalmInitially == Init => Calm
  BY KindFacts DEF Init, Calm, ZeroCounters

LEMMA CalmStep ==
    ASSUME Typed, Typed', Counted, Calm, [Next]_vars
    PROVE  Calm'
  <1> USE DEF cycleVars, diskVars, envVars, simHistory, runHistory, historyVars
  <1>0. [DriverNext]_vars
    BY DEF DriverNext, FaultyNext
  <1>1. boot' = 0 /\ now' \in Nat /\ now' >= now /\ now \in Nat
    <2>1. boot' = boot /\ (now' = now \/ now' = now + 1)
      <3>1. CASE Observe \/ SaveIdentity \/ Decide \/ Finish
                 \/ \E m \in Modems : ResetSwapped(m) \/ Dispatch(m) \/ Persist(m)
        BY <3>1 DEF Observe, SaveIdentity, Decide, Finish, ResetSwapped, Dispatch, Persist
      <3>2. CASE Environment \/ UNCHANGED vars
        BY <3>2 DEF Environment, Tick, MaintenanceOn, MaintenanceOff, SwapSim, vars
      <3> QED
        BY <3>1, <3>2 DEF Next, Step
    <2>2. boot = 0 /\ now \in Nat /\ now' \in Nat
      BY DEF Calm, Typed
    <2> QED
      BY <2>1, <2>2
  <1>2. ASSUME NEW m \in Modems PROVE ~forgot'[m]
    <2>1. forgot' = forgot \/ \E n \in Modems : forgot' = [forgot EXCEPT ![n] = FALSE]
      BY DEF Next, Step, Environment, Observe, SaveIdentity, Decide, Finish,
         ResetSwapped, Dispatch, Persist, Tick, MaintenanceOn, MaintenanceOff, SwapSim, vars
    <2> QED
      BY <2>1 DEF Calm, Typed
  <1>3. ASSUME NEW m \in Modems, NEW k \in LadderRungs PROVE lost'[m][k] = 0
    <2>1. lost' = lost \/ \E n \in Modems : lost' = [lost EXCEPT ![n] = ZeroCounters]
      BY DEF Next, Step, Environment, Observe, SaveIdentity, Decide, Finish,
         ResetSwapped, Dispatch, Persist, Tick, MaintenanceOn, MaintenanceOff, SwapSim, vars
    <2>2. lost'[m] = lost[m] \/ lost'[m] = ZeroCounters
      BY <2>1 DEF Typed
    <2>3. ZeroCounters[k] = 0
      BY KindFacts DEF ZeroCounters
    <2> QED
      BY <2>2, <2>3 DEF Calm
  <1>4. ASSUME NEW m \in toRun'
        PROVE  /\ newStates'[m].state /= "healthy"
               /\ newStates'[m].last[plans'[m].kind] \in 0 .. now'
    <2>1. m \in unsaved'
      BY <1>4 DEF Typed
    <2>2. CASE Decide /\ m \in scanned
      <3>1. WouldExecute(plans'[m])
        BY <1>4, <2>2, Decided
      <3>2. /\ plans'[m].kind \in ActionKinds /\ newStates'[m].state /= "healthy"
            /\ newStates'[m].last = [diskStates[m].last EXCEPT ![plans'[m].kind] = MonotonicNow]
        BY <2>2, <3>1, Decided
      <3>3. diskStates[m].last \in [ActionKinds -> Timestamps]
        BY <2>2 DEF Typed, ModemStates
      <3>4. newStates'[m].last[plans'[m].kind] = now
        BY <3>2, <3>3, <1>1 DEF MonotonicNow, Calm
      <3> QED
        BY <3>2, <3>4, <1>1
    <2>3. CASE m \in toRun /\ newStates'[m] = newStates[m] /\ plans'[m] = plans[m]
      <3>1. newStates[m].state /= "healthy" /\ newStates[m].last[plans[m].kind] \in 0 .. now
        BY <2>3 DEF Calm
      <3>2. \A n \in Int : n \in 0 .. now => n \in 0 .. now'
        BY <1>1
      <3> QED
        BY <2>3, <3>1, <3>2
    <2> QED
      BY <1>0, <1>4, <2>1, <2>2, <2>3, SettledStep
  <1> QED
    BY <1>1, <1>2, <1>3, <1>4 DEF Calm

\* What the promise knows of a modem: a decision counts before it is saved.
HealthyBar(m) == IF m \in unsaved THEN RunAfter(m) ELSE healthyRun[m]
SpentBar(m) == IF m \in unsaved /\ WellAfter(m) THEN NoSpent ELSE spent[m]

\* The promise's actions in these terms.
LEMMA InPromise ==
    ASSUME NEW m \in Modems
    PROVE  /\ HealthyBar(m)' = HealthyBar(m) /\ SpentBar(m)' = SpentBar(m)
              /\ lastFired'[m] = lastFired[m] => Promise!Skipped(m)
           /\ HealthyBar(m)' = (IF HealthyBar(m) < HealthyStreakDecayK THEN HealthyBar(m) + 1 ELSE 1)
              /\ SpentBar(m)' = (IF HealthyBar(m)' = HealthyStreakDecayK THEN NoSpent
                                                                         ELSE SpentBar(m))
              /\ lastFired'[m] = lastFired[m] => Promise!FoundHealthy(m)
           /\ HealthyBar(m)' = 0 /\ SpentBar(m)' = SpentBar(m)
              /\ (lastFired'[m] = lastFired[m] \/ (lastFired'[m] \in 0 .. now /\ Promise!Spaced(m)))
                 => Promise!FoundIll(m)
           /\ HealthyBar(m)' = 0 /\ SpentBar(m)' = NoSpent /\ lastFired'[m] = lastFired[m]
                 => Promise!NewSim(m)
           /\ \A k \in LadderRungs :
                 /\ HealthyBar(m)' = 0 /\ SpentBar(m)[k] < Ceiling[k]
                 /\ SpentBar(m)' = [SpentBar(m) EXCEPT ![k] = @ + 1]
                 /\ IF k \in DestructiveKinds THEN lastFired'[m] \in 0 .. now /\ Promise!Spaced(m)
                                              ELSE lastFired'[m] = lastFired[m]
                 => Promise!Reset(m, k)
  BY DEF Promise!Skipped, Promise!FoundHealthy, Promise!FoundIll, Promise!NewSim, Promise!Reset,
     Promise!None, NoSpent, HealthyBar, SpentBar

Allowed(m) == \/ Promise!Skipped(m) \/ Promise!FoundHealthy(m) \/ Promise!FoundIll(m)
              \/ Promise!NewSim(m) \/ \E k \in LadderRungs : Promise!Reset(m, k)

LEMMA RoundOfAll ==
    ASSUME Typed', \A m \in Modems : Allowed(m), now' = now
    PROVE  Promise!Round
  BY DEF Typed, Promise!Round, Allowed

\* A modem of which the step leaves the driver's view alone is skipped.
LEMMA Overlooked ==
    ASSUME NEW m \in Modems, m \in unsaved' <=> m \in unsaved,
           newStates'[m] = newStates[m] \/ m \notin unsaved,
           healthyRun'[m] = healthyRun[m], spent'[m] = spent[m], lastFired'[m] = lastFired[m]
    PROVE  Allowed(m)
  <1>1. m \in unsaved => RunAfter(m)' = RunAfter(m) /\ (WellAfter(m)' <=> WellAfter(m))
    BY DEF RunAfter, WellAfter
  <1>2. HealthyBar(m)' = HealthyBar(m) /\ SpentBar(m)' = SpentBar(m)
    BY <1>1 DEF HealthyBar, SpentBar
  <1> QED
    BY <1>2, InPromise DEF Allowed

\* A decision finds each modem of the scan healthy or ill.
LEMMA DecideAllowed ==
    ASSUME Typed, Typed', Decide, NEW m \in Modems
    PROVE  Allowed(m)
  <1>1. /\ unsaved = {} /\ unsaved' = scanned
        /\ UNCHANGED <<healthyRun, spent, lastFired>>
    BY DEF Decide, Typed, historyVars, runHistory
  <1>2. healthyRun[m] \in 0 .. HealthyStreakDecayK /\ HealthyStreakDecayK \in Nat \ {0}
    BY Fresh DEF Typed
  <1>3. CASE m \notin scanned
    BY <1>1, <1>3, Overlooked
  <1>4. CASE m \in scanned
    <2>1. HealthyBar(m) = healthyRun[m] /\ SpentBar(m) = spent[m] /\ HealthyBar(m)' = RunAfter(m)'
          /\ SpentBar(m)' = IF WellAfter(m)' THEN NoSpent ELSE spent[m]
      BY <1>1, <1>4 DEF HealthyBar, SpentBar
    <2>2. WellAfter(m)' <=> RunAfter(m)' = HealthyStreakDecayK
      BY DEF WellAfter
    <2>3. RunAfter(m)' = IF newStates'[m].state /= "healthy" THEN 0
                         ELSE IF healthyRun[m] >= HealthyStreakDecayK THEN 1 ELSE healthyRun[m] + 1
      BY <1>1 DEF RunAfter
    <2>4. CASE newStates'[m].state = "healthy"
      <3>1. HealthyBar(m)' = IF HealthyBar(m) < HealthyStreakDecayK THEN HealthyBar(m) + 1 ELSE 1
        BY <1>2, <2>1, <2>3, <2>4
      <3>2. Promise!FoundHealthy(m)
        BY <1>1, <2>1, <2>2, <3>1, InPromise
      <3> QED
        BY <3>2 DEF Allowed
    <2>5. CASE newStates'[m].state /= "healthy"
      <3>1. HealthyBar(m)' = 0 /\ ~WellAfter(m)'
        BY <1>2, <2>1, <2>2, <2>3, <2>5
      <3>2. Promise!FoundIll(m)
        BY <1>1, <2>1, <3>1, InPromise
      <3> QED
        BY <3>2 DEF Allowed
    <2> QED
      BY <2>4, <2>5
  <1> QED
    BY <1>3, <1>4

\* The start of an action takes from the budget of a modem that was found ill.
LEMMA DispatchAllowed ==
    ASSUME Typed, Counted, Spacing, Budgeted, Calm, NEW m \in Modems, Dispatch(m)
    PROVE  Allowed(m)
  <1> SUFFICES ASSUME NEW k, k = plans[m].kind PROVE Allowed(m)
    OBVIOUS
  <1>1. /\ m \in toRun /\ m \in unsaved /\ k \in ActionKinds
        /\ UNCHANGED <<unsaved, newStates, healthyRun>>
        /\ spent' = IF k \in LadderRungs THEN [spent EXCEPT ![m][k] = @ + 1] ELSE spent
        /\ IF k \in DestructiveKinds
             THEN lastFired' = [lastFired EXCEPT ![m] = newStates[m].last[k] + boot]
             ELSE lastFired' = lastFired
    BY DEF Dispatch, First, Typed
  <1>2. RunAfter(m) = 0 /\ RunAfter(m)' = 0 /\ ~WellAfter(m) /\ ~WellAfter(m)'
    BY <1>1, Fresh DEF Calm, RunAfter, WellAfter
  <1>3. HealthyBar(m)' = 0 /\ SpentBar(m) = spent[m] /\ SpentBar(m)' = spent'[m]
    BY <1>1, <1>2 DEF HealthyBar, SpentBar
  <1>4. k \in DestructiveKinds => lastFired'[m] \in 0 .. now /\ Promise!Spaced(m)
    <2> SUFFICES ASSUME k \in DestructiveKinds
                 PROVE  lastFired'[m] \in 0 .. now /\ Promise!Spaced(m)
      OBVIOUS
    <2>1. newStates[m].last[k] \in 0 .. now /\ boot = 0 /\ ~forgot[m]
      BY <1>1 DEF Calm
    <2>2. lastFired'[m] = newStates[m].last[k] + boot
      BY <1>1 DEF Typed
    <2>3. lastFired'[m] = newStates[m].last[k]
      BY <2>1, <2>2 DEF Typed
    <2>4. lastFired[m] /= Never => newStates[m].last[k] + boot - lastFired[m] >= LadderMinInterval
      BY <1>1, <2>1 DEF Spacing
    <2>5. lastFired[m] \in Int /\ newStates[m].last[k] \in Int
      <3>1. lastFired[m] \in Timestamps
        BY DEF Typed
      <3>2. newStates[m].last[k] \in Int
        BY <2>1
      <3> QED
        BY <3>1, <3>2 DEF Timestamps, Never
    <2>6. lastFired[m] /= -1 => newStates[m].last[k] - lastFired[m] >= LadderMinInterval
      BY <2>1, <2>4, <2>5 DEF Never
    <2> QED
      BY <2>1, <2>3, <2>6 DEF Promise!Spaced
  <1>5. k \notin DestructiveKinds => lastFired'[m] = lastFired[m]
    BY <1>1
  <1>6. CASE k \in LadderRungs
    <2>1. spent[m][k] < Ceiling[k]
      <3>1. ~Uncounted(m, k)
        BY <1>1 DEF Uncounted
      <3>2. diskStates[m].counters[k] < Ceiling[k]
        BY <1>1, <1>6 DEF Budgeted, Counted
      <3>3. spent[m][k] <= diskStates[m].counters[k] + lost[m][k] + 0
        BY <3>1, <1>6 DEF Budgeted
      <3>4. lost[m][k] = 0
        BY <1>6 DEF Calm
      <3> QED
        BY <1>6, <3>2, <3>3, <3>4, CounterTypes
    <2>2. spent'[m] = [spent[m] EXCEPT ![k] = @ + 1]
      BY <1>1, <1>6 DEF Typed
    <2>3. Promise!Reset(m, k)
      <3>1. SpentBar(m)[k] < Ceiling[k] /\ SpentBar(m)' = [SpentBar(m) EXCEPT ![k] = @ + 1]
        BY <1>3, <2>1, <2>2
      <3>2. IF k \in DestructiveKinds THEN lastFired'[m] \in 0 .. now /\ Promise!Spaced(m)
                                      ELSE lastFired'[m] = lastFired[m]
        BY <1>4, <1>5
      <3> QED
        BY <1>3, <1>6, <3>1, <3>2, InPromise
    <2> QED
      BY <1>6, <2>3 DEF Allowed
  <1>7. CASE k \notin LadderRungs
    <2>1. spent'[m] = spent[m]
      BY <1>1, <1>7
    <2>2. Promise!FoundIll(m)
      BY <1>3, <1>4, <1>5, <2>1, InPromise
    <2> QED
      BY <2>2 DEF Allowed
  <1> QED
    BY <1>6, <1>7

LEMMA StepAllowed ==
    ASSUME Typed, Typed', Counted, Spacing, Budgeted, Calm, [Next]_vars
    PROVE  [Promise!Next]_(Promise!vars)
  <1> USE DEF cycleVars, diskVars, envVars, simHistory, runHistory, historyVars
  <1>1. CASE Decide
    <2>1. now' = now
      BY <1>1 DEF Decide
    <2> QED
      BY <1>1, <2>1, DecideAllowed, RoundOfAll DEF Promise!Next
  <1>2. ASSUME NEW m \in Modems, Dispatch(m) PROVE Promise!Round
    <2>1. /\ UNCHANGED <<now, unsaved, newStates, healthyRun>>
          /\ \A n \in Modems \ {m} : spent'[n] = spent[n] /\ lastFired'[n] = lastFired[n]
      BY <1>2 DEF Dispatch, Typed
    <2>2. \A n \in Modems \ {m} : Allowed(n)
      BY <2>1, Overlooked
    <2> QED
      BY <1>2, <2>1, <2>2, DispatchAllowed, RoundOfAll
  <1>3. ASSUME NEW m \in Modems, ResetSwapped(m) PROVE Promise!Round
    <2>1. /\ UNCHANGED <<now, unsaved, newStates, lastFired>> /\ unsaved = {}
          /\ spent' = [spent EXCEPT ![m] = NoSpent] /\ healthyRun' = [healthyRun EXCEPT ![m] = 0]
      BY <1>3 DEF ResetSwapped, Typed
    <2>2. ASSUME NEW n \in Modems \ {m} PROVE Allowed(n)
      <3>1. spent'[n] = spent[n] /\ healthyRun'[n] = healthyRun[n]
        BY <2>1, <2>2 DEF Typed
      <3> QED
        BY <2>1, <3>1, Overlooked
    <2>3. Allowed(m)
      <3>1. HealthyBar(m)' = 0 /\ SpentBar(m)' = NoSpent
        BY <2>1 DEF HealthyBar, SpentBar, Typed
      <3>2. Promise!NewSim(m)
        BY <2>1, <3>1, InPromise
      <3> QED
        BY <3>2 DEF Allowed
    <2> QED
      BY <2>1, <2>2, <2>3, RoundOfAll
  <1>4. ASSUME NEW m \in Modems, Persist(m) PROVE UNCHANGED Promise!vars
    <2>1. /\ UNCHANGED <<now, newStates, lastFired>> /\ unsaved' = unsaved \ {m} /\ m \in unsaved
          /\ healthyRun' = [healthyRun EXCEPT ![m] = RunAfter(m)]
          /\ spent' = IF WellAfter(m) THEN [spent EXCEPT ![m] = NoSpent] ELSE spent
      BY <1>4 DEF Persist, First
    <2>2. ASSUME NEW n \in Modems PROVE HealthyBar(n)' = HealthyBar(n) /\ SpentBar(n)' = SpentBar(n)
      <3>1. CASE n = m
        BY <2>1, <3>1 DEF HealthyBar, SpentBar, Typed
      <3>2. CASE n /= m
        <4>1. spent'[n] = spent[n] /\ healthyRun'[n] = healthyRun[n]
              /\ (n \in unsaved' <=> n \in unsaved)
          BY <2>1, <3>2 DEF Typed
        <4>2. RunAfter(n)' = RunAfter(n) /\ (WellAfter(n)' <=> WellAfter(n))
          BY <2>1, <4>1 DEF RunAfter, WellAfter
        <4> QED
          BY <4>1, <4>2 DEF HealthyBar, SpentBar
      <3> QED
        BY <3>1, <3>2
    <2> QED
      BY <2>1, <2>2 DEF Promise!vars, HealthyBar, SpentBar
  <1>5. CASE Observe \/ SaveIdentity \/ Finish
    <2>1. UNCHANGED <<now, lastFired, spent, healthyRun>> /\ unsaved = {} /\ unsaved' = {}
      BY <1>5 DEF Observe, SaveIdentity, Finish, EndCycle, Typed
    <2> QED
      BY <2>1 DEF Promise!vars
  <1>6. CASE Environment \/ UNCHANGED vars
    <2>1. /\ UNCHANGED <<lastFired, spent, healthyRun, unsaved, newStates>>
          /\ now' = now \/ now' = now + 1
      BY <1>6 DEF Environment, Tick, MaintenanceOn, MaintenanceOff, SwapSim, vars
    <2>2. \A m \in Modems : RunAfter(m)' = RunAfter(m) /\ (WellAfter(m)' <=> WellAfter(m))
      BY <2>1 DEF RunAfter, WellAfter
    <2> QED
      BY <2>1, <2>2 DEF Promise!vars, Promise!Tick, Promise!Next
  <1> QED
    BY <1>1, <1>2, <1>3, <1>4, <1>5, <1>6 DEF Next, Step, Promise!Next

LEMMA InitAllowed == Init => Promise!Init
  BY DEF Init, Promise!Init, Promise!None, NoSpent, Never

\* While nothing is interrupted, and where no channel hangs, the driver over its files
\* keeps what RecoveryBudget promises, SIM swaps and windows included.
THEOREM DriverImplementsBudget ==
    ASSUME NoneHung PROVE Spec => ImplementsBudget
  <1> DEFINE Inv == DriverInv /\ Unhung /\ Budgeted /\ Calm
  <1>1. Init => Inv /\ Promise!Init
    BY DriverInitially, CalmInitially, InitAllowed
  <1>2. Inv /\ [Next]_vars => Inv' /\ [Promise!Next]_(Promise!vars)
    <2> SUFFICES ASSUME Inv, [Next]_vars PROVE Inv' /\ [Promise!Next]_(Promise!vars)
      OBVIOUS
    <2>1. [DriverNext]_vars
      BY DEF DriverNext, FaultyNext
    <2>2. (DriverInv /\ Unhung /\ Budgeted)'
      BY <2>1, DriverStep, UnhungStep, BudgetedStep DEF DriverInv
    <2> QED
      BY <2>2, CalmStep, StepAllowed DEF DriverInv
  <1> QED
    BY <1>1, <1>2, PTL DEF Spec, ImplementsBudget, Promise!Spec

-----------------------------------------------------------------------------
(* What the world is told *)

StateOnDisk(m) == diskStates[m].state

\* The report of the cycle says what was in the files, and what is or will be.
Reported ==
    /\ tail \in {"none", "log", "status", "announce"}
    /\ tail /= "none" => pc = "idle"
    /\ tail = "none" /\ pc /= "dispatch" => report = Nothing
    /\ pc = "dispatch" => DOMAIN report = scanned
    /\ DOMAIN report \subseteq Modems
    /\ \A m \in DOMAIN report :
          /\ IF m \in unsaved
               THEN StateOnDisk(m) = report[m].from /\ newStates[m].state = report[m].to
               ELSE StateOnDisk(m) = report[m].to
          /\ report[m].from = "degraded" => report[m].to \in {"degraded", "healthy"}

\* Modems of this cycle that are saved as fallen ill, and not announced.
Ill == ToAnnounce \ unsaved

\* Owed is an announcement that this cycle makes, or that was cut off; and a modem of
\* which one is owed is still ill, so its next transition is to healthy.
Owing ==
    /\ owed \subseteq Modems /\ owed \subseteq cutOff \cup Ill /\ Ill \subseteq owed
    /\ \A m \in owed : StateOnDisk(m) = "degraded"
    /\ \A m \in owed \cap DOMAIN report : FellIll(report[m]) \/ report[m].from = "degraded"

\* The surfaces say s of m; a modem that is not there has no status and no gauge.
Say(m, s) == logged[m] = s /\ status[m] \in {s, Absent} /\ gauge[m] \in {s, Absent}

Before(m) == IF m \in DOMAIN report THEN report[m].from ELSE StateOnDisk(m)

Agreeing ==
    /\ logged = [m \in Modems |-> logged[m]] /\ gauge = [m \in Modems |-> gauge[m]]
    /\ tail \in {"none", "log"} => \A m \in Modems \ cutOff : Say(m, Before(m))
    /\ tail = "status" => /\ \A m \in Changed : logged[m] = report[m].to
                          /\ \A m \in Modems \ (cutOff \cup Changed) : Say(m, StateOnDisk(m))
    /\ tail = "announce" => \A m \in Modems \ cutOff : Say(m, StateOnDisk(m))

TailInv == Reported /\ Owing /\ Agreeing

LEMMA NothingReported == DOMAIN Nothing = {}
  BY DEF Nothing

\* The steps that tell the world nothing and save nothing.
LEMMA QuietStep ==
    ASSUME Typed, Reported, Look \/ Act \/ Surroundings \/ UNCHANGED allVars
    PROVE  /\ UNCHANGED reportVars
           /\ tail /= "none" => pc' = "idle"
           /\ pc' = "dispatch" <=> pc = "dispatch"
           /\ pc = "dispatch" => UNCHANGED <<scanned, newStates>>
           /\ unsaved' = unsaved
           /\ \A m \in Modems : StateOnDisk(m)' = StateOnDisk(m)
  <1> USE DEF cycleVars, diskVars, envVars, simHistory, runHistory, historyVars
  <1>1. CASE Look
    <2>1. UNCHANGED reportVars /\ tail = "none" /\ pc' /= "dispatch" /\ pc /= "dispatch"
          /\ unsaved' = unsaved
      BY <1>1 DEF Look, Observe, SaveIdentity, ResetSwapped
    <2>2. ASSUME NEW m \in Modems PROVE StateOnDisk(m)' = StateOnDisk(m)
      <3>1. CASE Observe \/ SaveIdentity
        BY <3>1 DEF Observe, SaveIdentity, StateOnDisk
      <3>2. ASSUME NEW n \in Modems, ResetSwapped(n) PROVE StateOnDisk(m)' = StateOnDisk(m)
        <4>1. diskStates' = [diskStates EXCEPT ![n] = ResetStreakAndCounters(@)]
          BY <3>2 DEF ResetSwapped
        <4>2. ResetStreakAndCounters(diskStates[n]).state = diskStates[n].state
          BY ResetType DEF Typed
        <4> QED
          BY <4>1, <4>2 DEF StateOnDisk, Typed
      <3> QED
        BY <1>1, <3>1, <3>2 DEF Look
    <2> QED
      BY <2>1, <2>2
  <1>2. CASE Act
    BY <1>2 DEF Act, Dispatch, StateOnDisk, Reported
  <1>3. CASE Surroundings
    BY <1>3 DEF Surroundings, Environment, Reboot, Tick, SwapSim, MaintenanceOn, MaintenanceOff,
       StateOnDisk
  <1>4. CASE UNCHANGED allVars
    BY <1>4 DEF allVars, vars, StateOnDisk, Reported, reportVars
  <1> QED
    BY <1>1, <1>2, <1>3, <1>4

\* What Judge and Save do.
LEMMA JudgeEffect ==
    ASSUME Typed, Judge
    PROVE  /\ pc = "reset" /\ pc' = "dispatch" /\ scanned' = scanned /\ unsaved' = scanned
           /\ DOMAIN report' = scanned /\ diskStates' = diskStates
           /\ UNCHANGED <<tail, surfaces, owed, cutOff>>
           /\ \A m \in scanned :
                 /\ report'[m].from = StateOnDisk(m) /\ report'[m].to = newStates'[m].state
                 /\ report'[m].from = "degraded" => report'[m].to \in {"degraded", "healthy"}
  <1> USE DEF cycleVars, diskVars, envVars, historyVars
  <1>1. /\ Decide
        /\ report' = [m \in scanned |-> [from |-> diskStates[m].state, to |-> newStates'[m].state]]
        /\ UNCHANGED <<tail, surfaces, owed, cutOff>>
    BY DEF Judge
  <1>2. ASSUME NEW m \in scanned, StateOnDisk(m) = "degraded"
        PROVE  newStates'[m].state \in {"degraded", "healthy"}
    <2>1. diskStates[m] \in ModemStates
      BY DEF Typed
    <2>2. newStates'[m].state = Transition(diskStates[m], snaps[m]).state
      <3>1. CASE Eligible
        BY <1>1, <3>1, DecideEffect
      <3>2. CASE ~Eligible
        BY <1>1, <2>1, <3>2, DecideEffect, FinalizeKeepsVerdict
      <3> QED
        BY <3>1, <3>2
    <2>3. NextStateName(diskStates[m], snaps[m]) \in {"degraded", "healthy"}
      BY <1>2 DEF NextStateName, StateOnDisk
    <2> QED
      BY <2>1, <2>2, <2>3 DEF Transition, ModemStates
  <1> QED
    BY <1>1, <1>2 DEF Decide, StateOnDisk

LEMMA SaveEffect ==
    ASSUME Typed, NEW m \in Modems, Save(m)
    PROVE  /\ pc = "dispatch" /\ m \in unsaved /\ m \in scanned /\ unsaved' = unsaved \ {m}
           /\ UNCHANGED <<pc, scanned, newStates, tail, report, surfaces, cutOff>>
           /\ StateOnDisk(m)' = newStates[m].state
           /\ \A n \in Modems \ {m} : StateOnDisk(n)' = StateOnDisk(n)
           /\ owed' = IF FellIll(report[m]) THEN owed \cup {m}
                      ELSE IF newStates[m].state = "healthy" THEN owed \ {m} ELSE owed
  BY DEF Save, Persist, AllDispatched, First, Typed, StateOnDisk

\* A cycle that is over or cut off leaves the states as they are saved.
LEMMA OverEffect ==
    ASSUME Typed, PolicyRaises \/ Saved \/ CutBody
    PROVE  /\ pc' = "idle" /\ unsaved' = {} /\ diskStates' = diskStates
           /\ Saved => pc = "dispatch" /\ unsaved = {}
           /\ PolicyRaises => pc = "reset" /\ unsaved = {}
  BY DEF PolicyRaises, Saved, CutBody, Finish, Interrupt, EndCycle, AllDispatched, diskVars, Typed
\* The report that an announcement leaves.
LEMMA AnnounceEffect ==
    ASSUME Reported, NEW m \in Modems, Announce(m)
    PROVE  /\ tail = "announce" /\ m \in ToAnnounce
           /\ owed' = owed \ {m} /\ UNCHANGED <<vars, surfaces, cutOff>>
           /\ DOMAIN report' \subseteq DOMAIN report
           /\ \A n \in DOMAIN report' : report'[n] = report[n]
           /\ ToAnnounce' = ToAnnounce \ {m}
           /\ \/ tail' = "announce"
              \/ tail' = "none" /\ report' = Nothing
  <1>1. /\ tail = "announce" /\ m \in ToAnnounce
        /\ owed' = owed \ {m} /\ UNCHANGED <<vars, surfaces, cutOff>>
    BY DEF Announce, First
  <1>2. CASE ToAnnounce = {m}
    <2>1. tail' = "none" /\ report' = Nothing
      BY <1>2 DEF Announce
    <2> QED
      BY <1>1, <1>2, <2>1, NothingReported DEF ToAnnounce
  <1>3. CASE ToAnnounce /= {m}
    <2>1. tail' = "announce" /\ report' = [n \in DOMAIN report \ {m} |-> report[n]]
      BY <1>3 DEF Announce
    <2>2. /\ DOMAIN report' = DOMAIN report \ {m}
          /\ \A n \in DOMAIN report' : report'[n] = report[n]
      BY <2>1
    <2>3. ToAnnounce' = ToAnnounce \ {m}
      BY <2>2 DEF ToAnnounce, FellIll
    <2> QED
      BY <1>1, <2>1, <2>2, <2>3
  <1> QED
    BY <1>2, <1>3

LEMMA ReportedStep ==
    ASSUME Typed, Typed', Reported, [ReportNext]_allVars
    PROVE  Reported'
  <1> USE NothingReported
  <1>1. CASE Look \/ Act \/ Surroundings \/ UNCHANGED allVars
    <2>1. /\ UNCHANGED reportVars
          /\ tail /= "none" => pc' = "idle"
          /\ pc' = "dispatch" <=> pc = "dispatch"
          /\ pc = "dispatch" => UNCHANGED <<scanned, newStates>>
          /\ unsaved' = unsaved
          /\ \A m \in Modems : StateOnDisk(m)' = StateOnDisk(m)
      BY <1>1, QuietStep
    <2>2. pc /= "dispatch" => unsaved = {}
      BY DEF Typed
    <2> QED
      BY <2>1, <2>2 DEF Reported, reportVars
  <1>2. CASE Judge
    <2>1. scanned \subseteq Modems
      BY DEF Typed
    <2> QED
      BY <1>2, <2>1, JudgeEffect DEF Reported, StateOnDisk
  <1>3. ASSUME NEW m \in Modems, Save(m) PROVE Reported'
    BY <1>3, SaveEffect DEF Reported
  <1>4. CASE PolicyRaises
    <2>1. /\ pc' = "idle" /\ unsaved' = {} /\ diskStates' = diskStates /\ pc = "reset"
          /\ tail' = "status" /\ scanned \subseteq Modems
          /\ report' = [m \in scanned |-> [from |-> diskStates[m].state,
                                           to |-> diskStates[m].state]]
      BY <1>4, OverEffect DEF PolicyRaises, Typed
    <2> QED
      BY <2>1 DEF Reported, StateOnDisk
  <1>5. CASE Saved
    <2>1. /\ pc' = "idle" /\ unsaved' = {} /\ diskStates' = diskStates
          /\ pc = "dispatch" /\ unsaved = {}
          /\ tail' = "log" /\ report' = report
      BY <1>5, OverEffect DEF Saved
    <2> QED
      BY <2>1 DEF Reported, StateOnDisk
  <1>6. CASE CutBody
    <2>1. pc' = "idle" /\ unsaved' = {} /\ tail' = "none" /\ report' = Nothing
      BY <1>6, OverEffect DEF CutBody, Missed
    <2> QED
      BY <2>1 DEF Reported
  <1>7. CASE CutTail
    <2>1. tail /= "none" /\ pc' = pc /\ tail' = "none" /\ report' = Nothing
      BY <1>7 DEF CutTail, Missed, cycleVars
    <2> QED
      BY <2>1 DEF Reported
  <1>8. CASE LogTransitions
    BY <1>8 DEF LogTransitions, Reported, StateOnDisk, vars, cycleVars, diskVars
  <1>9. CASE WriteStatus
    BY <1>9 DEF WriteStatus, Reported, StateOnDisk, vars, cycleVars, diskVars
  <1>10. ASSUME NEW m \in Modems, Announce(m) PROVE Reported'
    <2>1. UNCHANGED <<pc, scanned, unsaved, newStates, diskStates>>
      BY <1>10, AnnounceEffect DEF vars, cycleVars, diskVars
    <2> QED
      BY <1>10, <2>1, AnnounceEffect DEF Reported, StateOnDisk
  <1> QED
    BY <1>1, <1>2, <1>3, <1>4, <1>5, <1>6, <1>7, <1>8, <1>9, <1>10 DEF ReportNext
\* Outside the decided part of a cycle and its tail there is no report.
LEMMA NoReport ==
    ASSUME Typed, Reported, pc /= "idle"
    PROVE  /\ tail = "none"
           /\ pc /= "dispatch" => report = Nothing
           /\ pc = "dispatch" => DOMAIN report = scanned
  BY DEF Reported

LEMMA OwingStep ==
    ASSUME Typed, Typed', Reported, Owing, [ReportNext]_allVars
    PROVE  Owing'
  <1> USE NothingReported
  <1>1. CASE Look \/ Act \/ Surroundings \/ UNCHANGED allVars
    <2>1. /\ UNCHANGED <<report, owed, cutOff, unsaved>>
          /\ \A m \in Modems : StateOnDisk(m)' = StateOnDisk(m)
      BY <1>1, QuietStep DEF reportVars
    <2>2. Ill' = Ill
      BY <2>1 DEF Ill, ToAnnounce, FellIll
    <2> QED
      BY <2>1, <2>2 DEF Owing, FellIll
  <1>2. CASE Judge
    <2>1. /\ pc = "reset" /\ unsaved' = scanned /\ DOMAIN report' = scanned
          /\ diskStates' = diskStates /\ owed' = owed /\ cutOff' = cutOff
          /\ \A m \in scanned : report'[m].from = StateOnDisk(m)
      BY <1>2, JudgeEffect
    <2>2. report = Nothing
      BY <2>1, NoReport
    <2>3. Ill = {} /\ Ill' = {}
      BY <2>1, <2>2 DEF Ill, ToAnnounce
    <2> QED
      BY <2>1, <2>3 DEF Owing, StateOnDisk
  <1>3. ASSUME NEW m \in Modems, Save(m) PROVE Owing'
    <2>1. /\ pc = "dispatch" /\ m \in unsaved /\ m \in scanned /\ unsaved' = unsaved \ {m}
          /\ report' = report /\ cutOff' = cutOff
          /\ StateOnDisk(m)' = newStates[m].state
          /\ \A n \in Modems \ {m} : StateOnDisk(n)' = StateOnDisk(n)
          /\ owed' = IF FellIll(report[m]) THEN owed \cup {m}
                     ELSE IF newStates[m].state = "healthy" THEN owed \ {m} ELSE owed
      BY <1>3, SaveEffect
    <2>2. /\ m \in DOMAIN report /\ newStates[m].state = report[m].to
          /\ report[m].from = "degraded" => report[m].to \in {"degraded", "healthy"}
      BY <2>1 DEF Reported
    <2>3. Ill' = IF FellIll(report[m]) THEN Ill \cup {m} ELSE Ill
      BY <2>1, <2>2 DEF Ill, ToAnnounce, FellIll
    <2>4. m \notin Ill
      BY <2>1 DEF Ill
    <2>5. CASE FellIll(report[m])
      BY <2>1, <2>2, <2>3, <2>5 DEF Owing, FellIll
    <2>6. CASE ~FellIll(report[m]) /\ newStates[m].state = "healthy"
      BY <2>1, <2>3, <2>4, <2>6 DEF Owing, FellIll
    <2>7. CASE ~FellIll(report[m]) /\ newStates[m].state /= "healthy"
      BY <2>1, <2>2, <2>3, <2>7 DEF Owing, FellIll
    <2> QED
      BY <2>5, <2>6, <2>7
  <1>4. CASE PolicyRaises
    <2>1. /\ pc = "reset" /\ unsaved' = {} /\ diskStates' = diskStates
          /\ owed' = owed /\ cutOff' = cutOff /\ scanned \subseteq Modems
          /\ report' = [m \in scanned |-> [from |-> diskStates[m].state,
                                           to |-> diskStates[m].state]]
      BY <1>4, OverEffect DEF PolicyRaises, Typed
    <2>2. report = Nothing
      BY <2>1, NoReport
    <2>3. Ill = {} /\ Ill' = {}
      BY <2>1, <2>2 DEF Ill, ToAnnounce, FellIll
    <2> QED
      BY <2>1, <2>3 DEF Owing, StateOnDisk
  <1>5. CASE Saved
    <2>1. /\ unsaved' = {} /\ unsaved = {} /\ diskStates' = diskStates
          /\ UNCHANGED <<report, owed, cutOff>>
      BY <1>5, OverEffect DEF Saved
    <2> QED
      BY <2>1 DEF Owing, Ill, ToAnnounce, FellIll, StateOnDisk
  <1>6. CASE CutBody
    <2>1. /\ pc /= "idle" /\ diskStates' = diskStates /\ owed' = owed /\ report' = Nothing
          /\ cutOff' = cutOff \cup (IF tail = "none" THEN Changed \cap SavedInCycle ELSE Changed)
      BY <1>6, OverEffect DEF CutBody, Missed, Interrupt
    <2>2. tail = "none" /\ Ill' = {}
      BY <2>1, NoReport DEF Ill, ToAnnounce
    <2>3. Ill \subseteq Changed \cap SavedInCycle
      BY <2>1, NoReport DEF Ill, ToAnnounce, Changed, SavedInCycle, FellIll
    <2> QED
      BY <2>1, <2>2, <2>3 DEF Owing, StateOnDisk
  <1>7. CASE CutTail
    <2>1. /\ tail /= "none" /\ diskStates' = diskStates /\ owed' = owed /\ report' = Nothing
          /\ cutOff' = cutOff \cup Changed
      BY <1>7 DEF CutTail, Missed, diskVars
    <2>2. Ill' = {} /\ Ill \subseteq Changed
      BY <2>1 DEF Ill, ToAnnounce, Changed, FellIll
    <2> QED
      BY <2>1, <2>2 DEF Owing, StateOnDisk
  <1>8. CASE LogTransitions
    BY <1>8 DEF LogTransitions, Owing, Ill, ToAnnounce, FellIll, StateOnDisk, vars, cycleVars,
       diskVars
  <1>9. CASE WriteStatus
    <2>1. /\ tail = "status" /\ UNCHANGED <<unsaved, diskStates, owed>>
          /\ cutOff' = cutOff \ Changed
          /\ report' = IF ToAnnounce = {} THEN Nothing ELSE report
      BY <1>9 DEF WriteStatus, vars, cycleVars, diskVars
    <2>2. unsaved = {} /\ Ill = ToAnnounce
      BY <2>1 DEF Reported, Typed, Ill
    <2>3. ToAnnounce' = ToAnnounce /\ Ill' = Ill
      BY <2>1, <2>2 DEF Ill, ToAnnounce, FellIll
    <2>4. owed \cap Changed \subseteq Ill
      <3>1. SUFFICES ASSUME NEW m \in owed \cap Changed PROVE FellIll(report[m])
        BY <2>2 DEF ToAnnounce, Changed
      <3>2. m \in DOMAIN report /\ report[m].from /= report[m].to
            /\ StateOnDisk(m) = report[m].to /\ StateOnDisk(m) = "degraded"
        BY <2>2, <3>1 DEF Changed, Reported, Owing
      <3> QED
        BY <3>2, <3>1 DEF Owing
    <2> QED
      BY <2>1, <2>3, <2>4 DEF Owing, FellIll, StateOnDisk
  <1>10. ASSUME NEW m \in Modems, Announce(m) PROVE Owing'
    <2>1. /\ owed' = owed \ {m} /\ cutOff' = cutOff
          /\ DOMAIN report' \subseteq DOMAIN report
          /\ \A n \in DOMAIN report' : report'[n] = report[n]
          /\ ToAnnounce' = ToAnnounce \ {m}
          /\ UNCHANGED <<unsaved, diskStates>>
      BY <1>10, AnnounceEffect DEF vars, cycleVars, diskVars
    <2>2. Ill' = Ill \ {m}
      BY <2>1 DEF Ill
    <2> QED
      BY <2>1, <2>2 DEF Owing, FellIll, StateOnDisk
  <1> QED
    BY <1>1, <1>2, <1>3, <1>4, <1>5, <1>6, <1>7, <1>8, <1>9, <1>10 DEF ReportNext
LEMMA AgreeingStep ==
    ASSUME Typed, Typed', Reported, Agreeing, [ReportNext]_allVars
    PROVE  Agreeing'
  <1> USE NothingReported
  <1>1. CASE Look \/ Act \/ Surroundings \/ UNCHANGED allVars
    <2>1. /\ UNCHANGED <<tail, report, logged, status, gauge, cutOff>>
          /\ \A m \in Modems : StateOnDisk(m)' = StateOnDisk(m)
      BY <1>1, QuietStep DEF reportVars, surfaces
    <2> QED
      BY <2>1 DEF Agreeing, Say, Before, Changed
  <1>2. CASE Judge
    <2>1. /\ pc = "reset" /\ DOMAIN report' = scanned /\ diskStates' = diskStates
          /\ UNCHANGED <<tail, logged, status, gauge, cutOff>>
          /\ \A m \in scanned : report'[m].from = StateOnDisk(m)
      BY <1>2, JudgeEffect DEF surfaces
    <2>2. tail = "none" /\ report = Nothing
      BY <2>1, NoReport
    <2> QED
      BY <2>1, <2>2 DEF Agreeing, Say, Before, StateOnDisk
  <1>3. ASSUME NEW m \in Modems, Save(m) PROVE Agreeing'
    <2>1. /\ pc = "dispatch" /\ m \in scanned
          /\ UNCHANGED <<tail, report, logged, status, gauge, cutOff>>
          /\ \A n \in Modems \ {m} : StateOnDisk(n)' = StateOnDisk(n)
      BY <1>3, SaveEffect DEF surfaces
    <2>2. tail = "none" /\ m \in DOMAIN report
      BY <2>1, NoReport
    <2> QED
      BY <2>1, <2>2 DEF Agreeing, Say, Before
  <1>4. CASE PolicyRaises
    <2>1. /\ pc = "reset" /\ diskStates' = diskStates /\ tail' = "status"
          /\ UNCHANGED <<logged, status, gauge, cutOff>>
          /\ report' = [m \in scanned |-> [from |-> diskStates[m].state,
                                           to |-> diskStates[m].state]]
      BY <1>4, OverEffect DEF PolicyRaises, surfaces
    <2>2. tail = "none" /\ report = Nothing
      BY <2>1, NoReport
    <2>3. Changed' = {}
      BY <2>1 DEF Changed
    <2> QED
      BY <2>1, <2>2, <2>3 DEF Agreeing, Say, Before, StateOnDisk
  <1>5. CASE Saved
    <2>1. /\ pc = "dispatch" /\ diskStates' = diskStates /\ tail' = "log"
          /\ UNCHANGED <<report, logged, status, gauge, cutOff>>
      BY <1>5, OverEffect DEF Saved, surfaces
    <2>2. tail = "none"
      BY <2>1, NoReport
    <2> QED
      BY <2>1, <2>2 DEF Agreeing, Say, Before, StateOnDisk
  <1>6. CASE CutBody
    <2>1. /\ pc /= "idle" /\ diskStates' = diskStates /\ tail' = "none" /\ report' = Nothing
          /\ cutOff' = cutOff \cup (IF tail = "none" THEN Changed \cap SavedInCycle ELSE Changed)
          /\ logged' = logged /\ status' = status /\ gauge' \in {gauge, Everywhere(Absent)}
      BY <1>6, OverEffect DEF CutBody, Missed, Interrupt
    <2>2. tail = "none"
      BY <2>1, NoReport
    <2>3. ASSUME NEW m \in Modems \ cutOff' PROVE Before(m) = StateOnDisk(m)
      BY <2>1, <2>2, <2>3, NoReport DEF Before, Reported, Changed, SavedInCycle
    <2> QED
      BY <2>1, <2>2, <2>3 DEF Agreeing, Say, Before, StateOnDisk, Everywhere
  <1>7. CASE CutTail
    <2>1. /\ tail /= "none" /\ diskStates' = diskStates /\ tail' = "none" /\ report' = Nothing
          /\ cutOff' = cutOff \cup Changed
          /\ logged' = logged /\ status' = status /\ gauge' \in {gauge, Everywhere(Absent)}
      BY <1>7 DEF CutTail, Missed, diskVars
    <2>2. tail \in {"log", "status", "announce"} /\ unsaved = {}
      BY <2>1 DEF Reported, Typed
    <2>3. ASSUME NEW m \in Modems \ cutOff' PROVE Before(m) = StateOnDisk(m)
      BY <2>1, <2>2, <2>3 DEF Before, Reported, Changed
    <2>4. ASSUME NEW m \in Modems \ cutOff' PROVE Say(m, StateOnDisk(m))
      BY <2>1, <2>2, <2>3, <2>4 DEF Agreeing
    <2> QED
      BY <2>1, <2>4 DEF Agreeing, Say, Before, StateOnDisk, Everywhere
  <1>8. CASE LogTransitions
    <2>1. /\ tail = "log" /\ tail' = "status"
          /\ logged' = [m \in Modems |-> IF m \in Changed THEN report[m].to ELSE logged[m]]
          /\ UNCHANGED <<report, diskStates, status, gauge, cutOff>>
      BY <1>8 DEF LogTransitions, vars, diskVars
    <2>2. Changed' = Changed /\ Changed \subseteq Modems /\ unsaved = {}
      BY <2>1 DEF Changed, Reported, Typed
    <2>3. ASSUME NEW m \in Modems \ (cutOff \cup Changed) PROVE Before(m) = StateOnDisk(m)
      BY <2>2, <2>3 DEF Before, Reported, Changed
    <2> QED
      BY <2>1, <2>2, <2>3 DEF Agreeing, Say, StateOnDisk
  <1>9. CASE WriteStatus
    <2>1. /\ tail = "status" /\ UNCHANGED <<diskStates, logged>>
          /\ status' = StatusOfScan /\ cutOff' = cutOff \ Changed
          /\ gauge' = [m \in Modems |-> IF m \in DOMAIN report THEN report[m].to ELSE gauge[m]]
          /\ \/ tail' = "none" /\ report' = Nothing
             \/ tail' = "announce"
      BY <1>9 DEF WriteStatus, vars, diskVars
    <2>2. unsaved = {}
      BY <2>1 DEF Reported, Typed
    <2>3. ASSUME NEW m \in Modems \ cutOff' PROVE Say(m, StateOnDisk(m))'
      <3>1. CASE m \in Changed
        <4>1. m \in DOMAIN report /\ StateOnDisk(m) = report[m].to /\ logged[m] = report[m].to
          BY <2>1, <2>2, <3>1 DEF Changed, Reported, Agreeing
        <4> QED
          BY <2>1, <4>1 DEF Say, StateOnDisk, StatusOfScan
      <3>2. CASE m \notin Changed
        <4>1. Say(m, StateOnDisk(m))
          BY <2>1, <2>3, <3>2 DEF Agreeing
        <4>2. m \in DOMAIN report => StateOnDisk(m) = report[m].to
          BY <2>2 DEF Reported
        <4> QED
          BY <2>1, <4>1, <4>2 DEF Say, StateOnDisk, StatusOfScan
      <3> QED
        BY <3>1, <3>2
    <2> QED
      BY <2>1, <2>3 DEF Agreeing, Before
  <1>10. ASSUME NEW m \in Modems, Announce(m) PROVE Agreeing'
    <2>1. /\ tail = "announce" /\ UNCHANGED <<diskStates, logged, status, gauge, cutOff>>
          /\ \/ tail' = "announce"
             \/ tail' = "none" /\ report' = Nothing
      BY <1>10, AnnounceEffect DEF vars, diskVars, surfaces
    <2> QED
      BY <2>1 DEF Agreeing, Say, Before, StateOnDisk
  <1> QED
    BY <1>1, <1>2, <1>3, <1>4, <1>5, <1>6, <1>7, <1>8, <1>9, <1>10 DEF ReportNext

LEMMA TailInitially == ReportInit => TailInv
  <1> SUFFICES ASSUME ReportInit PROVE TailInv
    OBVIOUS
  <1>1. /\ tail = "none" /\ report = Nothing /\ owed = {} /\ cutOff = {}
        /\ pc = "idle" /\ diskStates = [m \in Modems |-> FreshState]
        /\ logged = [m \in Modems |-> FreshState.state]
        /\ status = [m \in Modems |-> Absent] /\ gauge = [m \in Modems |-> Absent]
    BY DEF ReportInit, Init, Everywhere
  <1>2. Reported
    BY <1>1, NothingReported DEF Reported
  <1>3. Owing
    BY <1>1, NothingReported DEF Owing, Ill, ToAnnounce
  <1>4. Agreeing
    BY <1>1, NothingReported DEF Agreeing, Say, Before, StateOnDisk
  <1> QED
    BY <1>2, <1>3, <1>4 DEF TailInv

\* The report's invariant, over cut-off cycles and cycles whose policy raises.
LEMMA TailInvariant == ReportSpec => [](Typed /\ TailInv)
  <1>1. ReportInit => Typed /\ TailInv
    BY InitTyped, TailInitially DEF ReportInit
  <1>2. Typed /\ TailInv /\ [ReportNext]_allVars => Typed' /\ TailInv'
    <2> SUFFICES ASSUME Typed, TailInv, [ReportNext]_allVars PROVE Typed' /\ TailInv'
      OBVIOUS
    <2>1. Typed'
      BY StepsOfDriver, TypedStep
    <2> QED
      BY <2>1, ReportedStep, OwingStep, AgreeingStep DEF TailInv
  <1> QED
    BY <1>1, <1>2, PTL DEF ReportSpec

\* FR-44, the order of cycle_driver.py, steps 5 to 7: a webhook for a modem that fell
\* ill is enqueued once, after its state was saved, unless the cycle was cut off.
THEOREM AnnouncedOnceHolds == ReportSpec => []AnnouncedOnce
  <1>1. Typed /\ TailInv => AnnouncedOnce
    <2> SUFFICES ASSUME Typed, TailInv PROVE AnnouncedOnce
      OBVIOUS
    <2>1. ASSUME tail = "announce" PROVE ToAnnounce \subseteq owed
      <3>1. unsaved = {}
        BY <2>1 DEF TailInv, Reported, Typed
      <3> QED
        BY <3>1 DEF TailInv, Owing, Ill
    <2>2. ASSUME Told PROVE owed \subseteq cutOff
      <3>1. report = Nothing
        BY <2>2 DEF Told, TailInv, Reported
      <3>2. Ill = {}
        BY <3>1, NothingReported DEF Ill, ToAnnounce
      <3> QED
        BY <3>2 DEF TailInv, Owing
    <2> QED
      BY <2>1, <2>2 DEF AnnouncedOnce
  <1> QED
    BY <1>1, TailInvariant, PTL

\* FR-41, NFR-20, ADR-0013: when a cycle is over, the event log, status.json and the
\* gauges agree with the saved states, save for modems whose last report was cut off.
THEOREM SurfacesAgreeHolds == ReportSpec => []SurfacesAgree
  <1>1. Typed /\ TailInv => SurfacesAgree
    <2> SUFFICES ASSUME Typed, TailInv PROVE SurfacesAgree
      OBVIOUS
    <2>1. ASSUME Told, NEW m \in Modems \ cutOff PROVE Say(m, StateOnDisk(m))
      <3>1. tail = "none" /\ report = Nothing
        BY <2>1 DEF Told, TailInv, Reported
      <3> QED
        BY <3>1, NothingReported DEF TailInv, Agreeing, Before
    <2>2. ASSUME tail = "log", NEW m \in Changed \ cutOff PROVE logged[m] = report[m].from
      <3>1. m \in Modems /\ m \in DOMAIN report
        BY DEF Changed, TailInv, Reported
      <3> QED
        BY <2>2, <3>1 DEF TailInv, Agreeing, Say, Before
    <2> QED
      BY <2>1, <2>2 DEF SurfacesAgree, Say, StateOnDisk
  <1> QED
    BY <1>1, TailInvariant, PTL
=============================================================================
