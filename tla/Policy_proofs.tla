---------------------------- MODULE Policy_proofs ----------------------------
(***************************************************************************)
(* Lemmas about the operators of Policy, for every value of the settings:  *)
(* what select_rung may return, what a plan that passed the gates has gone *)
(* through, and what one cycle does to a modem's stored state.             *)
(***************************************************************************)
EXTENDS Policy, TLAPS

Selections == ActionKinds \cup TableSkips \cup {NoAction, SkipExhausted}

LEMMA KindFacts ==
    /\ LadderRungs \subseteq ActionKinds
    /\ DestructiveKinds \subseteq ActionKinds
    /\ {NoAction, SkipExhausted} \cap ActionKinds = {}
    /\ TableSkips \cap ActionKinds = {}
<1>1. LadderRungs \subseteq ActionKinds /\ DestructiveKinds \subseteq ActionKinds
  BY DEF ActionKinds
<1>2. {NoAction, SkipExhausted} \cap ActionKinds = {}
  BY DEF LadderRungs, DestructiveKinds, ActionKinds, NoAction, SkipExhausted
<1>3. TableSkips \cap ActionKinds = {}
  BY DEF LadderRungs, DestructiveKinds, ActionKinds, TableSkips
<1>4. QED
  BY <1>1, <1>2, <1>3

LEMMA CeilingType ==
    \A k \in LadderRungs : Ceiling[k] \in Nat /\ Ceiling[k] > 0 /\ RungIndex[k] \in 1 .. 3
  BY SettingsAssumption DEF SettingsAssumption, Ceiling, RungIndex, LadderRungs

\* select_rung leaves a kind outside the ladder alone; from a rung it goes to
\* the lowest rung, from there upwards, that has budget, and to none below.
LEMMA SelectRungSound ==
    ASSUME NEW base, NEW counters \in [ActionKinds -> Nat]
    PROVE  /\ base \notin LadderRungs => SelectRung(base, counters) = base
           /\ base \in LadderRungs =>
                 \/ SelectRung(base, counters) = SkipExhausted
                 \/ /\ SelectRung(base, counters) \in OpenRungs(base, counters)
                    /\ \A j \in OpenRungs(base, counters) :
                          RungIndex[SelectRung(base, counters)] <= RungIndex[j]
<1>1. CASE base \notin LadderRungs
  BY <1>1 DEF SelectRung
<1>2. CASE base \in LadderRungs /\ OpenRungs(base, counters) = {}
  BY <1>2 DEF SelectRung
<1>3. CASE base \in LadderRungs /\ OpenRungs(base, counters) /= {}
  <2> DEFINE Open == OpenRungs(base, counters)
             Lowest(k) == \A j \in Open : RungIndex[k] <= RungIndex[j]
  <2>1. Open \subseteq LadderRungs
    BY DEF OpenRungs
  <2>2. \E k \in Open : Lowest(k)
    <3>1. CASE "soft_reset" \in Open
      BY <2>1, <3>1, CeilingType DEF RungIndex, LadderRungs
    <3>2. CASE "soft_reset" \notin Open /\ "modem_reset" \in Open
      BY <2>1, <3>2, CeilingType DEF RungIndex, LadderRungs
    <3>3. CASE "soft_reset" \notin Open /\ "modem_reset" \notin Open
      BY <1>3, <2>1, <3>3, CeilingType DEF RungIndex, LadderRungs
    <3>4. QED
      BY <3>1, <3>2, <3>3
  <2>3. SelectRung(base, counters) = CHOOSE k \in Open : Lowest(k)
    BY <1>3 DEF SelectRung
  <2>4. QED
    BY <1>3, <2>2, <2>3
<1>4. QED
  BY <1>1, <1>2, <1>3

\* Whatever is asked of the ladder, a rung it grants still has budget.
LEMMA RungHasBudget ==
    ASSUME NEW base, NEW counters \in [ActionKinds -> Nat],
           SelectRung(base, counters) \in LadderRungs
    PROVE  LET k == SelectRung(base, counters)
           IN  /\ counters[k] < Ceiling[k]
               /\ base \in LadderRungs /\ RungIndex[base] <= RungIndex[k]
               /\ \A j \in LadderRungs :
                     RungIndex[base] <= RungIndex[j] /\ RungIndex[j] < RungIndex[k]
                        => counters[j] >= Ceiling[j]
<1> DEFINE k == SelectRung(base, counters)
<1>1. base \in LadderRungs
  BY SelectRungSound
<1>2. SkipExhausted \notin LadderRungs
  BY KindFacts
<1>3. k \in OpenRungs(base, counters) /\ \A j \in OpenRungs(base, counters) :
                                           RungIndex[k] <= RungIndex[j]
  BY <1>1, <1>2, SelectRungSound
<1>4. counters[k] < Ceiling[k] /\ RungIndex[base] <= RungIndex[k]
  BY <1>3 DEF OpenRungs
<1>5. ASSUME NEW j \in LadderRungs, RungIndex[base] <= RungIndex[j],
             RungIndex[j] < RungIndex[k], ~(counters[j] >= Ceiling[j])
      PROVE  FALSE
  <2>1. counters[j] \in Nat
    BY KindFacts
  <2>2. j \in OpenRungs(base, counters)
    BY <1>5, <2>1, CeilingType DEF OpenRungs
  <2>3. QED
    BY <1>1, <1>3, <1>5, <2>2, CeilingType
<1>6. QED
  BY <1>1, <1>4, <1>5

LEMMA LookupActionType ==
    ASSUME NEW issue
    PROVE  LookupAction(issue) \in ActionKinds \cup TableSkips \cup {NoAction}
  BY DEF LookupAction

LEMMA TransitionType ==
    ASSUME NEW st \in ModemStates, NEW snap
    PROVE  LET new == Transition(st, snap)
           IN  /\ new \in ModemStates
               /\ new.streak = st.streak /\ new.counters = st.counters /\ new.last = st.last
<1>1. NextStateName(st, snap) \in StateNames
  BY DEF NextStateName, StateNames, ModemStates
<1>2. IsSignalBelowGate(snap) \in BOOLEAN
  BY DEF IsSignalBelowGate
<1>3. QED
  BY <1>1, <1>2 DEF Transition, ModemStates

LEMMA StreakType ==
    ASSUME NEW st \in ModemStates, NEW snap
    PROVE  /\ NewStreak(st, snap) \in Nat
           /\ Decays(st, snap) \in BOOLEAN
           /\ DecayedCounters(st, snap) \in [ActionKinds -> Nat]
<1>1. st.streak \in Nat /\ st.counters \in [ActionKinds -> Nat]
  BY DEF ModemStates
<1>2. ZeroCounters \in [ActionKinds -> Nat]
  BY DEF ZeroCounters
<1>3. NewStreak(st, snap) \in Nat
  BY <1>1 DEF NewStreak
<1>4. QED
  BY <1>1, <1>2, <1>3 DEF Decays, DecayedCounters

\* What run_cycle asks the dispatcher for, and why it may.
LEMMA SelectActionSound ==
    ASSUME NEW st \in ModemStates, NEW snap
    PROVE  LET act == SelectAction(st, snap)
           IN  /\ act \in Selections
               /\ act \in LadderRungs => DecayedCounters(st, snap)[act] < Ceiling[act]
               /\ act /= NoAction => snap.issues /= << >>
<1> DEFINE counters == DecayedCounters(st, snap)
           base == LookupAction(SelectTopPriorityIssue(snap.issues))
<1>1. counters \in [ActionKinds -> Nat]
  BY StreakType
<1>2. base \in Selections
  BY LookupActionType DEF Selections
<1>3. SelectRung(base, counters) \in Selections
  <2> HIDE DEF base, counters
  <2>1. CASE base \notin LadderRungs
    BY <1>2, <2>1 DEF SelectRung
  <2>2. CASE base \in LadderRungs
    BY <1>1, <2>2, SelectRungSound, KindFacts DEF OpenRungs, Selections
  <2>3. QED
    BY <2>1, <2>2
<1>4. SelectRung(base, counters) \in LadderRungs
         => counters[SelectRung(base, counters)] < Ceiling[SelectRung(base, counters)]
  BY <1>1, RungHasBudget
<1>5. CASE snap.issues = << >>
  <2>1. SelectAction(st, snap) = NoAction
    BY <1>5 DEF SelectAction
  <2>2. NoAction \notin LadderRungs /\ NoAction \in Selections
    BY KindFacts DEF Selections
  <2>3. QED
    BY <2>1, <2>2
<1>6. CASE snap.issues /= << >>
  <2>1. SelectAction(st, snap) = SelectRung(base, counters)
    BY <1>6 DEF SelectAction
  <2>2. QED
    BY <1>3, <1>4, <1>6, <2>1
<1>7. QED
  BY <1>5, <1>6

LEMMA GateOutcomeSound ==
    ASSUME NEW st \in ModemStates, NEW kind, NEW now, NEW maintenance
    PROVE  LET outcome == GateOutcome(st, kind, now, maintenance)
           IN  /\ outcome \in GateOutcomes
               /\ outcome = "action_planned" =>
                     /\ ~GateMaintenance(maintenance, kind)
                     /\ ~GateSignal(st, kind)
                     /\ ~GateSameActionBackoff(st, kind, now)
                     /\ ~GateLadderBackoff(st, kind, now)
<1> DEFINE disconnected == GateDisconnected(st)
           window == GateMaintenance(maintenance, kind)
           exhausted == GateExhausted(st, kind)
           signal == GateSignal(st, kind)
           same == GateSameActionBackoff(st, kind, now)
           ladder == GateLadderBackoff(st, kind, now)
<1>1. GateOutcome(st, kind, now, maintenance) =
        IF disconnected THEN "skip:disconnected"
        ELSE IF window THEN "skip:maintenance"
        ELSE IF exhausted THEN SkipExhausted
        ELSE IF signal \/ same \/ ladder THEN "skip:gate_failed"
        ELSE IF DryRun THEN "skip:dry_run" ELSE "action_planned"
  BY DEF GateOutcome
<1> HIDE DEF disconnected, window, exhausted, signal, same, ladder
<1>2. GateOutcome(st, kind, now, maintenance) \in GateOutcomes
  BY <1>1 DEF GateOutcomes
<1>3. GateOutcome(st, kind, now, maintenance) = "action_planned"
         => ~window /\ ~signal /\ ~same /\ ~ladder
  BY <1>1 DEF SkipExhausted
<1>4. QED
  BY <1>2, <1>3 DEF window, signal, same, ladder

\* A plan that executes went through the gates, on this cycle's state, and a
\* rung among them still had budget.
LEMMA PlanSound ==
    ASSUME NEW st \in ModemStates, NEW snap, NEW now, NEW maintenance
    PROVE  LET p == PlanFor(st, snap, now, maintenance)
               new == Transition(st, snap)
           IN  /\ p \in Plans
               /\ WouldExecute(p) =>
                     /\ p.kind \in ActionKinds
                     /\ p.kind = SelectAction(st, snap)
                     /\ p.kind \in LadderRungs
                           => DecayedCounters(st, snap)[p.kind] < Ceiling[p.kind]
                     /\ snap.issues /= << >>
                     /\ ~GateMaintenance(maintenance, p.kind)
                     /\ ~GateSignal(new, p.kind)
                     /\ ~GateSameActionBackoff(new, p.kind, now)
                     /\ ~GateLadderBackoff(new, p.kind, now)
<1> DEFINE act == SelectAction(st, snap)
           new == Transition(st, snap)
           p == PlanFor(st, snap, now, maintenance)
<1>1. act \in Selections /\ new \in ModemStates
  BY SelectActionSound, TransitionType
<1> HIDE DEF act, new
<1>2. p = IF act = NoAction THEN NoPlan
          ELSE IF act \in ActionKinds
            THEN [kind |-> act, reason |-> GateOutcome(new, act, now, maintenance)]
            ELSE [kind |-> "soft_reset", reason |-> act]
  BY DEF PlanFor, act, new
<1> HIDE DEF p
<1>3. CASE act = NoAction
  <2>1. p = NoPlan /\ NoAction /= "action_planned"
    BY <1>2, <1>3 DEF NoAction
  <2>2. NoPlan \in Plans
    BY DEF NoPlan, Plans, Reasons
  <2>3. QED
    BY <2>1, <2>2 DEF WouldExecute, NoPlan, p
<1>4. CASE act \in ActionKinds
  <2>1. p = [kind |-> act, reason |-> GateOutcome(new, act, now, maintenance)]
    BY <1>2, <1>4, KindFacts
  <2>2. p \in Plans
    BY <1>1, <1>4, <2>1, GateOutcomeSound DEF Plans, Reasons
  <2>3. act \in LadderRungs => DecayedCounters(st, snap)[act] < Ceiling[act]
    BY SelectActionSound DEF act
  <2>4. snap.issues /= << >>
    BY <1>4, SelectActionSound, KindFacts DEF act
  <2>5. WouldExecute(p) => GateOutcome(new, act, now, maintenance) = "action_planned"
    BY <2>1 DEF WouldExecute
  <2>6. WouldExecute(p) =>
          /\ ~GateMaintenance(maintenance, act)
          /\ ~GateSignal(new, act)
          /\ ~GateSameActionBackoff(new, act, now)
          /\ ~GateLadderBackoff(new, act, now)
    BY <1>1, <2>5, GateOutcomeSound
  <2>7. p.kind = act
    BY <2>1
  <2>8. QED
    BY <1>4, <2>2, <2>3, <2>4, <2>6, <2>7 DEF p, act, new
<1>5. CASE act \in TableSkips \cup {SkipExhausted}
  <2>1. p = [kind |-> "soft_reset", reason |-> act]
    BY <1>2, <1>5, KindFacts DEF TableSkips, SkipExhausted, NoAction
  <2>2. p \in Plans
    BY <1>5, <2>1 DEF Plans, Reasons, GateOutcomes, ActionKinds, LadderRungs
  <2>3. p.reason /= "action_planned"
    BY <1>5, <2>1 DEF TableSkips, SkipExhausted
  <2>4. QED
    BY <2>2, <2>3 DEF WouldExecute, p
<1>6. QED
  BY <1>1, <1>3, <1>4, <1>5 DEF Selections

\* What a cycle leaves in the state file: counters and timestamps change by the
\* plan that executes, and by the decay; nothing else.
LEMMA FinalizeSound ==
    ASSUME NEW st \in ModemStates, NEW snap, NEW plan \in Plans, NEW now \in Nat,
           WouldExecute(plan) => plan.kind \in ActionKinds
    PROVE  LET new == FinalizePerModemState(st, snap, plan, now)
               kept == DecayedCounters(st, snap)
           IN  /\ new \in ModemStates
               /\ new.streak = IF Decays(st, snap) THEN 0 ELSE NewStreak(st, snap)
               /\ new.counters = IF WouldExecute(plan)
                                   THEN [kept EXCEPT ![plan.kind] = @ + 1] ELSE kept
               /\ new.last = IF WouldExecute(plan)
                               THEN [st.last EXCEPT ![plan.kind] = now] ELSE st.last
<1> DEFINE t == Transition(st, snap)
           kept == DecayedCounters(st, snap)
           counters == IF WouldExecute(plan) THEN [kept EXCEPT ![plan.kind] = @ + 1] ELSE kept
           last == IF WouldExecute(plan) THEN [st.last EXCEPT ![plan.kind] = now] ELSE st.last
           streak == IF Decays(st, snap) THEN 0 ELSE NewStreak(st, snap)
<1>1. t \in ModemStates
  BY TransitionType
<1>2. kept \in [ActionKinds -> Nat] /\ NewStreak(st, snap) \in Nat
  BY StreakType
<1>3. counters \in [ActionKinds -> Nat]
  BY <1>2
<1>4. last \in [ActionKinds -> Timestamps]
  BY DEF ModemStates, Timestamps
<1>5. streak \in Nat
  BY <1>2
<1>6. FinalizePerModemState(st, snap, plan, now) =
        [t EXCEPT !.streak = streak, !.counters = counters, !.last = last]
  BY DEF FinalizePerModemState
<1> HIDE DEF t, streak, counters, last
<1>7. FinalizePerModemState(st, snap, plan, now) \in ModemStates
  BY <1>1, <1>3, <1>4, <1>5, <1>6 DEF ModemStates
<1>8. QED
  BY <1>1, <1>6, <1>7 DEF ModemStates, t, streak, counters, last

\* The bookkeeping after the transition function leaves its verdict alone.
LEMMA FinalizeKeepsVerdict ==
    ASSUME NEW st \in ModemStates, NEW snap, NEW plan, NEW now
    PROVE  LET new == FinalizePerModemState(st, snap, plan, now)
           IN  /\ new.state = Transition(st, snap).state
               /\ new.rf_blocked = Transition(st, snap).rf_blocked
<1>1. Transition(st, snap) \in ModemStates
  BY TransitionType
<1>2. QED
  BY <1>1 DEF FinalizePerModemState, ModemStates

\* A modem with an issue does not come out of the transition healthy.
LEMMA IssuesMeanIll ==
    ASSUME NEW st \in ModemStates, NEW snap, snap.issues /= << >>
    PROVE  Transition(st, snap).state /= "healthy"
<1>1. NextStateName(st, snap) /= "healthy"
  BY DEF NextStateName, ModemStates, StateNames
<1>2. QED
  BY <1>1 DEF Transition, ModemStates

\* RECOVERY_SPEC 3.2 has a modem enter "recovering" with its first action and
\* "exhausted" with its last; transitions.py only ever leaves them.
Entered == {"unknown", "healthy", "degraded"}

LEMMA TransitionEnters ==
    ASSUME NEW st \in ModemStates, NEW snap, st.state \in Entered
    PROVE  Transition(st, snap).state \in Entered
<1>1. NextStateName(st, snap) \in Entered
  BY DEF NextStateName, Entered
<1>2. Transition(st, snap).state = NextStateName(st, snap)
  BY DEF Transition, ModemStates
<1>3. QED
  BY <1>1, <1>2
=============================================================================
