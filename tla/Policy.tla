------------------------------- MODULE Policy -------------------------------
(***************************************************************************)
(* The pure recovery policy of spark_modem.policy: the decision table, the *)
(* escalation ladder, the gates, the per-modem transition function and the *)
(* eligibility predicate of the global driver reset.  Operators only; the  *)
(* state machines PolicyEngine and CycleDriver call them.                  *)
(*                                                                         *)
(* Data is kept at the grain the rules read.  A signal reading is "none",  *)
(* "low" (below its floor) or "ok".  A dict keyed by ActionKind is a total *)
(* function: an absent counter is 0 (the code reads .get(k, 0)), an absent *)
(* timestamp is Never.  Seconds are abstract ticks of a monotonic clock.   *)
(* The legacy last_action_monotonic and the ISO stamps are left out: no    *)
(* rule reads them.  So is recovering_level: the engine never enters       *)
(* "recovering", and the level is only carried along.                      *)
(*                                                                         *)
(* A definition marked "Mutant" stands right before the one it is a wrong  *)
(* form of.  No specification uses it: the mutation runs put it in the     *)
(* place of the right one, to show that a property notices.                *)
(***************************************************************************)
EXTENDS Integers, Sequences, FiniteSets

CONSTANTS
    MaxSoft, MaxModem, MaxUsb,   \* ladder ceilings (max_soft, max_modem, max_usb)
    BackoffSeconds,              \* same-action backoff
    LadderMinInterval,           \* spacing of destructive actions
    HealthyStreakDecayK,         \* healthy cycles that clear the counters
    GlobalBackoff,               \* global_driver_reset_backoff_seconds
    ThresholdNum, ThresholdDen,  \* multi_modem_threshold_fraction = Num / Den
    DryRun                       \* Settings.dry_run

(* The ge= bounds pydantic enforces on these Settings fields. *)
ASSUME SettingsAssumption ==
    /\ MaxSoft \in Nat \ {0} /\ MaxModem \in Nat \ {0} /\ MaxUsb \in Nat \ {0}
    /\ BackoffSeconds \in Nat \ {0}
    /\ LadderMinInterval \in Nat \ {0}
    /\ HealthyStreakDecayK \in Nat \ {0}
    /\ GlobalBackoff \in Nat \ {0}
    /\ ThresholdNum \in Nat /\ ThresholdDen \in Nat \ {0}
    /\ DryRun \in BOOLEAN

-----------------------------------------------------------------------------
(* Kinds, states and timestamps *)

LadderRungs == {"soft_reset", "modem_reset", "usb_reset"}
DestructiveKinds == {"modem_reset", "usb_reset", "driver_reset"}
CheapDuringExhausted == {"set_apn", "fix_raw_ip"}

\* set_operating_mode and fix_autosuspend exist too, but no rule selects them.
ActionKinds == {"set_apn", "fix_raw_ip", "sim_power_on"}
                  \cup LadderRungs \cup DestructiveKinds

StateNames == {"unknown", "healthy", "degraded", "recovering", "exhausted"}

Never == -1
Timestamps == Nat \cup {Never}

ModemStates == [state : StateNames, present : BOOLEAN, rf_blocked : BOOLEAN,
                streak : Nat,
                counters : [ActionKinds -> Nat],
                last : [ActionKinds -> Timestamps]]

ZeroCounters == [k \in ActionKinds |-> 0]

FreshState == [state |-> "unknown", present |-> TRUE, rf_blocked |-> FALSE,
               streak |-> 0, counters |-> ZeroCounters,
               last |-> [k \in ActionKinds |-> Never]]

-----------------------------------------------------------------------------
(* Decision table *)

SkipExhausted == "skip:exhausted"
TableSkips == {"skip:requires_human", "skip:no_card", "skip:hardware",
               "skip:carrier_denied"}
NoAction == "none"

\* The rows of the table, grouped by what they route to.
RowsOf == [
    set_apn      |-> {<<"config", "apn_empty">>, <<"config", "apn_mismatch">>},
    sim_power_on |-> {<<"sim", "sim_power_down">>},
    fix_raw_ip   |-> {<<"datapath", "raw_ip_off">>},
    soft_reset   |-> {<<"sim", "sim_app_unreadable">>, <<"sim", "sim_app_detected">>,
                      <<"sim", "sim_card_unreadable">>,
                      <<"registration", "not_registered_searching">>,
                      <<"registration", "not_registered_idle">>,
                      <<"qmi", "qmi_timeout">>},
    modem_reset  |-> {<<"datapath", "session_disconnected">>,
                      <<"qmi", "operating_mode_offline">>,
                      <<"qmi", "operating_mode_low_power">>},
    usb_reset    |-> {<<"qmi", "qmi_channel_hung">>, <<"qmi", "sierra_bootloader">>},
    driver_reset |-> {<<"qmi", "qmi_proxy_died">>}]

SkipRowsOf == [r \in TableSkips |->
    CASE r = "skip:requires_human" -> {<<"sim", "sim_app_pin_required">>,
                                       <<"sim", "sim_app_puk_required">>}
      [] r = "skip:no_card"        -> {<<"sim", "sim_card_absent">>}
      [] r = "skip:hardware"       -> {<<"sim", "sim_card_error">>}
      [] r = "skip:carrier_denied" -> {<<"registration", "denied">>}]

LookupAction(issue) ==
    IF \E k \in ActionKinds : issue \in RowsOf[k]
      THEN CHOOSE k \in ActionKinds : issue \in RowsOf[k]
      ELSE IF \E r \in TableSkips : issue \in SkipRowsOf[r]
             THEN CHOOSE r \in TableSkips : issue \in SkipRowsOf[r]
             ELSE NoAction

\* config before sim before datapath before registration before qmi.
Priority == [config |-> 1, sim |-> 2, datapath |-> 3, registration |-> 4, qmi |-> 5]

\* The first issue, in emission order, of the most urgent category present.
SelectTopPriorityIssue(issues) ==
    issues[CHOOSE i \in DOMAIN issues : \A j \in DOMAIN issues :
             LET pi == Priority[issues[i][1]]
                 pj == Priority[issues[j][1]]
             IN  pi < pj \/ (pi = pj /\ i <= j)]

-----------------------------------------------------------------------------
(* Escalation ladder *)

RungIndex == [soft_reset |-> 1, modem_reset |-> 2, usb_reset |-> 3]
Ceiling == [soft_reset |-> MaxSoft, modem_reset |-> MaxModem, usb_reset |-> MaxUsb]

\* Mutant: a ceiling counts as budget.
OpenRungsAtCeiling(base, counters) ==
    {k \in LadderRungs : RungIndex[k] >= RungIndex[base] /\ counters[k] <= Ceiling[k]}

\* The rungs from base upwards that still have budget.
OpenRungs(base, counters) ==
    {k \in LadderRungs : RungIndex[k] >= RungIndex[base] /\ counters[k] < Ceiling[k]}

\* Mutant: the strongest open rung instead of the mildest.
SelectStrongestRung(base, counters) ==
    IF base \notin LadderRungs THEN base
    ELSE IF OpenRungs(base, counters) = {} THEN SkipExhausted
    ELSE CHOOSE k \in OpenRungs(base, counters) :
           \A j \in OpenRungs(base, counters) : RungIndex[k] >= RungIndex[j]

SelectRung(base, counters) ==
    IF base \notin LadderRungs THEN base
    ELSE IF OpenRungs(base, counters) = {} THEN SkipExhausted
    ELSE CHOOSE k \in OpenRungs(base, counters) :
           \A j \in OpenRungs(base, counters) : RungIndex[k] <= RungIndex[j]

-----------------------------------------------------------------------------
(* Signal *)

Metrics == {"rsrp", "rsrq", "snr"}

IsSignalBelowGate(snap) == \E q \in Metrics : snap.signal[q] = "low"
AllFloorsCleared(snap) == \A q \in Metrics : snap.signal[q] = "ok"

-----------------------------------------------------------------------------
(* Transition function *)

NextStateName(prior, snap) ==
    LET hasIssues == snap.issues /= << >>
    IN  CASE ~hasIssues /\ ~IsSignalBelowGate(snap)     -> "healthy"
          [] prior.state \in {"unknown", "healthy"}     ->
               IF hasIssues THEN "degraded" ELSE "healthy"
          [] prior.state = "recovering" /\ ~hasIssues   -> "healthy"
          [] OTHER                                      -> prior.state

Transition(prior, snap) ==
    [prior EXCEPT !.state = NextStateName(prior, snap),
                  !.present = TRUE,
                  !.rf_blocked = IsSignalBelowGate(snap)]

-----------------------------------------------------------------------------
(* Gates *)

GateDisconnected(st) == ~st.present

\* Mutant: a modem_reset is not taken for destructive.
GateMaintenanceBusOnly(maintenance, kind) ==
    maintenance /\ kind \in DestructiveKinds \ {"modem_reset"}

GateMaintenance(maintenance, kind) == maintenance /\ kind \in DestructiveKinds
GateExhausted(st, kind) == st.state = "exhausted" /\ kind \notin CheapDuringExhausted
GateSignal(st, kind) == kind \in DestructiveKinds /\ st.rf_blocked

GateSameActionBackoff(st, kind, now) ==
    /\ st.last[kind] /= Never
    /\ now - st.last[kind] < BackoffSeconds

\* Mutant: now - min(timestamps) < interval.
GateLadderBackoffOldest(st, kind, now) ==
    /\ kind \in DestructiveKinds
    /\ \E k \in DestructiveKinds : st.last[k] /= Never
    /\ \A k \in DestructiveKinds :
          st.last[k] /= Never => now - st.last[k] < LadderMinInterval

\* now - max(timestamps) < interval: some destructive kind fired that recently.
GateLadderBackoff(st, kind, now) ==
    /\ kind \in DestructiveKinds
    /\ \E k \in DestructiveKinds :
          st.last[k] /= Never /\ now - st.last[k] < LadderMinInterval

\* The reason a gated plan carries; only "action_planned" is executed.
GateOutcome(st, kind, now, maintenance) ==
    LET backoff == GateSameActionBackoff(st, kind, now) \/ GateLadderBackoff(st, kind, now)
    IN  IF GateDisconnected(st) THEN "skip:disconnected"
        ELSE IF GateMaintenance(maintenance, kind) THEN "skip:maintenance"
        ELSE IF GateExhausted(st, kind) THEN SkipExhausted
        ELSE IF GateSignal(st, kind) \/ backoff THEN "skip:gate_failed"
        ELSE IF DryRun THEN "skip:dry_run" ELSE "action_planned"

-----------------------------------------------------------------------------
(* One modem's part of a cycle *)

NoPlan == [kind |-> NoAction, reason |-> NoAction]
GateOutcomes == {"skip:disconnected", "skip:maintenance", SkipExhausted,
                 "skip:gate_failed", "skip:dry_run", "action_planned"}
Reasons == GateOutcomes \cup TableSkips \cup {NoAction}
Plans == [kind : ActionKinds \cup {NoAction}, reason : Reasons]
WouldExecute(plan) == plan.reason = "action_planned"

\* Mutant: an ill cycle does not break the streak.
NewStreakKept(prior, snap) ==
    IF Transition(prior, snap).state = "healthy" THEN prior.streak + 1 ELSE prior.streak

NewStreak(prior, snap) ==
    IF Transition(prior, snap).state = "healthy" THEN prior.streak + 1 ELSE 0

\* Mutant: one healthy cycle too few.
DecaysEarly(prior, snap) == NewStreak(prior, snap) + 1 >= HealthyStreakDecayK

Decays(prior, snap) == NewStreak(prior, snap) >= HealthyStreakDecayK

\* Mutant: a decay takes one off each counter.
DecrementedCounters(prior, snap) ==
    IF Decays(prior, snap) THEN [k \in ActionKinds |-> prior.counters[k] - 1]
                           ELSE prior.counters

\* Mutant: only an exhausted modem gets its counters cleared.
ExhaustedCounters(prior, snap) ==
    IF Decays(prior, snap) /\ prior.state = "exhausted" THEN ZeroCounters
                                                        ELSE prior.counters

DecayedCounters(prior, snap) ==
    IF Decays(prior, snap) THEN ZeroCounters ELSE prior.counters

\* Table row of the top issue, then the ladder's rung for it.
SelectAction(prior, snap) ==
    IF snap.issues = << >> THEN NoAction
    ELSE LET base == LookupAction(SelectTopPriorityIssue(snap.issues))
         IN  SelectRung(base, DecayedCounters(prior, snap))

\* Mutant: the gates look at the prior state, not at this cycle's.
PlanForStale(prior, snap, now, maintenance) ==
    LET act == SelectAction(prior, snap)
    IN  IF act = NoAction THEN NoPlan
        ELSE IF act \in ActionKinds
          THEN [kind |-> act, reason |-> GateOutcome(prior, act, now, maintenance)]
          ELSE [kind |-> "soft_reset", reason |-> act]

\* Skip strings become a plan whose kind is a placeholder (soft_reset).
PlanFor(prior, snap, now, maintenance) ==
    LET act == SelectAction(prior, snap)
    IN  IF act = NoAction THEN NoPlan
        ELSE IF act \in ActionKinds
          THEN [kind |-> act,
                reason |-> GateOutcome(Transition(prior, snap), act, now, maintenance)]
          ELSE [kind |-> "soft_reset", reason |-> act]

\* Mutant: the decay also forgets when actions last ran.
FinalizeForgettingTimes(prior, snap, plan, now) ==
    LET kept == DecayedCounters(prior, snap)
        last == IF Decays(prior, snap) THEN FreshState.last ELSE prior.last
    IN  [Transition(prior, snap) EXCEPT
            !.streak = IF Decays(prior, snap) THEN 0 ELSE NewStreak(prior, snap),
            !.counters = IF WouldExecute(plan) THEN [kept EXCEPT ![plan.kind] = @ + 1]
                                               ELSE kept,
            !.last = IF WouldExecute(plan) THEN [last EXCEPT ![plan.kind] = now] ELSE last]

\* Streak, decayed counters, and the counter and timestamp bump of a plan that
\* would execute, in one write.  Timestamps survive the decay.
FinalizePerModemState(prior, snap, plan, now) ==
    LET kept == DecayedCounters(prior, snap)
    IN  [Transition(prior, snap) EXCEPT
            !.streak = IF Decays(prior, snap) THEN 0 ELSE NewStreak(prior, snap),
            !.counters = IF WouldExecute(plan) THEN [kept EXCEPT ![plan.kind] = @ + 1]
                                               ELSE kept,
            !.last = IF WouldExecute(plan) THEN [prior.last EXCEPT ![plan.kind] = now]
                                           ELSE prior.last]

-----------------------------------------------------------------------------
(* Global driver reset *)

ChannelHung(snap) ==
    \E i \in DOMAIN snap.issues : snap.issues[i] = <<"qmi", "qmi_channel_hung">>

\* diag is a function from the observed modems to their snapshots.
HungModems(diag) == {m \in DOMAIN diag : ChannelHung(diag[m])}

\* Mutant: no cooldown.
DriverResetEligibleAnytime(diag, thermal, lastDriverReset, expected, now) ==
    /\ ~thermal
    /\ expected > 0
    /\ Cardinality(HungModems(diag)) * ThresholdDen >= ThresholdNum * expected
    /\ \E m \in HungModems(diag) : AllFloorsCleared(diag[m])

DriverResetEligible(diag, thermal, lastDriverReset, expected, now) ==
    /\ ~thermal
    /\ lastDriverReset = Never \/ now - lastDriverReset >= GlobalBackoff
    /\ expected > 0
    /\ Cardinality(HungModems(diag)) * ThresholdDen >= ThresholdNum * expected
    /\ \E m \in HungModems(diag) : AllFloorsCleared(diag[m])
=============================================================================
