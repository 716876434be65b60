----------------------------- MODULE CycleReport -----------------------------
(***************************************************************************)
(* What run_one_cycle tells the world, after it has saved its states: the  *)
(* transitions go to events.jsonl, status.json is replaced, the gauges are *)
(* set, and webhooks are enqueued for modems that fell ill.  Nothing in    *)
(* this tail suspends the task, but each step writes somewhere else: the   *)
(* process may die between any two, and a step that raises (the event log  *)
(* could not be reopened, the disk is full) takes the later ones with it.  *)
(*                                                                         *)
(* The states themselves are CycleDriver's; the next cycle starts when the *)
(* tail is over or was cut off.                                            *)
(***************************************************************************)
EXTENDS CycleDriver

VARIABLES
    tail,      \* the next step of the tail, or "none"
    report,    \* CycleResult.transitions: [from, to] of each modem of the cycle
    logged,    \* to_state of each modem's last StateTransition in events.jsonl
    status,    \* what status.json says of each modem
    gauge,     \* modem_state_value in the scraped registry
    owed,      \* history: modems saved as fallen ill and not announced since
    cutOff     \* history: modems whose last transition missed a part of the tail

surfaces == <<logged, status, gauge>>
reportVars == <<tail, report, surfaces, owed, cutOff>>
allVars == <<vars, reportVars>>

Absent == "absent"
Everywhere(v) == [m \in Modems |-> v]

ReportInit ==
    /\ Init
    /\ tail = "none" /\ report = Nothing
    /\ logged = Everywhere(FreshState.state)
    /\ status = Everywhere(Absent) /\ gauge = Everywhere(Absent)
    /\ owed = {} /\ cutOff = {}

Changed == {m \in DOMAIN report : report[m].from /= report[m].to}

\* Mutant: a modem that is ill is announced in every cycle.
IsIll(t) == t.to = "degraded"

\* The transition _enqueue_webhooks has an envelope for; no transition of the
\* engine leads from recovering to exhausted, which would have another.
FellIll(t) == t.from = "healthy" /\ t.to = "degraded"

ToAnnounce == {m \in DOMAIN report : FellIll(report[m])}

-----------------------------------------------------------------------------
(* The body of the cycle *)

\* The steps of CycleDriver up to the decision.
Look ==
    /\ tail = "none"
    /\ Observe \/ SaveIdentity \/ \E m \in Modems : ResetSwapped(m)
    /\ UNCHANGED reportVars

\* run_cycle lists a transition for every modem whose state changes.
Judge ==
    /\ Decide
    /\ report' = [m \in scanned |-> [from |-> diskStates[m].state,
                                     to |-> newStates'[m].state]]
    /\ UNCHANGED <<tail, surfaces, owed, cutOff>>

\* NFR-11: run_cycle raises.  Nothing is dispatched or saved, there are no
\* transitions, and the status is written from the states as they were.
PolicyRaises ==
    /\ pc = "reset" /\ swapped = {}
    /\ report' = [m \in scanned |-> [from |-> diskStates[m].state, to |-> diskStates[m].state]]
    /\ tail' = "status"
    /\ EndCycle
    /\ UNCHANGED <<diskVars, envVars, historyVars, surfaces, owed, cutOff>>

Act ==
    /\ \E m \in Modems : Dispatch(m)
    /\ UNCHANGED reportVars

\* Saved means due: from here on the world should hear of it.
Save(m) ==
    /\ Persist(m)
    /\ owed' = IF FellIll(report[m]) THEN owed \cup {m}
               ELSE IF newStates[m].state = "healthy" THEN owed \ {m} ELSE owed
    /\ UNCHANGED <<tail, report, surfaces, cutOff>>

Saved ==
    /\ Finish
    /\ tail' = "log"
    /\ UNCHANGED <<report, surfaces, owed, cutOff>>

-----------------------------------------------------------------------------
(* The tail *)

\* The StateTransition events, after the state writes.
LogTransitions ==
    /\ tail = "log"
    /\ logged' = [m \in Modems |-> IF m \in Changed THEN report[m].to ELSE logged[m]]
    /\ tail' = "status"
    /\ UNCHANGED <<vars, report, status, gauge, owed, cutOff>>

\* Mutant: built from the states the cycle started with.
StatusOfPrior == [m \in Modems |-> IF m \in DOMAIN report THEN report[m].from ELSE Absent]

\* _write_status_report: the modems of this scan and no others.
StatusOfScan == [m \in Modems |-> IF m \in DOMAIN report THEN report[m].to ELSE Absent]

\* write_status_json, then set_modem_state for each of them: a modem that is
\* gone keeps its last gauge.
WriteStatus ==
    /\ tail = "status"
    /\ status' = StatusOfScan
    /\ gauge' = [m \in Modems |-> IF m \in DOMAIN report THEN report[m].to ELSE gauge[m]]
    /\ tail' = IF ToAnnounce = {} THEN "none" ELSE "announce"
    /\ report' = IF ToAnnounce = {} THEN Nothing ELSE report
    /\ cutOff' = cutOff \ Changed
    /\ UNCHANGED <<vars, logged, owed>>

\* _enqueue_webhooks: one HealthyToDegraded after another.
Announce(m) ==
    /\ tail = "announce" /\ First(m, ToAnnounce)
    /\ owed' = owed \ {m}
    /\ LET left == [n \in DOMAIN report \ {m} |-> report[n]]
           over == ToAnnounce = {m}
       IN  /\ tail' = IF over THEN "none" ELSE "announce"
           /\ report' = IF over THEN Nothing ELSE left
    /\ UNCHANGED <<vars, surfaces, cutOff>>

\* The process dies, or a step raises, anywhere in body or tail.  What was saved
\* in this cycle is not told of again.  A new process starts with no gauges.
SavedInCycle == IF pc = "dispatch" THEN scanned \ unsaved ELSE {}

Missed ==
    /\ tail' = "none" /\ report' = Nothing
    /\ cutOff' = cutOff \cup (IF tail = "none" THEN Changed \cap SavedInCycle ELSE Changed)
    /\ gauge' \in {gauge, Everywhere(Absent)}
    /\ UNCHANGED <<logged, status, owed>>

CutBody == Interrupt /\ Missed

CutTail ==
    /\ tail /= "none" /\ interrupts < MaxInterrupts
    /\ interrupts' = interrupts + 1
    /\ Missed
    /\ UNCHANGED <<cycleVars, diskVars, sim, now, boot, reboots, swaps, historyVars>>

\* The tail is one stretch of code without a suspension; it takes no time.
Surroundings ==
    /\ tail = "none" /\ (Environment \/ Reboot)
    /\ UNCHANGED reportVars

ReportNext ==
    \/ Look \/ Judge \/ PolicyRaises \/ Act \/ Saved
    \/ LogTransitions \/ WriteStatus
    \/ \E m \in Modems : Save(m) \/ Announce(m)
    \/ CutBody \/ CutTail \/ Surroundings

ReportSpec == ReportInit /\ [][ReportNext]_allVars

-----------------------------------------------------------------------------
(* Properties *)

Told == pc = "idle" /\ tail = "none"

\* FR-44, and the order of cycle_driver.py, steps 5 to 7: what is announced was
\* saved and not announced before, over crashes and cycles that raise; and a
\* modem that was saved as fallen ill was announced unless its cycle was cut off.
AnnouncedOnce ==
    /\ tail = "announce" => ToAnnounce \subseteq owed
    /\ Told => owed \subseteq cutOff

\* FR-41, NFR-20, ADR-0013: once a cycle is over, the event log's last word on
\* each modem, status.json and the gauge agree with the state that was saved,
\* save for modems whose last transition was cut off; and no event log record
\* starts from another state than the one before it ended in.
SurfacesAgree ==
    /\ Told => \A m \in Modems \ cutOff :
          /\ logged[m] = diskStates[m].state
          /\ status[m] \in {diskStates[m].state, Absent}
          /\ gauge[m] \in {diskStates[m].state, Absent}
    /\ tail = "log" => \A m \in Changed \ cutOff : logged[m] = report[m].from
=============================================================================
