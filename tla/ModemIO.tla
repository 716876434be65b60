------------------------------ MODULE ModemIO -------------------------------
(***************************************************************************)
(* What a cycle does to the modems: observer.orchestrator probes all of    *)
(* them in parallel under one time-out each, actions.dispatcher then runs  *)
(* the planned actions one after the other, through qmicli, modprobe and   *)
(* sysfs.  The modems answer, hang, break and heal as they please, Zao     *)
(* takes and leaves their lines, and SIGTERM cancels whatever runs.        *)
(*                                                                         *)
(* Which plan passes the policy's gates is left open; the kind is the one  *)
(* the decision table and the ladder give the modem's top issue.  Timers   *)
(* of the event loop go off in time: a tick passes only when nothing is    *)
(* due.                                                                    *)
(***************************************************************************)
EXTENDS Policy, Extraction, Subprocess

CONSTANTS
    ProbeTimeout,      \* DEFAULT_PROBE_TIMEOUT_S, around the whole probe
    QueryTimeout,      \* _DEFAULT_TIMEOUT_S, per query
    ChangeTimeout,     \* _STATE_CHANGE_TIMEOUT_S and modprobe_timeout_seconds
    RebindDelay,       \* between unbind and bind
    Hangable, Breakable, ZaoLines, Flaky   \* what may go wrong where: modems that hang,
                       \* <<modem, query>> for the faults, the lines Zao uses, and
                       \* <<modem, query or verb>> for the calls that may fail by
                       \* themselves, <<modem, "spawn">> where a child may not start,
                       \* <<modem, "log">> where an append to the event log may raise

\* Modems are numbered in scan order.
ASSUME ModemIOAssumption ==
    /\ \A t \in {ProbeTimeout, QueryTimeout, ChangeTimeout, RebindDelay} : t \in Nat \ {0}
    /\ Modems \subseteq Nat
    /\ Hangable \subseteq Modems /\ ZaoLines \subseteq Modems
    /\ Breakable \subseteq Modems \X QueryNames

VARIABLES
    phase,       \* "idle", "observe", "act", or "down" after SIGTERM
    age,         \* ticks since observe_all began
    pending,     \* modems whose probe is under way
    answers,     \* modem -> [query -> answer], for the queries answered so far
    snaps,       \* modem -> its snapshot, for the probes that are over
    held,        \* lines Zao held when this cycle came to them
    plan, toRun, \* the plans that passed the gates, those not yet carried out
    step,        \* of the action under way; 0: not begun
    pause,       \* ticks until bind
    report,      \* [kind, how]: the last action on each modem, until it is next seen;
                 \* "raised" is in no log but that of the loop
    bound, driver, hung, wrong, zao,   \* the real world
    leads        \* the modem behind the device path that the scan found for each

probeVars == <<age, pending, answers, snaps, held>>
actionVars == <<plan, toRun, step, pause, report>>
modemVars == <<bound, driver, hung, wrong, leads>>
subprocVars == <<call, strays>>
vars == <<phase, probeVars, actionVars, modemVars, zao, subprocVars>>

NoReport == [kind |-> NoAction, how |-> "none"]

Init ==
    /\ phase = "idle" /\ age = 0 /\ pending = {} /\ held = {}
    /\ answers = << >> /\ snaps = << >> /\ plan = << >>
    /\ toRun = {} /\ step = 0 /\ pause = 0
    /\ report = [m \in Modems |-> NoReport]
    /\ bound = Modems /\ driver = TRUE /\ hung = {} /\ zao = {}
    /\ wrong = [m \in Modems |-> {}]
    /\ leads = [m \in Modems |-> m]
    /\ call = [m \in Modems |-> NoCall] /\ strays = {}

-----------------------------------------------------------------------------
(* The modems' side of a call *)

GoodReply == [
    signal |-> [q \in Metrics |-> "ok"],
    serving |-> [state |-> "registered", roaming |-> "off", plmn |-> "known"],
    sim |-> [card |-> "present", app |-> "ready", iccid |-> "some", imsi |-> "some"],
    data |-> [connection |-> "connected"], profile |-> [index |-> "1", apn |-> "apn"],
    settings |-> [raw_ip |-> "Y"], operating_mode |-> [mode |-> "online"]]

\* A modem that searches reports no operator, and no roaming.
BadReply == [
    signal |-> [q \in Metrics |-> "low"],
    serving |-> [state |-> "not-registered-searching"], sim |-> [card |-> "power_down"],
    data |-> [connection |-> "disconnected"], profile |-> [index |-> "1", apn |-> "empty"],
    settings |-> [raw_ip |-> "N"], operating_mode |-> [mode |-> "offline"]]

Reply(m, q) == IF q \in wrong[m] THEN BadReply[q] ELSE GoodReply[q]

Enumerated(m) == driver /\ m \in bound

\* How a qmicli call to the device of m may end by itself: one to a hung channel
\* does not; "garbled" is a success that prints nothing its parser knows.
Endings(m, what) ==
    IF ~Enumerated(leads[m]) THEN {"non_zero_exit"}
    ELSE IF leads[m] \in hung THEN {}
    ELSE IF <<leads[m], what>> \in Flaky
      THEN {Classify(FALSE, b[1], b[2]) : b \in BOOLEAN \X BOOLEAN} \cup {"garbled"}
    ELSE {"none"}

\* The exit code says so; a write's output is not looked at.
Succeeded(e) == e \in {"none", "garbled"}

\* The other endings: the child dies of its signals, or is given up.
Kills == {"killed", "given_up"}
Verdict(e) == IF e \in Kills THEN Classify(TRUE, FALSE, FALSE) ELSE e

\* run() returns to the task of m; a killed child's call counts as timed out.
ByForce(m, e) == (Dies(m) /\ e = "killed") \/ (DrainOver(m) /\ e = "given_up")
Returns(m, what, e) == (Exits(m) /\ e \in Endings(m, what)) \/ ByForce(m, e)

-----------------------------------------------------------------------------
(* observe_all *)

\* Mutant: Zao's lines are probed like any other.
AllToProbe(listed) == listed

\* A line Zao holds is left alone.
ToProbe(listed) == listed \ zao

\* SysfsInventory.scan, then every probe up to its first await.  A line Zao
\* holds gets its blank snapshot without a query.
StartCycle ==
    /\ phase = "idle"
    /\ LET listed == {m \in Modems : Enumerated(m)}
       IN  /\ held' = listed \cap zao
           /\ pending' = ToProbe(listed)
           /\ snaps' = [m \in listed \cap zao |-> Blank]
    /\ answers' = [m \in pending' |-> << >>]
    /\ call' = [m \in Modems |-> IF m \in pending' THEN Spawned(QueryTimeout) ELSE NoCall]
    /\ phase' = "observe" /\ age' = 0
    /\ plan' = << >> /\ leads' = [m \in Modems |-> m]
    /\ report' = [m \in Modems |-> IF Enumerated(m) THEN NoReport ELSE report[m]]
    /\ UNCHANGED <<toRun, step, pause, bound, driver, hung, wrong, zao, strays>>

SnapshotTaken(m, s) ==
    /\ pending' = pending \ {m}
    /\ snaps' = [n \in DOMAIN snaps \cup {m} |-> IF n = m THEN s ELSE snaps[n]]

\* What a query that ended so contributes to the snapshot.
Answer(m, q, e) ==
    CASE e = "none"    -> Parse(q, Reply(leads[m], q))
      [] e = "garbled" -> Parse(q, << >>)
      [] OTHER         -> Failed(q, Verdict(e))

\* probe_modem_to_snapshot: one query after the other.
Answered(m, e) ==
    /\ phase = "observe" /\ m \in pending
    /\ LET q == Queries[Cardinality(DOMAIN answers[m]) + 1]
           a == [p \in DOMAIN answers[m] \cup {q} |->
                   IF p = q THEN Answer(m, q, e) ELSE answers[m][p]]
       IN  /\ Returns(m, q, e)
           /\ IF DOMAIN a = QueryNames
                THEN /\ SnapshotTaken(m, ToSnapshot(a))
                     /\ call' = [call EXCEPT ![m] = NoCall]
                     /\ answers' = [answers EXCEPT ![m] = << >>]
                ELSE /\ answers' = [answers EXCEPT ![m] = a]
                     /\ call' = [call EXCEPT ![m] = Spawned(QueryTimeout)]
                     /\ UNCHANGED <<pending, snaps>>
    /\ UNCHANGED <<phase, age, held, actionVars, modemVars, zao>>

ProbeDue(m) == phase = "observe" /\ m \in pending /\ age >= ProbeTimeout

\* The time-out around the probe cancels it, inside run().
ProbeExpires(m) ==
    /\ ProbeDue(m)
    /\ Cancelled({m})
    /\ SnapshotTaken(m, Blank)
    /\ answers' = [answers EXCEPT ![m] = << >>]
    /\ UNCHANGED <<phase, age, held, actionVars, modemVars, zao>>

\* _probe_one catches what run() raises.
ProbeRaises(m) ==
    /\ phase = "observe" /\ m \in pending /\ <<m, "spawn">> \in Flaky
    /\ CannotSpawn(m)
    /\ SnapshotTaken(m, Blank)
    /\ call' = [call EXCEPT ![m] = NoCall]
    /\ answers' = [answers EXCEPT ![m] = << >>]
    /\ UNCHANGED <<phase, age, held, actionVars, modemVars, zao>>

\* The kinds the table and the ladder may give a list of issues.
MayPlan(issues) ==
    LET base == LookupAction(SelectTopPriorityIssue(issues))
    IN  IF issues = << >> THEN {}
        ELSE IF base \in LadderRungs THEN {k \in LadderRungs : RungIndex[k] >= RungIndex[base]}
        ELSE {base} \cap ActionKinds

Decide ==
    /\ phase = "observe" /\ pending = {}
    /\ \E S \in SUBSET DOMAIN snaps : \E p \in [S -> ActionKinds] :
          /\ \A m \in S : p[m] \in MayPlan(snaps[m].issues)
          /\ plan' = p /\ toRun' = S
          /\ phase' = IF S = {} THEN "idle" ELSE "act"
    /\ age' = 0 /\ answers' = << >> /\ snaps' = << >>
    /\ step' = 0
    /\ UNCHANGED <<pending, held, pause, report, modemVars, zao, subprocVars>>

-----------------------------------------------------------------------------
(* execute_and_verify *)

Execute == [
    set_apn      |-> <<"serving", "read", "write">>,
    fix_raw_ip   |-> <<"read", "write">>,
    sim_power_on |-> <<"write">>,
    soft_reset   |-> <<"write">>,
    modem_reset  |-> <<"write">>,
    usb_reset    |-> <<"unbind", "bind">>,
    driver_reset |-> <<"unload", "load">>]

\* The others are verified by the next cycle's observation ("deferred").
Verify == [k \in ActionKinds |->
    CASE k = "set_apn"                        -> <<"serving", "read">>
      [] k \in {"fix_raw_ip", "sim_power_on"} -> <<"read">>
      [] OTHER                                -> << >>]

Program(k) == Execute[k] \o Verify[k]

\* What each kind is there to put right.
Target == [set_apn |-> {"profile"}, fix_raw_ip |-> {"settings"}, sim_power_on |-> {"sim"},
           soft_reset |-> {"serving"}, modem_reset |-> {"serving", "data", "operating_mode"}]

LimitOf(verb) == IF verb \in {"serving", "read"} THEN QueryTimeout ELSE ChangeTimeout

\* _dispatch_actions goes by scan order.
First(m, S) == m \in S /\ \A n \in S : m <= n
Acting(m) == phase = "act" /\ First(m, toRun)

\* Neither execute_and_verify nor _dispatch_actions catches anything: what is raised
\* in an action ends the dispatch for all, and only the loop says so.
End(m, how) ==
    /\ report' = [report EXCEPT ![m] = [kind |-> plan[m], how |-> how]]
    /\ toRun' = IF how = "raised" THEN {} ELSE toRun \ {m}
    /\ step' = 0
    /\ phase' = IF toRun' = {} THEN "idle" ELSE "act"
    /\ call' = [call EXCEPT ![m] = NoCall]

\* ActionExecuted or ActionFailed is logged, or the append raises.
Finish(m, how) == End(m, how) \/ (<<m, "log">> \in Flaky /\ End(m, "raised"))

Goto(m, i) ==
    /\ step' = i
    /\ call' = [call EXCEPT ![m] = Spawned(LimitOf(Program(plan[m])[i]))]
    /\ UNCHANGED <<phase, toRun, report>>

\* unbind_rebind: the write to unbind, a sleep, the write to bind; a write that
\* fails ends the action.
Unbind(m) ==
    /\ Acting(m) /\ plan[m] = "usb_reset" /\ step = 0
    /\ \/ /\ m \in bound
          /\ bound' = bound \ {m}
          /\ step' = 1 /\ pause' = RebindDelay
          /\ UNCHANGED <<phase, toRun, report, call>>
       \/ /\ Finish(m, "failed")
          /\ UNCHANGED <<bound, pause>>
    /\ UNCHANGED <<probeVars, plan, driver, hung, wrong, leads, zao, strays>>

Bind(m) ==
    /\ Acting(m) /\ plan[m] = "usb_reset" /\ step = 1 /\ pause = 0
    /\ \/ /\ bound' = bound \cup {m}
          /\ hung' \in {hung, hung \ {m}}
          /\ Finish(m, "deferred")
       \/ /\ Finish(m, "failed")
          /\ UNCHANGED <<bound, hung>>
    /\ UNCHANGED <<probeVars, plan, pause, driver, wrong, leads, zao, strays>>

BeginCalls(m) ==
    /\ Acting(m) /\ plan[m] /= "usb_reset" /\ step = 0
    /\ Goto(m, 1)
    /\ UNCHANGED <<probeVars, plan, pause, modemVars, zao, strays>>

\* How a modprobe ends: nothing, the driver still in use, any other error, or a
\* time-out.
ModprobeReturns(m, e) ==
    (Exits(m) /\ e \in {"none", "in_use", "non_zero_exit"}) \/ ByForce(m, e)

\* The driver after it: changed if it said so, maybe if it was killed on the way.
AfterModprobe(e, loaded) ==
    driver' \in IF e = "none" THEN {loaded}
                ELSE IF e \in Kills THEN {driver, loaded} ELSE {driver}

\* driver_reset: an unload that fails is ignored, unless the driver is in use.
Unloaded(m, e) ==
    /\ Acting(m) /\ plan[m] = "driver_reset" /\ step = 1
    /\ ModprobeReturns(m, e)
    /\ AfterModprobe(e, FALSE)
    /\ IF e = "in_use" THEN Finish(m, "failed") ELSE Goto(m, 2)
    /\ UNCHANGED <<probeVars, plan, pause, bound, hung, wrong, leads, zao>>

\* Mutant: the exit code of the load is not looked at.
LoadOutcomeIgnored(e) == "deferred"

LoadOutcome(e) == IF e = "none" THEN "deferred" ELSE "failed"

\* The device numbers the kernel gives out when the driver is back, in the order
\* in which it finds the modems this time.
Numberings == {f \in [Modems -> Modems] : \A m, n \in Modems : f[m] = f[n] => m = n}

Loaded(m, e) ==
    /\ Acting(m) /\ plan[m] = "driver_reset" /\ step = 2
    /\ ModprobeReturns(m, e) /\ e /= "in_use"
    /\ AfterModprobe(e, TRUE)
    /\ Finish(m, LoadOutcome(e))
    /\ hung' \in {hung, {}}
    /\ leads' \in IF driver' /\ ~driver THEN Numberings ELSE {leads}
    /\ UNCHANGED <<probeVars, plan, pause, bound, wrong, zao>>

\* A write of kind k that returned without error has taken effect on modem t; one
\* that failed may have.  A reset may set the channel free, and may not help.
Effect(t, k, e) ==
    LET sure == Succeeded(e) /\ k \notin LadderRungs
        fixed == [wrong EXCEPT ![t] = @ \ Target[k]]
    IN  /\ wrong' \in IF sure THEN {fixed} ELSE {wrong, fixed}
        /\ hung' \in IF k \in LadderRungs THEN {hung, hung \ {t}} ELSE {hung}

\* Mutant: a verification passes when its call exits with 0.
PassesOnExitCode(verb, e, executing, found) == Succeeded(e)

\* What a call is made for: the operator's codes, or the value that was wrong.
Found(m, verb, e) ==
    /\ e = "none"
    /\ CASE verb = "serving" -> PlmnKnown(Reply(leads[m], "serving"))
         [] verb = "read"    -> Target[plan[m]] \cap wrong[leads[m]] = {}
         [] OTHER            -> TRUE

\* A call that fails fails the action, or its verification.  The operator must be
\* known; a read before the write may find what it likes, the last read of a
\* verification has to find the value right.
Passes(verb, e, executing, found) ==
    Succeeded(e) /\ (found \/ verb = "write" \/ (verb = "read" /\ executing))

\* One qmicli call of an action, and on to the next; a read that finds the value
\* right saves the write.
QmiStep(m, e) ==
    /\ Acting(m) /\ plan[m] \notin {"usb_reset", "driver_reset"} /\ step > 0
    /\ LET k == plan[m]
           verb == Program(k)[step]
           executing == step <= Len(Execute[k])
           found == Found(m, verb, e)
           next == IF executing /\ verb = "read" /\ found THEN Len(Execute[k]) + 1 ELSE step + 1
       IN  /\ Returns(m, verb, e)
           /\ IF verb = "write" THEN Effect(leads[m], k, e) ELSE UNCHANGED <<hung, wrong>>
           /\ IF ~Passes(verb, e, executing, found)
                THEN Finish(m, IF executing THEN "failed" ELSE "unverified")
              ELSE IF next <= Len(Program(k)) THEN Goto(m, next)
              ELSE Finish(m, IF Verify[k] = << >> THEN "deferred" ELSE "verified")
    /\ UNCHANGED <<probeVars, plan, pause, bound, driver, leads, zao>>

\* The append of ActionPlanned raises, before anything is done; or a call of the
\* action, whatever the calls before it have done.
Raises(m) ==
    /\ Acting(m)
    /\ \/ step = 0 /\ <<m, "log">> \in Flaky /\ UNCHANGED strays
       \/ step > 0 /\ <<m, "spawn">> \in Flaky /\ CannotSpawn(m)
    /\ End(m, "raised")
    /\ UNCHANGED <<probeVars, plan, pause, modemVars, zao>>

-----------------------------------------------------------------------------
(* Time, SIGTERM and the world *)

\* The time-out around a probe was armed before the one of its query.
Shutdown(m) ==
    /\ ~ProbeDue(m)
    /\ Expire(m) \/ Escalate(m)
    /\ UNCHANGED <<phase, probeVars, actionVars, modemVars, zao>>

\* Nothing the event loop has to do at this instant.
NothingDue ==
    /\ \A m \in Modems : ~Due(m)
    /\ phase = "observe" => pending /= {} /\ age < ProbeTimeout
    /\ phase = "act" => step > 0 /\ (pause > 0 \/ \E m \in toRun : InCall(m))

Tick ==
    /\ phase \in {"observe", "act"} /\ NothingDue
    /\ call' = [m \in Modems |-> Older(call[m])]
    /\ age' = IF phase = "observe" THEN age + 1 ELSE age
    /\ pause' = IF pause > 0 THEN pause - 1 ELSE 0
    /\ UNCHANGED <<phase, pending, answers, snaps, held, plan, toRun, step, report,
                   modemVars, zao, strays>>

\* Step 1 of the choreography cancels the cycle wherever it is.
Sigterm ==
    /\ phase \in {"observe", "act"}
    /\ phase' = "down"
    /\ Cancelled(Modems)
    /\ report' = [m \in Modems |-> IF Acting(m) /\ step > 0
                                     THEN [kind |-> plan[m], how |-> "cancelled"] ELSE report[m]]
    /\ age' = 0 /\ pending' = {} /\ answers' = << >> /\ snaps' = << >> /\ held' = {}
    /\ plan' = << >> /\ toRun' = {} /\ step' = 0 /\ pause' = 0
    /\ UNCHANGED <<modemVars, zao>>

Restart ==
    /\ phase = "down" /\ phase' = "idle"
    /\ UNCHANGED <<probeVars, actionVars, modemVars, zao, subprocVars>>

Hang(m) == m \in Hangable \ hung /\ hung' = hung \cup {m} /\ UNCHANGED <<wrong, zao, strays>>

Break(m, q) ==
    /\ <<m, q>> \in Breakable /\ q \notin wrong[m]
    /\ wrong' = [wrong EXCEPT ![m] = @ \cup {q}] /\ UNCHANGED <<hung, zao, strays>>

ZaoMoves == zao' \in (SUBSET ZaoLines) \ {zao} /\ UNCHANGED <<hung, wrong, strays>>

World ==
    /\ \/ \E m \in Modems : Hang(m) \/ (StrayEnds(m) /\ UNCHANGED <<hung, wrong, zao>>)
       \/ \E b \in Breakable : Break(b[1], b[2])
       \/ ZaoMoves
    /\ UNCHANGED <<phase, probeVars, actionVars, bound, driver, leads, call>>

QmiEnds == (Errors \ {"timeout"}) \cup {"none", "garbled"} \cup Kills

Observe == StartCycle \/ Decide
           \/ \E m \in Modems : ProbeExpires(m) \/ ProbeRaises(m)
                               \/ \E e \in QmiEnds : Answered(m, e)

Act == \E m \in Modems :
         \/ Unbind(m) \/ Bind(m) \/ BeginCalls(m) \/ Raises(m)
         \/ \E e \in QmiEnds \cup {"in_use"} : Unloaded(m, e) \/ Loaded(m, e)
         \/ \E e \in QmiEnds : QmiStep(m, e)

Next == Observe \/ Act \/ Tick \/ Sigterm \/ Restart \/ World
        \/ \E m \in Modems : Shutdown(m)

Spec == Init /\ [][Next]_vars

\* The event loop runs, and time passes; a child need not do anything.
GiveUp(m) == Answered(m, "given_up") \/ Unloaded(m, "given_up")
             \/ Loaded(m, "given_up") \/ QmiStep(m, "given_up")
LoopSteps == StartCycle \/ Decide \/ Tick
             \/ \E m \in Modems : \/ ProbeExpires(m) \/ Shutdown(m) \/ GiveUp(m)
                                 \/ Unbind(m) \/ Bind(m) \/ BeginCalls(m)
FairSpec == Spec /\ WF_vars(LoopSteps)

-----------------------------------------------------------------------------
(* Properties *)

Outcomes == {"none", "verified", "unverified", "deferred", "failed", "cancelled", "raised"}

TypeOK ==
    /\ phase \in {"idle", "observe", "act", "down"}
    /\ pending \subseteq Modems /\ toRun \subseteq DOMAIN plan /\ strays \subseteq Modems
    /\ call \in [Modems -> Calls]
    /\ DOMAIN plan \subseteq Modems /\ \A m \in DOMAIN plan : plan[m] \in ActionKinds
    /\ \A m \in DOMAIN snaps : \A i \in DOMAIN snaps[m].issues :
          snaps[m].issues[i][1] \in DOMAIN Priority
    /\ \A m \in Modems : report[m].how \in Outcomes
    /\ bound \subseteq Modems /\ driver \in BOOLEAN /\ zao \subseteq ZaoLines

\* What each kind is there for, the ladder as a whole for what its base may be.
Illness(k) == IF k \in LadderRungs THEN {"serving", "data", "operating_mode"} ELSE Target[k]

\* Only a fault the modem has gets it changed: a query that failed, timed out, was
\* cut off or came back garbled makes up none, whatever the others said; the
\* driver reset after a dead proxy is the exception.
TreatsRealFaults ==
    [][(phase = "observe" /\ phase' = "act")
         => \A m \in toRun' : \/ plan'[m] = "driver_reset"
                              \/ Illness(plan'[m]) \cap wrong[m] /= {}]_vars

\* A driver reset of this cycle is on its way, or over.
DriverResetBegun ==
    \E n \in DOMAIN plan :
       /\ plan[n] = "driver_reset"
       /\ (Acting(n) /\ step > 0) \/ report[n].kind = "driver_reset"

\* ADR-0003, FR-10: while Zao has a line at the start of a cycle, nothing that cycle
\* does reaches its modem: no query and no action is for it, no call for another one
\* is led to it, and it stays on the bus with its driver loaded.  Two things fall
\* outside: a driver reset, which the cycle may run for another modem and which takes
\* the driver from all of them, and the children an earlier cycle left behind.
ZaoRespected ==
    \A m \in held :
       \/ /\ m \notin toRun /\ Enumerated(m)
          /\ \A n \in Modems : InCall(n) => leads[n] /= m
       \/ DriverResetBegun

\* A modem off the bus and a driver out of the kernel are never news: the reset
\* that took them away is under way, failed by its own account, was cancelled, or
\* raised and ended its cycle, which is news to the log of the loop alone.
Confessed(m, kind) ==
    report[m].kind = kind /\ report[m].how \in {"failed", "cancelled", "raised"}

LostIsReported ==
    /\ \A m \in Modems \ bound :
          (Acting(m) /\ plan[m] = "usb_reset") \/ Confessed(m, "usb_reset")
    /\ driver \/ \E m \in Modems :
          (Acting(m) /\ plan[m] = "driver_reset") \/ Confessed(m, "driver_reset")

\* An action reports itself verified only when the fault it is there for is gone,
\* although its calls may time out, fail half-way or be answered by a dead proxy;
\* unless the modems were renumbered since the scan.
VerifiedIsTrue ==
    [][\A m \in Modems :
         (toRun' /= toRun /\ report'[m] /= report[m] /\ report'[m].how = "verified" /\ leads[m] = m)
            => wrong[m] \cap Target[report'[m].kind] = {}]_vars

\* Every cycle comes to its end: no modem, however it hangs, and no child, however
\* it survives its signals, holds up the others.
CyclesEnd == phase \in {"observe", "act"} ~> phase \in {"idle", "down"}

\* ARCHITECTURE.md (QMI subprocess timeout): a modem whose channel hangs is
\* recognised, so its snapshot lists an issue.
HungIsSeen ==
    [][\A m \in hung \cap pending :
         m \in DOMAIN snaps' => snaps'[m].issues /= << >>]_vars

\* ADR-0009 ("a runtime detail discovered at startup and on each udev event"): the
\* calls of an action go to the modem it was planned for.
ReachesItsModem ==
    \A m \in Modems :
       Acting(m) /\ InCall(m) /\ plan[m] \in DOMAIN Target => leads[m] = m
=============================================================================
