# Verification of modem-watchdog

`spark-modem-watchdog` is a Python daemon that keeps the LTE modems of a Jetson
box online: every cycle it probes each modem over QMI, decides from what it saw
and from what it remembers whether to act, climbs a ladder of ever stronger
resets, and writes what it did to disk. This directory holds TLA+ models of its
decision logic and of the processes around it, TLC configurations, and proofs
for TLAPS. Paths below are relative to `src/src/spark_modem/` unless they begin
with `docs/`.

## 1. Inventory

| Component | State it keeps | Operations | Interacts with | What is hard |
| --- | --- | --- | --- | --- |
| recovery policy (`policy/`) | none of its own: `ModemState` per modem and `GlobalsState` go in and come out | `run_cycle`: transition, streak and decay, decision table, ladder, six gates, finalisation; global driver reset | called by the cycle driver, the CLI's dry run and the replay harness | counters and timestamps that outlive an issue, decay between two actions, short circuit of the driver reset |
| cycle driver (`daemon/cycle_driver.py`) | files only | `run_one_cycle`: scan, observe, SIM swap, hydrate, decide, dispatch, persist, log, report, announce | inventory, observer, state store, policy, dispatcher, event log, webhook | dying between two awaits; the operator's CLI between two awaits; time between decision and dispatch; four surfaces written one after the other |
| observer (`observer/`) | none | probes in parallel under a time-out, issue extraction | QMI wrapper, Zao tailer, cycle driver | time-outs that look like silence, answers that are cut off |
| subprocess runner, QMI wrapper and parsers (`subproc/`, `qmi/`) | the child that runs | `run` with a two-stage shutdown; classification; seven parsers | observer, actions | a child that survives SIGKILL, cancellation from outside |
| actions and dispatcher (`actions/`, `sysfs/`) | the devices | nine kinds, each with a verification | QMI wrapper, sysfs, modprobe | pairs of steps of which only the first happens; devices that change their number |
| state store (`state_store/`) | one file per modem, globals, identity map | load, save, reset of streak and counters, schema downgrade; asyncio lock and flock around each | daemon and CLI, two processes | cancellation with a lock held, power failure, old files |
| maintenance CLI (`cli/ctl/maintenance.py`) | `globals.json` | `on`, `off`, `status` | state store | read-modify-write against the daemon |
| cycle loop (`daemon/main.py`, `daemon/cycle_scheduler.py`) | event queue, deadline, shutdown event | wait, drain, run, kick, advance | producers, SIGTERM, systemd | asyncio time-outs and cancellation, abandoned tasks |
| event sources (`event_sources/`) | sockets, inotify watches | four producers under `restart_on_crash` | queue of the loop, Zao tailer, event log | a producer that dies or returns, a full queue |
| Zao log tailer (`zao_log/`), event log (`event_logger/`), kmsg dedup (`kmsg/`) | offsets, a descriptor, a window | parse again, append, reopen, suppress | inotify producer, observer, cycle driver | rotation under the reader or writer |
| SIGTERM choreography, lifecycle, preflights (`daemon/sigterm.py`, `daemon/lifecycle.py`, `daemon/preflight*.py`) | PID lock, two marker files | boot stages; eight steps of a stop; classification of the last run at boot | loop, producers, webhook, systemd | each step best effort within `TimeoutStopSec` |
| webhook poster (`webhook/`) | bounded queue, DNS cache, dedup table | enqueue, attempt, requeue, drain | cycle driver, SIGTERM | its only consumer also requeues |
| status reporter, metrics (`status_reporter/`) | `status.json`, gauges | replace, set | cycle driver | agrees with the files or not |
| SIGHUP (`daemon/sighup.py`) | settings cell | all-or-nothing reload | nobody (section 5) | captured settings |
| inventory, configuration, operator CLI | none | scan; load; read-only commands | cycle driver | |

What makes each correct: the policy resets a modem only out of a finite budget,
in order, spaced in time, and only when this cycle's observation calls for it,
and gives the budget back to a modem that is well again; the driver keeps those
promises over crashes, reboots, SIM swaps and an operator who interferes, and
what it tells the world is what it saved; the observer reports only faults the
modem has, and a cycle ends whatever the modems do; an action that is reported
verified has worked, and one that lost a modem has failed for all to see; the store admits
one task at a time, never leaves a torn file, and keeps what it acknowledged;
the loop answers every signal, polls at its cadence and ends at SIGTERM; a
source that crashed comes back, and what it feeds never says what is not so; the
poster sends no payload twice at a time and says what it dropped; a clean stop or a
rejected configuration is reported by the next start. Where the code falls short of
this, the property says by how much, and section 3 lists the case.

## 2. Modules

```
Policy            the rules, pure operators                      policy/*.py
  PolicyEngine    run_cycle again and again on its own output    policy/engine.py
  CycleDriver     run_one_cycle over the files                   daemon/cycle_driver.py
    CycleReport   ... and what it tells the world afterwards     daemon/cycle_driver.py
RecoveryBudget    what both promise, abstractly; PolicyEngine and CycleDriver
                  instantiate it with their history variables
Subprocess        run() of one child per modem                   subproc/runner.py
Extraction        qmicli's answers to the snapshot               qmi/, observer/issue_extractor.py
  ModemIO         probes and actions of a cycle, with Policy     observer/, actions/, sysfs/
DurableRegister   what a saved file promises, abstractly
  StateFile       one file, two locks, power failures            state_store/*.py
EventSources      producers, supervisor, tailer, log reopening   event_sources/, zao_log/, event_logger/
CycleLoop         the loop around run_one_cycle                  daemon/main.py
WebhookPoster     queue, retries and drain                       webhook/poster.py
  Lifecycle       process start to process end around it         daemon/{lifecycle,sigterm,main}.py
MC_*              instances for TLC
*_proofs          Policy, PolicyEngine, CycleDriver (with CycleReport), CycleLoop,
                  Lifecycle (with WebhookPoster), StateFile, EventSources, ModemIO
```

An indented module extends the one above it. Operators marked "Mutant" are wrong
forms of the definition that follows them; no specification uses them, they serve
to show that each property can fail.

**Policy.** One operator per rule. A modem's state is a record of what the rules
read: `state`, `present`, `rf_blocked`, `streak`, `counters` and `last` (the
per-kind monotonic timestamps). A snapshot is `[issues, signal]`; issues keep
their order because `select_top_priority_issue` depends on it, and a signal
metric is `"low"`, `"ok"` or `"none"`, which is all the floors distinguish.
`PlanFor` is the table row of the top issue, the ladder's rung for it and the
first gate that refuses it, in the order of `_apply_gates_to_action`;
`FinalizePerModemState` the bump of counter and timestamp. Ages of timestamps are
computed as in the code, so one that lies in the future of a rebooted clock
refuses. A configured ceiling, backoff, floor or threshold is a constant; the
assumptions on them are the bounds `config/settings.py` puts on the fields.
Not modelled: events and their wording, cause labels, `recovering_level`, the
legacy `last_action_monotonic` and ISO stamps, which no rule reads.

**PolicyEngine.** A step is one call of `run_cycle`: any subset of the modems
observed, any snapshots, any maintenance and thermal flag; or a tick of the clock.
`DriverResetCycle` is the short circuit, `PerModemCycle` the rest. `lastFired`,
`spent` and `healthyRun` are history: when a modem last got a destructive action,
which rungs it spent and for how many cycles in a row it has been healthy.

**CycleDriver.** `pc` follows `run_one_cycle`; `disk*` are the files, `snaps`,
`plans`, `newStates` its locals, `windowHeld` the history of whether a window has been open since
before the decision. Each await that another actor can slip through
ends a step: `Observe`, `SaveIdentity`, `ResetSwapped` (per modem), `Decide`,
`Dispatch` (per modem), `Persist` (per modem), `Finish`. `Interrupt` is a crash
and restart, a cancellation or an exception that the loop swallows: the daemon
keeps nothing in memory from one cycle to the next, so all three just end the
cycle. `Reboot` restarts the monotonic clock, stored timestamps stay. `Next` has
neither; `FaultyNext` has both. A save is one step here; StateFile is about what
is inside it. `ctl maintenance` loads and saves in two locked sections, here one
step. The per-modem actions run in scan order, which is the order of the modems.

**CycleReport.** The tail of the cycle, one step per surface: `LogTransitions`,
`WriteStatus` (with the gauges) and `Announce`. It composes with CycleDriver: the
body's last `Persist` begins the tail, and the next cycle waits for its end.
`CutBody` and `CutTail` are a crash or a step that raises. `owed` and `cutOff` are
history: modems whose fall was saved and not yet announced, and modems whose
last transition missed a part of the tail.

**RecoveryBudget.** Per modem: a reset takes from a finite budget per rung; the
budget returns after K healthy rounds in a row or with a new SIM; destructive
actions are spaced; a healthy modem is left alone.

**Subprocess.** `call[m]` is the child of the modem's present call: its stage
(`running`, `terminating`, `draining`), its limit and its age in the stage.
`Expire` and `Escalate` are the SIGTERM and the SIGKILL. `run` returns in one of four ways: it
raises, since the child cannot be spawned (`CannotSpawn`), the child exits by itself (`Exits`), it
dies of a signal (`Dies`), or the bounded drain ends and it is given up (`DrainOver`). A cancelled task leaves
its child alone: it becomes a stray.

**Extraction.** Pure. An answer of qmicli is a function from the lines it has to
their values; each of the seven parsers is an operator on it, so a line that is
missing, empty or unknown is a case of the model and not of its environment.
`ExtractIssues` is the table from values to issues, in the code's order.

**ModemIO.** A cycle probes all enumerated modems that Zao does not hold
(`StartCycle`), each query a call (`Answered`), each probe under its own time-out
(`ProbeExpires`); then `Decide` gives each modem the kind that the table and the
ladder of Policy give its top issue, or nothing (the gates are PolicyEngine's
matter, here nondeterministic); then the plans run one after the other:
`QmiStep` for the actions made of qmicli calls, as programs of `serving`, `read`
and `write` calls, `Unbind`, `Bind` for the USB reset, `Unloaded`, `Loaded` for the
driver. What is raised is treated as where it is raised: `_probe_one` makes a blank
snapshot of it (`ProbeRaises`); in an action, be it `run` that cannot spawn or an append
to the event log (`Raises`, `Finish`), nobody catches it before the loop, and the
dispatch is over for all modems. Around them the modems hang (`Hang`), lose a setting (`Break`), and get a new
device number after a driver reset (`leads`); Zao takes and gives back lines
(`ZaoMoves`); `Sigterm` cancels whatever runs and `Restart` starts again. A call may
end well, garbled (exit status 0, no parsable line), with an error, or by force.

**DurableRegister, StateFile.** The register: a value, a set of values a power
failure may leave, and the promise that what was acknowledged is the only one of
them. StateFile is the code: per task the steps of `save`, `load` and `reset` under
the process's asyncio lock and the flock, taken in a thread; the temporary file,
its fsync, the rename and the directory's fsync as steps of their own; the shadow
to which a file of an older schema is moved. `maybe` is the set of directories a
power failure may leave. A cancelled wait for the flock leaves a thread behind,
which takes the lock for nobody (`ThreadTakesFlock`, `leaked`).

**EventSources.** `status`, `attempt`, `wait` and `up` are `restart_on_crash`; `Put` and
`Notify` are the two ways a signal gets to the queue, from a coroutine and from a
reader callback, with what each does when the queue is full. `inbox` is what
inotify holds: the events of the Zao log's file and of the two directories, which
`ZaoModified`, `ZaoGone`, `ZaoCreated` and `EventLogReopens` handle. `watch` is the
one watch the producer ever adds: on the log (`live`), or on an old one that was renamed
and may still be written, renamed or deleted (`moved`, `OldLogChanges`), or on one that
is gone (`over`). Parsing, the stat before it and the reopen may fail. `blind`, `unseen`
and `misled` are history: the log changed while nothing could have told the daemon, or
could not be read; the event log was rotated unseen or its reopen failed; the last event
handled was the end of an old log.

**CycleLoop.** `_cycle_loop` and `CycleScheduler` over asyncio. `ready` and
`waiters` are the tasks inside `event_queue.get()`; one of them is the live wait's,
the others were left behind by waits that timed out, which is what
`asyncio.timeout` around `asyncio.wait` does. Times are relative to now.
`Cancel` is step 1 of the SIGTERM choreography, which `suppress(CancelledError)`
can swallow.

**WebhookPoster.** A step runs from one await to the next. `queue` is the bounded
queue, `consumer` and `held` where `run_forever` is and what it holds, `drain` the
item the shutdown's drain is sending. `PutBack` is the `await queue.put` of a failed
item, which waits in `PutAtLast` if the queue is full; the drain's attempts end in
`DrainAttempt`, and its loop test, the flush and the drop events in `DrainGoesOn`. Any of these
can raise (an error of the attempt that is not httpx's, an append to the event log), which ends the
drain with what it had not reached still in the queue (`FlushRaises`, `drain = "raised"`); `Enqueue`
can lose a refused payload in the same way. What the loop's own attempt raises takes
the task group down and is `Die` in Lifecycle. Backoff, DNS and HTTP are the time between taking an item and the end of its attempt; when
the budget runs out is left open. An unset URL, which refuses every payload, is not
modelled. `fate` and `attempts` are history; `"lost"` is a payload neither sent nor logged.

**Lifecycle.** One process after another: `Begin` (the settings are valid), `RejectConfig`
(exit 78 with a marker, from the settings or either preflight),
`Classify`, `TakePidLock`, `Report` (whatever the daemon enqueues), `Sigterm` (steps 1
and 2 of the choreography), `Drain` (step 3), `LeaveMarker` (steps 5 to 8), `Die`, at
any point, and `Reboot`, which empties `/run`. A marker may fail to be written or
unlinked, which the code logs and forgets. `Rival` is a second instance started
by hand: it reads, and so unlinks, the markers before it is refused the lock. It
extends WebhookPoster, whose tasks run until the process is gone. After the
choreography nothing ends the process by itself: the thread inside
`prom_server.serve_forever` is never shut down (`main.py:981`), so a stop ends in `Die`.

### Plan

Of the plan this development began with, the store, the event sources, the device
resets, the rest of `run_one_cycle` and the observation are done, as are the proofs
about the store, the sources, the lifecycle, the poster, the loop, the driver and its
report, the observation and the actions. Left:

1. CycleReport filling the queue of WebhookPoster, once the two can be composed without
   multiplying their state spaces.
2. A driver reset between two modems' saves, i.e. CycleDriver with ModemIO's `leads`.

## 3. Runs

Every bound is a constant of the configuration. Time is counted in ticks; only
the order of the intervals matters to the rules (`LadderMinInterval` below
`BackoffSeconds` below `GlobalBackoff`), so they are 2, 3 and 4 where the horizon
allows.

| Run | Instance | Shows |
| --- | --- | --- |
| `ladder` | PolicyEngine, one modem, seven snapshots (clean; signal low without issue; searching; session down with good and low signal; proxy dead; PIN before searching), ceilings 2/1/1, K = 2, six ticks | `LadderBudget`, `NoRungSkipped`, `DestructiveOnlyWhenCalledFor`, `DestructiveSpacing`, `ImplementsBudget`, and under fairness `BudgetRestored` |
| `fleet` | PolicyEngine, two interchangeable modems whose channels may hang (both must, for a driver reset), thermal flag, ceilings 1, K = 2, cooldown of 3 in three ticks | `BudgetUpToResets` |
| `crash` | CycleReport, one modem, one interruption and one reboot anywhere in body or tail, four ticks | `BudgetUpToLoss`, `DecisionSpacing`, `AnnouncedOnce`, `SurfacesAgree` |
| `operator` | CycleDriver, two modems, windows opened and closed at will, a SIM exchanged for a third one and unreadable at times, no interruption; cards are symmetric | `RunBeforeSave`, `MaintenanceRespected`, `SwapResetsBudget`, `ImplementsBudget` |
| `loop` | CycleLoop, interval 2, cycles of up to 5 ticks that may raise, three signals, SIGTERM | `CycleHasCause`, `WatchdogFed`, and under fairness `LoopEnds`, `KeepsCycling` |
| `devices` | ModemIO, two modems: at the first the APN and the registration break, calls of four sorts fail by themselves, a child may not start and the log may raise; the second hangs and is a line Zao uses | `TreatsRealFaults`, `ZaoRespected`, `LostIsReported`, `VerifiedIsTrue`, `CyclesEnd` |
| `store` | StateFile, cycle and choreography of the daemon and a CLI, two values, an older and a newer schema | `Exclusive`, `NeverTorn`, `AckedDurable`, `LegacyKept`, `ImplementsRegister`, `Released` |
| `sources` | EventSources, the producers of inotify, udev and kmsg, a queue of one, one delay of the supervisor, two events in inotify | `TailerFollows`, `WriterFollows`, and under fairness `ComesBack` |
| `shutdown` | Lifecycle, three payloads, a queue of two, two attempts each, any number of starts, ends and second instances | `OnePlace`, `AttemptsBounded`, `OneLossAtMost`, `EndReported`, `Unwinds` |
| `hung` | ModemIO, as `devices` | violates `HungIsSeen` |
| `renumber` | ModemIO, the proxy dies under the first modem, the second is unregistered | violates `ReachesItsModem` |
| `stuck` | Lifecycle, two payloads, a queue of one | violates `Settled` |

The bounds suffice for the cases they are for. In `ladder` six ticks hold two
whole backoffs, so every rung can be spent, waited for and spent again after a
decay; K = 2 lets a decay fall between two actions and a streak be broken half
way. The per-modem rules read nothing of another modem, so one modem is enough
there, and two for the one rule that counts modems; `fleet` has room for one driver reset and
the tick at which the next is due, and for the streaks that it leaves standing. In `crash` one interruption
and one reboot leave room for a cycle before, between and after; the tail takes no
time, since nothing in it waits. With one modem a cut between the announcements
of two is not in the instance. In `operator` one tick and one exchange suffice:
the order of dispatch, save, window and swap is what is asked about, and with
ceilings and K of 1 every rung is spent and every budget returned within a few
cycles. In `loop` cycles can take more than two intervals, which is the case
`advance()` catches up on, and the queue of two can be full. In `devices` one modem
that fails and one that hangs meet every ending of a call; time-outs are one
tick, or two for the calls that change something, which keeps their order: the probe's
is that of its first query. In `store` two tasks of one process and one of another
are what it takes to hold and await either lock; two values tell a save from the one
before it. In `sources` a queue of one is full after one signal, two events in
inotify are a removal and a creation, the case in which the file can be gone again.
In `shutdown` three payloads fill a queue of two while a third is being sent, which
is when the consumer waits for room; two attempts let one be requeued and then
drained. Counters of attempts need no bound, since nothing else is counted.

Deadlock is checked wherever the system goes on for ever; the loop's run turns it
off since the loop ends at SIGTERM; a daemon that died can always be started again.
Models with a last tick do not deadlock: the daemon goes on cycling.

**Fairness.** Nothing is assumed of operators, modems, Zao, signals, crashes or the receiver
of webhooks.

- `PolicyEngine!FairSpec`: weak fairness of a cycle that observes m. The loop cycles for
  ever (this is what `KeepsCycling` is about) and `scan()` lists a modem that is plugged in.
  Nothing is assumed about what is observed; that the modem stays healthy is the hypothesis
  of `BudgetRestored`.
- `CycleLoop!FairSpec`: weak fairness of the loop's steps together with time, i.e. the event
  loop runs what is ready and a cycle ends. That it does is `CyclesEnd` of ModemIO.
- `ModemIO!FairSpec`: weak fairness of the steps of the event loop: timers that are due,
  the tasks they wake, and time. A child that never exits is not excluded.
- `StateFile!FairSpec`: weak fairness of each task's own steps; a thread that waits for the
  flock polls it.
- `EventSources!FairSpec`: weak fairness of time, of the drain, of the handling of inotify's events
  and of the supervisor's restarts.
- `Lifecycle!FairSpec`: weak fairness of the steps of the choreography, of the poster's loop and
  of the drain's attempts, all of which time-outs bound; none for payloads, SIGTERM, starts or
  the end of the process.

**Mutants.** Each property of a passing run has a wrong form of one definition
under which TLC finds it violated: a decay that decrements, a streak an ill cycle
does not break, a gate that reads the oldest timestamp, a reset that forgets the
timestamps, a verification that goes by the exit code, a parser that takes no answer for an
empty one, a temporary file that is not synced, a lock kept on an error path, a reopen that
comes after the signal, a queue that is not drained, an exception that ends the loop, a loop that
relies on being cancelled, a driver reset without its cooldown.

### Divergences between code and documents

Three have a run that expects a violation, and a finding in PROJECT.json:

- `hung`: the time-out around a probe is armed before that of its first query and is as long
  (`observer/orchestrator.py:84`, `qmi/wrapper.py:38`), so a modem whose channel hangs
  yields a snapshot with no issue. Nothing retries and nothing emits `qmi/channel_hung`,
  as `docs/ARCHITECTURE.md:326` says. The global driver reset therefore never happens
  outside fixtures and replay traces. Proved for every instance with such time-outs
  (`TimeoutsGoUnseen`): the table's row for `qmi_timeout` is never used either.
- `renumber`: plans go to the device paths of the scan (`cycle_driver.py:380`). After a driver reset
  for one modem the kernel numbers the devices anew, and the plans behind it write to
  whichever modem has the old number, against `docs/adr/0009-state-files-keyed-by-usb-path.md:106`.
  The cross-check of that ADR, `cross_check_inventory_for`, is called by nobody. Proved: nothing but a driver reset of the same
  cycle sends an action astray (`OnlyDriverResetsMislead`).
- `stuck`: the poster's loop, the only reader of its queue, puts a failed item back
  with an await. If the queue was filled during the attempt, it waits for itself;
  nothing is sent any more and every later payload is refused. Only the drain of a
  stop makes room (so `Unwinds` holds). Proved for a queue of any size: while the daemon runs,
  a poster that waits for itself goes on waiting, and every later payload is dropped (`StuckForGood`).

Others were met while modelling and have no run of their own. In policy and cycle:

- A crash between dispatch and save loses the timestamp, and the same destructive action is
  repeated at once; `engine.py` calls this safe. `BudgetUpToLoss` says what does hold: the price is
  one execution per loss.
- Nothing compares a window's expiry stamps with a clock (`cycle_driver.py:231`); a window ends
  only by `ctl maintenance off`.
- The identity map is saved before the counters are reset (`cycle_driver.py:354`); after a crash in
  between the swap is never handled. A modem absent from the cycle that saves the map, or unreadable in
  it, drops out of it, so its next swap passes for an enrolment. `SwapResetsBudget` speaks of swaps
  neither of the two has hidden.
- A cycle that ends in the global driver reset leaves the healthy streak of ill modems alone, where
  `docs/RECOVERY_SPEC.md:142` resets it, so that a rung can be used more often than its ceiling:
  `BudgetUpToResets` says how often.
- No driver reset is to bypass the global threshold, says `engine.py:463`; a dead proxy's row goes through
  the per-modem gates only.
- `exhausted` and `recovering` are never entered although the specification's transition function
  enters them (`docs/RECOVERY_SPEC.md`, 3.2). Proved: `ExhaustedIsNeverEntered` of the engine,
  `DriverNeverExhausts` of the state files.
- A snapshot without any reading counts as healthy and can clear counters, where `orchestrator.py`
  says it is taken for unknown.
- Stored monotonic timestamps hold actions back after a reboot until uptime exceeds the old stamp
  plus the backoff.
- The timestamp of an action is its decision's; the action can start later than that by as long as the
  plans before it take.
- A crash between saving a state and announcing it loses the webhook for good: the next cycle finds the
  modem degraded already.
- The gauge of a modem that vanished keeps its last value; `expected_modems` of the status report
  is the number of modems in the scan; `StateTransitionEvent.action` is always None.
- After a failed reopen of the event log every append raises, which skips the status report and the
  webhooks of each cycle with a transition, ends the dispatch of a cycle at its first action, and ends
  the whole task group when the poster gives a payload up (`poster.py:214`).

In observation and actions:

- Zao is asked at the beginning of a probe and not again before an action; the age of a stale Zao
  log is used by nothing (`docs/ARCHITECTURE.md:327`).
- `set_apn` needs the operator's codes and fails on a modem that is not registered; an empty APN has the
  first priority, so such a modem's ladder never begins.
- An unreadable answer to the read before the write leads `set_apn` and `fix_raw_ip` to write anyway.
- The parsers compare names as qmicli prints them in the fixtures, with underscores; nothing
  normalises hyphens.
- A cancelled probe leaves its child alive beside the next probe's; the mark `QmiWrapper` sets for
  critical sections is read by nobody.
- Between unbind and bind, and between unload and load, a cancellation or an error leaves the modem
  without driver, and a modem that is not enumerated is not reset: nothing brings it back.
  `LostIsReported` says that what took it away is known to have failed, been cancelled or raised.
- A load of the driver that cannot be spawned (`driver_reset.py:72`, `subproc/runner.py:155`) raises through
  `execute_and_verify` (`dispatcher.py:99`) and `_dispatch_actions`: the driver is gone, no `ActionFailed`
  tells of it, the other plans are dropped and nothing of the cycle is saved. Only the loop logs it.
- A driver reset for one modem takes the driver from every other, lines that Zao holds included, and what
  follows it in the cycle may be led to them by the new numbers; ADR-0003 has such a line left alone.
  `ZaoRespected` is about what comes before the reset.

In store and lifecycle:

- A cancelled wait for the flock leaves a thread that takes the lock for nobody; the comment at
  `locks.py:270` says it does not. The lock is free again when the process ends.
- `atomic.py:117` promises an unchanged target on any error; when the directory's fsync fails the target
  is replaced.
- Daemon and CLI load and save `globals.json` in two locked sections, so one of two writers can overwrite
  the other's change.
- A corrupt file raises out of the hydration in every cycle, where `docs/ARCHITECTURE.md:330` has a
  backup and defaults. The identity map is loaded without the schema downgrade.
- `classify_prior_run` unlinks one marker where its docstring says both, so that after a clean stop, a
  rejected start and a crash the next start reports a clean stop. An OSError of the preflight
  (`preflight.py:55`) leaves no marker; the marker of invalid settings goes to a fixed directory.
- A full webhook queue refuses the newest payload, where ADR-0011 drops the oldest in one place
  (`docs/adr/0011-webhook-subsystem.md:191`) and the newest in another. The item the poster has in
  hand when the drain ends can be lost with no event (`OneLossAtMost` is what holds).
- A drain that raises is logged and passed over by the choreography (`sigterm.py:152`), and the payloads it
  has not reached are neither sent nor logged as dropped, where its docstring has each drop emit an event;
  `OneLossAtMost` is about a drain that did not raise. `enqueue` "never raises" (`poster.py:158`), but
  appends the refusal of a full queue to the event log, which may. The DNS cache
  has no key (`webhook/dns.py:58`) where `main.py:557` has one per host.

In loop and sources:

- The getter a timed-out wait leaves behind takes the next signal, and the loop sleeps to the deadline.
- `advance()` adds an interval for every early wake, so that the next poll can come later than
  `WatchdogSec`; `WatchdogFed` bounds this by the number of wakes.
- The watch of the Zao log is added when the file first appears and not after a rotation
  (`asyncinotify_producer.py:159`). It stays with the renamed file, and when that is renamed again or
  deleted, `on_inotify_event` takes the event for the end of the log and forgets a snapshot that was right
  (`inotify_tailer.py:99-106`). `TailerFollows` admits that the tailer then says nothing, and no more.
- A producer that returns is taken for an intended shutdown and ends for good, with no event.
- `kmsg_producer.py:156` has an OSError escape to the supervisor and trigger a re-entry; it is raised in a
  callback of the event loop (`kmsg_producer.py:184`), where no supervisor sees it, and the reader is called again
  on the same descriptor.
- A kernel message inside the window of `kmsg/dedup.py`, a signal that meets a full queue and the events an
  inotify instance held when it crashed wake nobody; the poll at the deadline is what makes up for them.

## 4. Proofs

`PolicyEngine`, for every set of modems, snapshots, ceilings, intervals and K that satisfy the
named assumptions (`SettingsAssumption`, `EngineAssumption`):

| Theorem | States | Further hypothesis |
| --- | --- | --- |
| `TypeCorrect` | `Spec => []TypeOK` | |
| `DestructiveSpacingHolds` | `Spec => DestructiveSpacing` | |
| `DestructiveOnlyWhenCalledForHolds` | `Spec => []DestructiveOnlyWhenCalledFor` | |
| `LadderBudgetHolds` | `Spec => []LadderBudget` | `NoneHung` |
| `NoRungSkippedHolds` | `Spec => []NoRungSkipped` | `NoneHung`, `NoneAsksForUsbReset` |
| `EngineImplementsBudget` | `Spec => Promise!Spec` | `NoneHung` |
| `BudgetUpToResetsHolds` | `Spec => []BudgetUpToResets` | |
| `ExhaustedIsNeverEntered` | `Spec => [](\A m \in Modems : states[m].state \in Entered)` | |

`NoneHung` says that no snapshot carries `qmi_channel_hung`, so that the global driver
reset is never eligible. It is needed: TLC violates `LadderBudget` when a channel hangs between
healthy cycles. The observer emits no such issue (run `hung`), only fixtures and replay
traces do. `BudgetUpToResetsHolds` is what remains without it. `NoneAsksForUsbReset` excludes issues whose own row is `usb_reset`.

The argument. *Types*: `Policy_proofs` shows once what each operator returns
(`SelectRung` yields an open rung at or above the base, or the skip string;
`PlanFor` a plan; `FinalizePerModemState` a state), and every action is a case of
its own. *Spacing* is not inductive: the gate reads `states[m].last`, the property speaks of
`lastFired`. `SpacingInv` ties them: whenever `lastFired[m]` is a time, it is the stored
timestamp of one of the destructive kinds. The gate scans all of them, so a plan it lets
through knows the age of `lastFired[m]`; a decay does not touch `last`. *Budget*: the code
decays counters by the persisted streak, the promise clears `spent` by `healthyRun`. `BudgetInv`
states that the two agree (the streak is `healthyRun`, and is back at 0 when that has reached K),
that each rung's counter is exactly what was spent and at most its ceiling, and that nothing
is spent when the run is K. It is inductive only as a whole: the ceiling needs the equality (a
rung is chosen by its counter), the equality needs the streak (both are cleared in the same
step only if both runs end there). *Implementation*: a cycle is a `Round`, each modem of
which skipped, was found healthy, was found ill or climbed a rung; `SpacingInv` and `BudgetInv` give
the guards. Both invariants were checked by TLC before they were proved. *Driver resets*: `ResetsInv` bounds what
was spent by the counter plus a `Price` per reset so far. A reset may leave a streak above `healthyRun`, and then one budget of the
price is not yet used, since the counters will be cleared before the history is; the next such clearing uses it up. That the
resets are few is the cooldown's part: n of them take the `Span` of n - 1 cooldowns. *The states*: `TransitionEnters` says that the
transition function only ever leaves `recovering` and `exhausted`.

`CycleDriver_proofs`, for every set of modems, SIM cards and snapshots, every setting and every number of
interruptions, reboots and swaps (`SettingsAssumption`, `DriverAssumption`). The steps are those of
`FaultySpec` together with the two ends of a cycle that only CycleReport has (`DriverNext`), so that
each theorem is about the driver with its faults and about the driver with its report; where the
table names no specification it is `FaultySpec \/ ReportSpec`:

| Theorem | States | Rests on |
| --- | --- | --- |
| `DriverTypeCorrect` | `[]TypeOK` | `Typed`: the types, and which locals are in use at which `pc` |
| `RunBeforeSaveHolds` | `[]RunBeforeSave` | `Counted` |
| `DriverNeverExhausts` | no state file says `recovering` or `exhausted` | the same of the states to be saved |
| `MaintenanceRespectedHolds` | `[]MaintenanceRespected` | `Windowed` |
| `SwapResetsBudgetHolds` | `[]SwapResetsBudget` | `SwapSeen` |
| `DecisionSpacingHolds` | `DecisionSpacing` | `Spacing` |
| `BudgetUpToLossHolds` | `[]BudgetUpToLoss`, if `NoneHung` | `Budgeted` |
| `DriverImplementsBudget` | `Spec => ImplementsBudget`, if `NoneHung` | all of these and `Calm` |
| `AnnouncedOnceHolds` | `ReportSpec => []AnnouncedOnce` | `TailInv` |
| `SurfacesAgreeHolds` | `ReportSpec => []SurfacesAgree` | `TailInv` |

A decision is in three places before it is on disk: the plan, the state that waits to be saved, and the
history of what ran. `Counted` ties the first two: a plan that executes is counted once in the state to be
saved. `Spacing` ties the third to them: as long as no record was lost, the last destructive action is no later than
a timestamp that is stored or waits to be stored, translated by the boot time; a reboot restarts the
clock between cycles only, so the translation can only grow, and the gate errs on the late side.
`Budgeted` is `BudgetInv` of the engine with two corrections, for an execution whose counter still waits
to be saved (`Uncounted`) and for the lost ones; it is why a crash costs one execution and no more.
`NoneHung` is needed as for the engine. `SwapSeen` says what the map on disk is worth: it is what was last
read, except between the observation and the comparison; a swap is yet to be noticed, about to be written, or written.
`DriverImplementsBudget` is about the driver without interruptions and reboots: `Calm` says that then nothing is
lost and that a plan waits to run only on an ill modem. A decision is the promise's round although it is saved
later (`HealthyBar`, `SpentBar`), the start of an action another one, a reset after a swap a new SIM; saving is a stutter.
`TailInv` follows the report of the cycle: `Reported` says that it tells what was in the files and what is or
will be; `Owing` that an announcement that is owed is one this cycle will make or one that was cut
off, and that its modem is still ill, so that its next transition leads to healthy and cannot owe a second one;
`Agreeing` what each surface says before and after each step of the tail, of every modem whose last report was
complete.

`CycleLoop_proofs`, for every interval, queue and length of cycles: `CycleHasCauseHolds`,
and `WatchdogFedHolds` under the hypothesis `WatchdogSec >= 3 * Interval`, which
is the unit file's (`WatchdogSec=180s`, three cycle intervals). *Causes*: a signal in the queue, or one
that has woken the wait, was put after the last drain; a getter left behind takes a signal and so a cause away,
and never adds one. *The watchdog*: `Ahead` bounds what has passed since the last feed plus what is left to the
deadline by two intervals and one for each signal that has been spent; `advance()` adds one per wake, and
every wake is a signal or the deadline.

`Lifecycle_proofs`, for every set of payloads, queue size and number of retries: `LifecycleTypeCorrect`,
`OnePlaceHolds`, `AttemptsBoundedHolds`, `OneLossAtMostHolds`, `StuckForGood`. `Places` says where an accepted payload can be,
place by place, since the property counts them: no item is twice in the queue, or there and in a reader's hand,
and what is accepted is somewhere. `Attempted`: attempts made and attempts left add up to the retries. `LastItem`: once
the drain is over, and has not raised, the queue is empty, but for the item that the loop was waiting to put back. That the queue stays
empty is not the poster's merit: `DaemonInv` adds that the choreography begins the drain only
when nothing enqueues any more.

`StateFile`, for every set of tasks and processes, every assignment of operations to tasks and
every set of values (`StateFileAssumption`): `StateTyped`, `ExclusiveHolds`, `NeverTornHolds`,
`LegacyKeptHolds`, `FileImplementsRegister` and `AckedDurableHolds`. *Exclusion*: a task in the critical
section has the flock and its process's mutex, and the flock of a process whose cancelled task got it
belongs to nobody; no two tasks are in the section because the flock is one value. *The disk*: no
directory in `maybe` has an unsynced target, which holds because the only rename is that of a temporary
file whose `synced` bit the step before has set; it needs the lock invariant, since a second task could
otherwise rename a file under the first. *The register*: `acked` means that `maybe` has one member, whose
target is the current one; it is an invariant of the register, proved there, and comes
back through the refinement.

`EventSources`, for every set of producers, every table of delays and every queue size
(`SourcesAssumption`): `SourcesTyped`, `WriterFollowsHolds`, `TailerFollowsHolds`. The descriptor is
that of the current file, or the event that says otherwise is still in inotify's queue
(`RotationPending`); the same for the Zao log, where in addition an event that says the file
is gone must be followed by the one that says it is back (`GoneThenCreated`, `CorrectionPending`). An event of
an old log, which the kept watch still delivers, can only make the tailer forget (`misled`), and
the next event of the log itself corrects that.

`EndReportedHolds`, also in `Lifecycle_proofs`, states `Spec => EndReported`. Which marker exists while nothing runs is not inductive without what must
hold while something does: `MarkersInv` adds that a running process has no config-error marker behind
it, and that one whose choreography is over has left its own, unless the markers are `spoiled`, by a
second instance or by one that could not be written or removed.

`ModemIO_proofs`, for every set of modems, faults and lines of Zao and every time limit
(`SubprocessAssumption`, `ModemIOAssumption`, `SettingsAssumption`):

| Theorem | States | Rests on |
| --- | --- | --- |
| `ModemIOTyped`, `ModemIOTypeCorrect` | `[]Typed`, `[]TypeOK` | `Typed`, `Placed` |
| `ZaoRespectedHolds` | `[]ZaoRespected` | `Spared`, `OnCourse` |
| `LostIsReportedHolds` | `[]LostIsReported` | `Kept` |
| `VerifiedIsTrueHolds` | `VerifiedIsTrue` | `InProgram` |
| `TreatsRealFaultsHolds` | `TreatsRealFaults`, if `ProbeTimeout <= QueryTimeout` | `Founded` |
| `TimeoutsGoUnseen` | no snapshot lists `qmi_timeout`, if `ProbeTimeout <= QueryTimeout` | `Founded` |
| `OnlyDriverResetsMislead` | `[](ReachesItsModem \/ DriverResetBegun)` | `OnCourse` |

`Placed` says on which of the cycle's lists a modem with a child can be, and that every snapshot is a list of
issues the extractor knows. *Zao*: that no query reaches a line Zao held is one half; `Spared` is
the other, that such a line has a blank snapshot and hence neither an issue nor a plan. That no call for another
modem is led to it either is `OnCourse`, below. *Losses*:
`LostIsReported` speaks of the time after an action, when it is over; `Kept` adds where the loss is while
it goes on (after the unbind, between unload and load), and that no action still to come
overwrites the report of the one that owned up, because a modem that is gone is not enumerated and so
not planned for. An action that raises leaves no action behind it, and so no report over its own. *Verification*: `InProgram` ties the step of the action under way to the length of its
program, so that a report "verified" can only be that of the last read; then the value it read is
the modem's, by a lemma per kind about what each parser makes of an answer. *Real faults*: an issue is
extracted from answers that came in over many steps, while faults come and go. `Founded` says that
each answer heard so far is honest (it leads to an issue only where there is the fault)
and that each child of a probe is no older than its probe; the latter is why the time-outs matter:
with `ProbeTimeout <= QueryTimeout` no query ever reaches its own time-out, so none reports one. The code has 8 s for both
(`observer/orchestrator.py:26`, `qmi/wrapper.py:38`). With a longer probe both theorems fail: a SIM query that
times out is an issue, and a healthy modem that was slow would be reset. *Renumbering*: `OnCourse` says that
the device paths of the scan lead to their modems, and a line Zao holds has its modem and driver, until a driver
reset of the same cycle has begun (`DriverResetBegun`, which the cycle never forgets).

The attempt showed one thing about the model. A CASE of TLA+ chooses among the arms that are true, of which TLC
takes the first; where the code's if-elif chain has overlapping conditions (`Classify`, `ParseServing`,
`GateOutcome`) the model now is a chain of IFs, too, and says the same to TLC and to the provers.

Only model-checked is liveness (`BudgetRestored`, `KeepsCycling`, `LoopEnds`, `CyclesEnd`, `Released`, `ComesBack`,
`Unwinds`), which is out of the prover's reach: that needs ENABLED for the fairness of each step. Every other
property of a passing run has its theorem. Not proved either is that the violations of `hung`, `renumber` and
`stuck` can be reached in every instance; a behaviour that reaches them is what TLC's traces show. `TypeOK` of
CycleLoop is shown by its bounded parts (`LoopTyped`) only; where a getter is marked "live" depends on
`SelectSeq`, which is recursive.

## 5. Not modelled, and why

- *Text and formats*: the regular expressions of the parsers, Prometheus output, redaction, YAML
  merging, webhook signatures are conversions of data with fixtures of their own.
- *SIGHUP*: `SighupSwapper` builds its candidate with `Settings()`, which reads the environment, constant
  for a running process: the candidate equals the settings it replaces, and a reload can neither
  change nor reject anything. The cell it swaps (`settings_ref`) is read by nobody; the poster takes its
  URL at construction, where `main.py:465` says per request. A model would have one
  reachable value. `docs/ARCHITECTURE.md:346` and ADR-0002 describe what the code does not do yet.
- *Retries of the observer, dedup of webhooks*: exist in documents, or as modules nothing imports.
- *`fix_autosuspend`, `set_operating_mode`*: registered with the dispatcher, named by no row of the
  decision table.
- *The global driver reset's dispatch*: the dispatcher leaves a host-wide plan undispatched
  (`cycle_driver.py:400`), so CycleDriver has no step for it.
- *Operator CLI*: reads files and prints; `ctl maintenance` is the part that writes.
- *sysfs and netlink*: what the kernel reports is an arbitrary set of modems, or a signal.
- *ActionFailed webhooks and ActionSkipped events*: follow the same way as those CycleReport has,
  from data it does not keep.
