------------------------------ MODULE CycleLoop -----------------------------
(***************************************************************************)
(* daemon.main._cycle_loop with its CycleScheduler and event_queue, on     *)
(* asyncio: wait for a wake signal, the deadline or the shutdown event;    *)
(* drain the queue; run a cycle; feed the systemd watchdog; advance the    *)
(* deadline.                                                               *)
(*                                                                         *)
(* Each wait creates a task that calls event_queue.get().  A timeout       *)
(* cancels the wait and not that task: it stays behind as an orphan, in    *)
(* line before the task of the next wait.  ready holds the getters that    *)
(* are about to look at the queue, waiters those that wait for an item, as *)
(* asyncio.Queue keeps them: put_nowait adds the item and makes the first  *)
(* waiter ready.                                                           *)
(*                                                                         *)
(* Time passes in a cycle, and in a wait in which nothing is ready to run: *)
(* the event loop is fast next to a tick.  Times are relative to now, so   *)
(* behaviours never end.                                                   *)
(***************************************************************************)
EXTENDS Integers, SequencesExt

CONSTANTS
    Interval,       \* cycle_interval_seconds
    WatchdogSec,    \* of the systemd unit
    QueueSize,      \* maxsize of event_queue
    Outcomes,       \* whether run_one_cycle returns (TRUE) or raises (FALSE)
    MaxCycleTime, MaxSignals, MaxOrphans   \* model bounds

ASSUME LoopAssumption ==
    /\ \A n \in {Interval, WatchdogSec, QueueSize} : n \in Nat \ {0}
    /\ Outcomes \subseteq BOOLEAN /\ Outcomes /= {}
    /\ \A b \in {MaxCycleTime, MaxSignals, MaxOrphans} : b \in Nat

VARIABLES
    pc,         \* "top", "waiting", "drain", "cycle" or "exited"
    first,      \* cycle_id = 0
    left,       \* scheduler.next_deadline() - now
    queue,      \* how many wake signals event_queue holds
    ready,      \* get() tasks about to run: a sequence of "live" and "orphan"
    waiters,    \* get() tasks waiting for an item, the oldest first
    gotSignal,  \* the live get() task has returned
    shutdown,   \* shutdown_event.is_set()
    cancelled,  \* the SIGTERM choreography has cancelled the loop's task
    fed,        \* the last cycle returned: WATCHDOG=1 (and READY=1, the first time) was sent
    inCycle,    \* time spent in the current cycle
    unfed,      \* time since the last WATCHDOG=1, up to TooLong
    signals,    \* how many signals were put so far
    owed,       \* history: a signal was put after the last drain
    rested      \* history: time has passed in a wait since the last cycle ended

getVars == <<queue, ready, waiters, gotSignal>>
timeVars == <<left, inCycle, unfed>>
historyVars == <<owed, rested>>
TooLong == WatchdogSec + Interval * MaxSignals + 1
vars == <<pc, first, timeVars, getVars, shutdown, cancelled, fed, signals, historyVars>>

Init ==
    /\ pc = "top" /\ first = TRUE
    /\ left = Interval /\ inCycle = 0 /\ unfed = 0
    /\ queue = 0 /\ ready = << >> /\ waiters = << >> /\ gotSignal = FALSE
    /\ shutdown = FALSE /\ cancelled = FALSE /\ fed = FALSE
    /\ signals = 0 /\ owed = FALSE /\ rested = FALSE

-----------------------------------------------------------------------------
(* asyncio.Queue *)

\* A producer's put_nowait.  A full queue raises in the producer, whose
\* supervisor restarts it; here that signal is not put.
Put ==
    /\ queue < QueueSize /\ signals < MaxSignals
    /\ queue' = queue + 1
    /\ IF waiters = << >> THEN UNCHANGED <<ready, waiters>>
       ELSE /\ ready' = Append(ready, Head(waiters))
            /\ waiters' = Tail(waiters)
    /\ signals' = signals + 1
    /\ owed' = TRUE
    /\ UNCHANGED <<pc, first, timeVars, gotSignal, shutdown, cancelled, fed, rested>>

\* get(): take an item, or wait (again) if there is none.
Get ==
    /\ ready /= << >>
    /\ ready' = Tail(ready)
    /\ IF queue > 0
         THEN /\ queue' = queue - 1
              /\ gotSignal' = (gotSignal \/ Head(ready) = "live")
              /\ UNCHANGED waiters
         ELSE /\ waiters' = Append(waiters, Head(ready))
              /\ UNCHANGED <<queue, gotSignal>>
    /\ UNCHANGED <<pc, first, timeVars, shutdown, cancelled, fed, signals, historyVars>>

\* Task.cancel() on the get() task: it leaves the queue.
Withdrawn(getters) == SelectSeq(getters, LAMBDA g : g = "orphan")

\* Mutant: the timeout leaves the getter as it is.
AbandonedToNobody(getters) == getters

\* The wait is cancelled, its get() task is not.  Only MaxOrphans are kept.
Abandoned(getters) ==
    LET orphans == [i \in DOMAIN getters |-> "orphan"]
    IN  IF Len(orphans) > MaxOrphans THEN SubSeq(orphans, 1, MaxOrphans) ELSE orphans

-----------------------------------------------------------------------------
(* CycleScheduler.advance *)

\* Mutant: the cycle advances the deadline as well.
AdvancedTwice(l) == l + 2 * Interval

\* One interval further, and more of them until the deadline is ahead of now.
Advanced(l) ==
    IF l + Interval > 0 THEN l + Interval ELSE Interval - ((-l) % Interval)

-----------------------------------------------------------------------------
(* _cycle_loop *)

\* Mutant: the loop relies on being cancelled.
AlwaysGoOn(stop) == TRUE

\* `while not shutdown_event.is_set()` around the loop, and once more before the cycle.
GoOn(stop) == ~stop

Exit == /\ pc = "top" /\ ~GoOn(shutdown)
        /\ pc' = "exited"
        /\ UNCHANGED <<first, timeVars, getVars, shutdown, cancelled, fed, signals,
                       historyVars>>

\* The first cycle does not wait; the others create the two tasks of the wait.
BeginWait ==
    /\ pc = "top" /\ GoOn(shutdown)
    /\ IF first THEN pc' = "drain" /\ UNCHANGED ready
                ELSE pc' = "waiting" /\ ready' = Append(ready, "live")
    /\ gotSignal' = FALSE
    /\ UNCHANGED <<first, timeVars, queue, waiters, shutdown, cancelled, fed, signals,
                   historyVars>>

\* asyncio.wait returns; the task still pending is cancelled and awaited.
Wake ==
    /\ pc = "waiting" /\ (gotSignal \/ shutdown)
    /\ pc' = "drain"
    /\ ready' = Withdrawn(ready) /\ waiters' = Withdrawn(waiters)
    /\ UNCHANGED <<first, timeVars, queue, gotSignal, shutdown, cancelled, fed, signals,
                   historyVars>>

\* asyncio.timeout: the deadline has come first.
Timeout ==
    /\ pc = "waiting" /\ left <= 0
    /\ pc' = "drain"
    /\ ready' = Abandoned(ready) /\ waiters' = Abandoned(waiters)
    /\ UNCHANGED <<first, timeVars, queue, gotSignal, shutdown, cancelled, fed, signals,
                   historyVars>>

\* Mutant: what is left in the queue stays there.
Undrained(q) == q

\* get_nowait until QueueEmpty.
Drained(q) == 0

\* From the drain to the first await of run_one_cycle nothing else runs.  The
\* first cycle drains nothing.
BeginCycle ==
    /\ pc = "drain"
    /\ IF first THEN UNCHANGED <<queue, owed>>
                ELSE queue' = Drained(queue) /\ owed' = FALSE
    /\ pc' = IF GoOn(shutdown) THEN "cycle" ELSE "exited"
    /\ inCycle' = 0
    /\ UNCHANGED <<first, left, unfed, ready, waiters, gotSignal, shutdown, cancelled, fed,
                   signals, rested>>

\* Mutant: what run_one_cycle raises ends the loop.
LetThrough(ok) == IF ok THEN "top" ELSE "exited"

\* `except Exception: ... continue`.
AfterCycle(ok) == "top"

\* Only a cycle that returned feeds the watchdog, and only it can send READY=1.
EndCycle(ok) ==
    /\ pc = "cycle"
    /\ pc' = AfterCycle(ok)
    /\ first' = FALSE
    /\ left' = Advanced(left)
    /\ unfed' = IF ok THEN 0 ELSE unfed
    /\ fed' = ok
    /\ rested' = FALSE
    /\ UNCHANGED <<inCycle, getVars, shutdown, cancelled, signals, owed>>

\* SigtermChoreography step 1.  In the wait and in the cycle the loop ends.  After
\* a wake the `suppress(CancelledError)` around the awaited pending task swallows
\* it, after a timeout it does not; before the first cycle there is no await.
Cancel ==
    /\ shutdown /\ ~cancelled
    /\ pc \in {"waiting", "cycle"} \/ (pc = "drain" /\ ~first)
    /\ cancelled' = TRUE
    /\ pc' \in IF pc = "drain" THEN {"drain", "exited"} ELSE {"exited"}
    /\ UNCHANGED <<first, timeVars, getVars, shutdown, fed, signals, historyVars>>

Quiet == ready = << >> /\ ~gotSignal /\ ~shutdown

Tick ==
    /\ \/ /\ pc = "cycle" /\ inCycle < MaxCycleTime
          /\ inCycle' = inCycle + 1
          /\ UNCHANGED rested
       \/ /\ pc = "waiting" /\ left > 0 /\ Quiet
          /\ rested' = TRUE
          /\ UNCHANGED inCycle
    /\ left' = left - 1
    /\ unfed' = IF unfed = TooLong THEN unfed ELSE unfed + 1
    /\ UNCHANGED <<pc, first, getVars, shutdown, cancelled, fed, signals, owed>>

Sigterm ==
    /\ ~shutdown /\ shutdown' = TRUE
    /\ UNCHANGED <<pc, first, timeVars, getVars, cancelled, fed, signals, historyVars>>

Step == Exit \/ BeginWait \/ Get \/ Wake \/ Timeout \/ BeginCycle
        \/ (\E ok \in Outcomes : EndCycle(ok)) \/ Cancel \/ Tick

Next == Step \/ Put \/ Sigterm

Spec == Init /\ [][Next]_vars

\* The event loop runs what is ready, cycles end, and time goes on.
FairSpec == Spec /\ WF_vars(Step)

-----------------------------------------------------------------------------
(* Properties *)

TypeOK ==
    /\ pc \in {"top", "waiting", "drain", "cycle", "exited"}
    /\ left \in -MaxCycleTime .. Interval * (MaxSignals + 2)
    /\ queue \in 0 .. QueueSize
    /\ \A i \in DOMAIN (ready \o waiters) :
          (ready \o waiters)[i] = "live" => pc \in {"waiting", "exited"}
    /\ inCycle \in 0 .. MaxCycleTime /\ unfed \in 0 .. TooLong

\* ADR-0002 ("exactly one more cycle"), cycle_scheduler.py advance ("to avoid
\* back-to-back hot-loops"): a burst of signals leads to one cycle and a late
\* cycle is not made up for.  Every cycle but the first has a cause of its own: a
\* signal since the last drain, or time that passed in the wait.
CycleHasCause == [][pc' = "cycle" /\ pc /= "cycle" => first \/ owed \/ rested]_vars

\* sigterm.py step 1 ("cancel the cycle driver and await its cleanup", without a
\* time-out): once SIGTERM is there the loop comes to its end, also when the
\* cancellation finds it between two tasks and is swallowed.
LoopEnds == shutdown ~> pc = "exited"

\* NFR-11, ADR-0002 (polling fallback): without SIGTERM there is always another
\* cycle, whatever cycles raise and signals do.
KeepsCycling == [](~shutdown) => []<>(pc = "cycle")

\* The unit file (WatchdogSec is three intervals), cycle_scheduler.py advance: after
\* cycles of any length, late ones and early ones, a cycle of up to an interval
\* comes in time for the watchdog, but for one interval that every signal adds.
WatchdogFed ==
    fed /\ ~shutdown /\ (pc = "cycle" => inCycle <= Interval)
        => unfed <= WatchdogSec + Interval * signals
=============================================================================
