--------------------------- MODULE CycleLoop_proofs ---------------------------
(***************************************************************************)
(* What starts a cycle and how late the watchdog can be fed, for every     *)
(* interval, size of the queue, length of cycles and number of signals.    *)
(***************************************************************************)
EXTENDS CycleLoop, TLAPS

LEMMA Constants ==
    /\ Interval \in Nat \ {0} /\ WatchdogSec \in Nat \ {0} /\ QueueSize \in Nat
    /\ MaxSignals \in Nat /\ MaxCycleTime \in Nat /\ Outcomes \subseteq BOOLEAN
  BY LoopAssumption DEF LoopAssumption

\* What the two arguments need of the types; the getters may be anything.
LoopTyped ==
    /\ pc \in {"top", "waiting", "drain", "cycle", "exited"}
    /\ left \in Int /\ queue \in Nat /\ signals \in Nat /\ inCycle \in Nat /\ unfed \in Nat

\* The deadline is always ahead, and never by more than an interval unless it was
\* ahead before.
LEMMA AdvancedAhead ==
    ASSUME NEW l \in Int
    PROVE  /\ Advanced(l) \in Int /\ Advanced(l) > 0
           /\ Advanced(l) <= Interval \/ Advanced(l) = l + Interval
  <1>1. CASE l + Interval > 0
    BY <1>1, Constants DEF Advanced
  <1>2. CASE ~(l + Interval > 0)
    <2>1. (-l) % Interval \in 0 .. Interval - 1
      BY Constants
    <2> QED
      BY <1>2, <2>1, Constants DEF Advanced
  <1> QED
    BY <1>1, <1>2

LEMMA TypedInitially == Init => LoopTyped
  BY Constants DEF Init, LoopTyped

LEMMA TypedStep == LoopTyped /\ [Next]_vars => LoopTyped'
  <1> SUFFICES ASSUME LoopTyped, [Next]_vars PROVE LoopTyped'
    OBVIOUS
  <1> USE Constants DEF LoopTyped, timeVars, getVars, historyVars
  <1>1. CASE Exit
    BY <1>1 DEF Exit, GoOn
  <1>2. CASE BeginWait
    BY <1>2 DEF BeginWait, GoOn
  <1>3. CASE Get
    BY <1>3 DEF Get
  <1>4. CASE Wake
    BY <1>4 DEF Wake
  <1>5. CASE Timeout
    BY <1>5 DEF Timeout
  <1>6. CASE BeginCycle
    BY <1>6 DEF BeginCycle, Drained, GoOn
  <1>7. ASSUME NEW ok \in Outcomes, EndCycle(ok) PROVE LoopTyped'
    BY <1>7, AdvancedAhead DEF EndCycle, AfterCycle
  <1>8. CASE Cancel
    BY <1>8 DEF Cancel
  <1>9. CASE Tick
    BY <1>9 DEF Tick
  <1>10. CASE Put
    BY <1>10 DEF Put
  <1>11. CASE Sigterm
    BY <1>11 DEF Sigterm
  <1>12. CASE UNCHANGED vars
    BY <1>12 DEF vars
  <1> QED
    BY <1>1, <1>2, <1>3, <1>4, <1>5, <1>6, <1>7, <1>8, <1>9, <1>10, <1>11, <1>12 DEF Next, Step

-----------------------------------------------------------------------------
(* What starts a cycle *)

\* A signal in the queue, or one that has woken the wait, came after the last
\* drain, and a deadline that has come was ahead when the wait began.
Causes ==
    /\ queue > 0 => owed
    /\ pc = "waiting" => ~first /\ (gotSignal => owed) /\ (left <= 0 => rested)
    /\ pc = "top" /\ ~first => left > 0
    /\ pc = "drain" => first \/ owed \/ rested \/ shutdown

CauseInv == LoopTyped /\ Causes

LEMMA CauseInitially == Init => CauseInv
  BY TypedInitially, Constants DEF CauseInv, Causes, Init

LEMMA CauseStep == CauseInv /\ [Next]_vars => CauseInv'
  <1> SUFFICES ASSUME LoopTyped, Causes, [Next]_vars PROVE Causes'
    BY TypedStep DEF CauseInv
  <1> USE Constants DEF LoopTyped, Causes, timeVars, getVars, historyVars
  <1>1. CASE Exit
    BY <1>1 DEF Exit, GoOn
  <1>2. CASE BeginWait
    BY <1>2 DEF BeginWait, GoOn
  <1>3. CASE Get
    BY <1>3 DEF Get
  <1>4. CASE Wake
    BY <1>4 DEF Wake
  <1>5. CASE Timeout
    BY <1>5 DEF Timeout
  <1>6. CASE BeginCycle
    BY <1>6 DEF BeginCycle, Drained, GoOn
  <1>7. ASSUME NEW ok \in Outcomes, EndCycle(ok) PROVE Causes'
    BY <1>7, AdvancedAhead DEF EndCycle, AfterCycle
  <1>8. CASE Cancel
    BY <1>8 DEF Cancel
  <1>9. CASE Tick
    BY <1>9 DEF Tick
  <1>10. CASE Put
    BY <1>10 DEF Put
  <1>11. CASE Sigterm
    BY <1>11 DEF Sigterm
  <1>12. CASE UNCHANGED vars
    BY <1>12 DEF vars
  <1> QED
    BY <1>1, <1>2, <1>3, <1>4, <1>5, <1>6, <1>7, <1>8, <1>9, <1>10, <1>11, <1>12 DEF Next, Step

\* Every cycle but the first is due to a signal since the last drain, or to time
\* that has passed in the wait.
THEOREM CycleHasCauseHolds == Spec => CycleHasCause
  <1>1. Spec => []CauseInv
    BY CauseInitially, CauseStep, PTL DEF Spec
  <1>2. CauseInv /\ [Next]_vars
          => [pc' = "cycle" /\ pc /= "cycle" => first \/ owed \/ rested]_vars
    <2> SUFFICES ASSUME CauseInv, Next, pc' = "cycle", pc /= "cycle"
                 PROVE  first \/ owed \/ rested
      OBVIOUS
    <2>1. BeginCycle
      BY DEF Next, Step, Exit, BeginWait, Get, Wake, Timeout, EndCycle, AfterCycle, Cancel, Tick,
             Put, Sigterm
    <2> QED
      BY <2>1 DEF BeginCycle, GoOn, CauseInv, Causes
  <1> QED
    BY <1>1, <1>2, PTL DEF Spec, CycleHasCause

-----------------------------------------------------------------------------
(* The watchdog *)

\* So many intervals.
Intervals(n) == Interval * n

LEMMA IntervalsFacts ==
    /\ \A n \in Int : Intervals(n) \in Int /\ Intervals(n + 1) = Intervals(n) + Interval
    /\ \A n \in Int, k \in Int : n <= k => Intervals(n) <= Intervals(k)
    /\ Intervals(1) = Interval /\ Intervals(2) = 2 * Interval
  <1>1. \A n \in Int : Intervals(n) \in Int /\ Intervals(n + 1) = Intervals(n) + Interval
    BY Constants DEF Intervals
  <1>2. \A n \in Int, k \in Int : n <= k => Intervals(n) <= Intervals(k)
    <2> SUFFICES ASSUME NEW n \in Int, NEW k \in Int, n <= k PROVE Interval * n <= Interval * k
      BY DEF Intervals
    <2>1. k - n \in Nat /\ Interval \in Nat
      BY Constants
    <2>2. Interval * (k - n) >= 0
      BY <2>1
    <2>3. Interval * (k - n) = Interval * k - Interval * n
      BY <2>1
    <2> QED
      BY <2>1, <2>2, <2>3
  <1>3. Intervals(1) = Interval /\ Intervals(2) = 2 * Interval
    BY Constants DEF Intervals
  <1> QED
    BY <1>1, <1>2, <1>3

\* Signals that are neither in the queue nor on their way to wake a wait: each has
\* had its chance to bring a cycle forward.
Woken == IF gotSignal THEN 1 ELSE 0
Spent == signals - queue - Woken

\* Every signal that was spent has put the deadline off by an interval at most, and
\* what is left to the deadline and what has passed since the last WATCHDOG=1
\* add up to no more than the deadline was then.
Ahead ==
    /\ Spent >= 0
    /\ ~shutdown => /\ pc /= "exited"
                    /\ fed => ~first
                    /\ first => left <= Interval
                    /\ pc = "top" => /\ first \/ left >= 0
                                     /\ left <= Intervals(2 + (Spent + Woken))
                                     /\ fed => unfed = 0
                    /\ pc = "waiting" => /\ left >= 0
                                         /\ left <= Intervals(2 + Spent)
                                         /\ fed => unfed + left <= Intervals(2 + Spent)
                    /\ pc = "drain" => /\ ~first => gotSignal \/ left <= 0
                                       /\ left <= Intervals(2 + Spent)
                                       /\ fed => unfed <= Intervals(2 + Spent)
                    /\ pc = "cycle" => /\ ~first => gotSignal \/ left <= 0
                                       /\ left <= Intervals(2 + Spent)
                                       /\ fed => unfed <= Intervals(2 + Spent) + inCycle

LEMMA IntervalsAhead ==
    ASSUME NEW s \in Int, NEW t \in Int, s <= t
    PROVE  /\ Intervals(2 + s) \in Int /\ Intervals(2 + t) \in Int
           /\ Intervals(2 + s) <= Intervals(2 + t)
  <1>1. 2 + s \in Int /\ 2 + t \in Int /\ 2 + s <= 2 + t
    OBVIOUS
  <1> QED
    BY <1>1, IntervalsFacts

LEMMA NoneSpentLess ==
    /\ \A n \in Int, q \in Int, r \in Int, w \in Int : q <= r => n - q - w >= n - r - w
    /\ \A n \in Int, w \in 0 .. 1 : n + w \in Int /\ n + w >= n
    /\ \A n \in Int, k \in Int, v \in 0 .. 1, w \in 0 .. 1 : n <= k /\ v <= w => n + v <= k + w
  OBVIOUS

\* What Spent does in a step: a wait that begins forgets what woke the last one, a
\* getter left behind takes a signal, the drain takes those that are left.
LEMMA SpentStep ==
    ASSUME LoopTyped, LoopTyped', [Next]_vars
    PROVE  /\ Spent \in Int /\ Spent' \in Int /\ Woken \in 0 .. 1 /\ Woken' \in 0 .. 1
           /\ Spent' >= Spent
           /\ BeginWait => Spent' = Spent + Woken
           /\ \A ok : EndCycle(ok) => Spent' = Spent /\ Woken' = Woken
  <1> USE DEF LoopTyped, getVars, timeVars, historyVars, Spent
  <1>1. Woken \in 0 .. 1 /\ Woken' \in 0 .. 1
    BY DEF Woken
  <1>2. Spent \in Int /\ Spent' \in Int
    BY <1>1
  <1>3. ASSUME UNCHANGED getVars, UNCHANGED signals PROVE Spent' = Spent /\ Woken' = Woken
    BY <1>3 DEF Woken
  <1>4. BeginWait => Spent' = Spent + Woken
    BY <1>1 DEF BeginWait, Woken
  <1>5. \A ok : EndCycle(ok) => Spent' = Spent /\ Woken' = Woken
    BY <1>3 DEF EndCycle
  <1>6. Spent' >= Spent
    <2>1. CASE Put
      <3>1. Woken' = Woken
        BY <2>1 DEF Put, Woken
      <3> QED
        BY <2>1, <3>1, <1>1 DEF Put
    <2>2. CASE Get
      <3>1. CASE queue > 0
        BY <2>2, <3>1 DEF Get, Woken
      <3>2. CASE ~(queue > 0)
        BY <2>2, <3>2 DEF Get, Woken
      <3> QED
        BY <3>1, <3>2
    <2>3. CASE BeginCycle
      <3>1. Woken' = Woken /\ signals' = signals
        BY <2>3 DEF BeginCycle, Woken
      <3>2. queue' <= queue
        <4>1. queue' = queue \/ queue' = 0
          BY <2>3 DEF BeginCycle, Drained
        <4> QED
          BY <4>1
      <3>3. signals \in Int /\ queue \in Int /\ queue' \in Int /\ Woken \in Int
        BY <1>1
      <3>4. signals - queue' - Woken >= signals - queue - Woken
        BY <3>2, <3>3, NoneSpentLess
      <3> QED
        BY <3>1, <3>4
    <2>4. CASE Wake
      BY <2>4 DEF Wake, Woken
    <2>5. CASE Timeout
      BY <2>5 DEF Timeout, Woken
    <2>6. ASSUME Exit \/ Cancel \/ Tick \/ Sigterm \/ UNCHANGED vars PROVE Spent' >= Spent
      <3>1. UNCHANGED getVars /\ UNCHANGED signals
        BY <2>6 DEF Exit, Cancel, Tick, Sigterm, vars
      <3> QED
        BY <3>1, <1>2, <1>3
    <2>7. CASE BeginWait
      BY <2>7, <1>1, <1>2, <1>4, NoneSpentLess
    <2>8. CASE \E ok \in Outcomes : EndCycle(ok)
      BY <2>8, <1>2, <1>5
    <2> QED
      BY <2>1, <2>2, <2>3, <2>4, <2>5, <2>6, <2>7, <2>8 DEF Next, Step
  <1> QED
    BY <1>1, <1>2, <1>4, <1>5, <1>6

LEMMA AheadInitially == Init => Ahead
  <1>1. Init => Spent = 0 /\ Woken = 0
    <2> SUFFICES ASSUME Init PROVE Spent = 0 /\ Woken = 0
      OBVIOUS
    <2>1. Woken = 0 /\ signals = 0 /\ queue = 0
      BY DEF Init, Woken
    <2> QED
      BY <2>1 DEF Spent
  <1>2. Intervals(2) = Interval + Interval
    BY IntervalsFacts, Constants
  <1>3. Init => left = Interval /\ first /\ ~fed /\ pc = "top"
    BY DEF Init
  <1> QED
    BY <1>1, <1>2, <1>3, Constants DEF Ahead

LEMMA AheadStep ==
    ASSUME LoopTyped, LoopTyped', Ahead, [Next]_vars
    PROVE  Ahead'
  <1>s. /\ Spent \in Int /\ Spent' \in Int /\ Woken \in 0 .. 1 /\ Woken' \in 0 .. 1
        /\ Spent' >= Spent /\ Spent >= 0
    BY SpentStep DEF Ahead
  <1>m. /\ Intervals(2 + Spent) \in Int /\ Intervals(2 + Spent') \in Int
        /\ Intervals(2 + Spent) <= Intervals(2 + Spent')
    BY <1>s, IntervalsAhead
  <1>o. Spent' >= 0
    BY <1>s
  <1>k. ASSUME UNCHANGED <<pc, first, left, unfed, inCycle, shutdown, fed>>,
               pc /= "top", gotSignal => gotSignal'
        PROVE  Ahead'
    BY <1>k, <1>s, <1>m, <1>o DEF Ahead, LoopTyped
  <1>t. ASSUME UNCHANGED <<pc, first, left, unfed, inCycle, shutdown, fed>>,
               pc = "top", Spent' + Woken' >= Spent + Woken
        PROVE  Ahead'
    <2>1. Spent + Woken \in Int /\ Spent' + Woken' \in Int
      BY <1>s, NoneSpentLess
    <2>2. Intervals(2 + (Spent + Woken)) <= Intervals(2 + (Spent' + Woken'))
          /\ Intervals(2 + (Spent + Woken)) \in Int /\ Intervals(2 + (Spent' + Woken')) \in Int
      BY <2>1, <1>t, IntervalsAhead
    <2> QED
      BY <1>t, <1>s, <1>o, <2>2 DEF Ahead, LoopTyped
  <1>x. ASSUME shutdown' PROVE Ahead'
    BY <1>x, <1>o DEF Ahead
  <1>1. CASE Exit
    BY <1>1, <1>x DEF Exit, GoOn
  <1>2. CASE BeginWait
    <2>1. Spent' = Spent + Woken
      BY <1>2, SpentStep
    <2>3. CASE first
      <3>1. /\ pc = "top" /\ pc' = "drain" /\ left' = left /\ first' /\ ~shutdown /\ fed' = fed
            /\ unfed' = unfed
        BY <1>2, <2>3 DEF BeginWait, GoOn, timeVars
      <3>2. ~fed /\ left <= Interval
        BY <3>1, <2>3 DEF Ahead
      <3>3. Interval <= Intervals(2 + Spent')
        BY <1>o, <1>s, IntervalsFacts, Constants
      <3> QED
        BY <3>1, <3>2, <3>3, <1>o, <1>m, Constants DEF Ahead, LoopTyped
    <2>4. CASE ~first
      <3>1. /\ pc = "top" /\ pc' = "waiting" /\ left' = left /\ ~first' /\ ~shutdown /\ fed' = fed
            /\ unfed' = unfed
        BY <1>2, <2>4 DEF BeginWait, GoOn, timeVars
      <3>2. left >= 0 /\ left <= Intervals(2 + Spent') /\ (fed => unfed = 0)
        BY <3>1, <2>1, <2>4 DEF Ahead
      <3> QED
        BY <3>1, <3>2, <1>o, <1>m DEF Ahead, LoopTyped
    <2> QED
      BY <2>3, <2>4
  <1>3. CASE Get
    <2>1. UNCHANGED <<pc, first, left, unfed, inCycle, shutdown, fed>>
      BY <1>3 DEF Get, timeVars
    <2>2. gotSignal => gotSignal'
      BY <1>3 DEF Get
    <2>3. Spent' + Woken' >= Spent + Woken
      <3>1. Woken <= Woken'
        BY <2>2 DEF Woken
      <3> QED
        BY <3>1, <1>s, NoneSpentLess
    <2> QED
      BY <2>1, <2>2, <2>3, <1>k, <1>t
  <1>4. CASE Wake
    <2>1. /\ pc = "waiting" /\ pc' = "drain" /\ (gotSignal \/ shutdown)
          /\ UNCHANGED <<first, left, unfed, shutdown, fed, gotSignal>>
      BY <1>4 DEF Wake, timeVars
    <2> QED
      BY <2>1, <1>m, <1>o, <1>x DEF Ahead, LoopTyped
  <1>5. CASE Timeout
    <2>1. /\ pc = "waiting" /\ pc' = "drain" /\ left <= 0
          /\ UNCHANGED <<first, left, unfed, shutdown, fed, gotSignal>>
      BY <1>5 DEF Timeout, timeVars
    <2> QED
      BY <2>1, <1>m, <1>o DEF Ahead, LoopTyped
  <1>6. CASE BeginCycle
    <2>1. /\ pc = "drain" /\ (~shutdown => pc' = "cycle") /\ inCycle' = 0
          /\ UNCHANGED <<first, left, unfed, shutdown, fed, gotSignal>>
      BY <1>6 DEF BeginCycle, GoOn
    <2> QED
      BY <2>1, <1>m, <1>o, <1>x DEF Ahead, LoopTyped
  <1>7. ASSUME NEW ok \in Outcomes, EndCycle(ok) PROVE Ahead'
    <2>1. /\ pc = "cycle" /\ pc' = "top" /\ ~first' /\ left' = Advanced(left) /\ fed' = ok
          /\ (ok => unfed' = 0) /\ shutdown' = shutdown
      BY <1>7 DEF EndCycle, AfterCycle
    <2>2. Spent' = Spent /\ Woken' = Woken
      BY <1>7, SpentStep
    <2>3. left' > 0 /\ left' \in Int /\ left \in Int
          /\ (left' <= Interval \/ left' = left + Interval)
      BY <2>1, AdvancedAhead DEF LoopTyped
    <2>4. /\ Intervals(2 + (Spent + Woken)) \in Int /\ 2 * Interval <= Intervals(2 + (Spent + Woken))
          /\ Woken = 1 => Intervals(2 + (Spent + Woken)) = Intervals(2 + Spent) + Interval
      <3>1. 2 + (Spent + Woken) \in Int /\ 2 <= 2 + (Spent + Woken) /\ 2 + Spent \in Int
            /\ (Woken = 1 => 2 + (Spent + Woken) = (2 + Spent) + 1)
        <4>1. \A n \in Nat, w \in 0 .. 1 : 2 + (n + w) \in Int /\ 2 <= 2 + (n + w) /\ 2 + n \in Int
                                         /\ (w = 1 => 2 + (n + w) = (2 + n) + 1)
          OBVIOUS
        <4>2. Spent \in Nat
          BY <1>s
        <4> QED
          BY <4>1, <4>2, <1>s
      <3> QED
        BY <3>1, IntervalsFacts
    <2>5. ASSUME ~shutdown PROVE left' <= Intervals(2 + (Spent + Woken))
      <3>1. (first => left <= Interval) /\ (~first => gotSignal \/ left <= 0)
            /\ left <= Intervals(2 + Spent)
        BY <2>1, <2>5 DEF Ahead
      <3>2. gotSignal => Woken = 1
        BY DEF Woken
      <3>3. CASE left <= Interval
        BY <3>3, <2>3, <2>4, Constants
      <3>4. CASE gotSignal
        BY <3>1, <3>2, <3>4, <2>3, <2>4, <1>m, Constants
      <3> QED
        BY <3>1, <3>3, <3>4, <2>3, Constants
    <2> QED
      BY <2>1, <2>2, <2>3, <2>5, <1>o DEF Ahead
  <1>8. CASE Cancel
    BY <1>8, <1>x DEF Cancel
  <1>9. CASE Tick
    <2>1. /\ left' = left - 1 /\ UNCHANGED <<pc, first, shutdown, fed, gotSignal>>
          /\ unfed' <= unfed + 1
      BY <1>9 DEF Tick, getVars, LoopTyped
    <2>2. CASE pc = "cycle" /\ inCycle' = inCycle + 1
      BY <2>1, <2>2, <1>m, <1>o, Constants DEF Ahead, LoopTyped
    <2>3. CASE pc = "waiting" /\ left > 0
      BY <2>1, <2>3, <1>m, <1>o, Constants DEF Ahead, LoopTyped
    <2> QED
      BY <1>9, <2>2, <2>3 DEF Tick
  <1>10. ASSUME Put \/ UNCHANGED vars PROVE Ahead'
    <2>1. UNCHANGED <<pc, first, left, unfed, inCycle, shutdown, fed, gotSignal>>
      BY <1>10 DEF Put, timeVars, getVars, vars
    <2>2. Woken' = Woken
      BY <2>1 DEF Woken
    <2> QED
      <3>1. Spent' + Woken' >= Spent + Woken
        <4>1. Woken <= Woken' /\ Spent <= Spent'
          BY <2>2, <1>s
        <4> QED
          BY <4>1, <1>s, NoneSpentLess
      <3> QED
        BY <2>1, <3>1, <1>k, <1>t
  <1>11. CASE Sigterm
    BY <1>11, <1>x DEF Sigterm
  <1> QED
    BY <1>1, <1>2, <1>3, <1>4, <1>5, <1>6, <1>7, <1>8, <1>9, <1>10, <1>11 DEF Next, Step

\* The unit file (WatchdogSec is three intervals): a cycle of up to an interval comes
\* in time for the watchdog, but for one interval that every signal adds.
THEOREM WatchdogFedHolds ==
    ASSUME WatchdogSec >= 3 * Interval
    PROVE  Spec => []WatchdogFed
  <1>1. Init => LoopTyped /\ Ahead
    BY TypedInitially, AheadInitially
  <1>2. LoopTyped /\ Ahead /\ [Next]_vars => (LoopTyped /\ Ahead)'
    BY TypedStep, AheadStep
  <1>3. LoopTyped /\ Ahead => WatchdogFed
    <2> SUFFICES ASSUME LoopTyped, Ahead, fed, ~shutdown, pc = "cycle" => inCycle <= Interval
                 PROVE  unfed <= WatchdogSec + Interval * signals
      BY DEF WatchdogFed
    <2>1. Spent \in Int /\ Spent >= 0 /\ Spent <= signals
      BY DEF LoopTyped, Spent, Woken, Ahead
    <2>2. /\ Intervals(2 + Spent) \in Int /\ Intervals(2 + signals) \in Int
          /\ Intervals(2 + Spent) <= Intervals(2 + signals) /\ Intervals(2 + Spent) >= 0
      <3>1. signals \in Int /\ 0 \in Int /\ 0 <= Spent
        BY <2>1 DEF LoopTyped
      <3>2. Intervals(2 + 0) <= Intervals(2 + Spent) /\ Intervals(2 + 0) = 2 * Interval
        BY <2>1, <3>1, IntervalsAhead, Constants DEF Intervals
      <3> QED
        BY <2>1, <3>1, <3>2, IntervalsAhead, Constants
    <2>3. unfed <= Intervals(2 + Spent) + Interval
      BY <2>2, Constants DEF Ahead, LoopTyped
    <2>4. Intervals(2 + signals) = Interval * signals + 2 * Interval
      BY Constants DEF Intervals, LoopTyped
    <2> QED
      BY <2>2, <2>3, <2>4, Constants DEF LoopTyped
  <1> QED
    BY <1>1, <1>2, <1>3, PTL DEF Spec
=============================================================================
