-------------------------- MODULE Lifecycle_proofs --------------------------
(***************************************************************************)
(* What a start reports about the run before it, and what becomes of the   *)
(* payloads of a run, for every queue, number of retries and set of        *)
(* payloads, over any starts, stops and ends of the process.               *)
(***************************************************************************)
EXTENDS Lifecycle, SequenceTheorems, FiniteSetTheorems, TLAPS

\* The markers of the run that ended, until the next one has classified it; from
\* then on those of the run before are gone.
Unread == phase \in {"down", "preflight"}

MarkersTell ==
    ~spoiled =>
       /\ Unread => /\ ended = "config_invalid" => configMark
                    /\ ended = "sigterm" => cleanMark /\ ~configMark
       /\ ~Unread => ~configMark
       /\ phase = "unwinding" => cleanMark

\* MarkersTell and what it needs of the types.
MarkersInv ==
    /\ configMark \in BOOLEAN /\ cleanMark \in BOOLEAN /\ spoiled \in BOOLEAN
    /\ phase \in {"down", "preflight", "classified", "running", "stopping", "draining", "unwinding"}
    /\ ended \in Reasons
    /\ MarkersTell

LEMMA MarkersInitially == Init => MarkersInv
  BY DEF Init, MarkersInv, MarkersTell, Unread, Reasons

LEMMA MarkersStep == MarkersInv /\ [Next]_vars => MarkersInv'
  <1> SUFFICES ASSUME MarkersInv, [Next]_vars PROVE MarkersInv'
    OBVIOUS
  <1> USE DEF MarkersInv, MarkersTell, Unread, Reasons
  <1>1. CASE RejectConfig
    BY <1>1 DEF RejectConfig
  <1>2. CASE Classify
    BY <1>2 DEF Classify, MarkersRead, markers
  <1>3. CASE TakePidLock
    BY <1>3 DEF TakePidLock, markers
  <1>4. CASE Report
    BY <1>4 DEF Report, lifeVars, markers
  <1>5. CASE Sigterm
    BY <1>5 DEF Sigterm, markers
  <1>6. CASE Drain
    BY <1>6 DEF Drain, markers
  <1>7. CASE LeaveMarker
    BY <1>7 DEF LeaveMarker
  <1>8. CASE PosterStep
    BY <1>8 DEF PosterStep, lifeVars, markers
  <1>9. CASE Die
    BY <1>9 DEF Die, markers
  <1>10. CASE Reboot
    BY <1>10 DEF Reboot
  <1>11. CASE Rival
    BY <1>11 DEF Rival, MarkersRead, markers
  <1>12. CASE UNCHANGED vars
    BY <1>12 DEF vars, lifeVars, markers
  <1>13. CASE Begin
    BY <1>13 DEF Begin, markers
  <1> QED
    BY <1>13, <1>1, <1>2, <1>3, <1>4, <1>5, <1>6, <1>7, <1>8, <1>9, <1>10, <1>11, <1>12 DEF Next

LEMMA MarkersAlways == Spec => []MarkersInv
  BY MarkersInitially, MarkersStep, PTL DEF Spec

\* A start reports what the run before it came to.
LEMMA StartReports ==
    MarkersInv /\ [Next]_vars
      => [(phase = "preflight" /\ phase' = "classified" /\ ~spoiled /\ ended /= "crash")
            => reported' = ended]_vars
  <1> SUFFICES ASSUME MarkersInv, Next, phase = "preflight", phase' = "classified",
                      ~spoiled, ended /= "crash"
               PROVE  reported' = ended
    OBVIOUS
  <1>1. Classify
    BY DEF Next, Begin, RejectConfig, TakePidLock, Report, Sigterm, Drain, LeaveMarker, PosterStep,
           Die, Reboot, Rival, lifeVars
  <1> QED
    BY <1>1 DEF Classify, ClassifyPriorRun, MarkersInv, MarkersTell, Unread, Reasons

\* lifecycle.py, classify_prior_run: a clean shutdown and a rejected configuration
\* are reported by the next start, whatever crashes, reboots and starts come between.
THEOREM EndReportedHolds == Spec => EndReported
  BY MarkersAlways, StartReports, PTL DEF Spec, EndReported

-----------------------------------------------------------------------------
(* The poster's queue and its two readers.  Each lemma is about one step of *)
(* the poster, which the daemon takes in its phases.                        *)

\* OnePlace, said of the elements and not of their number.
Once == \A i, j \in 1 .. Len(queue) : queue[i] = queue[j] => i = j
Alive == \A i \in 1 .. Len(queue) : fate[queue[i]] = "accepted" /\ queue[i] \notin {held, drain}
InHand ==
    /\ held \in Envelopes <=> consumer \in {"attempt", "put"}
    /\ held \in Envelopes => fate[held] = "accepted" /\ held /= drain
    /\ drain \in Envelopes => fate[drain] = "accepted"
Somewhere ==
    \A e \in Envelopes : fate[e] = "accepted"
       => e \in {held, drain} \/ \E i \in 1 .. Len(queue) : queue[i] = e

Places == Once /\ Alive /\ InHand /\ Somewhere

\* Attempts are made out of attempts_left, which only a budget of none leaves at
\* none for a payload that is still to be sent.
Attempted ==
    \A e \in Envelopes :
       /\ fate[e] = "unborn" => attempts[e] = 0
       /\ fate[e] = "accepted" => /\ attempts[e] + left[e] = MaxRetries
                                  /\ left[e] = 0 => MaxRetries = 0
       /\ attempts[e] <= IF MaxRetries = 0 THEN 1 ELSE MaxRetries

\* When the drain is over, the loop is the only one left with an item.
LastItem ==
    /\ drain /= NoEnvelope => stopped
    /\ drain = "over" => /\ consumer = "ended" => Len(queue) <= 1
                         /\ consumer /= "ended" => Len(queue) = 0

Fates == {"unborn", "accepted", "sent", "dropped", "lost"}

PosterInv == PosterTypeOK /\ Places /\ Attempted /\ LastItem

-----------------------------------------------------------------------------
(* Queues *)

LEMMA PutIn ==
    ASSUME NEW q \in Seq(Envelopes), NEW e \in Envelopes
    PROVE  /\ Len(q) \in Nat
           /\ Append(q, e) \in Seq(Envelopes)
           /\ Len(Append(q, e)) = Len(q) + 1
           /\ \A i \in 1 .. Len(q) : Append(q, e)[i] = q[i]
           /\ Append(q, e)[Len(q) + 1] = e
  BY AppendProperties, LenProperties

LEMMA TakenOut ==
    ASSUME NEW q \in Seq(Envelopes), q /= << >>
    PROVE  /\ Len(q) \in Nat \ {0}
           /\ Head(q) = q[1] /\ Head(q) \in Envelopes
           /\ Tail(q) \in Seq(Envelopes) /\ Len(Tail(q)) = Len(q) - 1
           /\ \A i \in 1 .. Len(q) - 1 : Tail(q)[i] = q[i + 1]
  BY HeadTailProperties, EmptySeq

LEMMA Queued ==
    ASSUME NEW q \in Seq(Envelopes)
    PROVE  Len(q) \in Nat /\ \A i \in 1 .. Len(q) : q[i] \in Envelopes
  BY LenProperties, ElementOfSeq

LEMMA PosterInitially == PosterInit => PosterInv
  <1> SUFFICES ASSUME PosterInit PROVE PosterInv
    OBVIOUS
  <1>1. << >> \in Seq(Envelopes) /\ Len(<< >>) = 0
    BY EmptySeq
  <1>2. PosterTypeOK
    <2>1. queue \in Seq(Envelopes) /\ Len(queue) <= MaxQueue
      BY <1>1, PosterAssumption DEF PosterInit, PosterAssumption
    <2>2. left \in [Envelopes -> 0 .. MaxRetries] /\ attempts \in [Envelopes -> Nat]
      BY PosterAssumption DEF PosterInit, PosterAssumption
    <2> QED
      BY <2>1, <2>2 DEF PosterInit, PosterTypeOK
  <1>3. Places
    BY <1>1, PosterAssumption
       DEF PosterInit, Places, Once, Alive, InHand, Somewhere, PosterAssumption
  <1>4. Attempted
    BY PosterAssumption DEF PosterInit, Attempted, PosterAssumption
  <1>5. LastItem
    BY PosterAssumption DEF PosterInit, LastItem, PosterAssumption
  <1> QED
    BY <1>2, <1>3, <1>4, <1>5 DEF PosterInv

-----------------------------------------------------------------------------
(* Steps *)

LEMMA EnqueueStep ==
    ASSUME PosterInv, drain = NoEnvelope, NEW e \in Envelopes, Enqueue(e)
    PROVE  PosterInv'
  <1> USE PosterAssumption DEF PosterInv, PosterAssumption
  <1>1. queue \in Seq(Envelopes) /\ Len(queue) \in Nat
    BY Queued DEF PosterTypeOK
  <1>2. \A i \in 1 .. Len(queue) : queue[i] \in Envelopes
    BY <1>1, Queued
  <1>3. e \notin {held, drain} /\ \A i \in 1 .. Len(queue) : queue[i] /= e
    BY DEF Places, Alive, InHand, Enqueue
  <1>4. /\ consumer' = consumer /\ held' = held /\ stopped' = stopped /\ drain' = drain
        /\ attempts' = attempts /\ fate[e] = "unborn"
    BY DEF Enqueue
  <1>5. CASE QueueFull
    <2>1. PICK loss \in {"dropped", "lost"} :
             queue' = queue /\ left' = left /\ fate' = [fate EXCEPT ![e] = loss]
      BY <1>5 DEF Enqueue
    <2>2. PosterTypeOK'
      BY <1>4, <2>1 DEF PosterTypeOK
    <2>3. Once' /\ Alive' /\ InHand'
      BY <1>2, <1>3, <1>4, <2>1 DEF PosterTypeOK, Places, Once, Alive, InHand
    <2>4. Somewhere'
      BY <1>4, <2>1 DEF PosterTypeOK, Places, Somewhere
    <2>5. Attempted' /\ LastItem'
      BY <1>4, <2>1 DEF PosterTypeOK, Attempted, LastItem
    <2> QED
      BY <2>2, <2>3, <2>4, <2>5 DEF Places
  <1>6. CASE ~QueueFull
    <2>1. /\ queue' = Append(queue, e) /\ left' = [left EXCEPT ![e] = MaxRetries]
          /\ fate' = [fate EXCEPT ![e] = "accepted"]
      BY <1>6 DEF Enqueue
    <2>2. /\ queue' \in Seq(Envelopes) /\ Len(queue') = Len(queue) + 1
          /\ \A i \in 1 .. Len(queue) : queue'[i] = queue[i]
          /\ queue'[Len(queue) + 1] = e
      BY <1>1, <2>1, PutIn
    <2>3. PosterTypeOK'
      BY <1>1, <1>4, <1>6, <2>1, <2>2 DEF PosterTypeOK, QueueFull
    <2>4. Once'
      BY <1>1, <1>3, <2>2 DEF Places, Once
    <2>5. Alive'
      BY <1>1, <1>2, <1>3, <1>4, <2>1, <2>2 DEF PosterTypeOK, Places, Alive
    <2>6. InHand'
      BY <1>3, <1>4, <2>1 DEF PosterTypeOK, Places, InHand
    <2>7. Somewhere'
      BY <1>1, <1>4, <2>1, <2>2 DEF PosterTypeOK, Places, Somewhere
    <2>8. Attempted' /\ LastItem'
      BY <1>4, <2>1 DEF PosterTypeOK, Attempted, LastItem
    <2> QED
      BY <2>3, <2>4, <2>5, <2>6, <2>7, <2>8 DEF Places
  <1> QED
    BY <1>5, <1>6

LEMMA TakeStep == ASSUME PosterInv, Take PROVE PosterInv'
  <1> USE PosterAssumption DEF PosterInv, PosterAssumption
  <1>1. queue \in Seq(Envelopes) /\ queue /= << >>
    BY DEF PosterTypeOK, Take
  <1>2. /\ consumer = "get" /\ consumer' = "attempt" /\ held' = queue[1] /\ queue' = Tail(queue)
        /\ UNCHANGED <<left, stopped, drain, fate, attempts>>
    BY <1>1, TakenOut DEF Take
  <1>3. /\ Len(queue) \in Nat \ {0} /\ held' \in Envelopes
        /\ queue' \in Seq(Envelopes) /\ Len(queue') = Len(queue) - 1
        /\ \A i \in 1 .. Len(queue) - 1 : queue'[i] = queue[i + 1]
    BY <1>1, <1>2, TakenOut
  <1>4. PosterTypeOK'
    BY <1>2, <1>3 DEF PosterTypeOK
  <1>5. Once'
    BY <1>3 DEF Places, Once
  <1>6. Alive'
    BY <1>2, <1>3 DEF Places, Alive, Once
  <1>7. InHand'
    BY <1>2, <1>3 DEF Places, InHand, Alive
  <1>8. Somewhere'
    <2> SUFFICES ASSUME NEW e \in Envelopes, fate[e] = "accepted", e \notin {held', drain'}
                 PROVE  \E i \in 1 .. Len(queue') : queue'[i] = e
      BY <1>2 DEF Somewhere
    <2>1. PICK i \in 1 .. Len(queue) : queue[i] = e
      BY <1>2 DEF Places, Somewhere, InHand
    <2>2. i - 1 \in 1 .. Len(queue') /\ queue'[i - 1] = e
      BY <1>2, <1>3, <2>1
    <2> QED
      BY <2>2
  <1>9. Attempted'
    BY <1>2 DEF Attempted
  <1>10. LastItem'
    BY <1>2, <1>3 DEF LastItem
  <1> QED
    BY <1>4, <1>5, <1>6, <1>7, <1>8, <1>9, <1>10 DEF Places

LEMMA StopWaitingStep == ASSUME PosterInv, StopWaiting PROVE PosterInv'
  BY PosterAssumption
     DEF PosterInv, PosterTypeOK, Places, Once, Alive, InHand, Somewhere, Attempted, LastItem,
         StopWaiting, PosterAssumption
\* What both outcomes of an attempt do to its item's budget.
LEMMA AttemptCounted ==
    ASSUME PosterInv, NEW e \in Envelopes, fate[e] = "accepted",
           attempts' = [attempts EXCEPT ![e] = @ + 1]
    PROVE  /\ attempts'[e] = attempts[e] + 1 /\ attempts'[e] \in Nat
           /\ attempts'[e] <= IF MaxRetries = 0 THEN 1 ELSE MaxRetries
  <1>1. /\ attempts \in [Envelopes -> Nat] /\ left[e] \in Nat /\ MaxRetries \in Nat
        /\ attempts[e] + left[e] = MaxRetries /\ (left[e] = 0 => MaxRetries = 0)
    BY PosterAssumption DEF PosterInv, PosterTypeOK, Attempted, PosterAssumption
  <1>2. attempts'[e] = attempts[e] + 1
    BY <1>1
  <1> QED
    BY <1>1, <1>2

LEMMA SettledStep ==
    ASSUME PosterInv, AttemptEnds, BackToLoop, UNCHANGED <<queue, left, stopped, drain>>,
           NEW outcome \in {"sent", "dropped"}, fate' = [fate EXCEPT ![held] = outcome]
    PROVE  PosterInv'
  <1> USE PosterAssumption DEF PosterInv, PosterAssumption
  <1>1. held \in Envelopes /\ fate[held] = "accepted"
    BY DEF AttemptEnds, Places, InHand
  <1>2. /\ attempts' = [attempts EXCEPT ![held] = @ + 1]
        /\ held' = NoEnvelope /\ consumer' \in {"ended", "get"} /\ (consumer' = "get" => ~stopped)
        /\ UNCHANGED <<queue, left, stopped, drain>>
    BY DEF AttemptEnds, BackToLoop
  <1>3. \A i \in 1 .. Len(queue) : queue[i] \in Envelopes
    BY Queued DEF PosterTypeOK
  <1>4. PosterTypeOK'
    BY <1>1, <1>2, AttemptCounted DEF PosterTypeOK
  <1>5. Once' /\ Alive'
    BY <1>1, <1>2, <1>3 DEF PosterTypeOK, Places, Once, Alive
  <1>6. InHand' /\ Somewhere'
    BY <1>1, <1>2 DEF PosterTypeOK, Places, InHand, Somewhere
  <1>7. Attempted'
    <2> SUFFICES ASSUME NEW e \in Envelopes PROVE Attempted!(e)'
      BY DEF Attempted
    <2>1. CASE e = held
      BY <1>1, <1>2, <2>1, AttemptCounted DEF PosterTypeOK
    <2>2. CASE e /= held
      BY <1>1, <1>2, <2>2 DEF PosterTypeOK, Attempted
    <2> QED
      BY <2>1, <2>2
  <1>8. LastItem'
    BY <1>2 DEF LastItem, AttemptEnds, PosterTypeOK
  <1> QED
    BY <1>4, <1>5, <1>6, <1>7, <1>8 DEF Places

\* The item in hand goes back behind the others, its budget already charged.
LEMMA PutBackStep ==
    ASSUME PosterInv, held \in Envelopes, ~QueueFull,
           queue' = Append(queue, held), BackToLoop, UNCHANGED <<stopped, drain, fate>>
    PROVE  /\ queue' \in Seq(Envelopes) /\ Len(queue') <= MaxQueue
           /\ consumer' \in {"get", "ended"} /\ held' = NoEnvelope
           /\ Places' /\ LastItem'
  <1> USE PosterAssumption DEF PosterInv, PosterAssumption
  <1>1. queue \in Seq(Envelopes) /\ Len(queue) \in Nat
    BY Queued DEF PosterTypeOK
  <1>2. /\ queue' \in Seq(Envelopes) /\ Len(queue') = Len(queue) + 1
        /\ \A i \in 1 .. Len(queue) : queue'[i] = queue[i]
        /\ queue'[Len(queue) + 1] = held
    BY <1>1, PutIn
  <1>3. held' = NoEnvelope /\ consumer' = IF stopped THEN "ended" ELSE "get"
    BY DEF BackToLoop
  <1>4. Once'
    BY <1>1, <1>2 DEF Places, Once, Alive
  <1>5. Alive'
    BY <1>1, <1>2, <1>3, Queued DEF Places, Alive, InHand
  <1>6. InHand'
    BY <1>3 DEF Places, InHand
  <1>7. Somewhere'
    BY <1>1, <1>2, <1>3 DEF Places, Somewhere
  <1>8. LastItem'
    BY <1>1, <1>2, <1>3 DEF Places, InHand, LastItem, PosterTypeOK
  <1> QED
    BY <1>1, <1>2, <1>3, <1>4, <1>5, <1>6, <1>7, <1>8 DEF Places, QueueFull, PosterTypeOK

LEMMA RequeueStep == ASSUME PosterInv, Requeue PROVE PosterInv'
  <1> USE PosterAssumption DEF PosterInv, PosterAssumption
  <1>1. held \in Envelopes /\ fate[held] = "accepted" /\ consumer = "attempt"
    BY DEF Requeue, AttemptEnds, Places, InHand
  <1>2. /\ attempts' = [attempts EXCEPT ![held] = @ + 1] /\ ~(left[held] - 1 <= 0)
        /\ left' = [left EXCEPT ![held] = @ - 1] /\ UNCHANGED <<stopped, drain, fate>>
    BY DEF Requeue, AttemptEnds, GivesUp
  <1>3. left' \in [Envelopes -> 0 .. MaxRetries] /\ attempts' \in [Envelopes -> Nat]
    BY <1>1, <1>2 DEF PosterTypeOK
  <1>4. Attempted'
    <2> SUFFICES ASSUME NEW e \in Envelopes PROVE Attempted!(e)'
      BY DEF Attempted
    <2>1. CASE e = held
      <3>1. left'[e] = left[e] - 1 /\ left[e] \in Nat /\ attempts[e] \in Nat
        BY <1>2, <2>1 DEF PosterTypeOK
      <3>2. /\ attempts'[e] = attempts[e] + 1
            /\ attempts'[e] <= IF MaxRetries = 0 THEN 1 ELSE MaxRetries
        BY <1>1, <1>2, <2>1, AttemptCounted
      <3>3. attempts[e] + left[e] = MaxRetries /\ fate'[e] = "accepted"
        BY <1>1, <1>2, <2>1 DEF Attempted
      <3> QED
        BY <1>2, <2>1, <3>1, <3>2, <3>3
    <2>2. CASE e /= held
      BY <1>1, <1>2, <2>2 DEF PosterTypeOK, Attempted
    <2> QED
      BY <2>1, <2>2
  <1>5. CASE QueueFull
    <2>1. consumer' = "put" /\ UNCHANGED <<queue, held>>
      BY <1>5 DEF Requeue, PutBack
    <2> QED
      BY <1>1, <1>2, <1>3, <1>4, <2>1
         DEF PosterTypeOK, Places, Once, Alive, InHand, Somewhere, LastItem
  <1>6. CASE ~QueueFull
    <2>1. queue' = Append(queue, held) /\ BackToLoop
      BY <1>6 DEF Requeue, PutBack
    <2> QED
      BY <1>1, <1>2, <1>3, <1>4, <1>6, <2>1, PutBackStep DEF PosterTypeOK
  <1> QED
    BY <1>5, <1>6

LEMMA PutAtLastStep == ASSUME PosterInv, PutAtLast PROVE PosterInv'
  <1> USE PosterAssumption DEF PosterInv, PosterAssumption
  <1>1. /\ held \in Envelopes /\ ~QueueFull /\ queue' = Append(queue, held) /\ BackToLoop
        /\ UNCHANGED <<left, stopped, drain, fate, attempts>>
    BY DEF PutAtLast, PutBack, Places, InHand
  <1>2. Attempted'
    BY <1>1 DEF Attempted
  <1> QED
    BY <1>1, <1>2, PutBackStep DEF PosterTypeOK
\* The loop of the drain, after outcomes f that left nothing of the item it had.
LEMMA DrainStep ==
    ASSUME PosterTypeOK, Once, NEW f \in [Envelopes -> Fates], DrainGoesOn(f),
           held \in Envelopes <=> consumer \in {"attempt", "put"},
           held \in Envelopes => f[held] = "accepted",
           \A i \in 1 .. Len(queue) : f[queue[i]] = "accepted" /\ queue[i] /= held,
           \A e \in Envelopes : f[e] = "accepted"
              => e = held \/ \E i \in 1 .. Len(queue) : queue[i] = e,
           UNCHANGED <<left, consumer, held>>, stopped' = TRUE
    PROVE  /\ queue' \in Seq(Envelopes) /\ Len(queue') <= MaxQueue
           /\ drain' \in Envelopes \cup {"over", "raised"} /\ fate' \in [Envelopes -> Fates]
           /\ Places' /\ LastItem'
           /\ \A e \in Envelopes :
                 fate'[e] = f[e] \/ (f[e] = "accepted" /\ fate'[e] \in {"dropped", "lost"})
  <1> USE PosterAssumption DEF PosterAssumption
  <1>1. queue \in Seq(Envelopes) /\ Len(queue) \in Nat /\ Len(queue) <= MaxQueue
    BY Queued DEF PosterTypeOK
  <1>2. held \in Envelopes \cup {NoEnvelope}
    BY DEF PosterTypeOK
  <1>3. CASE queue /= << >> /\ drain' = Head(queue) /\ queue' = Tail(queue) /\ fate' = f
    <2>1. /\ Len(queue) \in Nat \ {0} /\ drain' = queue[1] /\ drain' \in Envelopes
          /\ queue' \in Seq(Envelopes) /\ Len(queue') = Len(queue) - 1
          /\ \A i \in 1 .. Len(queue) - 1 : queue'[i] = queue[i + 1]
      BY <1>1, <1>3, TakenOut
    <2>2. Once'
      BY <2>1 DEF Once
    <2>3. Alive'
      BY <1>3, <2>1 DEF Once, Alive
    <2>4. InHand'
      BY <1>3, <2>1 DEF InHand
    <2>5. Somewhere'
      <3> SUFFICES ASSUME NEW e \in Envelopes, f[e] = "accepted", e \notin {held, drain'}
                   PROVE  \E i \in 1 .. Len(queue') : queue'[i] = e
        BY <1>3 DEF Somewhere
      <3>1. PICK i \in 1 .. Len(queue) : queue[i] = e
        OBVIOUS
      <3>2. i - 1 \in 1 .. Len(queue') /\ queue'[i - 1] = e
        BY <2>1, <3>1
      <3> QED
        BY <3>2
    <2>6. LastItem'
      BY <2>1 DEF LastItem
    <2> QED
      BY <1>1, <1>3, <2>1, <2>2, <2>3, <2>4, <2>5, <2>6 DEF Places
  <1>4. CASE /\ drain' = "over" /\ queue' = Flushed(queue)
             /\ fate' = [e \in Envelopes |->
                           IF e \in ToSet(queue) \ ToSet(queue') THEN "dropped" ELSE f[e]]
    <2>1. queue' = << >> /\ Len(queue') = 0 /\ queue' \in Seq(Envelopes)
      BY <1>4, EmptySeq DEF Flushed
    <2>2. ToSet(queue') = {}
      BY <2>1 DEF ToSet
    <2>3. \A e \in Envelopes : e \in ToSet(queue) <=> \E i \in 1 .. Len(queue) : queue[i] = e
      BY <1>1, LenProperties DEF ToSet
    <2>4. \A e \in Envelopes :
             fate'[e] = IF \E i \in 1 .. Len(queue) : queue[i] = e THEN "dropped" ELSE f[e]
      BY <1>4, <2>2, <2>3
    <2>5. fate' \in [Envelopes -> Fates]
      BY <1>4 DEF Fates
    <2>6. Once' /\ Alive'
      BY <2>1 DEF Once, Alive
    <2>7. InHand'
      BY <1>2, <1>4, <2>4 DEF InHand
    <2>8. Somewhere'
      BY <2>4 DEF Somewhere
    <2>9. LastItem'
      BY <2>1 DEF LastItem
    <2> QED
      BY <1>1, <1>4, <2>1, <2>4, <2>5, <2>6, <2>7, <2>8, <2>9 DEF Places
  <1>5. CASE FlushRaises(f)
    <2>1. PICK n \in 1 .. Len(queue) :
             /\ drain' = "raised"
             /\ queue' = SubSeq(queue, n + 1, Len(queue))
             /\ fate' = [e \in Envelopes |->
                           IF e = queue[n] THEN "lost"
                           ELSE IF \E i \in 1 .. n - 1 : e = queue[i] THEN "dropped" ELSE f[e]]
      BY <1>5 DEF FlushRaises
    <2>2. /\ queue' \in Seq(Envelopes) /\ Len(queue') = Len(queue) - n
          /\ \A i \in 1 .. Len(queue) - n : queue'[i] = queue[n + i]
      <3>1. n + 1 \in 1 .. Len(queue) + 1 /\ Len(queue) \in n .. Len(queue)
        BY <1>1
      <3>2. \A i \in n + 1 .. Len(queue) : queue[i] \in Envelopes
        BY <1>1, Queued
      <3> QED
        BY <1>1, <2>1, <3>1, <3>2, SubSeqProperties
    <2>3. \A i \in 1 .. Len(queue) - n : n + i \in 1 .. Len(queue)
      BY <1>1
    <2>4. \A e \in Envelopes : f[e] = "accepted" /\ (\A i \in 1 .. n : e /= queue[i])
             => fate'[e] = f[e]
      BY <1>1, <2>1
    <2>5. fate' \in [Envelopes -> Fates]
      BY <2>1 DEF Fates
    <2>6. Once'
      BY <1>1, <2>2, <2>3 DEF Once
    <2>7. Alive'
      <3> SUFFICES ASSUME NEW i \in 1 .. Len(queue')
                   PROVE  fate'[queue'[i]] = "accepted" /\ queue'[i] \notin {held', drain'}
        BY DEF Alive
      <3>1. /\ n + i \in 1 .. Len(queue) /\ queue'[i] = queue[n + i]
            /\ queue[n + i] \in Envelopes
        BY <1>1, <2>2, <2>3, Queued
      <3>2. \A j \in 1 .. n : queue[n + i] /= queue[j]
        BY <1>1, <3>1 DEF Once
      <3> QED
        BY <2>1, <2>4, <3>1, <3>2
    <2>8. InHand'
      <3>1. held \in Envelopes => \A i \in 1 .. n : held /= queue[i]
        BY <1>1
      <3> QED
        BY <1>2, <2>1, <2>4, <3>1 DEF InHand
    <2>9. Somewhere'
      <3> SUFFICES ASSUME NEW e \in Envelopes, fate'[e] = "accepted", e /= held
                   PROVE  \E i \in 1 .. Len(queue') : queue'[i] = e
        BY DEF Somewhere
      <3>1. f[e] = "accepted" /\ e /= queue[n] /\ \A i \in 1 .. n - 1 : e /= queue[i]
        BY <2>1
      <3>2. PICK k \in 1 .. Len(queue) : queue[k] = e
        BY <3>1
      <3>3. k > n
        BY <1>1, <3>1, <3>2
      <3>4. k - n \in 1 .. Len(queue') /\ queue'[k - n] = e
        BY <1>1, <2>2, <3>2, <3>3
      <3> QED
        BY <3>4
    <2>10. LastItem'
      BY <2>1 DEF LastItem
    <2>11. Len(queue') <= MaxQueue
      BY <1>1, <2>2
    <2>12. \A e \in Envelopes :
              fate'[e] = f[e] \/ (f[e] = "accepted" /\ fate'[e] \in {"dropped", "lost"})
      <3> SUFFICES ASSUME NEW e \in Envelopes, fate'[e] /= f[e]
                   PROVE  f[e] = "accepted" /\ fate'[e] \in {"dropped", "lost"}
        OBVIOUS
      <3>1. fate'[e] \in {"dropped", "lost"} /\ \E i \in 1 .. Len(queue) : e = queue[i]
        BY <1>1, <2>1
      <3> QED
        BY <3>1
    <2> QED
      BY <2>1, <2>2, <2>5, <2>6, <2>7, <2>8, <2>9, <2>10, <2>11, <2>12 DEF Places
  <1> QED
    BY <1>3, <1>4, <1>5 DEF DrainGoesOn

LEMMA DrainBeginsStep == ASSUME PosterInv, DrainBegins PROVE PosterInv'
  <1> USE PosterAssumption DEF PosterInv, PosterAssumption
  <1>1. fate \in [Envelopes -> Fates] /\ drain \notin Envelopes
    BY DEF PosterTypeOK, Fates, DrainBegins
  <1>2. /\ queue' \in Seq(Envelopes) /\ Len(queue') <= MaxQueue
        /\ drain' \in Envelopes \cup {"over", "raised"} /\ fate' \in [Envelopes -> Fates]
        /\ Places' /\ LastItem'
        /\ \A e \in Envelopes :
              fate'[e] = fate[e] \/ (fate[e] = "accepted" /\ fate'[e] \in {"dropped", "lost"})
    <2>1. \A i \in 1 .. Len(queue) : fate[queue[i]] = "accepted" /\ queue[i] /= held
      BY DEF Places, Alive
    <2>2. \A e \in Envelopes : fate[e] = "accepted"
             => e = held \/ \E i \in 1 .. Len(queue) : queue[i] = e
      BY <1>1 DEF Places, Somewhere
    <2> HIDE DEF PosterInv
    <2> QED
      BY <1>1, <2>1, <2>2, DrainStep DEF DrainBegins, PosterInv, Places, InHand
  <1>3. UNCHANGED <<left, consumer, held, attempts>> /\ stopped' = TRUE
    BY DEF DrainBegins
  <1>4. PosterTypeOK'
    BY <1>2, <1>3 DEF PosterTypeOK, Fates
  <1>5. Attempted'
    BY <1>2, <1>3 DEF Attempted
  <1> QED
    BY <1>2, <1>4, <1>5

\* An attempt that leads on to the next item.
LEMMA DrainAttemptGoesOn ==
    ASSUME PosterInv, drain \in Envelopes, attempts' = [attempts EXCEPT ![drain] = @ + 1],
           NEW outcome \in {"sent", "dropped"}, DrainGoesOn([fate EXCEPT ![drain] = outcome]),
           UNCHANGED <<left, consumer, held, stopped>>
    PROVE  PosterInv'
  <1> USE PosterAssumption DEF PosterInv, PosterAssumption
  <1> DEFINE f == [fate EXCEPT ![drain] = outcome]
  <1>2. fate[drain] = "accepted" /\ stopped /\ stopped \in BOOLEAN
    BY DEF Places, InHand, LastItem, PosterTypeOK
  <1>3. f \in [Envelopes -> Fates] /\ \A e \in Envelopes : f[e] = IF e = drain THEN outcome ELSE fate[e]
    BY <1>2 DEF PosterTypeOK, Fates
  <1>4. /\ queue' \in Seq(Envelopes) /\ Len(queue') <= MaxQueue
        /\ drain' \in Envelopes \cup {"over", "raised"} /\ fate' \in [Envelopes -> Fates]
        /\ Places' /\ LastItem'
        /\ \A e \in Envelopes :
              fate'[e] = f[e] \/ (f[e] = "accepted" /\ fate'[e] \in {"dropped", "lost"})
    <2>1. \A i \in 1 .. Len(queue) : f[queue[i]] = "accepted" /\ queue[i] /= held
      BY <1>3, Queued DEF Places, Alive, PosterTypeOK
    <2>2. \A e \in Envelopes : f[e] = "accepted"
             => e = held \/ \E i \in 1 .. Len(queue) : queue[i] = e
      BY <1>3 DEF Places, Somewhere
    <2>3. /\ held \in Envelopes <=> consumer \in {"attempt", "put"}
          /\ held \in Envelopes => f[held] = "accepted"
      BY <1>3 DEF Places, InHand
    <2>4. PosterTypeOK /\ Once /\ stopped' = TRUE
      BY <1>2 DEF Places
    <2>5. DrainGoesOn(f)
      OBVIOUS
    <2> HIDE DEF PosterInv, f
    <2> QED
      BY <1>2, <1>3, <2>1, <2>2, <2>3, <2>4, <2>5, DrainStep
  <1>5. PosterTypeOK'
    <2>1. attempts' \in [Envelopes -> Nat]
      BY DEF PosterTypeOK
    <2> QED
      BY <1>2, <1>4, <2>1 DEF PosterTypeOK, Fates
  <1>6. Attempted'
    <2> SUFFICES ASSUME NEW e \in Envelopes PROVE Attempted!(e)'
      BY DEF Attempted
    <2>1. CASE e = drain
      BY <1>2, <1>3, <1>4, <2>1, AttemptCounted
    <2>2. CASE e /= drain
      BY <1>2, <1>3, <1>4, <2>2 DEF PosterTypeOK, Attempted
    <2> QED
      BY <2>1, <2>2
  <1> QED
    BY <1>4, <1>5, <1>6

\* An attempt that ends the drain: its item is lost, the queue stays.
LEMMA DrainAttemptRaises ==
    ASSUME PosterInv, drain \in Envelopes, attempts' = [attempts EXCEPT ![drain] = @ + 1],
           drain' = "raised", fate' = [fate EXCEPT ![drain] = "lost"],
           UNCHANGED <<queue, left, consumer, held, stopped>>
    PROVE  PosterInv'
  <1> USE PosterAssumption DEF PosterInv, PosterAssumption
  <1>1. /\ fate[drain] = "accepted" /\ stopped /\ held /= drain
        /\ \A e \in Envelopes : fate'[e] = IF e = drain THEN "lost" ELSE fate[e]
    BY DEF Places, InHand, LastItem, PosterTypeOK
  <1>2. \A i \in 1 .. Len(queue) : queue[i] \in Envelopes
    BY Queued DEF PosterTypeOK
  <1>3. PosterTypeOK'
    BY DEF PosterTypeOK
  <1>4. Once'
    BY DEF Places, Once
  <1>5. Alive'
    BY <1>1, <1>2 DEF Places, Alive
  <1>6. InHand'
    BY <1>1 DEF Places, InHand
  <1>7. Somewhere'
    BY <1>1 DEF Places, Somewhere
  <1>8. Attempted'
    <2> SUFFICES ASSUME NEW e \in Envelopes PROVE Attempted!(e)'
      BY DEF Attempted
    <2>1. CASE e = drain
      <3>1. attempts'[drain] <= IF MaxRetries = 0 THEN 1 ELSE MaxRetries
        BY <1>1, AttemptCounted
      <3>2. fate'[drain] = "lost"
        BY <1>1
      <3> QED
        BY <2>1, <3>1, <3>2
    <2>2. CASE e /= drain
      BY <1>1, <2>2 DEF PosterTypeOK, Attempted
    <2> QED
      BY <2>1, <2>2
  <1>9. LastItem'
    BY <1>1 DEF LastItem
  <1> QED
    BY <1>3, <1>4, <1>5, <1>6, <1>7, <1>8, <1>9 DEF Places

LEMMA DrainAttemptStep == ASSUME PosterInv, DrainAttempt PROVE PosterInv'
  BY DrainAttemptGoesOn, DrainAttemptRaises DEF DrainAttempt

LEMMA ConsumerKeeps == ASSUME PosterInv, ConsumerStep PROVE PosterInv'
  <1>1. CASE Sent
    BY <1>1, SettledStep DEF Sent
  <1>2. CASE GiveUp
    BY <1>2, SettledStep DEF GiveUp
  <1> QED
    BY <1>1, <1>2, TakeStep, StopWaitingStep, RequeueStep, PutAtLastStep DEF ConsumerStep

LEMMA DiesStep == ASSUME PosterInv, PosterDies PROVE PosterInv'
  <1> USE PosterAssumption DEF PosterInv, PosterAssumption
  <1>1. queue' = << >> /\ Len(queue') = 0 /\ queue' \in Seq(Envelopes)
    BY EmptySeq DEF PosterDies
  <1>2. \A e \in Envelopes : fate'[e] = IF fate[e] = "accepted" THEN "lost" ELSE fate[e]
    BY DEF PosterDies
  <1>3. PosterTypeOK'
    <2>1. fate' \in [Envelopes -> {"unborn", "accepted", "sent", "dropped", "lost"}]
      BY DEF PosterTypeOK, PosterDies
    <2>2. queue' \in Seq(Envelopes) /\ Len(queue') <= MaxQueue
      BY <1>1 DEF PosterAssumption
    <2>3. left' \in [Envelopes -> 0 .. MaxRetries] /\ attempts' \in [Envelopes -> Nat]
      BY DEF PosterDies
    <2> QED
      BY <2>1, <2>2, <2>3 DEF PosterTypeOK, PosterDies
  <1>4. Places'
    BY <1>1, <1>2 DEF Places, Once, Alive, InHand, Somewhere, PosterDies
  <1>5. Attempted' /\ LastItem'
    BY <1>1, <1>2 DEF Attempted, LastItem, PosterDies
  <1> QED
    BY <1>3, <1>4, <1>5

-----------------------------------------------------------------------------
(* The payloads *)

\* Nothing is enqueued any more once the drain has begun.
Undrained == phase \in {"down", "preflight", "classified", "running", "stopping"} => drain = NoEnvelope

DaemonInv ==
    /\ phase \in {"down", "preflight", "classified", "running", "stopping", "draining", "unwinding"}
    /\ Undrained
    /\ PosterInv

LEMMA PosterIdle == PosterInv /\ UNCHANGED posterVars => PosterInv'
  BY DEF PosterInv, PosterTypeOK, Places, Once, Alive, InHand, Somewhere, Attempted, LastItem,
         posterVars, posterTasks

LEMMA DaemonStep == DaemonInv /\ [Next]_vars => DaemonInv'
  <1> SUFFICES ASSUME DaemonInv, [Next]_vars PROVE DaemonInv'
    OBVIOUS
  <1> USE DEF DaemonInv, Undrained
  <1>1. CASE UNCHANGED posterVars /\ phase' \in {"down", "preflight", "classified", "running", "stopping"}
                 /\ phase \in {"down", "preflight", "classified", "running", "stopping"}
    BY <1>1, PosterIdle DEF posterVars, posterTasks
  <1>2. CASE UNCHANGED <<posterVars, phase>>
    BY <1>2, PosterIdle DEF posterVars, posterTasks
  <1>3. CASE Report
    BY <1>3, EnqueueStep DEF Report, lifeVars, Enqueue
  <1>4. CASE Drain
    BY <1>4, DrainBeginsStep DEF Drain
  <1>5. CASE LeaveMarker
    BY <1>5, PosterIdle DEF LeaveMarker
  <1>6. CASE PosterStep
    <2>1. CASE ConsumerStep
      <3>1. UNCHANGED <<phase, drain>>
        BY <1>6, <2>1 DEF PosterStep, lifeVars, ConsumerStep, Take, StopWaiting, Sent, GiveUp,
                          Requeue, PutAtLast
      <3> QED
        BY <2>1, <3>1, ConsumerKeeps
    <2>2. CASE DrainAttempt
      <3>1. phase \notin {"down", "preflight", "classified", "running", "stopping"}
        BY <2>2, PosterAssumption DEF DrainAttempt, PosterAssumption
      <3> QED
        BY <1>6, <2>2, <3>1, DrainAttemptStep DEF PosterStep, lifeVars
    <2> QED
      BY <1>6, <2>1, <2>2 DEF PosterStep
  <1>7. CASE Die
    BY <1>7, DiesStep DEF Die, PosterDies
  <1> QED
    BY <1>1, <1>2, <1>3, <1>4, <1>5, <1>6, <1>7
       DEF Next, Begin, RejectConfig, Classify, TakePidLock, Sigterm, Reboot, Rival, vars, lifeVars

LEMMA DaemonAlways == Spec => []DaemonInv
  <1>1. Init => DaemonInv
    BY PosterInitially DEF Init, DaemonInv, Undrained, PosterInit
  <1> QED
    BY <1>1, DaemonStep, PTL DEF Spec

\* The two readers of the webhook queue never hold the same payload, and a payload
\* that was accepted and is not settled is in exactly one place.
THEOREM OnePlaceHolds == Spec => []OnePlace
  <1>1. DaemonInv => OnePlace
    <2> SUFFICES ASSUME DaemonInv, NEW e \in Envelopes
                 PROVE  Cardinality(InQueue(e)) + (IF held = e THEN 1 ELSE 0)
                           + (IF drain = e THEN 1 ELSE 0) = IF fate[e] = "accepted" THEN 1 ELSE 0
      BY DEF OnePlace
    <2> USE DEF DaemonInv, PosterInv, Places
    <2>1. CASE \E i \in 1 .. Len(queue) : queue[i] = e
      <3>1. PICK i \in 1 .. Len(queue) : queue[i] = e
        BY <2>1
      <3>2. InQueue(e) = {i}
        BY <3>1 DEF InQueue, Once
      <3>3. Cardinality(InQueue(e)) = 1
        BY <3>2, FS_Singleton
      <3> QED
        BY <3>1, <3>3 DEF Alive
    <2>2. CASE ~\E i \in 1 .. Len(queue) : queue[i] = e
      <3>1. InQueue(e) = {}
        BY <2>2 DEF InQueue
      <3>2. Cardinality(InQueue(e)) = 0
        BY <3>1, FS_EmptySet
      <3>3. fate[e] = "accepted" <=> (held = e \/ drain = e)
        BY <2>2 DEF Somewhere, InHand
      <3>4. ~(held = e /\ drain = e)
        BY DEF InHand
      <3> QED
        BY <3>2, <3>3, <3>4
    <2> QED
      BY <2>1, <2>2
  <1> QED
    BY <1>1, DaemonAlways, PTL

\* No payload is attempted more often than webhook_max_retries, by the loop and the
\* drain together.
THEOREM AttemptsBoundedHolds == Spec => []AttemptsBounded
  <1>1. DaemonInv => AttemptsBounded
    BY DEF DaemonInv, PosterInv, Attempted, AttemptsBounded
  <1> QED
    BY <1>1, DaemonAlways, PTL

\* When the loop and the drain have come to their end, and the drain did not raise, at
\* most one payload that was accepted is neither sent nor logged as dropped.
THEOREM OneLossAtMostHolds == Spec => []OneLossAtMost
  <1>1. DaemonInv => OneLossAtMost
    <2> SUFFICES ASSUME DaemonInv, drain = "over", consumer = "ended"
                 PROVE  Cardinality({e \in Envelopes : fate[e] = "accepted"}) <= 1
      BY DEF OneLossAtMost
    <2> DEFINE lost == {e \in Envelopes : fate[e] = "accepted"}
    <2>1. held \notin Envelopes /\ drain \notin Envelopes /\ Len(queue) <= 1
      BY PosterAssumption
         DEF DaemonInv, PosterInv, Places, InHand, LastItem, PosterAssumption
    <2>2. Len(queue) \in Nat
      BY Queued DEF DaemonInv, PosterInv, PosterTypeOK
    <2>3. \A e \in lost : e = queue[1]
      BY <2>1, <2>2 DEF DaemonInv, PosterInv, Places, Somewhere
    <2>4. lost = {} \/ lost = {queue[1]}
      BY <2>3
    <2>5. Cardinality(lost) = 0 \/ Cardinality(lost) = 1
      BY <2>4, FS_EmptySet, FS_Singleton
    <2> QED
      BY <2>5
  <1> QED
    BY <1>1, DaemonAlways, PTL
-----------------------------------------------------------------------------
(* Types *)

\* Over all its starts and ends the daemon and its poster keep within their types: the
\* queue within its size, the attempts left within the setting.
THEOREM LifecycleTypeCorrect == Spec => []TypeOK
  <1>1. Init => reported \in Reasons
    BY DEF Init, Reasons
  <1>2. reported \in Reasons /\ [Next]_vars => (reported \in Reasons)'
    BY DEF Reasons, Next, vars, lifeVars, Begin, RejectConfig, Classify, ClassifyPriorRun,
           TakePidLock, Report, Sigterm, Drain, LeaveMarker, PosterStep, Die, Reboot, Rival
  <1>3. reported \in Reasons /\ MarkersInv /\ DaemonInv => TypeOK
    BY DEF TypeOK, MarkersInv, DaemonInv, PosterInv
  <1> QED
    BY <1>1, <1>2, <1>3, MarkersAlways, DaemonAlways, PTL DEF Spec

-----------------------------------------------------------------------------
(* A payload that waits for room in its own queue *)

\* The one task that empties the queue waits for a place in it.
Stuck == consumer = "put" /\ QueueFull

\* What keeps an accepted payload from being settled: as long as the daemon runs, nothing
\* but its stop frees a poster that waits to put a payload back into a full queue.  No
\* attempt is made any more, and what the cycles report from then on is refused.
THEOREM StuckForGood ==
    Spec => [][Stuck /\ phase = "running" /\ phase' = "running"
                 => /\ Stuck' /\ UNCHANGED <<queue, held, attempts>>
                    /\ \A e \in Envelopes :
                          fate'[e] /= fate[e] => fate'[e] \in {"dropped", "lost"}]_vars
  <1>1. ASSUME DaemonInv, [Next]_vars, Stuck, phase = "running", phase' = "running"
        PROVE  /\ Stuck' /\ UNCHANGED <<queue, held, attempts>>
               /\ \A e \in Envelopes : fate'[e] /= fate[e] => fate'[e] \in {"dropped", "lost"}
    <2>1. CASE UNCHANGED posterVars
      BY <1>1, <2>1 DEF posterVars, posterTasks, Stuck, QueueFull
    <2>2. CASE Report
      <3>1. PICK e \in Envelopes : Enqueue(e)
        BY <2>2 DEF Report
      <3>2. PICK loss \in {"dropped", "lost"} :
               /\ fate' = [fate EXCEPT ![e] = loss]
               /\ UNCHANGED <<queue, consumer, held, attempts>>
        BY <1>1, <3>1 DEF Enqueue, Stuck
      <3>3. \A d \in Envelopes : fate'[d] /= fate[d] => fate'[d] \in {"dropped", "lost"}
        BY <1>1, <3>2 DEF DaemonInv, PosterInv, PosterTypeOK
      <3> QED
        BY <1>1, <3>2, <3>3 DEF Stuck, QueueFull
    <2>3. ~ConsumerStep
      BY <1>1 DEF Stuck, ConsumerStep, Take, StopWaiting, AttemptEnds, Sent, GiveUp, Requeue,
                  PutAtLast
    <2>4. ~DrainAttempt
      BY <1>1, PosterAssumption DEF DaemonInv, Undrained, DrainAttempt, PosterAssumption
    <2> QED
      BY <1>1, <2>1, <2>2, <2>3, <2>4
         DEF Next, vars, lifeVars, Begin, RejectConfig, Classify, TakePidLock, Sigterm, Drain,
             LeaveMarker, PosterStep, Die, Reboot, Rival
  <1> QED
    BY <1>1, DaemonAlways, PTL DEF Spec
=============================================================================
