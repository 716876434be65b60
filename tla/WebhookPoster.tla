--------------------------- MODULE WebhookPoster ---------------------------
(***************************************************************************)
(* webhook.poster.WebhookPoster: a bounded queue that cycles fill, the one *)
(* task that empties it (run_forever) and the drain of the shutdown, which *)
(* empties it, too, while that task may be in the middle of an attempt.    *)
(*                                                                         *)
(* An await is the only place where another task can act, so a step is     *)
(* what runs from one await to the next.  Backoff, DNS and HTTP time are   *)
(* the unspecified time between taking an envelope and the end of the      *)
(* attempt; whether it succeeds and when the drain's budget is used up are *)
(* left open.  Every name here begins with what it is about, since the     *)
(* modules of the daemon extend this one.                                  *)
(***************************************************************************)
EXTENDS Integers, Sequences, FiniteSets, SequencesExt

CONSTANTS
    Envelopes,     \* payloads the daemon will ever want to send
    MaxQueue,      \* the queue's maxsize
    MaxRetries,    \* webhook_max_retries
    NoEnvelope     \* no member of Envelopes

ASSUME PosterAssumption ==
    /\ MaxQueue \in Nat \ {0} /\ MaxRetries \in Nat
    /\ NoEnvelope \notin Envelopes
    /\ {"over", "raised"} \cap (Envelopes \cup {NoEnvelope}) = {}

VARIABLES
    queue,      \* self._queue
    left,       \* attempts_left of each item
    consumer,   \* where run_forever is
    held,       \* the item it has taken out of the queue
    stopped,    \* self._stopped
    drain,      \* the item the drain is sending, NoEnvelope before it began, or how
                \* it ended: "over" or "raised"
    fate,       \* history: what became of each envelope; "lost": neither sent nor logged
    attempts    \* history: attempts this process made to send it

posterTasks == <<queue, left, consumer, held, stopped, drain>>
posterVars == <<posterTasks, fate, attempts>>

PosterInit ==
    /\ queue = << >> /\ left = [e \in Envelopes |-> 0]
    /\ consumer = "get" /\ held = NoEnvelope
    /\ stopped = FALSE /\ drain = NoEnvelope
    /\ fate = [e \in Envelopes |-> "unborn"]
    /\ attempts = [e \in Envelopes |-> 0]

\* Mutant: one too many.
QueueOverfull == Len(queue) > MaxQueue

QueueFull == Len(queue) >= MaxQueue

-----------------------------------------------------------------------------
(* enqueue *)

\* Never waits: a full queue refuses the new payload and logs the drop; a log that
\* cannot be written raises it to the cycle, unlogged.
Enqueue(e) ==
    /\ fate[e] = "unborn"
    /\ \/ /\ ~QueueFull
          /\ queue' = Append(queue, e)
          /\ left' = [left EXCEPT ![e] = MaxRetries]
          /\ fate' = [fate EXCEPT ![e] = "accepted"]
       \/ /\ QueueFull
          /\ \E loss \in {"dropped", "lost"} : fate' = [fate EXCEPT ![e] = loss]
          /\ UNCHANGED <<queue, left>>
    /\ UNCHANGED <<consumer, held, stopped, drain, attempts>>

-----------------------------------------------------------------------------
(* run_forever *)

\* The item leaves the queue before it waits for its backoff.
Take ==
    /\ consumer = "get" /\ queue /= << >>
    /\ consumer' = "attempt" /\ held' = Head(queue) /\ queue' = Tail(queue)
    /\ UNCHANGED <<left, stopped, drain, fate, attempts>>

\* wait_for timed out, and the loop looks at the stop event.
StopWaiting ==
    /\ consumer = "get" /\ stopped
    /\ consumer' = "ended"
    /\ UNCHANGED <<queue, left, held, stopped, drain, fate, attempts>>

BackToLoop == consumer' = (IF stopped THEN "ended" ELSE "get") /\ held' = NoEnvelope

\* Mutant: one attempt too many.
GivesUpLate(n) == n < 0

\* attempts_left <= 0 once the failed attempt is counted
GivesUp(n) == n <= 0

AttemptEnds ==
    /\ consumer = "attempt"
    /\ attempts' = [attempts EXCEPT ![held] = @ + 1]

Sent ==
    /\ AttemptEnds
    /\ fate' = [fate EXCEPT ![held] = "sent"]
    /\ BackToLoop
    /\ UNCHANGED <<queue, left, stopped, drain>>

GiveUp ==
    /\ AttemptEnds
    /\ GivesUp(left[held] - 1)
    /\ fate' = [fate EXCEPT ![held] = "dropped"]
    /\ BackToLoop
    /\ UNCHANGED <<queue, left, stopped, drain>>

\* Mutant: the retry of a full queue is dropped on the floor.
PutOrForget == UNCHANGED queue /\ BackToLoop

\* await self._queue.put(item): waits as long as the queue is full.
PutBack ==
    IF QueueFull THEN consumer' = "put" /\ UNCHANGED <<queue, held>>
                 ELSE queue' = Append(queue, held) /\ BackToLoop

Requeue ==
    /\ AttemptEnds
    /\ ~GivesUp(left[held] - 1)
    /\ left' = [left EXCEPT ![held] = @ - 1]
    /\ PutBack
    /\ UNCHANGED <<stopped, drain, fate>>

\* A get elsewhere has made room for the waiting put.
PutAtLast ==
    /\ consumer = "put" /\ ~QueueFull
    /\ PutBack
    /\ UNCHANGED <<left, stopped, drain, fate, attempts>>

-----------------------------------------------------------------------------
(* drain *)

DrainEnded == drain \in {"over", "raised"}

\* Mutant: what the budget did not reach stays in the queue.
LeftOver(q) == q

\* What is left in the queue when the drain ends.
Flushed(q) == << >>

\* A drop that cannot be logged raises: its item is lost, what comes after it stays.
FlushRaises(f) ==
    \E n \in 1 .. Len(queue) :
       /\ drain' = "raised"
       /\ queue' = SubSeq(queue, n + 1, Len(queue))
       /\ fate' = [e \in Envelopes |->
                     IF e = queue[n] THEN "lost"
                     ELSE IF \E i \in 1 .. n - 1 : e = queue[i] THEN "dropped" ELSE f[e]]

\* The loop test, with outcomes f so far: take the next item, or, when the
\* budget is used up or the queue empty, drop whatever is left, without an await.
DrainGoesOn(f) ==
    \/ /\ queue /= << >>
       /\ drain' = Head(queue) /\ queue' = Tail(queue)
       /\ fate' = f
    \/ /\ drain' = "over"
       /\ queue' = Flushed(queue)
       /\ fate' = [e \in Envelopes |->
                     IF e \in ToSet(queue) \ ToSet(queue') THEN "dropped" ELSE f[e]]
    \/ FlushRaises(f)

DrainBegins ==
    /\ drain = NoEnvelope
    /\ stopped' = TRUE
    /\ DrainGoesOn(fate)
    /\ UNCHANGED <<left, consumer, held, attempts>>

\* One attempt each, whatever the item's backoff says.  An attempt that raises, or
\* whose drop cannot be logged, is the end of the drain.
DrainAttempt ==
    /\ drain \in Envelopes
    /\ attempts' = [attempts EXCEPT ![drain] = @ + 1]
    /\ \/ \E outcome \in {"sent", "dropped"} : DrainGoesOn([fate EXCEPT ![drain] = outcome])
       \/ /\ drain' = "raised" /\ fate' = [fate EXCEPT ![drain] = "lost"]
          /\ UNCHANGED queue
    /\ UNCHANGED <<left, consumer, held, stopped>>

ConsumerStep == Take \/ StopWaiting \/ Sent \/ GiveUp \/ Requeue \/ PutAtLast

\* The process is gone, and with it what it had not sent.
PosterDies ==
    /\ queue' = << >> /\ consumer' = "get" /\ held' = NoEnvelope
    /\ stopped' = FALSE /\ drain' = NoEnvelope
    /\ fate' = [e \in Envelopes |-> IF fate[e] = "accepted" THEN "lost" ELSE fate[e]]
    /\ left' = [e \in Envelopes |-> 0] /\ attempts' = [e \in Envelopes |-> 0]

-----------------------------------------------------------------------------
(* Properties *)

PosterTypeOK ==
    /\ queue \in Seq(Envelopes) /\ Len(queue) <= MaxQueue
    /\ left \in [Envelopes -> 0 .. MaxRetries]
    /\ consumer \in {"get", "attempt", "put", "ended"}
    /\ held \in Envelopes \cup {NoEnvelope}
    /\ stopped \in BOOLEAN
    /\ drain \in Envelopes \cup {NoEnvelope, "over", "raised"}
    /\ fate \in [Envelopes -> {"unborn", "accepted", "sent", "dropped", "lost"}]
    /\ attempts \in [Envelopes -> Nat]

InQueue(e) == {i \in 1 .. Len(queue) : queue[i] = e}

\* Between the queue, the task and the drain an accepted envelope is in exactly
\* one place, and an envelope that is settled is in none: the two readers of the
\* queue never send the same one, nor does a requeue lose or double one.
OnePlace ==
    \A e \in Envelopes :
       Cardinality(InQueue(e)) + (IF held = e THEN 1 ELSE 0) + (IF drain = e THEN 1 ELSE 0)
          = IF fate[e] = "accepted" THEN 1 ELSE 0

\* FR-44.3: requeued and drained, an envelope gets at most webhook_max_retries
\* attempts, and one if that is 0.
AttemptsBounded ==
    \A e \in Envelopes : attempts[e] <= IF MaxRetries = 0 THEN 1 ELSE MaxRetries

\* poster.py, drain ("Items that fail ... or that remain when the budget expires emit
\* WebhookDropped events"): when both readers have come to their end, and the drain
\* did not raise, every accepted envelope was sent or logged as dropped, except at
\* most the one whose attempt the drain did not wait for.
OneLossAtMost ==
    (drain = "over" /\ consumer = "ended")
       => Cardinality({e \in Envelopes : fate[e] = "accepted"}) <= 1
=============================================================================
