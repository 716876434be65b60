----------------------------- MODULE Subprocess -----------------------------
(***************************************************************************)
(* subproc.runner.run: one child process per call, its time-out, and the   *)
(* two-stage shutdown after it (SIGTERM, a grace period, SIGKILL, a drain  *)
(* that is bounded, too).  A modem has one call in flight at a time, that  *)
(* of its probe or of the action on it.                                    *)
(*                                                                         *)
(* Whoever cancels the task inside run() leaves the child alone: only the  *)
(* time-out of the call itself starts the shutdown.  Time is counted in    *)
(* ticks since the call, or its present stage, began.                      *)
(***************************************************************************)
EXTENDS Naturals

CONSTANTS
    Modems,
    Grace,      \* _SIGTERM_GRACE_SECONDS
    Drain       \* _SIGKILL_DRAIN_SECONDS

ASSUME SubprocessAssumption == Grace \in Nat \ {0} /\ Drain \in Nat \ {0}

VARIABLES
    call,       \* the child each modem's task waits for
    strays      \* modems with a child of theirs alive that nobody waits for

Stages == {"none", "running", "terminating", "draining"}
Calls == [stage : Stages, limit : Nat, age : Nat]

NoCall == [stage |-> "none", limit |-> 0, age |-> 0]
Spawned(limit) == [stage |-> "running", limit |-> limit, age |-> 0]
InCall(m) == call[m].stage /= "none"

\* When the event loop's timer for the present stage goes off.
StageLimit(c) == CASE c.stage = "running"     -> c.limit
                   [] c.stage = "terminating" -> Grace
                   [] c.stage = "draining"    -> Drain

Due(m) == InCall(m) /\ call[m].age >= StageLimit(call[m])

Enter(m, stage) == call' = [call EXCEPT ![m].stage = stage, ![m].age = 0]

\* SIGTERM to the process group ...
Expire(m) ==
    /\ call[m].stage = "running" /\ Due(m)
    /\ Enter(m, "terminating")
    /\ UNCHANGED strays

\* ... and SIGKILL after the grace period.
Escalate(m) ==
    /\ call[m].stage = "terminating" /\ Due(m)
    /\ Enter(m, "draining")
    /\ UNCHANGED strays

\* The ways run() leaves its caller, who sets call'[m]: it raises, because the child
\* cannot be spawned ...
CannotSpawn(m) == call[m].stage = "running" /\ call[m].age = 0 /\ UNCHANGED strays

\* ... or the child exits ...
Exits(m) == call[m].stage = "running" /\ UNCHANGED strays

\* ... it dies of a signal; the result says timed_out ...
Dies(m) == call[m].stage \in {"terminating", "draining"} /\ UNCHANGED strays

\* Mutant: the drain waits for the pipes to close.
WaitForPipes(m) == FALSE /\ UNCHANGED strays

\* ... or it survives even SIGKILL until the drain is over (uninterruptible sleep).
DrainOver(m) ==
    /\ call[m].stage = "draining" /\ Due(m)
    /\ strays' = strays \cup {m}

\* Tasks cancelled inside run(): their children live on.
Cancelled(S) ==
    /\ strays' = strays \cup {m \in S : InCall(m)}
    /\ call' = [m \in Modems |-> IF m \in S THEN NoCall ELSE call[m]]

\* A child nobody waits for ends at last.
StrayEnds(m) == m \in strays /\ strays' = strays \ {m}

Older(c) == IF c.stage = "none" THEN c ELSE [c EXCEPT !.age = @ + 1]
=============================================================================
