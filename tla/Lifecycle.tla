------------------------------ MODULE Lifecycle ------------------------------
(***************************************************************************)
(* The daemon from process start to process end, again and again:          *)
(* main._production_main, the markers of daemon.lifecycle, the steps of    *)
(* daemon.sigterm.SigtermChoreography, and the webhook poster they drain.  *)
(*                                                                         *)
(* A start reads the configuration, looks for its binaries and the box in  *)
(* the list of known ones, classifies the previous run by the marker files *)
(* that run left, takes the PID lock and runs; SIGTERM cancels cycle and   *)
(* producers, drains the webhooks and leaves a marker.  A marker that      *)
(* cannot be written or removed is logged and forgotten.                   *)
(* The task group then waits for its tasks.  One of them never ends, the   *)
(* thread inside prom_server.serve_forever, which nothing shuts down: a    *)
(* stop is over when systemd kills what is left (TimeoutStopSec).          *)
(***************************************************************************)
EXTENDS WebhookPoster

VARIABLES
    phase,       \* how far this process has come
    configMark,  \* /run/.../last-config-error exists
    cleanMark,   \* /run/.../clean-shutdown exists
    reported,    \* DaemonRestart.reason of the last start
    ended,       \* history: how the run before really ended
    spoiled      \* history: the markers are not this daemon's own, because of a
                 \* second instance or of one that could not be written or removed

markers == <<configMark, cleanMark>>
lifeVars == <<phase, markers, reported, ended, spoiled>>
vars == <<lifeVars, posterVars>>

Reasons == {"config_invalid", "sigterm", "crash"}

\* Neither marker exists on a tmpfs after boot; that reads as a crash.
Init ==
    /\ phase = "down" /\ configMark = FALSE /\ cleanMark = FALSE
    /\ reported = "crash" /\ ended = "crash" /\ spoiled = FALSE
    /\ PosterInit

-----------------------------------------------------------------------------
(* Start *)

\* Mutant: the other marker first.
ClassifyCleanFirst ==
    IF cleanMark THEN "sigterm" ELSE IF configMark THEN "config_invalid" ELSE "crash"

\* classify_prior_run: the most specific marker wins ...
ClassifyPriorRun ==
    IF configMark THEN "config_invalid" ELSE IF cleanMark THEN "sigterm" ELSE "crash"

\* ... and that one alone is unlinked, if it can be.
MarkersRead ==
    \/ configMark' = FALSE /\ cleanMark' = (cleanMark /\ configMark)
    \/ UNCHANGED markers

\* Settings() succeeds.
Begin ==
    /\ phase = "down"
    /\ phase' = "preflight"
    /\ UNCHANGED <<markers, reported, ended, spoiled, posterVars>>

\* Settings(), the search for the binaries or the check of the box against the
\* known fleet fails: exit status 78, with a marker if it can be written.
RejectConfig ==
    /\ phase \in {"down", "preflight"}
    /\ phase' = "down" /\ ended' = "config_invalid"
    /\ configMark' \in {configMark, TRUE}
    /\ spoiled' = ~configMark'
    /\ UNCHANGED <<cleanMark, reported, posterVars>>

Classify ==
    /\ phase = "preflight"
    /\ phase' = "classified"
    /\ reported' = ClassifyPriorRun
    /\ MarkersRead
    /\ spoiled' = configMark'
    /\ UNCHANGED <<ended, posterVars>>

\* The PID lock is free, since its last holder is dead.
TakePidLock ==
    /\ phase = "classified"
    /\ phase' = "running"
    /\ UNCHANGED <<markers, reported, ended, spoiled, posterVars>>

\* The boot envelope and what the cycles report.
Report ==
    /\ phase = "running"
    /\ \E e \in Envelopes : Enqueue(e)
    /\ UNCHANGED lifeVars

-----------------------------------------------------------------------------
(* SigtermChoreography.execute *)

\* Steps 1 and 2: no cycle enqueues anything any more.
Sigterm ==
    /\ phase = "running"
    /\ phase' = "stopping"
    /\ UNCHANGED <<markers, reported, ended, spoiled, posterVars>>

\* Step 3.
Drain ==
    /\ phase = "stopping"
    /\ phase' = "draining"
    /\ DrainBegins
    /\ UNCHANGED <<markers, reported, ended, spoiled>>

\* Steps 5 to 8: DaemonStopped is logged, then the marker written.  A step that
\* raises does not keep the next one from running.
LeaveMarker ==
    /\ phase = "draining" /\ DrainEnded
    /\ phase' = "unwinding"
    /\ cleanMark' \in {cleanMark, TRUE}
    /\ spoiled' = (spoiled \/ ~cleanMark')
    /\ UNCHANGED <<configMark, reported, ended, posterVars>>

PosterStep ==
    /\ phase \in {"running", "stopping", "draining", "unwinding"}
    /\ ConsumerStep \/ DrainAttempt
    /\ UNCHANGED lifeVars

-----------------------------------------------------------------------------
(* Surroundings *)

\* Crash, kill or systemd's SIGKILL; also a SIGTERM or SIGHUP before the handlers
\* are installed, an OSError of the preflight that main does not translate, and what
\* the poster's loop raises, which takes down the whole task group.
Die ==
    /\ phase /= "down"
    /\ phase' = "down"
    /\ ended' = IF phase = "unwinding" THEN "sigterm" ELSE "crash"
    /\ PosterDies
    /\ UNCHANGED <<markers, reported, spoiled>>

\* The box boots, and /run is empty.
Reboot ==
    /\ phase = "down"
    /\ configMark' = FALSE /\ cleanMark' = FALSE /\ ended' = "crash"
    /\ UNCHANGED <<phase, reported, spoiled, posterVars>>

\* Somebody starts a second daemon by hand, which reads the markers before it
\* is refused the PID lock, or rejects its own configuration.
Rival ==
    /\ phase /= "down"
    /\ spoiled' = TRUE
    /\ \/ MarkersRead
       \/ configMark' = TRUE /\ UNCHANGED cleanMark
    /\ UNCHANGED <<phase, reported, ended, posterVars>>

Next == Begin \/ RejectConfig \/ Classify \/ TakePidLock \/ Report \/ Sigterm \/ Drain \/ LeaveMarker
        \/ PosterStep \/ Die \/ Reboot \/ Rival

Spec == Init /\ [][Next]_vars

\* The choreography and the tasks it waits for go on as long as they can: their
\* awaits are bounded by time-outs.
FairSpec ==
    /\ Spec
    /\ WF_vars(Drain) /\ WF_vars(LeaveMarker)
    /\ WF_vars(PosterStep /\ ConsumerStep) /\ WF_vars(PosterStep /\ DrainAttempt)

-----------------------------------------------------------------------------
(* Properties *)

TypeOK ==
    /\ phase \in {"down", "preflight", "classified", "running", "stopping", "draining", "unwinding"}
    /\ configMark \in BOOLEAN /\ cleanMark \in BOOLEAN
    /\ spoiled \in BOOLEAN
    /\ reported \in Reasons /\ ended \in Reasons
    /\ PosterTypeOK

\* lifecycle.py, classify_prior_run: unless a second instance interfered or a
\* marker could not be written or removed, a start reports a clean shutdown or a
\* rejected configuration whenever the run before it ended in one, whatever
\* crashes, reboots, rivals and failing markers came earlier.
EndReported ==
    [][(phase = "preflight" /\ phase' = "classified" /\ ~spoiled /\ ended /= "crash") => reported' = ended]_vars

\* FR-53: a SIGTERM, unless the process is killed before, takes the daemon to the
\* point where only the scrape thread is left, whatever the poster was doing.
Unwinds ==
    (phase = "stopping") ~> (phase = "down" \/ (phase = "unwinding" /\ consumer = "ended"))

\* ADR-0011 section 3 ("After the third failure, the payload is dropped and a
\* webhook_delivery_failed event is emitted"): as long as the daemon runs, a
\* payload that was accepted is sent or dropped in the end.
Settled ==
    \A e \in Envelopes :
       (phase = "running" /\ fate[e] = "accepted") ~> (phase /= "running" \/ fate[e] /= "accepted")
=============================================================================
