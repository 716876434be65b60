---------------------------- MODULE EventSources ----------------------------
(***************************************************************************)
(* The producers of wake signals under event_sources.restart_on_crash, the *)
(* two consumers the inotify producer feeds (the tailer of the Zao log and *)
(* the writer of events.jsonl), kmsg's deduplication, and the queue the    *)
(* cycle loop drains.                                                      *)
(*                                                                         *)
(* A file is its inode: a rotation takes the old one from its name, makes  *)
(* a new one under it, and leaves watches and descriptors with the old     *)
(* one.  inotify merges an event with an equal one that ends its queue.    *)
(* The tailer parses the whole log again at every event, so that offsets   *)
(* and inode numbers only choose what it logs.                             *)
(***************************************************************************)
EXTENDS Integers, SequencesExt

CONSTANTS
    Sources,      \* of "asyncinotify", "rtnetlink", "udev", "kmsg"
    Fragile,      \* those whose system calls may fail
    Backoffs,     \* the delays of restart_on_crash
    ResetAfter,   \* reset_after_uptime_s
    QueueSize,    \* maxsize of event_queue
    Window,       \* of KmsgDedup
    MaxInbox      \* model bound: events inotify holds

ASSUME SourcesAssumption ==
    /\ "asyncinotify" \in Sources /\ Fragile \subseteq Sources
    /\ Backoffs \in Seq(Nat \ {0}) /\ Backoffs /= << >>
    /\ {ResetAfter, QueueSize, Window} \subseteq Nat \ {0} /\ MaxInbox \in Nat

VARIABLES
    status,    \* source -> "running", "waiting", "ended" or "cancelled"
    attempt,   \* source -> crashes in a row, as far as they tell
    wait,      \* source -> what is left of its delay
    up,        \* source -> how long it has run, up to ResetAfter
    queue,     \* wake signals
    inbox,     \* inotify events not yet handled
    watch,     \* zao_file_watch: "none", "live", or that of an old log: "moved" for
               \* one that still exists, "over" for one that does not
    zaoLog,    \* what the Zao log says: "absent", "empty", "free" or "held"
    snapshot,  \* what the tailer says
    fd,        \* of the event log: "current", "rotated" (the old file) or "none"
    quiet,     \* what is left of kmsg's window
    misled,    \* history: an old log's end was taken for that of the log
    blind,     \* history: the log changed unseen, or could not be read, since it was
               \* last parsed
    unseen     \* history: the event log was rotated unseen, or its reopen failed

supervisorVars == <<status, attempt, wait, up>>
tailVars == <<watch, snapshot, misled, blind>>
logVars == <<fd, unseen>>
vars == <<supervisorVars, queue, inbox, tailVars, zaoLog, logVars, quiet>>

\* "old_gone" is told of a log that had lost its name before.
Events == {"modified", "gone", "old_gone", "created", "rotated"}

\* ZaoLogParser.snapshot, as far as one line goes.
Parse(log) == IF log \in {"free", "held"} THEN log ELSE "unknown"

Waiting == [s \in Sources |-> "waiting"]
Zeros == [s \in Sources |-> 0]

\* A daemon that has just been started: no producer runs yet.
Init ==
    /\ zaoLog \in {"absent", "free"} /\ misled = FALSE
    /\ \/ snapshot = Parse(zaoLog) /\ blind = FALSE
       \/ snapshot = "unknown" /\ blind = TRUE /\ "asyncinotify" \in Fragile
    /\ status = Waiting /\ attempt = Zeros /\ wait = Zeros /\ up = Zeros
    /\ queue = 0 /\ inbox = << >> /\ watch = "none" /\ quiet = 0
    /\ fd = "current" /\ unseen = FALSE

-----------------------------------------------------------------------------
(* restart_on_crash *)

\* The others put from a callback of the event loop.
Coroutines == {"asyncinotify", "rtnetlink"}

AtMost(n, bound) == IF n < bound THEN n ELSE bound

\* Mutant: the end of the list of delays is the end of the producer.
ReadyWhileDelaysLast(s) == status[s] = "waiting" /\ wait[s] = 0 /\ attempt[s] < Len(Backoffs)

Ready(s) == status[s] = "waiting" /\ wait[s] = 0

\* A new inotify instance and its watches; what the old one held is lost.
Start(s) ==
    /\ Ready(s)
    /\ status' = [status EXCEPT ![s] = "running"] /\ up' = [up EXCEPT ![s] = 0]
    /\ IF s = "asyncinotify"
         THEN /\ inbox' = << >> /\ watch' = (IF zaoLog = "absent" THEN "none" ELSE "live")
              /\ blind' = (blind \/ \E e \in ToSet(inbox) : e /= "rotated")
              /\ unseen' = (unseen \/ "rotated" \in ToSet(inbox))
         ELSE UNCHANGED <<inbox, watch, blind, unseen>>
    /\ UNCHANGED <<attempt, wait, queue, snapshot, misled, zaoLog, fd, quiet>>

\* `except Exception`: wait, longer each time, unless it had run for long.
Crashed(s) ==
    LET n == IF up[s] >= ResetAfter THEN 0 ELSE attempt[s]
    IN  /\ status' = [status EXCEPT ![s] = "waiting"]
        /\ wait' = [wait EXCEPT ![s] = Backoffs[AtMost(n + 1, Len(Backoffs))]]
        /\ attempt' = [attempt EXCEPT ![s] = AtMost(n + 1, Len(Backoffs))]
        /\ up' = [up EXCEPT ![s] = 0]

\* What is raised in a callback of the event loop never gets to the supervisor: a
\* producer that puts from one crashes only while it opens its device.
Crash(s) ==
    /\ status[s] = "running" /\ s \in Fragile /\ (s \in Coroutines \/ up[s] = 0)
    /\ Crashed(s)
    /\ UNCHANGED <<queue, inbox, tailVars, zaoLog, logVars, quiet>>

\* A producer that returns is not started again; the others wait for ever.
Return(s) ==
    /\ status[s] = "running" /\ s \in Fragile \cap Coroutines
    /\ status' = [status EXCEPT ![s] = "ended"] /\ up' = [up EXCEPT ![s] = 0]
    /\ UNCHANGED <<attempt, wait, queue, inbox, tailVars, zaoLog, logVars, quiet>>

-----------------------------------------------------------------------------
(* Wake signals *)

\* put_nowait, the last thing a producer does with an event: QueueFull ends a
\* coroutine, and a callback of add_reader not.
Put(s) ==
    IF queue < QueueSize THEN queue' = queue + 1 /\ UNCHANGED supervisorVars
    ELSE /\ UNCHANGED queue
         /\ IF s \in Coroutines THEN Crashed(s) ELSE UNCHANGED supervisorVars

\* A device comes or goes, a link goes up or down.
Notify(s) ==
    /\ s \in {"udev", "rtnetlink"} /\ status[s] = "running"
    /\ Put(s)
    /\ UNCHANGED <<inbox, tailVars, zaoLog, logVars, quiet>>

\* A kernel message of a kind that counts: one wake in a window.
KernelMessage ==
    /\ "kmsg" \in Sources /\ status["kmsg"] = "running"
    /\ IF quiet > 0 THEN UNCHANGED <<supervisorVars, queue, quiet>>
                    ELSE quiet' = Window /\ Put("kmsg")
    /\ UNCHANGED <<inbox, tailVars, zaoLog, logVars>>

\* The cycle loop drains the queue and looks at everything.
Drain ==
    /\ queue' = 0
    /\ UNCHANGED <<supervisorVars, inbox, tailVars, zaoLog, logVars, quiet>>

-----------------------------------------------------------------------------
(* asyncinotify_producer *)

Handling(event) ==
    /\ status["asyncinotify"] = "running"
    /\ inbox /= << >> /\ Head(inbox) = event
    /\ inbox' = Tail(inbox)

\* ZaoLogParser.snapshot, on the whole file: unknown if it cannot be read.
ParsesLog ==
    /\ misled' = FALSE
    /\ \/ snapshot' = Parse(zaoLog) /\ blind' = FALSE
       \/ snapshot' = "unknown" /\ blind' = TRUE /\ "asyncinotify" \in Fragile

\* Mutant: only what was appended is parsed; a truncation is not noticed.
ReparseAppended ==
    IF zaoLog \in {"absent", "empty"} THEN UNCHANGED <<supervisorVars, queue, snapshot, misled, blind>>
    ELSE ParsesLog /\ Put("asyncinotify")

\* on_inotify_event: parse, and wake the loop, unless the log has gone meanwhile; a
\* stat that fails otherwise ends the producer.
Reparse ==
    IF zaoLog = "absent" THEN UNCHANGED <<supervisorVars, queue, snapshot, misled, blind>>
    ELSE \/ ParsesLog /\ Put("asyncinotify")
         \/ /\ "asyncinotify" \in Fragile /\ Crashed("asyncinotify")
            /\ blind' = TRUE /\ UNCHANGED <<queue, snapshot, misled>>

ZaoModified ==
    /\ Handling("modified")
    /\ Reparse
    /\ UNCHANGED <<watch, zaoLog, logVars, quiet>>

\* Moved or deleted: whether that file was still the log is not asked.
ZaoGone ==
    /\ \E event \in {"gone", "old_gone"} : Handling(event) /\ misled' = (event = "old_gone")
    /\ snapshot' = "unknown"
    /\ Put("asyncinotify")
    /\ UNCHANGED <<watch, blind, zaoLog, logVars, quiet>>

\* The first file to appear is watched, a later one is not; if it has gone
\* meanwhile, add_watch raises.
ZaoCreated ==
    /\ Handling("created")
    /\ IF watch = "none" /\ zaoLog = "absent"
         THEN Crashed("asyncinotify") /\ UNCHANGED <<watch, queue, snapshot, misled, blind>>
         ELSE /\ watch' = IF watch = "none" THEN "live" ELSE watch
              /\ Reparse
    /\ UNCHANGED <<zaoLog, logVars, quiet>>

\* Mutant: the signal first; when the queue is full, the log is not reopened.
ReopenedAfterPut == IF queue < QueueSize THEN "current" ELSE fd

Reopened == "current"

\* on_rotate: EventLogWriter.reopen closes the old descriptor before it opens the
\* new one.
EventLogReopens ==
    /\ Handling("rotated")
    /\ \/ /\ fd' = Reopened /\ Put("asyncinotify")
          /\ unseen' = FALSE
       \/ /\ "asyncinotify" \in Fragile
          /\ fd' = "none" /\ Crashed("asyncinotify")
          /\ unseen' = TRUE
          /\ UNCHANGED queue
    /\ UNCHANGED <<tailVars, zaoLog, quiet>>

-----------------------------------------------------------------------------
(* The files *)

Listening == status["asyncinotify"] = "running"
Room == Len(inbox) < MaxInbox

Told(event) == inbox' = IF inbox /= << >> /\ Last(inbox) = event THEN inbox
                        ELSE Append(inbox, event)

\* Zao appends to its log, or truncates it.
ZaoWrites ==
    /\ Room /\ zaoLog /= "absent"
    /\ zaoLog' \in {"empty", "free", "held"} \ {zaoLog}
    /\ IF Listening /\ watch = "live" THEN Told("modified") /\ UNCHANGED blind
                                      ELSE blind' = TRUE /\ UNCHANGED inbox
    /\ UNCHANGED <<supervisorVars, queue, watch, snapshot, misled, logVars, quiet>>

\* The log is renamed or deleted; a watch stays with its file, and the producer
\* keeps it.  Of a deleted file that is still open inotify tells when it is closed.
ZaoRemoves ==
    /\ Room /\ zaoLog /= "absent"
    /\ zaoLog' = "absent"
    /\ IF Listening /\ watch = "live"
         THEN \/ Told("gone") /\ watch' \in {"moved", "over"} /\ UNCHANGED blind
              \/ UNCHANGED inbox /\ watch' = "moved" /\ blind' = TRUE
         ELSE blind' = TRUE /\ UNCHANGED <<inbox, watch>>
    /\ UNCHANGED <<supervisorVars, queue, snapshot, misled, logVars, quiet>>

\* The next rotation, or whoever still has it open, comes to the old log: it is
\* written to, renamed once more, deleted or closed at last.
OldLogChanges ==
    /\ Room /\ Listening /\ watch = "moved"
    /\ \/ Told("modified") /\ UNCHANGED watch
       \/ Told("old_gone") /\ watch' \in {"moved", "over"}
    /\ UNCHANGED <<supervisorVars, queue, snapshot, misled, blind, zaoLog, logVars, quiet>>

ZaoCreates ==
    /\ Room /\ zaoLog = "absent"
    /\ zaoLog' = "empty"
    /\ IF Listening THEN Told("created") /\ UNCHANGED blind
                    ELSE blind' = TRUE /\ UNCHANGED inbox
    /\ UNCHANGED <<supervisorVars, queue, watch, snapshot, misled, logVars, quiet>>

\* logrotate, on events.jsonl.
EventLogRotates ==
    /\ Room
    /\ fd' = IF fd = "current" THEN "rotated" ELSE fd
    /\ IF Listening THEN Told("rotated") /\ UNCHANGED unseen
                    ELSE unseen' = TRUE /\ UNCHANGED inbox
    /\ UNCHANGED <<supervisorVars, queue, tailVars, zaoLog, quiet>>

-----------------------------------------------------------------------------
Tick ==
    /\ wait' = [s \in Sources |-> IF wait[s] > 0 THEN wait[s] - 1 ELSE 0]
    /\ up' = [s \in Sources |-> IF status[s] = "running" /\ s \in Fragile \cup Coroutines
                                 THEN AtMost(up[s] + 1, ResetAfter) ELSE 0]
    /\ quiet' = IF quiet > 0 THEN quiet - 1 ELSE 0
    /\ UNCHANGED <<status, attempt, queue, inbox, tailVars, zaoLog, logVars>>

\* Step 3 of the SIGTERM choreography; the process ends.
Cancel ==
    /\ \E s \in Sources : status[s] /= "cancelled"
    /\ status' = [s \in Sources |-> "cancelled"]
    /\ attempt' = Zeros /\ wait' = Zeros /\ up' = Zeros
    /\ queue' = 0 /\ inbox' = << >> /\ watch' = "none" /\ quiet' = 0
    /\ snapshot' = "unknown" /\ misled' = FALSE /\ blind' = FALSE /\ fd' = "none" /\ unseen' = FALSE
    /\ UNCHANGED zaoLog

\* The daemon starts again.
Restart ==
    /\ \A s \in Sources : status[s] = "cancelled"
    /\ status' = Waiting
    /\ ParsesLog
    /\ fd' = "current" /\ unseen' = FALSE
    /\ UNCHANGED <<attempt, wait, up, queue, inbox, watch, zaoLog, quiet>>

Handle == ZaoModified \/ ZaoGone \/ ZaoCreated \/ EventLogReopens

Next ==
    \/ \E s \in Sources : Start(s) \/ Crash(s) \/ Return(s) \/ Notify(s)
    \/ KernelMessage \/ Drain \/ Handle
    \/ ZaoWrites \/ ZaoRemoves \/ OldLogChanges \/ ZaoCreates \/ EventLogRotates
    \/ Tick \/ Cancel \/ Restart

Spec == Init /\ [][Next]_vars

\* Time passes, the event loop runs, and the cycle loop drains its queue.
FairSpec == /\ Spec /\ WF_vars(Tick) /\ WF_vars(Drain)
            /\ WF_vars(Handle) /\ \A s \in Sources : WF_vars(Start(s))

-----------------------------------------------------------------------------
(* Properties *)

TypeOK ==
    /\ status \in [Sources -> {"running", "waiting", "ended", "cancelled"}]
    /\ attempt \in [Sources -> 0 .. Len(Backoffs)]
    /\ wait \in [Sources -> Nat] /\ up \in [Sources -> 0 .. ResetAfter]
    /\ queue \in 0 .. QueueSize /\ inbox \in Seq(Events) /\ Len(inbox) <= MaxInbox
    /\ watch \in {"none", "live", "moved", "over"} /\ fd \in {"current", "rotated", "none"}
    /\ zaoLog \in {"absent", "empty", "free", "held"}
    /\ snapshot \in {"unknown", "free", "held"} /\ quiet \in 0 .. Window

\* FR-10, ADR-0003: once what inotify had to tell is handled, the tailer says what
\* the log says, over appends, truncations, rotations and removals in any order,
\* unless the log changed while nothing watched it or could not be read.  When the
\* end of an old log was taken for that of the log, it says nothing, but never what
\* is not so.
TailerFollows ==
    Listening /\ inbox = << >> /\ ~blind =>
        snapshot = Parse(zaoLog) \/ (misled /\ snapshot = "unknown")

\* R-03: after a rotation the producer was told of, events go to the new file.
WriterFollows == Listening /\ inbox = << >> /\ ~unseen => fd = "current"

\* E-01 (self-healing): a source that crashed runs again, however often it has
\* crashed before, until it is cancelled.
ComesBack == \A s \in Sources :
    status[s] = "waiting" ~> status[s] \in {"running", "cancelled"}
=============================================================================
