-------------------------- MODULE EventSources_proofs --------------------------
(***************************************************************************)
(* The wake signals and the two consumers of inotify, for every set of     *)
(* producers, list of delays, queue and number of events that inotify      *)
(* holds.                                                                  *)
(***************************************************************************)
EXTENDS EventSources, TLAPS

Statuses == {"running", "waiting", "ended", "cancelled"}

LEMMA Constants ==
    /\ Fragile \subseteq Sources
    /\ Len(Backoffs) \in Nat \ {0}
    /\ \A i \in 1 .. Len(Backoffs) : Backoffs[i] \in Nat
    /\ ResetAfter \in Nat \ {0} /\ QueueSize \in Nat \ {0} /\ Window \in Nat \ {0}
    /\ MaxInbox \in Nat /\ "asyncinotify" \in Sources
  <1>1. Backoffs \in Seq(Nat \ {0}) /\ Backoffs /= << >>
    BY SourcesAssumption DEF SourcesAssumption
  <1>2. Len(Backoffs) \in Nat \ {0} /\ \A i \in 1 .. Len(Backoffs) : Backoffs[i] \in Nat
    BY <1>1
  <1> QED
    BY <1>2, SourcesAssumption DEF SourcesAssumption

-----------------------------------------------------------------------------
(* Types *)

\* The part of TypeOK that restart_on_crash keeps.
SupervisorOK ==
    /\ status \in [Sources -> Statuses] /\ attempt \in [Sources -> 0 .. Len(Backoffs)]
    /\ wait \in [Sources -> Nat] /\ up \in [Sources -> 0 .. ResetAfter]

LEMMA CrashedTyped ==
    ASSUME SupervisorOK, NEW s \in Sources, Crashed(s) PROVE SupervisorOK'
  <1> DEFINE n == IF up[s] >= ResetAfter THEN 0 ELSE attempt[s]
  <1>1. n \in 0 .. Len(Backoffs)
    BY Constants DEF SupervisorOK
  <1>2. AtMost(n + 1, Len(Backoffs)) \in 1 .. Len(Backoffs)
    BY <1>1, Constants DEF AtMost
  <1>3. Backoffs[AtMost(n + 1, Len(Backoffs))] \in Nat
    BY <1>2, Constants
  <1> QED
    BY <1>2, <1>3, Constants DEF SupervisorOK, Statuses, Crashed

LEMMA PutTyped ==
    ASSUME SupervisorOK, queue \in 0 .. QueueSize, NEW s \in Sources, Put(s)
    PROVE  SupervisorOK' /\ queue' \in 0 .. QueueSize /\ queue' > 0
  <1>1. CASE queue < QueueSize
    BY <1>1, Constants DEF Put, supervisorVars, SupervisorOK
  <1>2. CASE ~(queue < QueueSize) /\ s \in Coroutines
    BY <1>2, CrashedTyped, Constants DEF Put
  <1>3. CASE ~(queue < QueueSize) /\ s \notin Coroutines
    BY <1>3, Constants DEF Put, supervisorVars, SupervisorOK
  <1> QED
    BY <1>1, <1>2, <1>3

\* The part of TypeOK about inotify and the files.
FilesOK ==
    /\ inbox \in Seq(Events) /\ Len(inbox) <= MaxInbox
    /\ watch \in {"none", "live", "moved", "over"} /\ fd \in {"current", "rotated", "none"}
    /\ zaoLog \in {"absent", "empty", "free", "held"}
    /\ snapshot \in {"unknown", "free", "held"}
    /\ misled \in BOOLEAN /\ blind \in BOOLEAN /\ unseen \in BOOLEAN

\* TypeOK, and that histories are Boolean.
Typed ==
    /\ SupervisorOK /\ FilesOK
    /\ queue \in 0 .. QueueSize /\ quiet \in 0 .. Window

LEMMA TypedIsTypeOK == Typed => TypeOK
  BY DEF Typed, SupervisorOK, FilesOK, Statuses, TypeOK

\* What a producer that has not run yet is given.
LEMMA Blank ==
    /\ Waiting \in [Sources -> Statuses]
    /\ Zeros \in [Sources -> 0 .. Len(Backoffs)] /\ Zeros \in [Sources -> Nat]
    /\ Zeros \in [Sources -> 0 .. ResetAfter]
    /\ << >> \in Seq(Events) /\ Len(<< >>) <= MaxInbox
    /\ 0 \in 0 .. QueueSize /\ 0 \in 0 .. Window
  <1>1. Waiting \in [Sources -> Statuses]
    BY DEF Waiting, Statuses
  <1>2. /\ Zeros \in [Sources -> 0 .. Len(Backoffs)] /\ Zeros \in [Sources -> Nat]
        /\ Zeros \in [Sources -> 0 .. ResetAfter]
    BY Constants DEF Zeros
  <1>3. << >> \in Seq(Events) /\ Len(<< >>) <= MaxInbox
    BY Constants
  <1> QED
    BY <1>1, <1>2, <1>3, Constants

LEMMA TypedInitially == Init => Typed
  <1> SUFFICES ASSUME Init PROVE Typed
    OBVIOUS
  <1>1. SupervisorOK
    BY Blank DEF Init, SupervisorOK
  <1>2. FilesOK
    BY Blank DEF Init, FilesOK, Parse
  <1> QED
    BY <1>1, <1>2, Blank DEF Init, Typed

LEMMA TypedStep == Typed /\ [Next]_vars => Typed'
  <1> SUFFICES ASSUME Typed, [Next]_vars PROVE Typed'
    OBVIOUS
  <1>0. SupervisorOK /\ FilesOK /\ queue \in 0 .. QueueSize /\ quiet \in 0 .. Window
        /\ zaoLog \in {"absent", "empty", "free", "held"}
        /\ Parse(zaoLog) \in {"unknown", "free", "held"}
    BY DEF Typed, FilesOK, Parse
  <1> USE DEF Typed, tailVars, logVars
  <1>1. ASSUME NEW s \in Sources, Start(s) PROVE Typed'
    <2>1. SupervisorOK'
      BY <1>0, <1>1, Constants DEF Start, SupervisorOK, Statuses
    <2>2. FilesOK'
      BY <1>0, <1>1, Blank DEF Start, FilesOK
    <2> QED
      BY <1>0, <1>1, <2>1, <2>2 DEF Start
  <1>2. ASSUME NEW s \in Sources, Crash(s) PROVE Typed'
    BY <1>0, <1>2, CrashedTyped DEF Crash, FilesOK
  <1>3. ASSUME NEW s \in Sources, Return(s) PROVE Typed'
    BY <1>0, <1>3, Constants DEF Return, SupervisorOK, FilesOK, Statuses
  <1>4. ASSUME NEW s \in Sources, Notify(s) PROVE Typed'
    BY <1>0, <1>4, PutTyped DEF Notify, FilesOK
  <1>5. CASE KernelMessage
    <2>1. CASE quiet > 0
      BY <1>0, <1>5, <2>1 DEF KernelMessage, SupervisorOK, FilesOK, supervisorVars
    <2>2. CASE ~(quiet > 0)
      BY <1>0, <1>5, <2>2, PutTyped, Constants DEF KernelMessage, FilesOK
    <2> QED
      BY <2>1, <2>2
  <1>6. CASE Drain
    <2>1. SupervisorOK' /\ FilesOK'
      BY <1>0, <1>6 DEF Drain, SupervisorOK, FilesOK, supervisorVars
    <2> QED
      BY <1>0, <1>6, <2>1, Blank DEF Drain
  <1>7. ASSUME NEW e, Handling(e)
        PROVE  inbox' \in Seq(Events) /\ Len(inbox') <= MaxInbox
    BY <1>0, <1>7, Constants DEF Handling, FilesOK
  <1>8. ASSUME Reparse, zaoLog' = zaoLog
        PROVE  /\ SupervisorOK' /\ queue' \in 0 .. QueueSize
               /\ snapshot' \in {"unknown", "free", "held"}
               /\ misled' \in BOOLEAN /\ blind' \in BOOLEAN
    <2>1. CASE zaoLog = "absent"
      BY <1>0, <1>8, <2>1 DEF Reparse, SupervisorOK, FilesOK, supervisorVars
    <2>2. CASE ParsesLog /\ Put("asyncinotify")
      BY <1>0, <1>8, <2>2, PutTyped, Constants DEF ParsesLog
    <2>3. CASE Crashed("asyncinotify") /\ blind' = TRUE /\ UNCHANGED <<queue, snapshot, misled>>
      BY <1>0, <2>3, CrashedTyped, Constants DEF FilesOK
    <2> QED
      BY <1>8, <2>1, <2>2, <2>3 DEF Reparse
  <1>9. CASE ZaoModified
    BY <1>0, <1>7, <1>8, <1>9 DEF ZaoModified, FilesOK
  <1>10. CASE ZaoGone
    BY <1>0, <1>7, <1>10, PutTyped, Constants DEF ZaoGone, FilesOK
  <1>11. CASE ZaoCreated
    <2>1. CASE watch = "none" /\ zaoLog = "absent"
      BY <1>0, <1>7, <1>11, <2>1, CrashedTyped, Constants DEF ZaoCreated, FilesOK
    <2>2. CASE ~(watch = "none" /\ zaoLog = "absent")
      BY <1>0, <1>7, <1>8, <1>11, <2>2 DEF ZaoCreated, FilesOK
    <2> QED
      BY <2>1, <2>2
  <1>12. CASE EventLogReopens
    BY <1>0, <1>7, <1>12, PutTyped, CrashedTyped, Constants DEF EventLogReopens, Reopened, FilesOK
  <1>13. ASSUME NEW e \in Events, Told(e), Room
         PROVE  inbox' \in Seq(Events) /\ Len(inbox') <= MaxInbox
    BY <1>0, <1>13, Constants DEF Told, Room, FilesOK
  <1>14. CASE ZaoWrites
    BY <1>0, <1>13, <1>14 DEF ZaoWrites, FilesOK, SupervisorOK, supervisorVars, Events
  <1>15. CASE ZaoRemoves
    BY <1>0, <1>13, <1>15 DEF ZaoRemoves, FilesOK, SupervisorOK, supervisorVars, Events
  <1>22. CASE OldLogChanges
    BY <1>0, <1>13, <1>22 DEF OldLogChanges, FilesOK, SupervisorOK, supervisorVars, Events
  <1>16. CASE ZaoCreates
    BY <1>0, <1>13, <1>16 DEF ZaoCreates, FilesOK, SupervisorOK, supervisorVars, Events
  <1>17. CASE EventLogRotates
    BY <1>0, <1>13, <1>17 DEF EventLogRotates, FilesOK, SupervisorOK, supervisorVars, Events
  <1>18. CASE Tick
    BY <1>0, <1>18, Constants DEF Tick, FilesOK, SupervisorOK, AtMost
  <1>19. CASE Cancel
    <2>1. SupervisorOK'
      BY <1>0, <1>19, Blank DEF Cancel, SupervisorOK, Statuses
    <2>2. FilesOK'
      BY <1>0, <1>19, Blank DEF Cancel, FilesOK
    <2> QED
      BY <1>0, <1>19, <2>1, <2>2, Blank DEF Cancel
  <1>20. CASE Restart
    BY <1>0, <1>20, Constants DEF Restart, ParsesLog, FilesOK, SupervisorOK, Statuses, Waiting
  <1>21. CASE UNCHANGED vars
    BY <1>0, <1>21 DEF vars, FilesOK, SupervisorOK, supervisorVars
  <1> QED
    BY <1>1, <1>2, <1>3, <1>4, <1>5, <1>6, <1>9, <1>10, <1>11, <1>12, <1>14, <1>15, <1>16,
       <1>17, <1>18, <1>19, <1>20, <1>21, <1>22 DEF Next, Handle

LEMMA TypedAlways == Spec => []Typed
  BY TypedInitially, TypedStep, PTL DEF Spec

\* The variables have their types: TypeOK of EventSources.
THEOREM SourcesTyped == Spec => []TypeOK
  BY TypedAlways, TypedIsTypeOK, PTL

-----------------------------------------------------------------------------
(* The event log *)

\* A rotation that is not seen to yet is still to be handled.
RotationPending ==
    status["asyncinotify"] /= "cancelled" /\ ~unseen /\ fd /= "current"
        => \E i \in 1 .. Len(inbox) : inbox[i] = "rotated"

LEMMA PutKeepsCancelled ==
    ASSUME SupervisorOK, NEW s \in Sources, Crashed(s) \/ Put(s) \/ UNCHANGED supervisorVars,
           status["asyncinotify"] = "cancelled", status[s] = "running"
    PROVE  status'["asyncinotify"] = "cancelled"
  BY Constants DEF SupervisorOK, Crashed, Put, supervisorVars

\* Nothing but a restart ends a cancellation.
LEMMA OnlyRestartRevives ==
    Typed /\ [Next]_vars /\ ~Restart /\ status["asyncinotify"] = "cancelled"
        => status'["asyncinotify"] = "cancelled"
  <1> SUFFICES ASSUME Typed, [Next]_vars, ~Restart, status["asyncinotify"] = "cancelled"
               PROVE  status'["asyncinotify"] = "cancelled"
    OBVIOUS
  <1>0. SupervisorOK /\ "asyncinotify" \in Sources
    BY Constants DEF Typed
  <1>1. ASSUME NEW s \in Sources, Start(s) \/ Crash(s) \/ Return(s)
        PROVE status'["asyncinotify"] = "cancelled"
    BY <1>0, <1>1, PutKeepsCancelled DEF Start, Ready, Crash, Return, SupervisorOK
  <1>2. ASSUME NEW s \in Sources, Notify(s) PROVE status'["asyncinotify"] = "cancelled"
    BY <1>0, <1>2, PutKeepsCancelled DEF Notify
  <1>3. CASE KernelMessage
    <2>1. "kmsg" \in Sources /\ status["kmsg"] = "running"
      BY <1>3 DEF KernelMessage
    <2>2. Put("kmsg") \/ UNCHANGED supervisorVars
      BY <1>3 DEF KernelMessage
    <2> QED
      BY <1>0, <2>1, <2>2, PutKeepsCancelled
  <1>4. ~Handle
    BY <1>0 DEF Handle, ZaoModified, ZaoGone, ZaoCreated, EventLogReopens, Handling
  <1>5. CASE Drain \/ ZaoWrites \/ ZaoRemoves \/ OldLogChanges \/ ZaoCreates \/ EventLogRotates \/ Tick
    BY <1>0, <1>5 DEF Drain, ZaoWrites, ZaoRemoves, OldLogChanges, ZaoCreates, EventLogRotates, Tick, supervisorVars
  <1>6. CASE Cancel
    BY <1>0, <1>6 DEF Cancel
  <1>7. CASE UNCHANGED vars
    BY <1>0, <1>7 DEF vars, supervisorVars
  <1> QED
    BY <1>1, <1>2, <1>3, <1>4, <1>5, <1>6, <1>7 DEF Next

\* Where an event goes that inotify tells of, and what handling one leaves.
LEMMA ToldLast ==
    ASSUME inbox \in Seq(Events), NEW e \in Events, Told(e)
    PROVE  /\ inbox' \in Seq(Events) /\ Len(inbox') >= 1 /\ inbox'[Len(inbox')] = e
           /\ Len(inbox') >= Len(inbox)
           /\ \A i \in 1 .. Len(inbox) : inbox'[i] = inbox[i]
           /\ \A i \in 1 .. Len(inbox') : i > Len(inbox) => inbox'[i] = e
  <1>1. CASE inbox /= << >> /\ Last(inbox) = e
    BY <1>1 DEF Told, Last
  <1>2. CASE ~(inbox /= << >> /\ Last(inbox) = e)
    BY <1>2 DEF Told
  <1> QED
    BY <1>1, <1>2

LEMMA HandledFirst ==
    ASSUME inbox \in Seq(Events), NEW e, Handling(e)
    PROVE  /\ Len(inbox) >= 1 /\ inbox[1] = e
           /\ Len(inbox') = Len(inbox) - 1 /\ inbox' \in Seq(Events)
           /\ \A i \in 1 .. Len(inbox') : inbox'[i] = inbox[i + 1]
  BY DEF Handling

LEMMA RotationStep == Typed /\ RotationPending /\ [Next]_vars => RotationPending'
  <1> SUFFICES ASSUME Typed, RotationPending, [Next]_vars,
                      status'["asyncinotify"] /= "cancelled", ~unseen', fd' /= "current"
               PROVE  \E i \in 1 .. Len(inbox') : inbox'[i] = "rotated"
    BY DEF RotationPending
  <1>0. inbox \in Seq(Events) /\ unseen \in BOOLEAN /\ "rotated" \in Events
    BY DEF Typed, FilesOK, Events
  <1>1. ~Restart
    BY DEF Restart
  <1>2. status["asyncinotify"] /= "cancelled"
    BY <1>1, OnlyRestartRevives
  <1>3. ASSUME UNCHANGED logVars PROVE \E i \in 1 .. Len(inbox) : inbox[i] = "rotated"
    BY <1>2, <1>3 DEF RotationPending, logVars
  <1>4. ASSUME UNCHANGED logVars, UNCHANGED inbox
        PROVE  \E i \in 1 .. Len(inbox') : inbox'[i] = "rotated"
    BY <1>3, <1>4
  <1>5. ASSUME UNCHANGED logVars, NEW e \in {"modified", "gone", "old_gone", "created"}, Handling(e)
        PROVE  \E i \in 1 .. Len(inbox') : inbox'[i] = "rotated"
    <2>1. PICK i \in 1 .. Len(inbox) : inbox[i] = "rotated"
      BY <1>3, <1>5
    <2>2. /\ inbox[1] = e /\ Len(inbox') = Len(inbox) - 1 /\ Len(inbox) \in Nat
          /\ \A k \in 1 .. Len(inbox') : inbox'[k] = inbox[k + 1]
      BY <1>0, <1>5, HandledFirst
    <2>3. i /= 1
      BY <1>5, <2>1, <2>2
    <2>4. i - 1 \in 1 .. Len(inbox') /\ inbox'[i - 1] = inbox[i]
      BY <2>1, <2>2, <2>3
    <2> QED
      BY <2>1, <2>4
  <1>6. ASSUME UNCHANGED logVars, NEW e \in Events, Told(e)
        PROVE  \E i \in 1 .. Len(inbox') : inbox'[i] = "rotated"
    <2>1. PICK i \in 1 .. Len(inbox) : inbox[i] = "rotated"
      BY <1>3, <1>6
    <2>2. i \in 1 .. Len(inbox') /\ inbox'[i] = "rotated"
      BY <1>0, <1>6, <2>1, ToldLast
    <2> QED
      BY <2>2
  <1>7. ASSUME NEW s \in Sources, Start(s)
        PROVE  \E i \in 1 .. Len(inbox') : inbox'[i] = "rotated"
    <2>1. CASE s = "asyncinotify"
      <3>1. ~unseen /\ fd /= "current" /\ "rotated" \notin ToSet(inbox)
        BY <1>0, <1>7, <2>1 DEF Start
      <3>2. \A i \in 1 .. Len(inbox) : inbox[i] \in ToSet(inbox)
        BY <1>0 DEF ToSet
      <3> QED
        BY <1>2, <3>1, <3>2 DEF RotationPending
    <2>2. CASE s /= "asyncinotify"
      BY <1>4, <1>7, <2>2 DEF Start, logVars
    <2> QED
      BY <2>1, <2>2
  <1>8. ASSUME NEW s \in Sources, Crash(s) \/ Return(s) \/ Notify(s)
        PROVE UNCHANGED <<inbox, logVars>>
    BY <1>8 DEF Crash, Return, Notify
  <1>9. CASE KernelMessage \/ Drain \/ Tick
    BY <1>4, <1>9 DEF KernelMessage, Drain, Tick
  <1>10. CASE ZaoModified \/ ZaoGone \/ ZaoCreated
    BY <1>5, <1>10 DEF ZaoModified, ZaoGone, ZaoCreated
  <1>11. ~EventLogReopens
    BY DEF EventLogReopens, Reopened
  <1>12. CASE ZaoWrites \/ ZaoRemoves \/ OldLogChanges \/ ZaoCreates
    BY <1>4, <1>6, <1>12 DEF ZaoWrites, ZaoRemoves, OldLogChanges, ZaoCreates, Events
  <1>13. CASE EventLogRotates
    <2>1. Told("rotated")
      BY <1>13 DEF EventLogRotates
    <2> QED
      BY <1>0, <2>1, ToldLast
  <1>14. ~Cancel
    BY Constants DEF Cancel
  <1>15. CASE UNCHANGED vars
    BY <1>4, <1>15 DEF vars
  <1> QED
    BY <1>1, <1>4, <1>7, <1>8, <1>9, <1>10, <1>11, <1>12, <1>13, <1>14, <1>15 DEF Next, Handle

LEMMA RotationInitially == Init => RotationPending
  BY DEF Init, RotationPending

LEMMA RotationIsFollowed == Typed /\ RotationPending => WriterFollows
  BY DEF Typed, FilesOK, RotationPending, WriterFollows, Listening

\* R-03: once what it was told of is handled, the writer has the new file:
\* WriterFollows of EventSources.
THEOREM WriterFollowsHolds == Spec => []WriterFollows
  BY RotationInitially, RotationStep, RotationIsFollowed, TypedAlways, PTL DEF Spec

-----------------------------------------------------------------------------
(* The Zao log *)

\* What inotify tells of a file that is there again comes after what it told of
\* the one that had gone.
GoneThenCreated ==
    Listening /\ zaoLog /= "absent" =>
        \A i \in 1 .. Len(inbox) : inbox[i] = "gone" =>
            \E j \in 1 .. Len(inbox) : i < j /\ inbox[j] = "created"

\* The events whose handling makes the tailer say what the log says.
Correcting == IF zaoLog = "absent" THEN {"gone"} ELSE {"modified", "created"}

\* Where the tailer is wrong, an event that corrects it is still to be handled.
CorrectionPending ==
    /\ status["asyncinotify"] /= "cancelled" /\ ~blind
    /\ snapshot /= Parse(zaoLog) /\ ~(misled /\ snapshot = "unknown")
    => \E i \in 1 .. Len(inbox) : inbox[i] \in Correcting

\* Of the steps of the daemon, only a handled event and a new instance change the
\* inbox, the watch or what the tailer says.
LEMMA TailUntouched ==
    ASSUME Typed, [Next]_vars
    PROVE  \/ UNCHANGED <<inbox, snapshot, misled, blind, zaoLog>>
           \/ Start("asyncinotify") \/ Handle \/ Cancel \/ Restart
           \/ ZaoWrites \/ ZaoRemoves \/ OldLogChanges \/ ZaoCreates \/ EventLogRotates
  <1>1. ASSUME NEW s \in Sources, Start(s), s /= "asyncinotify"
        PROVE UNCHANGED <<inbox, snapshot, misled, blind, zaoLog>>
    BY <1>1 DEF Start
  <1>2. ASSUME NEW s \in Sources, Crash(s) \/ Return(s) \/ Notify(s)
        PROVE UNCHANGED <<inbox, snapshot, misled, blind, zaoLog>>
    BY <1>2 DEF Crash, Return, Notify, tailVars
  <1>3. CASE KernelMessage \/ Drain \/ Tick
    BY <1>3 DEF KernelMessage, Drain, Tick, tailVars
  <1>4. CASE UNCHANGED vars
    BY <1>4 DEF vars, tailVars
  <1> QED
    BY <1>1, <1>2, <1>3, <1>4 DEF Next

\* A source that was not listening is so only after a new start.
LEMMA OnlyStartListens ==
    Typed /\ [Next]_vars /\ ~Start("asyncinotify") /\ Listening' => Listening
  <1> SUFFICES ASSUME Typed, [Next]_vars, ~Start("asyncinotify"), Listening' PROVE Listening
    OBVIOUS
  <1>0. SupervisorOK /\ "asyncinotify" \in Sources
    BY Constants DEF Typed
  <1>1. ASSUME NEW s \in Sources, Crashed(s) PROVE Listening
    BY <1>0, <1>1 DEF Crashed, Listening, SupervisorOK
  <1>2. ASSUME NEW s \in Sources, Put(s) PROVE Listening
    BY <1>0, <1>1, <1>2 DEF Put, Listening, supervisorVars
  <1>3. ASSUME UNCHANGED supervisorVars PROVE Listening
    BY <1>3 DEF Listening, supervisorVars
  <1>4. ASSUME NEW s \in Sources, Start(s) PROVE Listening
    BY <1>0, <1>4 DEF Start, Listening, SupervisorOK
  <1>5. ASSUME NEW s \in Sources, Crash(s) \/ Notify(s) PROVE Listening
    BY <1>1, <1>2, <1>5 DEF Crash, Notify
  <1>6. ASSUME NEW s \in Sources, Return(s) PROVE Listening
    BY <1>0, <1>6 DEF Return, Listening, SupervisorOK
  <1>7. CASE KernelMessage
    BY <1>2, <1>3, <1>7 DEF KernelMessage
  <1>8. CASE Drain \/ ZaoWrites \/ ZaoRemoves \/ OldLogChanges \/ ZaoCreates \/ EventLogRotates
    BY <1>3, <1>8 DEF Drain, ZaoWrites, ZaoRemoves, OldLogChanges, ZaoCreates, EventLogRotates
  <1>9. CASE Handle
    BY <1>9 DEF Handle, ZaoModified, ZaoGone, ZaoCreated, EventLogReopens, Handling, Listening
  <1>10. CASE Tick
    BY <1>10 DEF Tick, Listening
  <1>11. CASE Cancel \/ Restart
    BY <1>0, <1>11 DEF Cancel, Restart, Waiting, Listening
  <1>12. CASE UNCHANGED vars
    BY <1>3, <1>12 DEF vars
  <1> QED
    BY <1>4, <1>5, <1>6, <1>7, <1>8, <1>9, <1>10, <1>11, <1>12 DEF Next

LEMMA OrderStep == Typed /\ GoneThenCreated /\ [Next]_vars => GoneThenCreated'
  <1> SUFFICES ASSUME Typed, GoneThenCreated, [Next]_vars, Listening', zaoLog' /= "absent",
                      NEW i \in 1 .. Len(inbox'), inbox'[i] = "gone"
               PROVE  \E j \in 1 .. Len(inbox') : i < j /\ inbox'[j] = "created"
    BY DEF GoneThenCreated
  <1>0. inbox \in Seq(Events)
    BY DEF Typed, FilesOK
  <1>1. CASE Start("asyncinotify")
    BY <1>1 DEF Start
  <1>2. ASSUME ~Start("asyncinotify") PROVE Listening
    BY <1>2, OnlyStartListens
  <1>3. ASSUME UNCHANGED inbox, zaoLog /= "absent", Listening
        PROVE \E j \in 1 .. Len(inbox') : i < j /\ inbox'[j] = "created"
    BY <1>3 DEF GoneThenCreated
  <1>4. ASSUME UNCHANGED zaoLog, NEW e, Handling(e), Listening
        PROVE \E j \in 1 .. Len(inbox') : i < j /\ inbox'[j] = "created"
    <2>1. /\ inbox'[i] = inbox[i + 1] /\ Len(inbox') = Len(inbox) - 1 /\ Len(inbox) \in Nat
          /\ \A k \in 1 .. Len(inbox') : inbox'[k] = inbox[k + 1]
      BY <1>0, <1>4, HandledFirst
    <2>2. PICK j \in 1 .. Len(inbox) : i + 1 < j /\ inbox[j] = "created"
      BY <1>4, <2>1 DEF GoneThenCreated
    <2>3. j - 1 \in 1 .. Len(inbox') /\ i < j - 1 /\ inbox'[j - 1] = "created"
      BY <2>1, <2>2
    <2> QED
      BY <2>3
  <1>5. ASSUME zaoLog /= "absent", NEW e \in {"modified", "old_gone", "rotated"}, Told(e), Listening
        PROVE \E j \in 1 .. Len(inbox') : i < j /\ inbox'[j] = "created"
    <2>1. /\ Len(inbox') \in Nat /\ Len(inbox') >= Len(inbox) /\ Len(inbox) \in Nat
          /\ \A k \in 1 .. Len(inbox) : inbox'[k] = inbox[k]
          /\ \A k \in 1 .. Len(inbox') : k > Len(inbox) => inbox'[k] = e
      BY <1>0, <1>5, ToldLast DEF Events
    <2>2. i \in 1 .. Len(inbox) /\ inbox[i] = "gone"
      BY <2>1
    <2>3. PICK j \in 1 .. Len(inbox) : i < j /\ inbox[j] = "created"
      BY <1>5, <2>2 DEF GoneThenCreated
    <2> QED
      BY <2>1, <2>3
  <1>6. CASE Handle
    BY <1>4, <1>6 DEF Handle, ZaoModified, ZaoGone, ZaoCreated, EventLogReopens, Handling, Listening
  <1>7. CASE ZaoWrites
    <2>1. Listening /\ zaoLog /= "absent"
      BY <1>7 DEF ZaoWrites, Listening, supervisorVars
    <2>2. Told("modified") \/ UNCHANGED inbox
      BY <1>7 DEF ZaoWrites
    <2> QED
      BY <1>3, <1>5, <2>1, <2>2
  <1>8. ~ZaoRemoves
    BY DEF ZaoRemoves
  <1>13. CASE OldLogChanges
    <2>1. Listening /\ zaoLog /= "absent" /\ (Told("modified") \/ Told("old_gone"))
      BY <1>13 DEF OldLogChanges
    <2> QED
      BY <1>5, <2>1
  <1>9. CASE ZaoCreates
    <2>1. Listening
      BY <1>9 DEF ZaoCreates, Listening, supervisorVars
    <2>2. Told("created")
      BY <1>9, <2>1 DEF ZaoCreates
    <2>3. Len(inbox') \in Nat /\ Len(inbox') >= 1 /\ inbox'[Len(inbox')] = "created"
      BY <1>0, <2>2, ToldLast DEF Events
    <2>4. i < Len(inbox')
      BY <2>3
    <2> QED
      BY <2>3, <2>4
  <1>10. CASE EventLogRotates
    BY <1>3, <1>5, <1>10 DEF EventLogRotates, Listening, supervisorVars
  <1>11. ~Cancel /\ ~Restart
    BY Constants DEF Cancel, Restart, Listening, Waiting
  <1>12. ASSUME UNCHANGED <<inbox, snapshot, misled, blind, zaoLog>>, ~Start("asyncinotify")
         PROVE \E j \in 1 .. Len(inbox') : i < j /\ inbox'[j] = "created"
    BY <1>2, <1>3, <1>12
  <1> QED
    BY <1>1, <1>6, <1>7, <1>8, <1>9, <1>10, <1>11, <1>12, <1>13, TailUntouched

LEMMA CorrectionStep ==
    Typed /\ GoneThenCreated /\ CorrectionPending /\ [Next]_vars => CorrectionPending'
  <1> SUFFICES ASSUME Typed, GoneThenCreated, CorrectionPending, [Next]_vars,
                      status'["asyncinotify"] /= "cancelled", ~blind', snapshot' /= Parse(zaoLog'),
                      ~(misled' /\ snapshot' = "unknown")
               PROVE  \E i \in 1 .. Len(inbox') : inbox'[i] \in Correcting'
    BY DEF CorrectionPending, Parse, Correcting
  <1>0. /\ inbox \in Seq(Events) /\ blind \in BOOLEAN /\ Len(inbox) \in Nat
        /\ zaoLog \in {"absent", "empty", "free", "held"}
    BY DEF Typed, FilesOK
  <1>1. ~Restart
    BY DEF Restart, ParsesLog
  <1>2. status["asyncinotify"] /= "cancelled"
    BY <1>1, OnlyRestartRevives
  <1>3. ~Cancel
    BY Constants DEF Cancel
  <1>4. ASSUME UNCHANGED <<snapshot, misled, blind, zaoLog>>
        PROVE  \E i \in 1 .. Len(inbox) : inbox[i] \in Correcting /\ Correcting' = Correcting
    <2>1. ~blind /\ ~(misled /\ snapshot = "unknown")
      BY <1>4
    <2>2. snapshot /= Parse(zaoLog)
      BY <1>4 DEF Parse
    <2>3. \E i \in 1 .. Len(inbox) : inbox[i] \in Correcting
      BY <1>2, <2>1, <2>2 DEF CorrectionPending
    <2>4. Correcting' = Correcting
      BY <1>4 DEF Correcting
    <2> QED
      BY <2>3, <2>4
  <1>5. ASSUME UNCHANGED <<inbox, snapshot, misled, blind, zaoLog>>
        PROVE  \E i \in 1 .. Len(inbox') : inbox'[i] \in Correcting'
    BY <1>4, <1>5
  <1>6. ASSUME UNCHANGED <<snapshot, misled, blind, zaoLog>>, NEW e, e \notin Correcting, Handling(e)
        PROVE  \E i \in 1 .. Len(inbox') : inbox'[i] \in Correcting'
    <2>1. PICK i \in 1 .. Len(inbox) : inbox[i] \in Correcting /\ Correcting' = Correcting
      BY <1>4, <1>6
    <2>2. i - 1 \in 1 .. Len(inbox') /\ inbox'[i - 1] = inbox[i]
      BY <1>0, <1>6, <2>1, HandledFirst
    <2> QED
      BY <2>1, <2>2
  <1>7. ASSUME UNCHANGED <<snapshot, misled, blind, zaoLog>>,
               NEW e \in {"modified", "old_gone", "rotated"}, Told(e)
        PROVE  \E i \in 1 .. Len(inbox') : inbox'[i] \in Correcting'
    <2>1. PICK i \in 1 .. Len(inbox) : inbox[i] \in Correcting /\ Correcting' = Correcting
      BY <1>4, <1>7
    <2>2. i \in 1 .. Len(inbox') /\ inbox'[i] = inbox[i]
      BY <1>0, <1>7, <2>1, ToldLast DEF Events
    <2> QED
      BY <2>1, <2>2
  <1>8. ASSUME NEW e \in Events, Told(e), e \in Correcting'
        PROVE  \E i \in 1 .. Len(inbox') : inbox'[i] \in Correcting'
    <2>1. /\ Len(inbox') \in Nat /\ Len(inbox') >= 1 /\ inbox'[Len(inbox')] = e
      BY <1>0, <1>8, ToldLast
    <2> QED
      BY <1>8, <2>1
  <1>9. CASE Start("asyncinotify")
    <2>1. /\ ~blind /\ \A e \in ToSet(inbox) : e = "rotated"
          /\ UNCHANGED <<snapshot, misled, zaoLog>> /\ blind' = blind
      BY <1>0, <1>9 DEF Start
    <2>2. PICK i \in 1 .. Len(inbox) : inbox[i] \in Correcting
      BY <1>4, <2>1
    <2>3. inbox[i] \in ToSet(inbox)
      BY <1>0 DEF ToSet
    <2> QED
      BY <2>1, <2>2, <2>3 DEF Correcting
  <1>10. ASSUME Reparse, UNCHANGED zaoLog
         PROVE  zaoLog = "absent" /\ UNCHANGED <<snapshot, misled, blind>>
    BY <1>10 DEF Reparse, ParsesLog, Parse
  <1>11. CASE ZaoModified
    <2>1. "modified" \notin Correcting /\ UNCHANGED <<snapshot, misled, blind, zaoLog>>
      BY <1>10, <1>11 DEF ZaoModified, Correcting
    <2> QED
      BY <1>6, <1>11, <2>1 DEF ZaoModified
  <1>12. CASE ZaoCreated
    <2>1. "created" \notin Correcting /\ UNCHANGED <<snapshot, misled, blind, zaoLog>>
      BY <1>10, <1>12 DEF ZaoCreated, Correcting
    <2> QED
      BY <1>6, <1>12, <2>1 DEF ZaoCreated
  <1>13. CASE ZaoGone
    <2>0. PICK event \in {"gone", "old_gone"} : Handling(event) /\ misled' = (event = "old_gone")
      BY <1>13 DEF ZaoGone
    <2>1. snapshot' = "unknown" /\ UNCHANGED zaoLog /\ Handling("gone") /\ Listening
      <3>1. snapshot' = "unknown" /\ UNCHANGED zaoLog
        BY <1>13 DEF ZaoGone
      <3>2. event /= "old_gone"
        BY <2>0, <3>1
      <3>3. Handling("gone")
        BY <2>0, <3>2
      <3> QED
        BY <3>1, <3>3 DEF Handling, Listening
    <2>2. zaoLog /= "absent"
      BY <2>1 DEF Parse
    <2>3. /\ inbox[1] = "gone" /\ 1 \in 1 .. Len(inbox) /\ Len(inbox') = Len(inbox) - 1
          /\ \A k \in 1 .. Len(inbox') : inbox'[k] = inbox[k + 1]
      BY <1>0, <2>1, HandledFirst
    <2>4. PICK j \in 1 .. Len(inbox) : 1 < j /\ inbox[j] = "created"
      BY <2>1, <2>2, <2>3 DEF GoneThenCreated
    <2>5. j - 1 \in 1 .. Len(inbox') /\ inbox'[j - 1] = "created"
      BY <1>0, <2>3, <2>4
    <2> QED
      BY <2>1, <2>2, <2>5 DEF Correcting
  <1>14. CASE EventLogReopens
    <2>1. "rotated" \notin Correcting
      BY DEF Correcting
    <2> QED
      BY <1>6, <1>14, <2>1 DEF EventLogReopens, tailVars
  <1>15. CASE ZaoWrites
    BY <1>8, <1>15 DEF ZaoWrites, Correcting, Events
  <1>16. CASE ZaoRemoves
    BY <1>8, <1>16 DEF ZaoRemoves, Correcting, Events
  <1>19. CASE OldLogChanges
    BY <1>7, <1>19 DEF OldLogChanges
  <1>17. CASE ZaoCreates
    BY <1>8, <1>17 DEF ZaoCreates, Correcting, Events
  <1>18. CASE EventLogRotates
    BY <1>5, <1>7, <1>18 DEF EventLogRotates, tailVars
  <1> QED
    BY <1>1, <1>3, <1>5, <1>9, <1>11, <1>12, <1>13, <1>14, <1>15, <1>16, <1>17, <1>18, <1>19,
       TailUntouched DEF Handle

LEMMA CorrectionInitially == Init => GoneThenCreated /\ CorrectionPending
  BY DEF Init, GoneThenCreated, CorrectionPending

LEMMA CorrectedIsFollowed == CorrectionPending => TailerFollows
  <1> SUFFICES ASSUME CorrectionPending, Listening, inbox = << >>, ~blind
               PROVE  snapshot = Parse(zaoLog) \/ (misled /\ snapshot = "unknown")
    BY DEF TailerFollows
  <1> QED
    BY DEF CorrectionPending, Listening

\* FR-10, ADR-0003: over appends, truncations, rotations, removals and crashes in any
\* order the tailer says what the log says, or nothing, after the end of an old log:
\* TailerFollows of EventSources.
THEOREM TailerFollowsHolds == Spec => []TailerFollows
  BY CorrectionInitially, OrderStep, CorrectionStep, CorrectedIsFollowed, TypedAlways, PTL DEF Spec
=============================================================================
