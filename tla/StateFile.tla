------------------------------ MODULE StateFile ------------------------------
(***************************************************************************)
(* One JSON file of state_store: saved and loaded by tasks of several      *)
(* processes (the daemon, a CLI) under a lock of their process and a flock,*)
(* replaced as a whole (temp, fsync, rename, fsync of the directory), and  *)
(* moved aside when an older schema wrote it.  Any process may die and the *)
(* power may fail between two steps; a system call may fail; a waiting     *)
(* task may be cancelled.                                                  *)
(*                                                                         *)
(* After a power failure the directory is one of those since its last      *)
(* fsync, and a file that was never synced may be torn.                    *)
(***************************************************************************)
EXTENDS Naturals, FiniteSets

CONSTANTS
    Tasks, Procs, ProcOf,      \* a task is in one process for good
    Does,                      \* task -> the operations it calls
    Values, Fresh,             \* what the current schema can hold; the default of it
    Cleared,                   \* value -> the same without streak and counters
    Legacy, Newer,             \* what older and newer schemas wrote
    Torn, None

ASSUME StateFileAssumption ==
    /\ ProcOf \in [Tasks -> Procs]
    /\ Does \in [Tasks -> SUBSET {"save", "load", "reset"}]
    /\ Fresh \in Values /\ Cleared \in [Values -> Values]
    /\ None \notin Tasks /\ None \notin Procs
    /\ {Legacy, Newer, Torn, None} \cap Values = {}
    /\ Legacy # Newer /\ Legacy # Torn /\ Legacy # None
    /\ Newer # Torn /\ Newer # None /\ Torn # None

VARIABLES
    pc,        \* where each task is in its operation
    op,        \* [name, val]: the operation, and the value it is to save
    loaded,    \* processes that have loaded the file since they started
    mutex,     \* process -> the task that has its asyncio.Lock
    flock,     \* the task that has the flock
    threads,   \* tasks that were cancelled while a thread of theirs waits for the flock
    leaked,    \* the process whose cancelled task got the flock all the same
    temp,      \* task -> its temporary file
    dir,       \* [target, shadow]: the files as every process sees them
    maybe,     \* the directories a power failure may leave
    acked      \* history: the last save has returned without an error

lockVars == <<mutex, flock, threads, leaked>>
diskVars == <<temp, dir, maybe, acked>>
vars == <<pc, op, loaded, lockVars, diskVars>>

Contents == Values \cup {Legacy, Newer, Torn, None}
Files == [val : Contents, synced : BOOLEAN]
NoFile == [val |-> None, synced |-> TRUE]
Dirs == [target : Files, shadow : Files]

NoOp == [name |-> "none", val |-> Fresh]
Ops == [name : {"none", "save", "load", "reset"}, val : Values]
Critical == {"inside", "written", "synced", "replaced", "moved"}
PCs == {"idle", "queued", "locking", "leaving"} \cup Critical

Init ==
    /\ pc = [t \in Tasks |-> "idle"] /\ op = [t \in Tasks |-> NoOp]
    /\ loaded = {}
    /\ mutex = [p \in Procs |-> None] /\ flock = None /\ threads = {} /\ leaked = None
    /\ temp = [t \in Tasks |-> NoFile]
    /\ \E v \in Values \cup {Legacy, Newer, None} :
          dir = [target |-> [val |-> v, synced |-> TRUE], shadow |-> NoFile]
    /\ maybe = {dir} /\ acked = TRUE

Goto(t, where) == pc' = [pc EXCEPT ![t] = where]
Return(t) == Goto(t, "idle") /\ op' = [op EXCEPT ![t] = NoOp]

-----------------------------------------------------------------------------
(* The locks: asyncio.Lock first, flock second *)

\* save_X(v), load_X() and reset_modem_streak_and_counters().  Who saves has
\* loaded before: a cycle its prior state, ctl the globals it edits.
Call(t, name, v) ==
    /\ pc[t] = "idle" /\ t \notin threads /\ name \in Does[t]
    /\ name = "save" => ProcOf[t] \in loaded
    /\ op' = [op EXCEPT ![t] = [name |-> name, val |-> v]]
    /\ Goto(t, "queued")
    /\ UNCHANGED <<loaded, lockVars, diskVars>>

TakeMutex(t) ==
    /\ pc[t] = "queued" /\ mutex[ProcOf[t]] = None
    /\ mutex' = [mutex EXCEPT ![ProcOf[t]] = t]
    /\ Goto(t, "locking")
    /\ UNCHANGED <<op, loaded, flock, threads, leaked, diskVars>>

\* Mutant: another process's flock does not count.
FlockFreeHere(t) == flock \notin {u \in Tasks : ProcOf[u] = ProcOf[t]}

FlockFree(t) == flock = None /\ leaked = None

\* The thread of to_thread gets the flock, and the task goes on.
TakeFlock(t) ==
    /\ pc[t] = "locking" /\ FlockFree(t)
    /\ flock' = t
    /\ Goto(t, "inside")
    /\ UNCHANGED <<op, loaded, mutex, threads, leaked, diskVars>>

\* Cancelled in the queue, or while the thread waits: the thread goes on waiting.
Cancel(t) ==
    /\ pc[t] \in {"queued", "locking"}
    /\ Return(t)
    /\ threads' = IF pc[t] = "locking" THEN threads \cup {t} ELSE threads
    /\ mutex' = IF pc[t] = "locking" THEN [mutex EXCEPT ![ProcOf[t]] = None] ELSE mutex
    /\ UNCHANGED <<loaded, flock, leaked, diskVars>>

\* Nobody is there any more to take the handle.
ThreadTakesFlock(t) ==
    /\ t \in threads /\ FlockFree(t)
    /\ threads' = threads \ {t}
    /\ leaked' = ProcOf[t]
    /\ UNCHANGED <<pc, op, loaded, mutex, flock, diskVars>>

\* Mutant: an operation that raises keeps the flock.
UnlockedUnlessFailed(t) == IF acked THEN None ELSE flock

Unlocked(t) == None

\* The finally of acquire_flock_async, then the end of `async with`.
Leave(t) ==
    /\ pc[t] = "leaving"
    /\ flock' = Unlocked(t)
    /\ mutex' = [mutex EXCEPT ![ProcOf[t]] = None]
    /\ Return(t)
    /\ UNCHANGED <<loaded, threads, leaked, diskVars>>

-----------------------------------------------------------------------------
(* The critical section *)

Opens(t) == pc[t] = "inside"

\* load: no file, or one of this schema.
LoadCurrent(t) ==
    /\ Opens(t) /\ op[t].name = "load" /\ dir.target.val \in Values \cup {None}
    /\ loaded' = loaded \cup {ProcOf[t]}
    /\ Goto(t, "leaving")
    /\ UNCHANGED <<op, lockVars, diskVars>>

\* A newer schema's file is refused, a torn one is corrupt; a reset does not even
\* take an older one.
Refuse(t) ==
    /\ Opens(t)
    /\ \/ op[t].name = "load" /\ dir.target.val \in {Newer, Torn}
       \/ op[t].name = "reset" /\ dir.target.val \in {Newer, Legacy, Torn}
    /\ Goto(t, "leaving")
    /\ UNCHANGED <<op, loaded, lockVars, diskVars>>

\* The directory is now d, and after a power failure perhaps.
Becomes(d) == dir' = d /\ maybe' = maybe \cup {d}

\* Mutant: the old file is deleted.
DeletedAside(d) == [d EXCEPT !.target = NoFile]

MovedAside(d) == [target |-> NoFile, shadow |-> d.target]

\* load of an older schema's file: the shadow takes its place ...
MoveAside(t) ==
    /\ Opens(t) /\ op[t].name = "load" /\ dir.target.val = Legacy
    /\ Becomes(MovedAside(dir))
    /\ Goto(t, "moved")
    /\ UNCHANGED <<op, loaded, lockVars, temp, acked>>

\* Mutant: no fsync of the directory.
AfterDirSyncNone == maybe

AfterDirSync == {dir}

\* ... for good, and the default is saved.
SyncShadow(t) ==
    /\ pc[t] = "moved"
    /\ maybe' = AfterDirSync
    /\ op' = [op EXCEPT ![t] = [name |-> "save", val |-> Fresh]]
    /\ loaded' = loaded \cup {ProcOf[t]}
    /\ Goto(t, "inside")
    /\ UNCHANGED <<lockVars, temp, dir, acked>>

\* Mutant: a reset takes any schema's file for one of its own.
ToWriteUnchecked(t) == IF op[t].name = "save" THEN {op[t].val}
                       ELSE IF op[t].name = "load" THEN {} ELSE {dir.target.val}

\* A reset saves what it reads, its counters cleared.
ToWrite(t) == IF op[t].name = "save" THEN {op[t].val}
              ELSE IF op[t].name = "load" THEN {}
              ELSE IF dir.target.val = None THEN {Fresh}
              ELSE {Cleared[v] : v \in Values \cap {dir.target.val}}

\* atomic_write_bytes: a temp file of its own ...
WriteTemp(t) ==
    /\ Opens(t)
    /\ \E v \in ToWrite(t) : temp' = [temp EXCEPT ![t] = [val |-> v, synced |-> FALSE]]
    /\ Goto(t, "written")
    /\ UNCHANGED <<op, loaded, lockVars, dir, maybe, acked>>

\* Mutant: the file is not synced.
SyncedNot(f) == f

Synced(f) == [f EXCEPT !.synced = TRUE]

SyncTemp(t) ==
    /\ pc[t] = "written"
    /\ temp' = [temp EXCEPT ![t] = Synced(@)]
    /\ Goto(t, "synced")
    /\ UNCHANGED <<op, loaded, lockVars, dir, maybe, acked>>

Replace(t) ==
    /\ pc[t] = "synced"
    /\ Becomes([dir EXCEPT !.target = temp[t]])
    /\ temp' = [temp EXCEPT ![t] = NoFile]
    /\ acked' = FALSE
    /\ Goto(t, "replaced")
    /\ UNCHANGED <<op, loaded, lockVars>>

\* The save returns.
SyncDir(t) ==
    /\ pc[t] = "replaced"
    /\ maybe' = AfterDirSync
    /\ acked' = TRUE
    /\ Goto(t, "leaving")
    /\ UNCHANGED <<op, loaded, lockVars, temp, dir>>

\* Any of the system calls raises OSError; a temp that is left is unlinked.
Fail(t) ==
    /\ pc[t] \in Critical
    /\ temp' = [temp EXCEPT ![t] = NoFile]
    /\ Goto(t, "leaving")
    /\ UNCHANGED <<op, loaded, lockVars, dir, maybe, acked>>

Step(t) == TakeMutex(t) \/ TakeFlock(t) \/ Leave(t) \/ LoadCurrent(t) \/ Refuse(t)
           \/ MoveAside(t) \/ SyncShadow(t) \/ WriteTemp(t) \/ SyncTemp(t) \/ Replace(t)
           \/ SyncDir(t) \/ Fail(t)

-----------------------------------------------------------------------------
(* Crashes *)

\* The processes in P die, with their locks.
Die(P) ==
    LET dead == {t \in Tasks : ProcOf[t] \in P}
    IN  /\ pc' = [t \in Tasks |-> IF t \in dead THEN "idle" ELSE pc[t]]
        /\ op' = [t \in Tasks |-> IF t \in dead THEN NoOp ELSE op[t]]
        /\ temp' = [t \in Tasks |-> IF t \in dead THEN NoFile ELSE temp[t]]
        /\ loaded' = loaded \ P /\ threads' = threads \ dead
        /\ mutex' = [p \in Procs |-> IF p \in P THEN None ELSE mutex[p]]
        /\ flock' = IF flock \in dead THEN None ELSE flock
        /\ leaked' = IF leaked \in P THEN None ELSE leaked

Crash(p) == Die({p}) /\ UNCHANGED <<dir, maybe, acked>>

\* What a power failure may make of a file.
Remains(f) == IF f.synced THEN {f}
              ELSE {[f EXCEPT !.synced = TRUE], [val |-> Torn, synced |-> TRUE]}

PowerLoss ==
    /\ Die(Procs)
    /\ \E d \in maybe : \E f \in Remains(d.target), g \in Remains(d.shadow) :
          dir' = [target |-> f, shadow |-> g]
    /\ maybe' = {dir'}
    /\ UNCHANGED acked

-----------------------------------------------------------------------------
Next ==
    \/ \E t \in Tasks :
          \/ Step(t) \/ Cancel(t) \/ ThreadTakesFlock(t) \/ Call(t, "load", Fresh) \/ Call(t, "reset", Fresh)
          \/ \E v \in Values : Call(t, "save", v)
    \/ \E p \in Procs : Crash(p)
    \/ PowerLoss

Spec == Init /\ [][Next]_vars

\* A task that can go on does.
FairSpec == Spec /\ \A t \in Tasks : WF_vars(Step(t))

-----------------------------------------------------------------------------
(* Properties *)

TypeOK ==
    /\ pc \in [Tasks -> PCs] /\ op \in [Tasks -> Ops]
    /\ loaded \subseteq Procs /\ threads \subseteq Tasks
    /\ mutex \in [Procs -> Tasks \cup {None}]
    /\ flock \in Tasks \cup {None} /\ leaked \in Procs \cup {None}
    /\ temp \in [Tasks -> [val : Values \cup {None}, synced : BOOLEAN]]
    /\ dir \in maybe /\ maybe \subseteq Dirs /\ acked \in BOOLEAN

Inside(t) == pc[t] \in Critical

\* ADR-0012 (lock order): however tasks are cancelled and processes die, no two
\* tasks are at the file at a time, be they of one process or of two.
Exclusive == \A t, u \in Tasks : Inside(t) /\ Inside(u) => t = u

\* FR-62, "never a partial file": no reader ever meets a torn file, and none will
\* after a power failure now.
NeverTorn == \A d \in maybe : d.target.val # Torn /\ d.target.synced

\* What a reader makes of a file: an older schema's is as good as none.
Reads(f) == IF f.val \in {None, Legacy} THEN Fresh ELSE f.val

\* FR-62, the directory fsync: what a save that has returned wrote survives a power
\* failure at any later time, until another save replaces it.
AckedDurable == acked => \A d \in maybe : Reads(d.target) = Reads(dir.target)

\* ADR-0004, "non-destructive downgrade": what the older schema wrote is in the
\* file or in its shadow, whatever crashed or failed on the way.
LegacyKept ==
    [][\A d \in maybe' : Legacy \in {dir.target.val, dir.shadow.val}
          => Legacy \in {d.target.val, d.shadow.val}]_vars

\* The file is a durable register; a schema downgrade does not show.
Register == INSTANCE DurableRegister WITH
    Initials <- Values \cup {Newer},
    value <- Reads(dir.target), possible <- {Reads(d.target) : d \in maybe}

ImplementsRegister == Register!Spec

\* Whoever gets the flock gives it back: no error path keeps it.
Released == \A t \in Tasks : (flock = t) ~> (flock # t)
=============================================================================
