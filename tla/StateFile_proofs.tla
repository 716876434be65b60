--------------------------- MODULE StateFile_proofs ---------------------------
(***************************************************************************)
(* What state_store promises, for every number of processes and tasks,     *)
(* every operation they call and everything a file can hold: who is at the *)
(* file is alone there, no reader meets a torn file, a save that returned  *)
(* survives, and the older schema's file is never lost.                    *)
(***************************************************************************)
EXTENDS StateFile, TLAPS

-----------------------------------------------------------------------------
(* Types *)

\* What the code's conversions give.
LEMMA Written ==
    ASSUME StateFileAssumption, TypeOK, NEW t \in Tasks, NEW v \in ToWrite(t)
    PROVE  v \in Values
  <1>1. op[t].val \in Values
    BY DEF TypeOK, Ops
  <1>2. Fresh \in Values /\ \A w \in Values : Cleared[w] \in Values
    BY DEF StateFileAssumption
  <1> QED
    BY <1>1, <1>2 DEF ToWrite

LEMMA FilesKept ==
    ASSUME NEW d \in Dirs
    PROVE  /\ MovedAside(d) \in Dirs
           /\ \A f \in Files : [d EXCEPT !.target = f] \in Dirs
           /\ \A f \in Remains(d.target), g \in Remains(d.shadow) :
                 [target |-> f, shadow |-> g] \in Dirs
  <1>1. d.target \in Files /\ d.shadow \in Files
    BY DEF Dirs
  <1>2. NoFile \in Files
    BY DEF NoFile, Files, Contents
  <1>3. MovedAside(d) \in Dirs
    BY <1>1, <1>2 DEF MovedAside, Dirs
  <1>4. \A f \in Files : [d EXCEPT !.target = f] \in Dirs
    BY DEF Dirs
  <1>5. ASSUME NEW f \in Files PROVE Remains(f) \subseteq Files
    <2>1. f = [val |-> f.val, synced |-> f.synced] /\ f.val \in Contents /\ Torn \in Contents
      BY DEF Files, Contents
    <2>2. /\ [f EXCEPT !.synced = TRUE] \in Files
          /\ [val |-> Torn, synced |-> TRUE] \in Files
      BY <2>1 DEF Files
    <2> QED
      BY <2>2 DEF Remains
  <1> QED
    BY <1>1, <1>3, <1>4, <1>5 DEF Dirs

LEMMA TypesInitially == StateFileAssumption /\ Init => TypeOK
  <1> SUFFICES ASSUME StateFileAssumption, Init PROVE TypeOK
    OBVIOUS
  <1>1. NoOp \in Ops
    BY DEF StateFileAssumption, NoOp, Ops
  <1>2. dir \in Dirs
    BY DEF Init, Dirs, Files, NoFile, Contents
  <1> QED
    BY <1>1, <1>2 DEF Init, TypeOK, NoFile, PCs

LEMMA TypesStep == StateFileAssumption /\ TypeOK /\ [Next]_vars => TypeOK'
  <1> SUFFICES ASSUME StateFileAssumption, TypeOK, [Next]_vars PROVE TypeOK'
    OBVIOUS
  <1> USE DEF TypeOK, lockVars, diskVars, Goto, Return
  <1>0. NoOp \in Ops /\ [val |-> None, synced |-> TRUE] = NoFile /\ dir \in Dirs
    BY DEF StateFileAssumption, NoOp, Ops, NoFile
  <1>1. ASSUME NEW t \in Tasks, NEW v \in Values, NEW n \in {"save", "load", "reset"}, Call(t, n, v)
        PROVE TypeOK'
    BY <1>1 DEF Call, Ops, PCs
  <1>2. ASSUME NEW t \in Tasks, TakeMutex(t) PROVE TypeOK'
    BY <1>2 DEF TakeMutex, PCs
  <1>3. ASSUME NEW t \in Tasks, TakeFlock(t) PROVE TypeOK'
    BY <1>3 DEF TakeFlock, PCs, Critical
  <1>4. ASSUME NEW t \in Tasks, Leave(t) PROVE TypeOK'
    BY <1>4, <1>0 DEF Leave, PCs, Unlocked
  <1>5. ASSUME NEW t \in Tasks, LoadCurrent(t) PROVE TypeOK'
    BY <1>5 DEF LoadCurrent, PCs, StateFileAssumption
  <1>6. ASSUME NEW t \in Tasks, Refuse(t) PROVE TypeOK'
    BY <1>6 DEF Refuse, PCs
  <1>7. ASSUME NEW t \in Tasks, MoveAside(t) PROVE TypeOK'
    BY <1>7, <1>0, FilesKept DEF MoveAside, Becomes, PCs, Critical
  <1>8. ASSUME NEW t \in Tasks, SyncShadow(t) PROVE TypeOK'
    BY <1>8, <1>0 DEF SyncShadow, AfterDirSync, PCs, Critical, Ops, StateFileAssumption
  <1>9. ASSUME NEW t \in Tasks, WriteTemp(t) PROVE TypeOK'
    BY <1>9, Written DEF WriteTemp, PCs, Critical
  <1>10. ASSUME NEW t \in Tasks, SyncTemp(t) PROVE TypeOK'
    BY <1>10 DEF SyncTemp, Synced, PCs, Critical
  <1>11. ASSUME NEW t \in Tasks, Replace(t) PROVE TypeOK'
    <2>1. temp[t] \in Files
      BY DEF Files, Contents
    <2>2. dir' \in Dirs
      BY <1>11, <1>0, <2>1, FilesKept DEF Replace, Becomes
    <2> QED
      BY <1>11, <1>0, <2>2 DEF Replace, Becomes, PCs, Critical
  <1>12. ASSUME NEW t \in Tasks, SyncDir(t) PROVE TypeOK'
    BY <1>12, <1>0 DEF SyncDir, AfterDirSync, PCs
  <1>13. ASSUME NEW t \in Tasks, Fail(t) PROVE TypeOK'
    BY <1>13, <1>0 DEF Fail, PCs
  <1>14. ASSUME NEW t \in Tasks, Cancel(t) PROVE TypeOK'
    BY <1>14, <1>0 DEF Cancel, PCs, StateFileAssumption
  <1>15. ASSUME NEW t \in Tasks, ThreadTakesFlock(t) PROVE TypeOK'
    BY <1>15 DEF ThreadTakesFlock, StateFileAssumption
  <1>16. ASSUME NEW P \in SUBSET Procs, Die(P), UNCHANGED acked,
                dir' \in maybe', maybe' \subseteq Dirs
         PROVE TypeOK'
    BY <1>16, <1>0 DEF Die, PCs
  <1>17. ASSUME NEW p \in Procs, Crash(p) PROVE TypeOK'
    BY <1>17, <1>16 DEF Crash
  <1>18. CASE PowerLoss
    <2>1. PICK d \in maybe : \E f \in Remains(d.target), g \in Remains(d.shadow) :
              dir' = [target |-> f, shadow |-> g]
      BY <1>18 DEF PowerLoss
    <2>2. \A f \in Remains(d.target), g \in Remains(d.shadow) :
              [target |-> f, shadow |-> g] \in Dirs
      <3>1. d \in Dirs
        OBVIOUS
      <3> QED
        BY ONLY <3>1, FilesKept
    <2>3. dir' \in Dirs
      BY <2>1, <2>2
    <2> QED
      BY <1>18, <1>16, <2>3 DEF PowerLoss
  <1>19. CASE UNCHANGED vars
    BY <1>19 DEF vars
  <1> QED
    BY <1>1, <1>2, <1>3, <1>4, <1>5, <1>6, <1>7, <1>8, <1>9, <1>10, <1>11, <1>12, <1>13,
       <1>14, <1>15, <1>17, <1>18, <1>19 DEF Next, Step, StateFileAssumption

\* The variables have their types: TypeOK of StateFile.
THEOREM StateTyped == Spec => []TypeOK
  BY TypesInitially, TypesStep, StateFileAssumption, PTL DEF Spec

-----------------------------------------------------------------------------
(* The flock *)

\* Who is in the critical section, or on the way out of it, has the flock.
Holder == \A t \in Tasks : Inside(t) \/ pc[t] = "leaving" => flock = t

LEMMA HolderInitially == Init => Holder
  BY DEF Init, Holder, Inside, Critical

LEMMA HolderStep == StateFileAssumption /\ TypeOK /\ Holder /\ [Next]_vars => Holder'
  <1> SUFFICES ASSUME StateFileAssumption, TypeOK, Holder, [Next]_vars,
                      NEW u \in Tasks, (Inside(u) \/ pc[u] = "leaving")'
               PROVE  flock' = u
    BY DEF Holder
  <1>0. pc \in [Tasks -> PCs] /\ None \notin Tasks
    BY DEF TypeOK, StateFileAssumption
  <1> USE DEF Holder, Inside, Critical, Goto, Return, lockVars, diskVars
  <1>1. ASSUME NEW t \in Tasks, NEW v \in Values, NEW n \in {"save", "load", "reset"}, Call(t, n, v)
        PROVE flock' = u
    BY <1>1, <1>0 DEF Call
  <1>2. ASSUME NEW t \in Tasks, TakeMutex(t) \/ Cancel(t) \/ ThreadTakesFlock(t)
        PROVE flock' = u
    BY <1>2, <1>0 DEF TakeMutex, Cancel, ThreadTakesFlock
  <1>3. ASSUME NEW t \in Tasks, TakeFlock(t) PROVE flock' = u
    BY <1>3, <1>0 DEF TakeFlock, FlockFree
  <1>4. ASSUME NEW t \in Tasks, Leave(t) PROVE flock' = u
    BY <1>4, <1>0 DEF Leave
  <1>5. ASSUME NEW t \in Tasks,
               \/ LoadCurrent(t) \/ Refuse(t) \/ MoveAside(t) \/ SyncShadow(t)
               \/ WriteTemp(t) \/ SyncTemp(t) \/ Replace(t) \/ SyncDir(t) \/ Fail(t)
        PROVE flock' = u
    BY <1>5, <1>0 DEF LoadCurrent, Refuse, Opens, MoveAside, SyncShadow, WriteTemp, SyncTemp,
                      Replace, SyncDir, Fail
  <1>6. ASSUME NEW P \in SUBSET Procs, Die(P) PROVE flock' = u
    BY <1>6, <1>0 DEF Die
  <1>7. ASSUME NEW p \in Procs, Crash(p) PROVE flock' = u
    BY <1>7, <1>6 DEF Crash
  <1>8. CASE PowerLoss
    BY <1>8, <1>6 DEF PowerLoss
  <1>9. CASE UNCHANGED vars
    BY <1>9 DEF vars
  <1> QED
    BY <1>1, <1>2, <1>3, <1>4, <1>5, <1>7, <1>8, <1>9 DEF Next, Step, StateFileAssumption

LEMMA HolderAlways == Spec => []Holder
  BY HolderInitially, HolderStep, StateTyped, StateFileAssumption, PTL DEF Spec

LEMMA HolderExcludes == Holder => Exclusive
  BY DEF Holder, Exclusive

\* ADR-0012: no two tasks are at the file at a time: Exclusive of StateFile.
THEOREM ExclusiveHolds == Spec => []Exclusive
  BY HolderAlways, HolderExcludes, PTL

-----------------------------------------------------------------------------
(* What is on the disk *)

\* Nothing that is not synced ever gets a name, and a torn file never does.
Whole ==
    /\ \A d \in maybe : d.target.val # Torn /\ d.target.synced /\ d.shadow.synced
    /\ \A t \in Tasks : pc[t] = "synced" => temp[t].synced

LEMMA WholeInitially == StateFileAssumption /\ Init => Whole
  BY DEF StateFileAssumption, Init, Whole, NoFile

\* A synced file is what it is, whatever fails.
LEMMA SyncedRemains ==
    ASSUME NEW f, f.synced PROVE Remains(f) = {f}
  BY DEF Remains

\* After a power failure the directory is one that may be left.
LEMMA PowerLossKeeps == Whole /\ PowerLoss =>
    \E d \in maybe : dir' = [target |-> d.target, shadow |-> d.shadow] /\ maybe' = {dir'}
  <1> SUFFICES ASSUME Whole, PowerLoss
               PROVE  \E d \in maybe : /\ dir' = [target |-> d.target, shadow |-> d.shadow]
                                       /\ maybe' = {dir'}
    OBVIOUS
  <1>1. PICK d \in maybe : \E f \in Remains(d.target), g \in Remains(d.shadow) :
            dir' = [target |-> f, shadow |-> g]
    BY DEF PowerLoss
  <1>2. Remains(d.target) = {d.target} /\ Remains(d.shadow) = {d.shadow}
    BY SyncedRemains DEF Whole
  <1> QED
    BY <1>1, <1>2 DEF PowerLoss

LEMMA WholeStep == StateFileAssumption /\ TypeOK /\ Whole /\ [Next]_vars => Whole'
  <1> SUFFICES ASSUME StateFileAssumption, TypeOK, Whole, [Next]_vars PROVE Whole'
    OBVIOUS
  <1>0. /\ pc \in [Tasks -> PCs] /\ dir \in maybe /\ maybe \subseteq Dirs
        /\ temp \in [Tasks -> [val : Values \cup {None}, synced : BOOLEAN]]
        /\ Torn \notin Values \cup {None}
    BY DEF TypeOK, StateFileAssumption
  <1> USE DEF Whole, Goto, Return, lockVars, diskVars
  <1>1. ASSUME NEW t \in Tasks, NEW v \in Values, NEW n \in {"save", "load", "reset"}, Call(t, n, v)
        PROVE Whole'
    BY <1>1, <1>0 DEF Call
  <1>2. ASSUME NEW t \in Tasks, \/ TakeMutex(t) \/ TakeFlock(t) \/ Cancel(t)
                                \/ ThreadTakesFlock(t) \/ Leave(t)
        PROVE Whole'
    BY <1>2, <1>0 DEF TakeMutex, TakeFlock, Cancel, ThreadTakesFlock, Leave
  <1>3. ASSUME NEW t \in Tasks, LoadCurrent(t) \/ Refuse(t) \/ Fail(t) PROVE Whole'
    BY <1>3, <1>0 DEF LoadCurrent, Refuse, Fail
  <1>4. ASSUME NEW t \in Tasks, MoveAside(t) PROVE Whole'
    <2>1. /\ dir'.target = NoFile /\ dir'.shadow = dir.target
          /\ maybe' = maybe \cup {dir'}
      BY <1>4 DEF MoveAside, Becomes, MovedAside
    <2>2. NoFile.val # Torn /\ NoFile.synced
      BY <1>0 DEF NoFile
    <2>3. UNCHANGED temp /\ \A u \in Tasks : pc'[u] = "synced" => pc[u] = "synced"
      BY <1>4, <1>0 DEF MoveAside
    <2> QED
      BY <1>0, <2>1, <2>2, <2>3
  <1>5. ASSUME NEW t \in Tasks, SyncShadow(t) \/ SyncDir(t) PROVE Whole'
    BY <1>5, <1>0 DEF SyncShadow, SyncDir, AfterDirSync
  <1>6. ASSUME NEW t \in Tasks, WriteTemp(t) PROVE Whole'
    BY <1>6, <1>0 DEF WriteTemp
  <1>7. ASSUME NEW t \in Tasks, SyncTemp(t) PROVE Whole'
    BY <1>7, <1>0 DEF SyncTemp, Synced
  <1>8. ASSUME NEW t \in Tasks, Replace(t) PROVE Whole'
    <2>1. /\ dir' = [dir EXCEPT !.target = temp[t]] /\ maybe' = maybe \cup {dir'}
      BY <1>8 DEF Replace, Becomes
    <2>2. dir'.target = temp[t] /\ dir'.shadow = dir.shadow
      BY <1>0, <2>1 DEF Dirs
    <2>3. temp[t].synced /\ temp[t].val # Torn
      BY <1>0, <1>8 DEF Replace
    <2>4. \A u \in Tasks : pc'[u] = "synced" => pc[u] = "synced" /\ temp'[u] = temp[u]
      BY <1>8, <1>0 DEF Replace
    <2> QED
      BY <1>0, <2>1, <2>2, <2>3, <2>4
  <1>9. ASSUME NEW P \in SUBSET Procs, Die(P)
        PROVE \A u \in Tasks : pc'[u] = "synced" => temp'[u].synced
    BY <1>9, <1>0 DEF Die
  <1>10. ASSUME NEW p \in Procs, Crash(p) PROVE Whole'
    BY <1>10, <1>9 DEF Crash
  <1>11. CASE PowerLoss
    <2>1. PICK d \in maybe : dir' = [target |-> d.target, shadow |-> d.shadow] /\ maybe' = {dir'}
      BY <1>11, PowerLossKeeps
    <2> QED
      BY <1>11, <1>9, <2>1 DEF PowerLoss
  <1>12. CASE UNCHANGED vars
    BY <1>12 DEF vars
  <1> QED
    BY <1>1, <1>2, <1>3, <1>4, <1>5, <1>6, <1>7, <1>8, <1>10, <1>11, <1>12
       DEF Next, Step, StateFileAssumption

LEMMA WholeAlways == Spec => []Whole
  BY WholeInitially, WholeStep, StateTyped, StateFileAssumption, PTL DEF Spec

LEMMA WholeIsNeverTorn == Whole => NeverTorn
  BY DEF Whole, NeverTorn

\* FR-62, "never a partial file": NeverTorn of StateFile.
THEOREM NeverTornHolds == Spec => []NeverTorn
  BY WholeAlways, WholeIsNeverTorn, PTL

-----------------------------------------------------------------------------
(* What the older schema wrote *)

\* Nobody is about to replace the older schema's file, and every directory that a
\* power failure may leave has it where this one does.
Keeps ==
    /\ loaded # {} => dir.target.val # Legacy
    /\ \A t \in Tasks : /\ op[t].name = "save" => ProcOf[t] \in loaded
                        /\ pc[t] \in {"moved", "written", "synced"} => dir.target.val # Legacy
    /\ \A d \in maybe : Legacy \in {dir.target.val, dir.shadow.val}
                          => Legacy \in {d.target.val, d.shadow.val}

LEMMA KeepsInitially == StateFileAssumption /\ Init => Keeps
  BY DEF StateFileAssumption, Init, Keeps, NoOp

\* What replaces the file is no older schema's.
LEMMA NothingOld ==
    StateFileAssumption => Legacy \notin Values \cup {None} /\ NoFile.val # Legacy
  BY DEF StateFileAssumption, NoFile

LEMMA KeepsStep == StateFileAssumption /\ TypeOK /\ Whole /\ Keeps /\ [Next]_vars => Keeps'
  <1> SUFFICES ASSUME StateFileAssumption, TypeOK, Whole, Keeps, [Next]_vars PROVE Keeps'
    OBVIOUS
  <1>0. /\ pc \in [Tasks -> PCs] /\ op \in [Tasks -> Ops] /\ ProcOf \in [Tasks -> Procs]
        /\ dir \in maybe /\ maybe \subseteq Dirs /\ loaded \subseteq Procs
        /\ temp \in [Tasks -> [val : Values \cup {None}, synced : BOOLEAN]]
        /\ Legacy \notin Values \cup {None} /\ NoFile.val # Legacy
    BY NothingOld DEF TypeOK, StateFileAssumption
  <1> USE DEF Keeps, Goto, Return, NoOp, lockVars, diskVars
  <1>1. ASSUME NEW t \in Tasks, NEW v \in Values, NEW n \in {"save", "load", "reset"}, Call(t, n, v)
        PROVE Keeps'
    BY <1>1, <1>0 DEF Call
  <1>2. ASSUME NEW t \in Tasks, \/ TakeMutex(t) \/ TakeFlock(t) \/ Cancel(t)
                                \/ ThreadTakesFlock(t) \/ Leave(t) \/ Refuse(t) \/ Fail(t)
        PROVE Keeps'
    BY <1>2, <1>0 DEF TakeMutex, TakeFlock, Cancel, ThreadTakesFlock, Leave, Refuse, Fail
  <1>3. ASSUME NEW t \in Tasks, LoadCurrent(t) PROVE Keeps'
    BY <1>3, <1>0 DEF LoadCurrent
  <1>4. ASSUME NEW t \in Tasks, MoveAside(t) PROVE Keeps'
    <2>1. /\ dir'.target = NoFile /\ dir'.shadow = dir.target /\ dir.target.val = Legacy
          /\ maybe' = maybe \cup {dir'} /\ UNCHANGED <<op, loaded>>
      BY <1>4 DEF MoveAside, Becomes, MovedAside
    <2> QED
      BY <1>0, <2>1
  <1>5. ASSUME NEW t \in Tasks, SyncShadow(t) PROVE Keeps'
    BY <1>5, <1>0 DEF SyncShadow, AfterDirSync
  <1>6. ASSUME NEW t \in Tasks, WriteTemp(t) PROVE Keeps'
    <2>1. dir.target.val # Legacy
      BY <1>6, <1>0 DEF WriteTemp, ToWrite, Ops
    <2> QED
      BY <1>6, <1>0, <2>1 DEF WriteTemp
  <1>7. ASSUME NEW t \in Tasks, SyncTemp(t) \/ SyncDir(t) PROVE Keeps'
    BY <1>7, <1>0 DEF SyncTemp, SyncDir, AfterDirSync
  <1>8. ASSUME NEW t \in Tasks, Replace(t) PROVE Keeps'
    <2>1. /\ dir'.target = temp[t] /\ dir'.shadow = dir.shadow /\ maybe' = maybe \cup {dir'}
          /\ UNCHANGED <<op, loaded>> /\ pc[t] = "synced"
      BY <1>8, <1>0 DEF Replace, Becomes, Dirs
    <2>2. temp[t].val # Legacy /\ dir.target.val # Legacy
      BY <1>0, <2>1
    <2> QED
      BY <1>0, <2>1, <2>2
  <1>9. ASSUME NEW p \in Procs, Crash(p) PROVE Keeps'
    BY <1>9, <1>0 DEF Crash, Die
  <1>10. CASE PowerLoss
    <2>1. loaded' = {} /\ \A t \in Tasks : pc'[t] = "idle" /\ op'[t].name = "none"
      BY <1>10, <1>0 DEF PowerLoss, Die
    <2>2. maybe' = {dir'}
      BY <1>10 DEF PowerLoss
    <2> QED
      BY <2>1, <2>2
  <1>11. CASE UNCHANGED vars
    BY <1>11 DEF vars
  <1> QED
    BY <1>1, <1>2, <1>3, <1>4, <1>5, <1>6, <1>7, <1>8, <1>9, <1>10, <1>11
       DEF Next, Step, StateFileAssumption

LEMMA KeepsAlways == Spec => []Keeps
  BY KeepsInitially, KeepsStep, StateTyped, WholeAlways, StateFileAssumption, PTL DEF Spec

\* A step that leaves the file of the older schema out of what a power failure may
\* leave would have to break Keeps or to forget the file, and none does either.
LEMMA LegacyStep == StateFileAssumption /\ TypeOK /\ Whole /\ Keeps /\ [Next]_vars =>
    (\A d \in maybe' : Legacy \in {dir.target.val, dir.shadow.val}
        => Legacy \in {d.target.val, d.shadow.val})
  <1> SUFFICES ASSUME StateFileAssumption, TypeOK, Whole, Keeps, [Next]_vars,
                      Legacy \in {dir.target.val, dir.shadow.val}, NEW d \in maybe'
               PROVE  Legacy \in {d.target.val, d.shadow.val}
    OBVIOUS
  <1>1. Keeps' /\ TypeOK'
    BY KeepsStep, TypesStep
  <1>2. /\ dir \in Dirs /\ dir \in maybe
        /\ \A c \in maybe : Legacy \in {c.target.val, c.shadow.val}
    BY DEF Keeps, TypeOK
  <1>3. CASE UNCHANGED maybe
    BY <1>2, <1>3
  <1>4. ASSUME NEW t \in Tasks, MoveAside(t) PROVE Legacy \in {d.target.val, d.shadow.val}
    <2>1. dir'.shadow.val = Legacy /\ maybe' = maybe \cup {dir'}
      BY <1>4 DEF MoveAside, Becomes, MovedAside
    <2> QED
      BY <1>2, <2>1
  <1>5. ASSUME NEW t \in Tasks, SyncShadow(t) \/ SyncDir(t)
        PROVE Legacy \in {d.target.val, d.shadow.val}
    BY <1>2, <1>5 DEF SyncShadow, SyncDir, AfterDirSync
  <1>6. ASSUME NEW t \in Tasks, Replace(t) PROVE Legacy \in {d.target.val, d.shadow.val}
    <2>1. dir'.shadow = dir.shadow /\ maybe' = maybe \cup {dir'}
      BY <1>2, <1>6 DEF Replace, Becomes, Dirs
    <2>2. dir.target.val # Legacy
      BY <1>6 DEF Replace, Keeps
    <2> QED
      BY <1>2, <2>1, <2>2
  <1>7. CASE PowerLoss
    BY <1>2, <1>7, PowerLossKeeps
  <1>8. ASSUME NEW t \in Tasks, NEW v \in Values, NEW n \in {"save", "load", "reset"}, Call(t, n, v)
        PROVE UNCHANGED maybe
    BY <1>8 DEF Call, diskVars
  <1>9. ASSUME NEW t \in Tasks, \/ TakeMutex(t) \/ TakeFlock(t) \/ Cancel(t)
                                \/ ThreadTakesFlock(t) \/ Leave(t) \/ Refuse(t) \/ Fail(t)
                                \/ LoadCurrent(t) \/ WriteTemp(t) \/ SyncTemp(t)
        PROVE UNCHANGED maybe
    BY <1>9 DEF TakeMutex, TakeFlock, Cancel, ThreadTakesFlock, Leave, Refuse, Fail, LoadCurrent,
                WriteTemp, SyncTemp, lockVars, diskVars
  <1>10. ASSUME NEW p \in Procs, Crash(p) PROVE UNCHANGED maybe
    BY <1>10 DEF Crash
  <1>11. CASE UNCHANGED vars
    BY <1>3, <1>11 DEF vars, diskVars
  <1> QED
    BY <1>3, <1>4, <1>5, <1>6, <1>7, <1>8, <1>9, <1>10, <1>11 DEF Next, Step, StateFileAssumption

\* ADR-0004: what the older schema wrote is in the file or in its shadow, and a
\* power failure leaves it in one of them: LegacyKept of StateFile.
THEOREM LegacyKeptHolds == Spec => LegacyKept
  <1>1. StateFileAssumption /\ TypeOK /\ Whole /\ Keeps /\ [Next]_vars =>
          [\A d \in maybe' : Legacy \in {dir.target.val, dir.shadow.val}
              => Legacy \in {d.target.val, d.shadow.val}]_vars
    BY LegacyStep
  <1> QED
    BY <1>1, StateTyped, WholeAlways, KeepsAlways, StateFileAssumption, PTL DEF Spec, LegacyKept

-----------------------------------------------------------------------------
(* The file is a durable register *)

\* What the steps that touch the disk do to what a reader gets.
LEMMA ReadsOf ==
    StateFileAssumption => /\ Reads(NoFile) = Fresh
                           /\ \A f : f.val = Legacy => Reads(f) = Fresh
                           /\ \A f : f.val \in Values => Reads(f) = f.val
  BY DEF StateFileAssumption, Reads, NoFile

LEMMA MoveAsideStutters ==
    ASSUME StateFileAssumption, TypeOK, NEW t \in Tasks, MoveAside(t)
    PROVE  UNCHANGED Register!vars
  <1>1. /\ dir'.target = NoFile /\ dir.target.val = Legacy
        /\ maybe' = maybe \cup {dir'} /\ UNCHANGED acked /\ dir \in maybe
    BY DEF MoveAside, Becomes, MovedAside, TypeOK
  <1>2. Reads(dir'.target) = Fresh /\ Reads(dir.target) = Fresh
    BY <1>1, ReadsOf
  <1>3. {Reads(d.target) : d \in maybe'} = {Reads(d.target) : d \in maybe}
    BY <1>1, <1>2
  <1> QED
    BY <1>1, <1>2, <1>3 DEF Register!vars

LEMMA ReplacePuts ==
    ASSUME StateFileAssumption, TypeOK, NEW t \in Tasks, Replace(t)
    PROVE  Register!Next
  <1>1. /\ dir'.target = temp[t] /\ maybe' = maybe \cup {dir'} /\ acked' = FALSE
    BY DEF Replace, Becomes, TypeOK, Dirs
  <1>2. temp[t].val \in Values \cup {None} /\ Fresh \in Values
    BY DEF TypeOK, StateFileAssumption
  <1>3. Reads(temp[t]) \in Values
    BY <1>2, ReadsOf DEF Reads
  <1>4. {Reads(d.target) : d \in maybe'}
          = {Reads(d.target) : d \in maybe} \cup {Reads(dir'.target)}
    BY <1>1
  <1>5. Register!Put(Reads(temp[t]))
    BY <1>1, <1>4 DEF Register!Put
  <1> QED
    BY <1>3, <1>5 DEF Register!Next

LEMMA SyncsSettle ==
    ASSUME NEW t \in Tasks, SyncShadow(t) \/ SyncDir(t)
    PROVE  Register!Next
  <1>1. maybe' = {dir'} /\ UNCHANGED dir
    BY DEF SyncShadow, SyncDir, AfterDirSync
  <1>2. {Reads(d.target) : d \in maybe'} = {Reads(dir.target)}
    BY <1>1
  <1>3. acked' = TRUE \/ UNCHANGED acked
    BY DEF SyncShadow, SyncDir
  <1> QED
    BY <1>1, <1>2, <1>3 DEF Register!Next, Register!Acknowledge, Register!Settle

LEMMA PowerLossLoses ==
    ASSUME Whole, PowerLoss PROVE Register!Next
  <1>1. PICK d \in maybe : dir' = [target |-> d.target, shadow |-> d.shadow] /\ maybe' = {dir'}
    BY PowerLossKeeps
  <1>2. Reads(dir'.target) = Reads(d.target)
    BY <1>1
  <1>3. {Reads(c.target) : c \in maybe'} = {Reads(dir'.target)}
    BY <1>1
  <1>4. UNCHANGED acked
    BY DEF PowerLoss
  <1> QED
    BY <1>2, <1>3, <1>4 DEF Register!Next, Register!Lose

LEMMA RegisterInitially == StateFileAssumption /\ Init => Register!Init
  <1> SUFFICES ASSUME StateFileAssumption, Init PROVE Register!Init
    OBVIOUS
  <1>1. maybe = {dir} /\ acked = TRUE /\ dir.target.val \in Values \cup {Legacy, Newer, None}
    BY DEF Init
  <1>2. Reads(dir.target) \in Values \cup {Newer}
    BY <1>1 DEF Reads, StateFileAssumption
  <1>3. {Reads(d.target) : d \in maybe} = {Reads(dir.target)}
    BY <1>1
  <1> QED
    BY <1>1, <1>2, <1>3 DEF Register!Init

LEMMA RegisterStep ==
    StateFileAssumption /\ TypeOK /\ Whole /\ [Next]_vars => [Register!Next]_(Register!vars)
  <1> SUFFICES ASSUME StateFileAssumption, TypeOK, Whole, [Next]_vars
               PROVE  [Register!Next]_(Register!vars)
    OBVIOUS
  <1>1. CASE UNCHANGED <<dir, maybe, acked>>
    BY <1>1 DEF Register!vars
  <1>2. ASSUME NEW t \in Tasks, NEW v \in Values, NEW n \in {"save", "load", "reset"}, Call(t, n, v)
        PROVE UNCHANGED <<dir, maybe, acked>>
    BY <1>2 DEF Call, diskVars
  <1>3. ASSUME NEW t \in Tasks, \/ TakeMutex(t) \/ TakeFlock(t) \/ Cancel(t)
                                \/ ThreadTakesFlock(t) \/ Leave(t) \/ Refuse(t) \/ Fail(t)
                                \/ LoadCurrent(t) \/ WriteTemp(t) \/ SyncTemp(t)
        PROVE UNCHANGED <<dir, maybe, acked>>
    BY <1>3 DEF TakeMutex, TakeFlock, Cancel, ThreadTakesFlock, Leave, Refuse, Fail, LoadCurrent,
                WriteTemp, SyncTemp, lockVars, diskVars
  <1>4. ASSUME NEW p \in Procs, Crash(p) PROVE UNCHANGED <<dir, maybe, acked>>
    BY <1>4 DEF Crash
  <1>5. ASSUME UNCHANGED vars PROVE UNCHANGED <<dir, maybe, acked>>
    BY <1>5 DEF vars, diskVars
  <1>6. ASSUME NEW t \in Tasks, MoveAside(t) PROVE [Register!Next]_(Register!vars)
    BY <1>6, MoveAsideStutters
  <1>7. ASSUME NEW t \in Tasks, Replace(t) PROVE [Register!Next]_(Register!vars)
    BY <1>7, ReplacePuts
  <1>8. ASSUME NEW t \in Tasks, SyncShadow(t) \/ SyncDir(t) PROVE [Register!Next]_(Register!vars)
    BY <1>8, SyncsSettle
  <1>9. CASE PowerLoss
    BY <1>9, PowerLossLoses
  <1> QED
    BY <1>1, <1>2, <1>3, <1>4, <1>5, <1>6, <1>7, <1>8, <1>9 DEF Next, Step, StateFileAssumption

\* Over every crash, power failure, failing system call, cancellation and schema
\* downgrade, the file is a register whose acknowledged writes last.
THEOREM FileImplementsRegister == Spec => ImplementsRegister
  BY RegisterInitially, RegisterStep, StateTyped, WholeAlways, StateFileAssumption, PTL
     DEF Spec, ImplementsRegister, Register!Spec

\* What the register promises, it promises of this file.
LEMMA RegisterIsDurable ==
    /\ Register!Init => AckedDurable
    /\ AckedDurable /\ [Register!Next]_(Register!vars) => AckedDurable'
  <1> DEFINE P == {Reads(d.target) : d \in maybe}
             V == Reads(dir.target)
             Q == acked => \A v \in P : v = V
  <1>1. AckedDurable <=> Q
    BY DEF AckedDurable
  <1>2. AckedDurable' <=> Q'
    BY DEF AckedDurable
  <1>3. Register!Init => Q
    BY DEF Register!Init
  <1>4. Q /\ [Register!Next]_(Register!vars) => Q'
    BY DEF Register!Next, Register!vars, Register!Put, Register!Acknowledge, Register!Settle,
           Register!Lose
  <1> QED
    BY <1>1, <1>2, <1>3, <1>4

\* FR-62, the fsync of the directory: a save that returned survives every later
\* power failure: AckedDurable of StateFile, from the register alone.
THEOREM AckedDurableHolds == Spec => []AckedDurable
  BY FileImplementsRegister, RegisterIsDurable, PTL DEF ImplementsRegister, Register!Spec
=============================================================================
