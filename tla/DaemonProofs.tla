---------------------------- MODULE DaemonProofs -----------------------------
(***************************************************************************)
(* Proofs about DaemonStart, for any number of processes and locations and *)
(* all its faults; FileLock, for any number of processes and ids;          *)
(* EventReplay, for any events, readers and buffer size; and               *)
(* ProviderStore, for any handlers and the URIs that fit in a query.       *)
(***************************************************************************)
EXTENDS DaemonStart, FileLock, EventReplay, ProviderStore, Induction, TLAPS

-----------------------------------------------------------------------------
(***************************************************************************)
(* DaemonStart: one daemon at a time, and a running one can be reached.    *)
(***************************************************************************)

\* A process that holds the guard, as far as it knows, does, where no holder was
\* killed or stalled.
HoldersHold ==
  \A p \in Procs : pc[p] \in Holding /\ at[p] \notin disturbed => guard[at[p]] = p

\* Only there is a guard stale, and taken from somebody.
StaleDisturbed ==
  /\ stale \subseteq disturbed
  /\ \A p \in Procs : pc[p] \in {"steal", "retake"} => at[p] \in disturbed

\* Until it registers, and once it listens, a daemon is on its way up.
GoingUp ==
  \A p \in Procs :
    pc[p] \notin Registering \cup Ended \cup {"stopping", "unsock", "unguard", "unfile"}
      => going[p] = "up"

\* From Listen on the socket is the daemon's; from RegWrite on the entry is.
Reached ==
  \A p \in Procs : at[p] \notin disturbed =>
    /\ pc[p] \in {"watch", "running"} => socket[at[p]] = p
    /\ pc[p] \in {"listen", "watch", "running"} => entry[at[p]] = p \/ recreated

DaemonInv == DaemonTypeOK /\ HoldersHold /\ StaleDisturbed /\ GoingUp /\ Reached

\* Every state is well-typed.
LEMMA DaemonTyped == DaemonSpec => []DaemonTypeOK
  <1>1. DaemonInit => DaemonTypeOK
    BY DaemonAssumption DEF DaemonInit, DaemonTypeOK, Holder, Places
  <1>2. DaemonTypeOK /\ [DaemonNext]_daemonVars => DaemonTypeOK'
    <2> SUFFICES ASSUME DaemonTypeOK, [DaemonNext]_daemonVars PROVE DaemonTypeOK'
      OBVIOUS
    <2> USE DEF DaemonTypeOK, Goto, Names, files, registry, daemonVars, Places, Holding, Registering, Ended, Holder
    <2>1. ASSUME NEW p \in Procs, Probe(p) PROVE DaemonTypeOK'
      BY <2>1 DEF Probe
    <2>2. ASSUME NEW p \in Procs, StartStep(p) PROVE DaemonTypeOK'
      <3>1. CASE ProbeAgain(p)
        BY <3>1 DEF ProbeAgain
      <3>2. CASE Inspect(p)
        BY <3>2 DEF Inspect
      <3>3. CASE UnlinkStale(p) \/ WriteLock(p) \/ Undo(p)
        BY <3>3 DEF UnlinkStale, WriteLock, Undo
      <3>4. CASE Lock(p)
        BY <3>4 DEF Lock, TakeGuard
      <3>5. CASE Steal(p)
        BY <3>5 DEF Steal
      <3>6. CASE Retake(p)
        BY <3>6 DEF Retake, TakeGuard
      <3>7. CASE CleanSocket(p) \/ Ensure(p) \/ Create(p)
        BY <3>7 DEF CleanSocket, Ensure, Create
      <3>8. CASE RegLock(p)
        BY <3>8 DEF RegLock
      <3>9. CASE RegWrite(p)
        BY <3>9 DEF RegWrite
      <3>10. CASE Listen(p) \/ Watch(p)
        BY <3>10 DEF Listen, Watch
      <3>11. CASE StartFails(p)
        BY <3>11 DEF StartFails
      <3> QED
        BY <2>2, <3>1, <3>2, <3>3, <3>4, <3>5, <3>6, <3>7, <3>8, <3>9, <3>10, <3>11 DEF StartStep
    <2>3. ASSUME NEW p \in Procs, Stop(p) \/ StopStep(p) PROVE DaemonTypeOK'
      BY <2>3 DEF Stop, StopStep, StopServer, Unsock, Unguard, Unfile, Abort
    <2>4. ASSUME NEW p \in Procs, Kill(p) PROVE DaemonTypeOK'
      BY <2>4 DEF Kill
    <2>5. ASSUME NEW p \in Procs, Renew(p) \/ Lost(p) PROVE DaemonTypeOK'
      BY <2>5 DEF Renew, Lost
    <2>6. ASSUME NEW l \in Locations, GuardStale(l) PROVE DaemonTypeOK'
      BY <2>6 DEF GuardStale
    <2>7. CASE RegGuardStale
      BY <2>7 DEF RegGuardStale
    <2>8. CASE UNCHANGED daemonVars
      BY <2>8
    <2> QED
      BY <2>1, <2>2, <2>3, <2>4, <2>5, <2>6, <2>7, <2>8 DEF DaemonNext, DaemonStep
  <1> QED
    BY <1>1, <1>2, PTL DEF DaemonSpec

\* One step keeps the guard with its holder.
LEMMA HoldersStep ==
  ASSUME DaemonTypeOK, HoldersHold, StaleDisturbed, [DaemonNext]_daemonVars
  PROVE  HoldersHold' /\ StaleDisturbed'
  <1> USE DEF DaemonTypeOK, HoldersHold, StaleDisturbed, Goto, Names, files, registry, Places,
              Holding, Registering, Ended, Holder
  <1>1. ASSUME NEW p \in Procs, Probe(p) PROVE HoldersHold' /\ StaleDisturbed'
    BY <1>1 DEF Probe
  <1>2. ASSUME NEW p \in Procs, StartStep(p) PROVE HoldersHold' /\ StaleDisturbed'
    <2>1. CASE ProbeAgain(p) \/ Inspect(p)
      BY <2>1 DEF ProbeAgain, Inspect
    <2>2. CASE UnlinkStale(p) \/ WriteLock(p) \/ Undo(p)
      BY <2>2 DEF UnlinkStale, WriteLock, Undo
    <2>3. CASE Lock(p)
      <3>1. CASE guard[at[p]] = None /\ TakeGuard(p)
        BY <2>3, <3>1, DaemonAssumption DEF Lock, TakeGuard
      <3>2. CASE at[p] \in stale /\ Goto(p, "steal") /\ UNCHANGED <<guard, stale>>
        BY <2>3, <3>2 DEF Lock
      <3>3. CASE Goto(p, "undo") /\ UNCHANGED <<guard, stale>>
        BY <2>3, <3>3 DEF Lock
      <3> QED
        BY <2>3, <3>1, <3>2, <3>3 DEF Lock
    <2>4. CASE Steal(p)
      BY <2>4 DEF Steal
    <2>5. CASE Retake(p)
      BY <2>5, DaemonAssumption DEF Retake, TakeGuard
    <2>6. CASE CleanSocket(p) \/ Ensure(p) \/ Create(p) \/ RegLock(p)
      BY <2>6 DEF CleanSocket, Ensure, Create, RegLock
    <2>7. CASE RegWrite(p) \/ Listen(p) \/ Watch(p)
      BY <2>7 DEF RegWrite, Listen, Watch
    <2>8. CASE StartFails(p)
      BY <2>8 DEF StartFails
    <2> QED
      BY <1>2, <2>1, <2>2, <2>3, <2>4, <2>5, <2>6, <2>7, <2>8 DEF StartStep
  <1>3. ASSUME NEW p \in Procs, Stop(p) \/ StopServer(p) \/ Unsock(p) \/ Unfile(p)
        PROVE HoldersHold' /\ StaleDisturbed'
    BY <1>3 DEF Stop, StopServer, Unsock, Unfile
  <1>4. ASSUME NEW p \in Procs, Unguard(p) \/ Abort(p) PROVE HoldersHold' /\ StaleDisturbed'
    BY <1>4 DEF Unguard, Abort
  <1>5. ASSUME NEW p \in Procs, Kill(p) PROVE HoldersHold' /\ StaleDisturbed'
    BY <1>5 DEF Kill
  <1>6. ASSUME NEW p \in Procs, Renew(p) \/ Lost(p) PROVE HoldersHold' /\ StaleDisturbed'
    BY <1>6 DEF Renew, Lost
  <1>7. ASSUME NEW l \in Locations, GuardStale(l) PROVE HoldersHold' /\ StaleDisturbed'
    BY <1>7 DEF GuardStale
  <1>8. CASE RegGuardStale \/ UNCHANGED daemonVars
    BY <1>8 DEF RegGuardStale, daemonVars
  <1> QED
    BY <1>1, <1>2, <1>3, <1>4, <1>5, <1>6, <1>7, <1>8 DEF DaemonNext, DaemonStep, StopStep

\* One step of any process leaves a running daemon's socket and entry alone.
LEMMA ReachedStep ==
  ASSUME DaemonTypeOK, HoldersHold, StaleDisturbed, GoingUp, Reached, [DaemonNext]_daemonVars
  PROVE  GoingUp' /\ Reached'
  <1> USE DEF DaemonTypeOK, HoldersHold, StaleDisturbed, GoingUp, Reached, Goto, Names, files, registry,
              Places, Holding, Registering, Ended, Holder
  <1>1. ASSUME NEW p \in Procs, Probe(p) PROVE GoingUp' /\ Reached'
    BY <1>1 DEF Probe
  <1>2. ASSUME NEW p \in Procs, StartStep(p) PROVE GoingUp' /\ Reached'
    <2>1. CASE ProbeAgain(p) \/ Inspect(p)
      BY <2>1 DEF ProbeAgain, Inspect
    <2>2. CASE UnlinkStale(p) \/ WriteLock(p) \/ Undo(p)
      BY <2>2 DEF UnlinkStale, WriteLock, Undo
    <2>3. CASE Lock(p) \/ Steal(p) \/ Retake(p)
      <3>1. PICK place \in {"steal", "retake", "undo", "clean"} :
              pc' = [pc EXCEPT ![p] = place] /\ pc[p] \in {"lock", "steal", "retake"}
        BY <2>3 DEF Lock, Steal, Retake, TakeGuard
      <3>2. UNCHANGED <<at, going, socket, entry, recreated, disturbed>>
        BY <2>3 DEF Lock, Steal, Retake, TakeGuard
      <3>3. place = "clean" => going[p] = "up"
        BY <2>3, <3>1 DEF Lock, Steal, Retake, TakeGuard
      <3> QED
        BY <3>1, <3>2, <3>3
    <2>4. CASE CleanSocket(p)
      BY <2>4 DEF CleanSocket
    <2>5. CASE Ensure(p) \/ Create(p) \/ RegLock(p)
      BY <2>5 DEF Ensure, Create, RegLock
    <2>6. CASE RegWrite(p)
      BY <2>6 DEF RegWrite
    <2>7. CASE Listen(p) \/ Watch(p)
      BY <2>7 DEF Listen, Watch
    <2>8. CASE StartFails(p)
      BY <2>8 DEF StartFails
    <2> QED
      BY <1>2, <2>1, <2>2, <2>3, <2>4, <2>5, <2>6, <2>7, <2>8 DEF StartStep
  <1>3. ASSUME NEW p \in Procs, Stop(p) \/ Unguard(p) \/ Unfile(p) \/ Abort(p) PROVE GoingUp' /\ Reached'
    BY <1>3 DEF Stop, Unguard, Unfile, Abort
  <1>4. ASSUME NEW p \in Procs, StopServer(p) \/ Unsock(p) PROVE GoingUp' /\ Reached'
    BY <1>4 DEF StopServer, Unsock
  <1>5. ASSUME NEW p \in Procs, Kill(p) \/ Renew(p) \/ Lost(p) PROVE GoingUp' /\ Reached'
    BY <1>5 DEF Kill, Renew, Lost
  <1>6. ASSUME NEW l \in Locations, GuardStale(l) PROVE GoingUp' /\ Reached'
    BY <1>6 DEF GuardStale
  <1>7. CASE RegGuardStale \/ UNCHANGED daemonVars
    BY <1>7 DEF RegGuardStale, daemonVars
  <1> QED
    BY <1>1, <1>2, <1>3, <1>4, <1>5, <1>6, <1>7 DEF DaemonNext, DaemonStep, StopStep

LEMMA DaemonInvariant == DaemonSpec => []DaemonInv
  <1>1. DaemonInit => DaemonInv
    <2> SUFFICES ASSUME DaemonInit PROVE HoldersHold /\ StaleDisturbed /\ GoingUp /\ Reached
      BY DaemonAssumption DEF DaemonInv, DaemonInit, DaemonTypeOK, Holder, Places
    <2> QED
      BY DEF DaemonInit, HoldersHold, StaleDisturbed, GoingUp, Reached, Holding, Registering
  <1>2. DaemonInv /\ DaemonTypeOK' /\ [DaemonNext]_daemonVars => DaemonInv'
    BY HoldersStep, ReachedStep DEF DaemonInv
  <1> QED
    BY <1>1, <1>2, DaemonTyped, PTL DEF DaemonSpec

(***************************************************************************)
(* For any number of processes: no two daemons of one location hold its    *)
(* guard unless a holder was killed or stalled (acquire() of lock.ts, and  *)
(* what the steps of start() and stop() may unlink).                       *)
(***************************************************************************)
THEOREM OneDaemonAlways == DaemonSpec => []OneDaemon
  <1>1. DaemonInv => OneDaemon
    BY DEF DaemonInv, HoldersHold, OneDaemon, Serving
  <1> QED
    BY <1>1, DaemonInvariant, PTL

(***************************************************************************)
(* And a running daemon's socket and registry entry stay its own.          *)
(***************************************************************************)
THEOREM RunningIsReached == DaemonSpec => []RunningReached
  <1>1. DaemonInv => RunningReached
    BY DEF DaemonInv, Reached, RunningReached
  <1> QED
    BY <1>1, DaemonInvariant, PTL

-----------------------------------------------------------------------------
(***************************************************************************)
(* FileLock: no ID is given twice.                                         *)
(***************************************************************************)

\* A create reads a mark that has room for one more.
RoomLeft == \A w \in Writers : step[w] \in {"bump", "save"} => read[w] < MaxTasks

\* Who is inside made the lock file that is there.
HolderOwnsFile == \A w \in Writers : step[w] \in Inside => file = w

\* A create that has read the mark read the last one, and one that has raised it
\* is alone with the new one: no id beyond the mark was given.
MarkInv ==
  /\ \A w \in Writers : given[w] \subseteq 1..mark
  /\ \A w \in Writers : step[w] = "bump" => read[w] = mark
  /\ \A w \in Writers : step[w] = "save" =>
       mark = read[w] + 1 /\ \A v \in Writers : mark \notin given[v]

LockInv == FileLockTypeOK /\ RoomLeft /\ (~broken => HolderOwnsFile /\ MarkInv /\ Distinct)

LEMMA InitiallyLocked == FileLockInit => LockInv
<1> SUFFICES ASSUME FileLockInit PROVE LockInv
  OBVIOUS
<1>1. 0 \in 0..MaxTasks
  BY FileLockAssumption
<1>2. FileLockTypeOK
  BY <1>1 DEF FileLockInit, FileLockTypeOK, Steps, Inside
<1>3. RoomLeft /\ HolderOwnsFile /\ MarkInv /\ Distinct
  BY DEF FileLockInit, RoomLeft, HolderOwnsFile, MarkInv, Distinct, Inside
<1>4. QED  BY <1>2, <1>3 DEF LockInv

\* The types and the room, whatever was broken.
LEMMA LockTypeStep ==
  ASSUME FileLockTypeOK, RoomLeft, [FileLockNext]_fileLockVars
  PROVE  FileLockTypeOK' /\ RoomLeft'
<1> USE FileLockAssumption DEF FileLockTypeOK, RoomLeft, Steps, Inside, Ids, Step, NoFile, lockVars, data
<1>1. ASSUME NEW w \in Writers, Want(w) \/ Stamp(w) \/ Exists(w) \/ GiveUp(w) \/ Break(w) \/ Release(w) \/ Die(w)
      PROVE  FileLockTypeOK' /\ RoomLeft'
  BY <1>1 DEF Want, Stamp, Exists, GiveUp, Break, Release, Die, IsStale
<1>2. ASSUME NEW w \in Writers, Open(w)
      PROVE  FileLockTypeOK' /\ RoomLeft'
  BY <1>2 DEF Open
<1>3. ASSUME NEW w \in Writers, ReadMark(w) \/ Bump(w)
      PROVE  FileLockTypeOK' /\ RoomLeft'
  <2>1. CASE ReadMark(w)
    BY <2>1 DEF ReadMark
  <2>2. CASE Bump(w)
    <3>1. read[w] + 1 \in 0..MaxTasks
      BY <2>2 DEF Bump
    <3>2. QED  BY <2>2, <3>1 DEF Bump
  <2>3. QED  BY <1>3, <2>1, <2>2
<1>4. ASSUME NEW w \in Writers, Save(w)
      PROVE  FileLockTypeOK' /\ RoomLeft'
  <2>1. read[w] + 1 \in Ids /\ 0 \in 0..MaxTasks
    BY <1>4 DEF Save
  <2>2. given' \in [Writers -> SUBSET Ids] /\ task' \in [Ids -> Writers \cup {Nobody}]
    BY <1>4, <2>1 DEF Save
  <2>3. /\ step' \in [Writers -> Steps] /\ read' \in [Writers -> 0..MaxTasks]
        /\ step'[w] = "release" /\ \A v \in Writers \ {w} : step'[v] = step[v] /\ read'[v] = read[v]
    BY <1>4, <2>1 DEF Save
  <2>4. UNCHANGED <<file, stamped, old, mark, broken>>
    BY <1>4 DEF Save
  <2>5. RoomLeft'
    BY <2>3
  <2>6. QED  BY <2>2, <2>3, <2>4, <2>5
<1>5. ASSUME NEW w \in Writers, Update(w) \/ Delete(w)
      PROVE  FileLockTypeOK' /\ RoomLeft'
  <2>1. task' \in [Ids -> Writers \cup {Nobody}]
    BY <1>5 DEF Update, Delete
  <2>2. step' = [step EXCEPT ![w] = "release"] /\ UNCHANGED <<file, stamped, old, mark, read, given, broken>>
    BY <1>5 DEF Update, Delete
  <2>3. QED  BY <2>1, <2>2
<1>6. CASE Age
  <2>1. old' \in BOOLEAN /\ UNCHANGED <<step, file, stamped, mark, read, task, given, broken>>
    BY <1>6 DEF Age
  <2>2. QED  BY <2>1
<1>7. CASE UNCHANGED fileLockVars
  BY <1>7 DEF fileLockVars
<1>8. QED
  BY <1>1, <1>2, <1>3, <1>4, <1>5, <1>6, <1>7 DEF FileLockNext

\* No step mends a broken lock.
LEMMA BrokenStays ==
  ASSUME broken, [FileLockNext]_fileLockVars PROVE broken'
  BY DEF FileLockNext, fileLockVars, Want, Open, Stamp, Exists, GiveUp, Break, ReadMark, Bump, Save,
         Update, Delete, Release, Die, Age

\* As long as nobody unlinks the file of a holder that lives, who enters finds none
\* inside, and who is inside stays alone.
LEMMA HoldStep ==
  ASSUME FileLockTypeOK, HolderOwnsFile, [FileLockNext]_fileLockVars, ~broken'
  PROVE  HolderOwnsFile'
<1> USE FileLockAssumption DEF FileLockTypeOK, HolderOwnsFile, Steps, Inside, Step, NoFile, lockVars, data
<1>1. ASSUME NEW w \in Writers, Want(w) \/ Stamp(w) \/ Exists(w) \/ GiveUp(w)
      PROVE  HolderOwnsFile'
  BY <1>1 DEF Want, Stamp, Exists, GiveUp, IsStale
<1>2. ASSUME NEW w \in Writers, Open(w)
      PROVE  HolderOwnsFile'
  BY <1>2 DEF Open
<1>3. ASSUME NEW w \in Writers, Break(w)
      PROVE  HolderOwnsFile'
  BY <1>3 DEF Break
<1>4. ASSUME NEW w \in Writers, Release(w)
      PROVE  HolderOwnsFile'
  BY <1>4 DEF Release
<1>5. ASSUME NEW w \in Writers, ReadMark(w) \/ Bump(w) \/ Save(w) \/ Update(w) \/ Delete(w) \/ Die(w)
      PROVE  HolderOwnsFile'
  BY <1>5 DEF ReadMark, Bump, Save, Update, Delete, Die
<1>6. CASE Age
  BY <1>6 DEF Age
<1>7. CASE UNCHANGED fileLockVars
  BY <1>7 DEF fileLockVars
<1>8. QED
  BY <1>1, <1>2, <1>3, <1>4, <1>5, <1>6, <1>7 DEF FileLockNext

\* Two writers that both hold are one.
LEMMA AloneInside ==
  ASSUME FileLockTypeOK, HolderOwnsFile, NEW v \in Writers, NEW w \in Writers,
         step[v] \in Inside, step[w] \in Inside
  PROVE  v = w
  BY DEF HolderOwnsFile

\* And so the ids stay below the mark, and distinct.
LEMMA MarkStep ==
  ASSUME LockInv, [FileLockNext]_fileLockVars, ~broken'
  PROVE  MarkInv' /\ Distinct'
<1>0. /\ FileLockTypeOK /\ RoomLeft /\ HolderOwnsFile /\ MarkInv /\ Distinct
      /\ \A v, w \in Writers : step[v] \in Inside /\ step[w] \in Inside => v = w
  BY BrokenStays, AloneInside DEF LockInv
<1> USE FileLockAssumption, <1>0 DEF FileLockTypeOK, MarkInv, Distinct, Steps, Inside, Ids, Step, NoFile, lockVars, data
<1>1. ASSUME NEW w \in Writers, Want(w) \/ Open(w) \/ Exists(w) \/ GiveUp(w) \/ Break(w) \/ Release(w) \/ Die(w)
      PROVE  MarkInv' /\ Distinct'
  BY <1>1 DEF Want, Open, Exists, GiveUp, Break, Release, Die, IsStale
<1>2. ASSUME NEW w \in Writers, Stamp(w) \/ Update(w) \/ Delete(w)
      PROVE  MarkInv' /\ Distinct'
  BY <1>2 DEF Stamp, Update, Delete
<1>3. ASSUME NEW w \in Writers, ReadMark(w)
      PROVE  MarkInv' /\ Distinct'
  BY <1>3 DEF ReadMark
<1>4. ASSUME NEW w \in Writers, Bump(w)
      PROVE  MarkInv' /\ Distinct'
  <2>1. /\ mark' = mark + 1 /\ mark \in Nat /\ given' = given /\ read' = read
        /\ step' = [step EXCEPT ![w] = "save"] /\ read[w] = mark
    BY <1>4 DEF Bump
  <2>2. \A v \in Writers : given[v] \subseteq 1..mark' /\ mark' \notin given[v]
    BY <2>1
  <2>3. \A v \in Writers : step'[v] \in {"bump", "save"} => v = w
    BY <1>4, <2>1 DEF Bump
  <2>4. QED  BY <2>1, <2>2, <2>3
<1>5. ASSUME NEW w \in Writers, Save(w)
      PROVE  MarkInv' /\ Distinct'
  <2>1. /\ mark' = mark /\ mark \in Nat /\ mark = read[w] + 1
        /\ given' = [given EXCEPT ![w] = @ \cup {mark}]
        /\ \A v \in Writers : mark \notin given[v]
    <3>1. mark' = mark /\ mark \in Nat
      BY <1>5 DEF Save
    <3>2. mark = read[w] + 1 /\ \A v \in Writers : mark \notin given[v]
      BY <1>5 DEF Save
    <3>3. given' = [given EXCEPT ![w] = @ \cup {mark}]
      BY <1>5, <3>2 DEF Save
    <3>4. QED  BY <3>1, <3>2, <3>3
  <2>2. \A v \in Writers : step'[v] \notin {"bump", "save"}
    BY <1>5 DEF Save
  <2>3. \A v \in Writers : given'[v] \subseteq 1..mark'
    <3>1. mark \in 1..mark
      BY <1>5, <2>1 DEF Save
    <3>2. QED  BY <2>1, <3>1
  <2>4. ASSUME NEW v \in Writers, NEW u \in Writers, v # u PROVE given'[v] \cap given'[u] = {}
    <3>1. given[v] \cap given[u] = {} /\ mark \notin given[v] /\ mark \notin given[u]
      BY <2>1, <2>4
    <3>2. given'[v] = (IF v = w THEN given[v] \cup {mark} ELSE given[v])
      BY <2>1
    <3>3. given'[u] = (IF u = w THEN given[u] \cup {mark} ELSE given[u])
      BY <2>1
    <3>4. QED  BY <2>4, <3>1, <3>2, <3>3
  <2>5. QED  BY <2>2, <2>3, <2>4
<1>6. CASE Age
  BY <1>6 DEF Age
<1>7. CASE UNCHANGED fileLockVars
  BY <1>7 DEF fileLockVars
<1>8. QED
  BY <1>1, <1>2, <1>3, <1>4, <1>5, <1>6, <1>7 DEF FileLockNext

\* The lock file of file-lock.ts keeps the ids of claude-tasks-fs.ts apart: for any
\* number of processes, killed anywhere, two creates never return one id, unless
\* somebody unlinked the file of a holder that lives.
THEOREM IdsAreDistinct == FileLockSpec => []IdsDistinct
<1>1. FileLockInit => LockInv
  BY InitiallyLocked
<1>2. LockInv /\ [FileLockNext]_fileLockVars => LockInv'
  <2>1. SUFFICES ASSUME LockInv, [FileLockNext]_fileLockVars PROVE LockInv'
    OBVIOUS
  <2>2. FileLockTypeOK' /\ RoomLeft'
    BY <2>1, LockTypeStep DEF LockInv
  <2>3. ASSUME ~broken' PROVE HolderOwnsFile' /\ MarkInv' /\ Distinct'
    BY <2>1, <2>3, BrokenStays, HoldStep, MarkStep DEF LockInv
  <2>4. QED  BY <2>2, <2>3 DEF LockInv
<1>3. LockInv => IdsDistinct
  BY DEF LockInv, IdsDistinct
<1>4. QED  BY <1>1, <1>2, <1>3, PTL DEF FileLockSpec

-----------------------------------------------------------------------------
(***************************************************************************)
(* EventReplay: events.since keeps its promise.                            *)
(***************************************************************************)

Stamped == [seq : Nat, epoch : Epochs, event : Event]

TypeOK ==
  /\ stream \in [epoch : Epochs, latestSeq : Nat, buffer : Seq(Stamped)]
  /\ log \in Seq(Event)

IInv == TypeOK /\ BufferIsTail

\* One more event: the buffer gains it and, when full, loses its oldest.
LEMMA PushStep ==
  ASSUME IInv, NEW e \in Event, Emit(e)
  PROVE  IInv'
<1> DEFINE n == Len(log)
           k == Len(stream.buffer)
           st == [seq |-> stream.latestSeq + 1, epoch |-> stream.epoch, event |-> e]
           buf == Append(stream.buffer, st)
           new == IF Len(buf) > BufferSize THEN Tail(buf) ELSE buf
<1>1. /\ stream.epoch \in Epochs /\ stream.latestSeq \in Nat /\ stream.buffer \in Seq(Stamped)
      /\ stream = [epoch |-> stream.epoch, latestSeq |-> stream.latestSeq, buffer |-> stream.buffer]
      /\ log \in Seq(Event) /\ n \in Nat /\ k \in Nat /\ stream.latestSeq = n
  BY DEF IInv, TypeOK, BufferIsTail
<1>2. BufferSize \in Nat \ {0}
  BY BufferAssumption
<1>3. st \in Stamped
  BY <1>1 DEF Stamped
<1>4. /\ stream' = [epoch |-> stream.epoch, latestSeq |-> n + 1, buffer |-> new]
      /\ log' = Append(log, e)
  BY <1>1 DEF Emit, Push
<1>5. /\ buf \in Seq(Stamped) /\ Len(buf) = k + 1
      /\ \A i \in 1..k : buf[i] = stream.buffer[i]
      /\ buf[k + 1] = st
  BY <1>1, <1>3
<1>6. /\ log' \in Seq(Event) /\ Len(log') = n + 1
      /\ \A i \in 1..n : log'[i] = log[i]
      /\ log'[n + 1] = e
  BY <1>1, <1>4
<1>7. /\ k <= BufferSize
      /\ n - k = 0 \/ (n - k > 0 /\ k = BufferSize)
      /\ \A i \in 1..k : stream.buffer[i] =
           [seq |-> n - k + i, epoch |-> stream.epoch, event |-> log[n - k + i]]
  BY <1>1 DEF IInv, BufferIsTail
<1>8. \A i \in 1..(k + 1) : buf[i] =
        [seq |-> n - k + i, epoch |-> stream.epoch, event |-> log'[n - k + i]]
  <2> SUFFICES ASSUME NEW i \in 1..(k + 1)
               PROVE  buf[i] = [seq |-> n - k + i, epoch |-> stream.epoch, event |-> log'[n - k + i]]
    OBVIOUS
  <2>1. CASE i = k + 1
    <3>1. n - k + i = n + 1
      BY <2>1, <1>1
    <3>. QED  BY <3>1, <2>1, <1>1, <1>5, <1>6
  <2>2. CASE i \in 1..k
    <3>1. n - k + i \in 1..n
      BY <2>2, <1>1, <1>2, <1>7
    <3>. QED  BY <3>1, <2>2, <1>5, <1>6, <1>7
  <2>. QED  BY <2>1, <2>2, <1>1
<1> HIDE DEF buf, st
<1>9. CASE k + 1 <= BufferSize
  <2>1. new = buf
    BY <1>9, <1>5, <1>2, <1>1
  <2>2. n = k
    BY <1>9, <1>7, <1>1, <1>2
  <2>3. TypeOK'
    BY <2>1, <1>1, <1>4, <1>5, <1>6 DEF TypeOK
  <2> HIDE DEF k, n, new
  <2>4. /\ stream'.latestSeq = Len(log') /\ stream'.epoch = stream.epoch
        /\ stream'.buffer = buf /\ Len(log') - Len(stream'.buffer) = 0
        /\ DOMAIN stream'.buffer = 1..(k + 1) /\ Len(stream'.buffer) <= BufferSize
    BY <2>1, <2>2, <1>1, <1>4, <1>5, <1>6, <1>9
  <2>5. \A i \in 1..(k + 1) : n - k + i = 0 + i
    BY <2>2, <1>1
  <2>6. \A i \in DOMAIN stream'.buffer : stream'.buffer[i] =
          [seq |-> Len(log') - Len(stream'.buffer) + i, epoch |-> stream'.epoch,
           event |-> log'[Len(log') - Len(stream'.buffer) + i]]
    BY <2>4, <2>5, <1>8
  <2>7. BufferIsTail'
    BY <2>4, <2>6 DEF BufferIsTail
  <2>. QED  BY <2>3, <2>7 DEF IInv
<1>10. CASE k = BufferSize
  <2>1. new = Tail(buf)
    BY <1>10, <1>5, <1>2, <1>1
  <2>2. /\ new \in Seq(Stamped) /\ Len(new) = k
        /\ \A i \in 1..k : new[i] = buf[i + 1]
    BY <2>1, <1>1, <1>5
  <2>3. TypeOK'
    BY <2>2, <1>1, <1>4, <1>6 DEF TypeOK
  <2>4. \A i \in 1..k : new[i] =
          [seq |-> (n + 1) - k + i, epoch |-> stream.epoch, event |-> log'[(n + 1) - k + i]]
    <3> SUFFICES ASSUME NEW i \in 1..k
                 PROVE  new[i] = [seq |-> (n + 1) - k + i, epoch |-> stream.epoch,
                                  event |-> log'[(n + 1) - k + i]]
      OBVIOUS
    <3>1. i + 1 \in 1..(k + 1) /\ n - k + (i + 1) = (n + 1) - k + i
      BY <1>1
    <3>. QED  BY <3>1, <2>2, <1>8
  <2> HIDE DEF new
  <2> HIDE DEF k, n
  <2>5. /\ stream'.latestSeq = Len(log') /\ stream'.epoch = stream.epoch
        /\ stream'.buffer = new /\ Len(log') - Len(stream'.buffer) = (n + 1) - k
    BY <2>2, <1>4, <1>6
  <2>6. (n + 1) - k > 0 /\ Len(stream'.buffer) = BufferSize /\ DOMAIN stream'.buffer = 1..k
    BY <2>2, <2>5, <1>1, <1>2, <1>7, <1>10
  <2>7. \A i \in DOMAIN stream'.buffer : stream'.buffer[i] =
          [seq |-> Len(log') - Len(stream'.buffer) + i, epoch |-> stream'.epoch,
           event |-> log'[Len(log') - Len(stream'.buffer) + i]]
    BY <2>4, <2>5, <2>6
  <2>8. /\ Len(stream'.buffer) <= BufferSize
        /\ Len(log') - Len(stream'.buffer) > 0
    BY <2>5, <2>6, <1>2
  <2>9. BufferIsTail'
    BY <2>5, <2>6, <2>7, <2>8 DEF BufferIsTail
  <2>. QED  BY <2>3, <2>9 DEF IInv
<1>. QED  BY <1>1, <1>2, <1>7, <1>9, <1>10

LEMMA FreshInv ==
  ASSUME NEW e \in Epochs, stream' = Fresh(e), log' = << >>
  PROVE  IInv'
<1>1. TypeOK'
  BY DEF TypeOK, Fresh
<1>2. BufferIsTail'
  BY BufferAssumption DEF BufferIsTail, Fresh
<1>. QED  BY <1>1, <1>2 DEF IInv

LEMMA InvInit == Init => IInv
<1> SUFFICES ASSUME Init PROVE IInv
  OBVIOUS
<1>0. 0 \in Epochs
  BY BufferAssumption DEF Epochs
<1>1. TypeOK
  BY <1>0 DEF Init, TypeOK, Fresh
<1>2. BufferIsTail
  BY BufferAssumption DEF Init, BufferIsTail, Fresh
<1>. QED  BY <1>1, <1>2 DEF IInv

LEMMA InvStep == IInv /\ [Next]_vars => IInv'
<1> SUFFICES ASSUME IInv, [Next]_vars PROVE IInv'
  OBVIOUS
<1>1. CASE \E e \in Event : Emit(e)
  BY <1>1, PushStep
<1>2. CASE \E r \in Readers, c \in Cursors : EventsSince(r, c)
  BY <1>2 DEF EventsSince, IInv, TypeOK, BufferIsTail
<1>3. CASE Restart
  <2>1. stream.epoch + 1 \in Epochs
    BY <1>3, BufferAssumption DEF Restart, IInv, TypeOK, Epochs
  <2>. QED  BY <2>1, <1>3, FreshInv DEF Restart
<1>4. CASE UNCHANGED vars
  BY <1>4 DEF vars, IInv, TypeOK, BufferIsTail
<1>. QED  BY <1>1, <1>2, <1>3, <1>4 DEF Next

\* For every buffer size: the ring buffer of emit() holds exactly the last events
\* of the epoch, numbered without a gap.
THEOREM BufferHoldsTail == Spec => []BufferIsTail
<1>1. IInv => BufferIsTail
  BY DEF IInv
<1>. QED  BY <1>1, InvInit, InvStep, PTL DEF Spec

\* The buffered events after a servable cursor are all the events after it.
LEMMA SinceIsMissed ==
  ASSUME IInv, NEW c \in Cursors, ~Unservable(stream, c)
  PROVE  Since(stream, c).events = Promise!Missed(c)
<1> DEFINE n == Len(log)
           k == Len(stream.buffer)
<1>1. /\ n \in Nat /\ k \in Nat /\ stream.latestSeq = n /\ c.seq \in Int
      /\ DOMAIN stream.buffer = 1..k /\ DOMAIN log = 1..n
      /\ n - k >= 0
  BY BufferAssumption DEF IInv, TypeOK, BufferIsTail, Cursors
<1>2. \A i \in 1..k : stream.buffer[i] =
        [seq |-> n - k + i, epoch |-> stream.epoch, event |-> log[n - k + i]]
  BY <1>1 DEF IInv, BufferIsTail
<1>3. c.seq >= n \/ c.seq >= n - k
  <2>1. CASE k = 0
    BY <2>1, <1>1 DEF Unservable, Oldest, IInv, TypeOK
  <2>2. CASE k > 0
    <3>1. stream.buffer # << >> /\ 1 \in 1..k
      BY <2>2, <1>1
    <3>2. stream.buffer[1].seq = n - k + 1
      <4>1. stream.buffer[1] = [seq |-> n - k + 1, epoch |-> stream.epoch, event |-> log[n - k + 1]]
        BY <3>1, <1>2
      <4>. QED  BY <4>1
    <3>3. Oldest(stream) = n - k + 1
      BY <3>1, <3>2 DEF Oldest
    <3> HIDE DEF k, n
    <3>. QED  BY <3>3, <1>1 DEF Unservable
  <2>. QED  BY <2>1, <2>2, <1>1
<1> DEFINE a == IF c.seq >= n THEN k ELSE c.seq - (n - k)
           I == {i \in 1..k : stream.buffer[i].seq > c.seq}
<1>4. \A i \in 1..k : stream.buffer[i].seq = n - k + i
  <2> SUFFICES ASSUME NEW i \in 1..k PROVE stream.buffer[i].seq = n - k + i
    OBVIOUS
  <2>1. stream.buffer[i] = [seq |-> n - k + i, epoch |-> stream.epoch, event |-> log[n - k + i]]
    BY <1>2
  <2>2. QED
    BY <2>1
<1>5. a \in 0..k /\ I = (a + 1)..k
  <2> HIDE DEF k, n
  <2>1. QED
    BY <1>1, <1>3, <1>4
<1>6. Since(stream, c).events = Picked(stream.buffer, (a + 1)..k)
  BY <1>1, <1>5 DEF Since
<1>7. Picked(stream.buffer, (a + 1)..k) = [i \in 1..(k - a) |-> stream.buffer[a + i]]
  <2>1. stream.buffer \in Seq(Stamped)
    BY DEF IInv, TypeOK
  <2> HIDE DEF a
  <2>2. QED
    BY <1>5, <2>1, PickedSuffix
<1>8. 1..(k - a) = 1..(n - c.seq)
  <2> HIDE DEF k, n
  <2>1. QED
    BY <1>1, <1>3
<1>9. \A i \in 1..(k - a) :
        stream.buffer[a + i] = [seq |-> c.seq + i, epoch |-> stream.epoch, event |-> log[c.seq + i]]
  <2> SUFFICES ASSUME NEW i \in 1..(k - a)
               PROVE  stream.buffer[a + i]
                        = [seq |-> c.seq + i, epoch |-> stream.epoch, event |-> log[c.seq + i]]
    OBVIOUS
  <2>1. a + i \in 1..k /\ (n - k) + (a + i) = c.seq + i
    <3> HIDE DEF k, n
    <3>1. QED
      BY <1>1, <1>3, <1>5
  <2>2. QED
    BY <1>2, <2>1
<1>10. Promise!Missed(c) =
         [i \in 1..(n - c.seq) |-> [seq |-> c.seq + i, epoch |-> stream.epoch, event |-> log[c.seq + i]]]
  BY DEF Promise!Missed
<1> HIDE DEF a, k, n, I
<1>11. QED
  BY <1>6, <1>7, <1>8, <1>9, <1>10

\* A refused cursor lies outside the replay window.
LEMMA RefusedIsOutside ==
  ASSUME IInv, NEW c \in Cursors, Unservable(stream, c)
  PROVE  ~Promise!InWindow(c)
<1> DEFINE n == Len(log)
           k == Len(stream.buffer)
<1>1. /\ n \in Nat /\ k \in Nat /\ stream.latestSeq = n /\ c.seq \in Int
      /\ n - k = 0 \/ (n - k > 0 /\ k = BufferSize)
  BY BufferAssumption DEF IInv, TypeOK, BufferIsTail, Cursors
<1>2. CASE c.seq < 0 \/ c.epoch # stream.epoch
  BY <1>2, <1>1 DEF Promise!InWindow
<1>3. CASE c.seq >= 0 /\ c.seq < n /\ c.seq + 1 < Oldest(stream)
  <2>1. CASE stream.buffer = << >>
    <3>1. k = 0
      BY <2>1
    <3>. QED  BY <3>1, <1>1, <1>3, BufferAssumption
  <2>2. CASE stream.buffer # << >>
    <3>1. 1 \in DOMAIN stream.buffer
      BY <2>2 DEF IInv, TypeOK
    <3>2. stream.buffer[1].seq = n - k + 1
      <4>1. stream.buffer[1] = [seq |-> n - k + 1, epoch |-> stream.epoch, event |-> log[n - k + 1]]
        BY <3>1 DEF IInv, BufferIsTail
      <4>. QED  BY <4>1
    <3>3. Oldest(stream) = n - k + 1
      BY <3>2, <2>2 DEF Oldest
    <3>4. n - c.seq > BufferSize
      <4> HIDE DEF k, n
      <4>. QED  BY <3>3, <1>1, <1>3, BufferAssumption
    <3>. QED  BY <3>4, <1>1, BufferAssumption DEF Promise!InWindow
  <2>. QED  BY <2>1, <2>2
<1>. QED  BY <1>1, <1>2, <1>3 DEF Unservable

LEMMA AskStep ==
  ASSUME IInv, NEW r \in Readers, NEW c \in Cursors, EventsSince(r, c)
  PROVE  Promise!Answer(r)
<1>1. UNCHANGED <<log, stream>>
  BY DEF EventsSince
<1>2. CASE Unservable(stream, c)
  <2>1. answer' = [answer EXCEPT ![r] = [cursor |-> c, resync |-> TRUE, events |-> << >>]]
    BY <1>2 DEF EventsSince, Since
  <2>2. ~Promise!InWindow(c)
    BY <1>2, RefusedIsOutside
  <2>. QED  BY <2>1, <2>2, <1>1 DEF Promise!Answer
<1>3. CASE ~Unservable(stream, c)
  <2>1. answer' = [answer EXCEPT ![r] =
                     [cursor |-> c, resync |-> FALSE, events |-> Promise!Missed(c)]]
    BY <1>3, SinceIsMissed DEF EventsSince, Since
  <2>2. c.epoch = stream.epoch /\ c.seq >= 0
    BY <1>3 DEF Unservable, Cursors
  <2>. QED  BY <2>1, <2>2, <1>1 DEF Promise!Answer
<1>. QED  BY <1>2, <1>3

LEMMA PromiseStep ==
  IInv /\ [Next]_vars => [Promise!Next]_<<log, stream.epoch, answer>>
<1> SUFFICES ASSUME IInv, [Next]_vars
             PROVE  [Promise!Next]_<<log, stream.epoch, answer>>
  OBVIOUS
<1>1. CASE \E e \in Event : Emit(e)
  <2>1. PICK e \in Event : Emit(e)
    BY <1>1
  <2>2. stream'.epoch = stream.epoch
    BY <2>1 DEF Emit, Push, IInv, TypeOK
  <2>. QED  BY <2>1, <2>2 DEF Emit, Promise!Next, Promise!Emit
<1>2. CASE \E r \in Readers, c \in Cursors : EventsSince(r, c)
  BY <1>2, AskStep DEF Promise!Next
<1>3. CASE Restart
  BY <1>3 DEF Restart, Fresh, Promise!Next, Promise!Restart
<1>4. CASE UNCHANGED vars
  BY <1>4 DEF vars
<1>. QED  BY <1>1, <1>2, <1>3, <1>4 DEF Next

LEMMA PromiseInit == Init => Promise!Init
BY DEF Init, Fresh, Promise!Init

\* For every buffer size, number of readers and cursor: whatever the daemon
\* answers to events.since is complete or an honest resync, through restarts.
THEOREM ReplayKeepsPromise == Spec => KeepsPromise
<1>. QED  BY InvInit, InvStep, PromiseInit, PromiseStep, PTL DEF Spec, KeepsPromise, Promise!Spec

-----------------------------------------------------------------------------
(***************************************************************************)
(* ProviderStore: one copy under a URI, for any requests, diffs and rounds *)
(* at once, if a query sees a copy for each.                               *)
(***************************************************************************)

Fits == Cardinality(Uris) <= Window

LEMMA UrisOfIssues ==
  /\ \A u \in Uris : IssueOf(u) \in Issues
  /\ \A i \in Issues : UriOf(i) \in Uris
  /\ IsFiniteSet(Uris)
<1>1. IsFiniteSet({"canonical"} \cup Aliases)
  BY ProviderAssumption, FS_Singleton, FS_Union
<1>2. IsFiniteSet(Uris)
  BY <1>1, ProviderAssumption, FS_Product DEF Uris
<1>3. QED
  BY <1>2 DEF Uris, IssueOf, UriOf

Node == [id : Nat \ {0}, uri : Uris, content : Values]

Calls == [op : Ops, told : BOOLEAN, uri : Uris \cup {Idle.uri}, then : {"none", "update", "delete"},
          node : Nat, known : SUBSET Uris, todo : Seq(Node), got : [Issues -> Values]]

\* The nodes of a list are those of different URIs, and have ids of their own,
\* which no handler remembers as those of another URI.
Unique(nodes) ==
  \A m, n \in 1..Len(nodes) :
    nodes[m].id = nodes[n].id \/ nodes[m].uri = nodes[n].uri => m = n

Remembered(nodes) ==
  \A k \in Handlers : \A m \in 1..Len(calls[k].todo), n \in 1..Len(nodes) :
    calls[k].todo[m].id = nodes[n].id => calls[k].todo[m].uri = nodes[n].uri

Sound(nodes) == nodes \in Seq(Node) /\ Unique(nodes) /\ Remembered(nodes)

ProviderTyped ==
  /\ remote \in [Issues -> Values] /\ seen \in [Issues -> Values]
  /\ calls \in [Handlers -> Calls]
  /\ \A k \in Handlers :
       /\ calls[k].op \in {"get", "create", "update", "delete"} => calls[k].uri \in Uris
       /\ calls[k].op = "reconcile" => calls[k].todo # << >>

ProviderInv == ProviderTyped /\ Sound(copies)

-----------------------------------------------------------------------------
(* What the operators make of a sound list.                                *)

DrawnFrom(p, nodes, I) == \A j \in 1..Len(p) : \E i \in I : p[j] = nodes[i]

LEMMA SomeOfIt ==
  ASSUME NEW nodes, Sound(nodes), NEW I, I \subseteq 1..Len(nodes)
  PROVE  Sound(Picked(nodes, I)) /\ DrawnFrom(Picked(nodes, I), nodes, I)
<1> DEFINE p == Picked(nodes, I)
<1>1. p \in Seq(Node)
  BY PickedProperties DEF Sound
<1>2. PICK f : Picks(f, p, nodes, I)
  BY PickedProperties DEF Sound
<1> HIDE DEF p
<1>3. /\ f \in [1..Len(p) -> I] /\ \A j \in 1..Len(p) : p[j] = nodes[f[j]]
      /\ \A j, k \in 1..Len(p) : j < k => f[j] < f[k]
  BY <1>2 DEF Picks
<1>4. \A j \in 1..Len(p) : f[j] \in 1..Len(nodes)
  BY <1>3
<1>5. \A j, k \in 1..Len(p) : f[j] = f[k] => j = k
  BY <1>1, <1>3, <1>4
<1>6. Unique(p)
  BY <1>3, <1>4, <1>5 DEF Sound, Unique
<1>7. Remembered(p)
  <2> SUFFICES ASSUME NEW k \in Handlers, NEW m \in 1..Len(calls[k].todo), NEW n \in 1..Len(p),
                      calls[k].todo[m].id = p[n].id
               PROVE  calls[k].todo[m].uri = p[n].uri
    BY DEF Remembered
  <2>1. p[n] = nodes[f[n]] /\ f[n] \in 1..Len(nodes)
    BY <1>3, <1>4
  <2>2. QED
    BY <2>1 DEF Sound, Remembered
<1>8. DrawnFrom(p, nodes, I)
  BY <1>3 DEF DrawnFrom
<1>9. QED
  BY <1>1, <1>6, <1>7, <1>8 DEF Sound, p

LEMMA WithoutSound ==
  ASSUME NEW nodes, Sound(nodes), NEW id
  PROVE  /\ Sound(Without(nodes, id))
         /\ \A j \in 1..Len(Without(nodes, id)) :
              \E i \in 1..Len(nodes) : Without(nodes, id)[j] = nodes[i] /\ nodes[i].id # id
<1> DEFINE I == {n \in DOMAIN nodes : nodes[n].id # id}
<1>1. I \subseteq 1..Len(nodes) /\ \A i \in I : nodes[i].id # id
  BY DEF Sound
<1>2. Without(nodes, id) = Picked(nodes, I)
  BY DEF Without
<1> HIDE DEF I
<1> DEFINE w == Without(nodes, id)
<1>4. Sound(w) /\ DrawnFrom(w, nodes, I)
  BY <1>1, <1>2, SomeOfIt
<1> HIDE DEF w
<1>5. \A j \in 1..Len(w) : \E i \in 1..Len(nodes) : w[j] = nodes[i] /\ nodes[i].id # id
  BY <1>1, <1>4 DEF DrawnFrom
<1>6. QED
  BY <1>4, <1>5 DEF w

\* A node put first takes the place of the one with its id, and of no other issue's.
LEMMA PutSound ==
  ASSUME NEW nodes, Sound(nodes), NEW id \in Nat \ {0}, NEW u \in Uris, NEW c \in Values,
         \A n \in 1..Len(nodes) : nodes[n].uri = u => nodes[n].id = id,
         \A k \in Handlers : \A m \in 1..Len(calls[k].todo) :
           calls[k].todo[m].id = id => calls[k].todo[m].uri = u
  PROVE  Sound(Put(nodes, id, u, c))
<1> DEFINE w == Without(nodes, id)
           new == [id |-> id, uri |-> u, content |-> c]
           p == << new >> \o w
<1>1. /\ Sound(w)
      /\ \A j \in 1..Len(w) : \E n \in 1..Len(nodes) : w[j] = nodes[n] /\ nodes[n].id # id
  BY WithoutSound
<1> HIDE DEF w
<1>2. new \in Node /\ new.id = id /\ new.uri = u
  BY DEF Node
<1> HIDE DEF new
<1>3. p \in Seq(Node) /\ Len(p) = Len(w) + 1 /\ p[1] = new /\ \A j \in 2..Len(p) : p[j] = w[j - 1] /\ j - 1 \in 1..Len(w)
  BY <1>1, <1>2 DEF Sound
<1> HIDE DEF p
<1>4. \A j \in 1..Len(w) : w[j].id # id /\ w[j].uri # u
  BY <1>1
<1>5. Unique(p)
  <2> SUFFICES ASSUME NEW m \in 1..Len(p), NEW n \in 1..Len(p),
                      p[m].id = p[n].id \/ p[m].uri = p[n].uri
               PROVE  m = n
    BY DEF Unique
  <2>0. Len(p) \in Nat
    BY <1>3
  <2>1. CASE m = 1 /\ n # 1
    <3>1. n \in 2..Len(p)
      BY <2>0, <2>1
    <3>2. QED
      BY <1>2, <1>3, <1>4, <2>1, <3>1
  <2>2. CASE m # 1 /\ n = 1
    <3>1. m \in 2..Len(p)
      BY <2>0, <2>2
    <3>2. QED
      BY <1>2, <1>3, <1>4, <2>2, <3>1
  <2>3. CASE m # 1 /\ n # 1
    <3>1. m \in 2..Len(p) /\ n \in 2..Len(p)
      BY <2>0, <2>3
    <3>2. /\ p[m] = w[m - 1] /\ m - 1 \in 1..Len(w)
          /\ p[n] = w[n - 1] /\ n - 1 \in 1..Len(w)
      BY <1>3, <3>1
    <3>3. w[m - 1].id = w[n - 1].id \/ w[m - 1].uri = w[n - 1].uri
      BY <3>2
    <3>4. m - 1 = n - 1
      BY <1>1, <3>2, <3>3 DEF Sound, Unique
    <3>5. QED
      BY <2>0, <3>1, <3>4
  <2>4. QED
    BY <2>1, <2>2, <2>3
<1>6. Remembered(p)
  <2> SUFFICES ASSUME NEW k \in Handlers, NEW m \in 1..Len(calls[k].todo), NEW n \in 1..Len(p),
                      calls[k].todo[m].id = p[n].id
               PROVE  calls[k].todo[m].uri = p[n].uri
    BY DEF Remembered
  <2>1. CASE n = 1
    BY <1>2, <1>3, <2>1
  <2>2. CASE n # 1
    <3>1. n \in 2..Len(p)
      BY <1>3, <2>2
    <3>2. p[n] = w[n - 1] /\ n - 1 \in 1..Len(w)
      BY <1>3, <3>1
    <3>3. Remembered(w) /\ calls[k].todo[m].id = w[n - 1].id
      BY <1>1, <3>2 DEF Sound
    <3>4. calls[k].todo[m].uri = w[n - 1].uri
      BY <3>2, <3>3 DEF Remembered
    <3>5. QED
      BY <3>2, <3>4
  <2>3. QED
    BY <2>1, <2>2
<1>7. QED
  BY <1>3, <1>5, <1>6 DEF Sound, Put, p, new, w

\* There is always another id.
LEMMA NewIdIsNew ==
  ASSUME ProviderTyped, NEW nodes \in Seq(Node)
  PROVE  /\ NewId(nodes) \in Nat \ {0}
         /\ \A n \in 1..Len(nodes) : nodes[n].id # NewId(nodes)
         /\ \A k \in Handlers : \A m \in 1..Len(calls[k].todo) : calls[k].todo[m].id # NewId(nodes)
<1> DEFINE todos == {IdsOf(calls[k].todo) : k \in Handlers}
           own == {calls[k].node : k \in Handlers}
<1>1. ASSUME NEW s \in Seq(Node)
      PROVE  IsFiniteSet(IdsOf(s))
  <2> DEFINE f == [x \in ToSet(s) |-> x.id]
  <2>1. IsFiniteSet(ToSet(s))
    BY ToSetFinite
  <2>2. IdsOf(s) = {f[x] : x \in ToSet(s)}
    BY DEF IdsOf
  <2> HIDE DEF f
  <2>3. QED
    BY <2>1, <2>2, ImageFinite
<1>2. \A k \in Handlers : IsFiniteSet(IdsOf(calls[k].todo))
  BY <1>1 DEF ProviderTyped, Calls
<1>3. IsFiniteSet(Handlers)
  BY ProviderAssumption DEF Handlers
<1>4. IsFiniteSet(todos)
  <2> DEFINE f == [k \in Handlers |-> IdsOf(calls[k].todo)]
  <2>1. todos = {f[k] : k \in Handlers}
    OBVIOUS
  <2> HIDE DEF f
  <2>2. QED
    BY <1>3, <2>1, ImageFinite
<1>5. IsFiniteSet(own)
  <2> DEFINE f == [k \in Handlers |-> calls[k].node]
  <2>1. own = {f[k] : k \in Handlers}
    OBVIOUS
  <2> HIDE DEF f
  <2>2. QED
    BY <1>3, <2>1, ImageFinite
<1>6. IsFiniteSet(UNION todos)
    <2>1. \A T \in todos : IsFiniteSet(T)
    BY <1>2
  <2> HIDE DEF todos
  <2>2. QED
    BY <1>4, <2>1, FS_UNION
<1>7. InUse(nodes) = IdsOf(nodes) \cup (UNION todos) \cup own
  BY DEF InUse
<1>8. IsFiniteSet(InUse(nodes))
  <2>1. IsFiniteSet(IdsOf(nodes))
    BY <1>1
  <2> HIDE DEF todos, own
  <2>2. IsFiniteSet(IdsOf(nodes) \cup (UNION todos))
    BY <1>6, <2>1, FS_Union
  <2>3. QED
    BY <1>5, <1>7, <2>2, FS_Union
<1> DEFINE c == Cardinality(InUse(nodes))
<1>9. c \in Nat
  BY <1>8, FS_CardinalityType
<1>10. \E id \in 1..(c + 1) : id \notin InUse(nodes)
  <2> SUFFICES ASSUME 1..(c + 1) \subseteq InUse(nodes) PROVE FALSE
    OBVIOUS
  <2>1. Cardinality(1..(c + 1)) <= c
    BY <1>8, FS_Subset
  <2>2. Cardinality(1..(c + 1)) = c + 1
    <3> HIDE DEF c
    <3>1. 1 \in Int /\ c + 1 \in Int /\ ~(1 > c + 1) /\ (c + 1) - 1 + 1 = c + 1
      BY <1>9
    <3>2. QED
      BY <3>1, FS_Interval
  <2>3. QED
    BY <1>9, <2>1, <2>2
<1>11. NewId(nodes) \in 1..(c + 1) /\ NewId(nodes) \notin InUse(nodes)
  BY <1>10 DEF NewId
<1>12. NewId(nodes) \in Nat \ {0}
  BY <1>9, <1>11
<1>13. \A n \in 1..Len(nodes) : nodes[n].id \in IdsOf(nodes)
  BY DEF ToSet, IdsOf
<1>14. \A k \in Handlers : \A m \in 1..Len(calls[k].todo) : calls[k].todo[m].id \in UNION todos
  <2> SUFFICES ASSUME NEW k \in Handlers, NEW m \in 1..Len(calls[k].todo)
               PROVE  calls[k].todo[m].id \in UNION todos
    OBVIOUS
  <2>1. calls[k].todo \in Seq(Node)
    BY DEF ProviderTyped, Calls
  <2>2. calls[k].todo[m].id \in IdsOf(calls[k].todo)
    BY <2>1 DEF ToSet, IdsOf
    <2>3. QED
    BY <2>2
<1> HIDE DEF todos, own
<1>15. QED
  BY <1>7, <1>11, <1>12, <1>13, <1>14
\* A query sees all the copies there can be: it finds the one of a URI.
LEMMA FindFinds ==
  ASSUME Fits, NEW nodes, Sound(nodes), NEW u \in Uris
  PROVE  \/ Find(nodes, u) = 0 /\ \A n \in 1..Len(nodes) : nodes[n].uri # u
         \/ \E n \in 1..Len(nodes) : nodes[n].uri = u /\ nodes[n].id = Find(nodes, u)
<1> DEFINE N == Len(nodes)
           here == {n \in DOMAIN nodes : n <= Window /\ nodes[n].uri = u}
<1>1. N \in Nat /\ DOMAIN nodes = 1..N /\ \A n \in 1..N : nodes[n] \in Node
  BY DEF Sound
<1>2. N <= Window
  <2> DEFINE f == [n \in 1..N |-> nodes[n].uri]
  <2>1. f \in Injection(1..N, Uris)
    BY <1>1 DEF Node, Sound, Unique, Injection, IsInjective
  <2> HIDE DEF f
  <2>2. Cardinality(1..N) <= Cardinality(Uris)
    BY <2>1, UrisOfIssues, FS_Injection
  <2>3. Cardinality(1..N) = N
    <3> HIDE DEF N
    <3>1. 1 \in Int /\ N \in Int /\ (1 > N => N = 0) /\ N - 1 + 1 = N
      BY <1>1
    <3>2. QED
      BY <3>1, FS_Interval
  <2>4. Cardinality(Uris) \in Nat /\ Window \in Nat
    BY ProviderAssumption, UrisOfIssues, FS_CardinalityType
  <2>5. QED
    BY <1>1, <2>2, <2>3, <2>4 DEF Fits
<1>3. here = {n \in 1..N : nodes[n].uri = u}
  BY <1>1, <1>2, ProviderAssumption
<1>4. CASE here = {}
  BY <1>3, <1>4 DEF Find
<1>5. CASE here # {}
  <2>1. PICK n \in here : TRUE
    BY <1>5
  <2>2. here = {n}
    BY <1>3, <2>1 DEF Sound, Unique
  <2>3. Min(here) = n
    BY <1>3, <2>1, <2>2 DEF Min
  <2>4. Find(nodes, u) = nodes[n].id
    BY <1>5, <2>3 DEF Find
  <2>5. QED
    BY <1>3, <2>1, <2>4
<1>6. QED
  BY <1>4, <1>5

\* materialize() keeps the list sound: what it cannot find is not there.
LEMMA MaterializeSound ==
  ASSUME Fits, ProviderTyped, NEW nodes, Sound(nodes), NEW u \in Uris, NEW c \in Values
  PROVE  Sound(Materialize(nodes, u, c))
<1>0. nodes \in Seq(Node)
  BY DEF Sound
<1>1. CASE Find(nodes, u) = 0 /\ \A n \in 1..Len(nodes) : nodes[n].uri # u
  <2>1. Materialize(nodes, u, c) = Put(nodes, NewId(nodes), u, c)
    BY <1>1 DEF Materialize
  <2>2. /\ NewId(nodes) \in Nat \ {0}
        /\ \A k \in Handlers : \A m \in 1..Len(calls[k].todo) : calls[k].todo[m].id # NewId(nodes)
    BY <1>0, NewIdIsNew
  <2>3. QED
    BY <1>1, <2>1, <2>2, PutSound
<1>2. ASSUME NEW n \in 1..Len(nodes), nodes[n].uri = u, nodes[n].id = Find(nodes, u)
      PROVE  Sound(Materialize(nodes, u, c))
  <2> DEFINE id == nodes[n].id
  <2>1. id \in Nat \ {0}
    <3>1. nodes[n] \in Node
      BY <1>0
    <3>2. QED
      BY <3>1 DEF Node
  <2>2. Materialize(nodes, u, c) = Put(nodes, id, u, c)
    BY <1>2, <2>1 DEF Materialize
  <2>3. \A m \in 1..Len(nodes) : nodes[m].uri = u => nodes[m].id = id
    BY <1>2 DEF Sound, Unique
  <2>4. \A k \in Handlers : \A m \in 1..Len(calls[k].todo) :
          calls[k].todo[m].id = id => calls[k].todo[m].uri = u
    BY <1>2 DEF Sound, Remembered
  <2> HIDE DEF id
  <2>5. QED
    BY <2>1, <2>2, <2>3, <2>4, PutSound
<1>3. QED
  BY <1>1, <1>2, FindFinds

\* Marking a copy as stale makes it the first: a list of the same nodes.
LEMMA MarkSound ==
  ASSUME NEW nodes, Sound(nodes), NEW id
  PROVE  Sound(Mark(nodes, id))
<1> DEFINE I == {n \in DOMAIN nodes : nodes[n].id = id}
           p == Picked(nodes, I)
           w == Without(nodes, id)
           q == p \o w
<1>1. I \subseteq 1..Len(nodes) /\ \A i \in I : nodes[i].id = id
  BY DEF Sound
<1> HIDE DEF I
<1>2. Sound(p) /\ DrawnFrom(p, nodes, I)
  BY <1>1, SomeOfIt
<1>3. /\ Sound(w)
      /\ \A j \in 1..Len(w) : \E i \in 1..Len(nodes) : w[j] = nodes[i] /\ nodes[i].id # id
  BY WithoutSound
<1> HIDE DEF p, w
<1>4. \A j \in 1..Len(p) : \E i \in 1..Len(nodes) : p[j] = nodes[i] /\ nodes[i].id = id
  BY <1>1, <1>2 DEF DrawnFrom
<1>5. p \in Seq(Node) /\ w \in Seq(Node)
  BY <1>2, <1>3 DEF Sound
<1>6. /\ q \in Seq(Node) /\ Len(q) = Len(p) + Len(w) /\ Len(p) \in Nat /\ Len(w) \in Nat
      /\ \A j \in 1..Len(q) : \/ j \in 1..Len(p) /\ q[j] = p[j]
                              \/ j > Len(p) /\ j - Len(p) \in 1..Len(w) /\ q[j] = w[j - Len(p)]
  BY <1>5
<1> HIDE DEF q
<1>7. Unique(q)
  <2> SUFFICES ASSUME NEW m \in 1..Len(q), NEW n \in 1..Len(q),
                      q[m].id = q[n].id \/ q[m].uri = q[n].uri
               PROVE  m = n
    BY DEF Unique
  <2>1. ASSUME NEW a \in 1..Len(p), NEW b \in 1..Len(w)
        PROVE  p[a].id # w[b].id /\ p[a].uri # w[b].uri
    <3>1. PICK i \in 1..Len(nodes) : p[a] = nodes[i] /\ nodes[i].id = id
      BY <1>4
    <3>2. PICK j \in 1..Len(nodes) : w[b] = nodes[j] /\ nodes[j].id # id
      BY <1>3
    <3>3. QED
      BY <3>1, <3>2 DEF Sound, Unique
  <2>2. CASE m \in 1..Len(p) /\ q[m] = p[m] /\ n \in 1..Len(p) /\ q[n] = p[n]
    BY <1>2, <2>2 DEF Sound, Unique
  <2>3. CASE m \in 1..Len(p) /\ q[m] = p[m] /\ n - Len(p) \in 1..Len(w) /\ q[n] = w[n - Len(p)]
    BY <2>1, <2>3
  <2>4. CASE n \in 1..Len(p) /\ q[n] = p[n] /\ m - Len(p) \in 1..Len(w) /\ q[m] = w[m - Len(p)]
    BY <2>1, <2>4
  <2>5. CASE /\ m - Len(p) \in 1..Len(w) /\ q[m] = w[m - Len(p)]
             /\ n - Len(p) \in 1..Len(w) /\ q[n] = w[n - Len(p)]
    <3>1. m - Len(p) = n - Len(p)
      BY <1>3, <2>5 DEF Sound, Unique
    <3>2. QED
      BY <1>6, <3>1
  <2>6. QED
    BY <1>6, <2>2, <2>3, <2>4, <2>5
<1>8. Remembered(q)
  <2> SUFFICES ASSUME NEW k \in Handlers, NEW m \in 1..Len(calls[k].todo), NEW n \in 1..Len(q),
                      calls[k].todo[m].id = q[n].id
               PROVE  calls[k].todo[m].uri = q[n].uri
    BY DEF Remembered
  <2>1. PICK j \in 1..Len(nodes) : q[n] = nodes[j]
    BY <1>3, <1>4, <1>6
  <2>2. Remembered(nodes) /\ calls[k].todo[m].id = nodes[j].id
    BY <2>1 DEF Sound
  <2>3. QED
    BY <2>1, <2>2 DEF Remembered
<1>9. QED
  BY <1>6, <1>7, <1>8 DEF Sound, Mark, q, p, w, I
\* The same for a list of issues.
LEMMA MaterializeAllSound ==
  ASSUME Fits, ProviderTyped, Sound(copies), NEW issues \in SUBSET Issues, NEW got \in [Issues -> Values]
  PROVE  Sound(MaterializeAll(issues, got))
<1> DEFINE order == SetToSeq({i \in issues : got[i] \in Contents})
           N == Len(order)
           A == {p \in Seq(Node) : Sound(p)}
           g == [n \in 1..N |-> [p \in A |-> Materialize(p, UriOf(order[n]), got[order[n]])]]
           r == CHOOSE h : h = [n \in 0..N |-> IF n = 0 THEN copies ELSE Materialize(h[n - 1], UriOf(order[n]), got[order[n]])]
<1>1. N \in Nat /\ \A n \in 1..N : order[n] \in Issues
  <2>1. IsFiniteSet({i \in issues : got[i] \in Contents})
    BY ProviderAssumption, FS_Subset
  <2>2. order \in Seq({i \in issues : got[i] \in Contents})
    BY <2>1, SetToSeqProperties
  <2> HIDE DEF order
  <2>3. QED
    BY <2>2
<1>2. MaterializeAll(issues, got) = r[N]
  BY DEF MaterializeAll
<1> HIDE DEF order
<1>3. \A n \in 1..N, p \in A : Materialize(p, UriOf(order[n]), got[order[n]]) \in A
  <2> SUFFICES ASSUME NEW n \in 1..N, NEW p \in A
               PROVE  Sound(Materialize(p, UriOf(order[n]), got[order[n]]))
    BY DEF Sound
  <2>1. UriOf(order[n]) \in Uris /\ got[order[n]] \in Values
    BY <1>1, UrisOfIssues
  <2>2. QED
    BY <2>1, MaterializeSound
<1>4. copies \in A
  BY DEF Sound
<1> HIDE DEF A
<1>5. g \in [1..N -> [A -> A]]
  BY <1>3
<1>6. \A n \in 1..N, p \in A : g[n][p] = Materialize(p, UriOf(order[n]), got[order[n]])
  OBVIOUS
<1> HIDE DEF g, N
<1>7. PICK f \in [0..N -> A] : Iterates(f, g, copies, N)
  BY <1>1, <1>4, <1>5, Iterated
<1>8. f = [n \in 0..N |-> IF n = 0 THEN copies ELSE Materialize(f[n - 1], UriOf(order[n]), got[order[n]])]
  <2>1. \A n \in 0..N : n # 0 => n \in 1..N /\ n - 1 \in 0..N
    BY <1>1
  <2>2. \A n \in 0..N : n # 0 => f[n] = Materialize(f[n - 1], UriOf(order[n]), got[order[n]])
    BY <1>6, <1>7, <2>1 DEF Iterates
  <2>3. QED
    BY <1>7, <2>2 DEF Iterates
<1>9. r = [n \in 0..N |-> IF n = 0 THEN copies ELSE Materialize(r[n - 1], UriOf(order[n]), got[order[n]])]
  BY <1>8
<1> HIDE DEF r
<1>10. r[0] \in A
  BY <1>1, <1>4, <1>9
<1>11. ASSUME NEW n \in 1..N, r[n - 1] \in A
       PROVE  r[n] \in A
  <2>1. n \in 0..N /\ n # 0
    BY <1>1
  <2>2. r[n] = Materialize(r[n - 1], UriOf(order[n]), got[order[n]])
    BY <1>9, <2>1
  <2>3. QED
    BY <1>3, <1>11, <2>2
<1>12. r[N] \in A
  BY <1>1, <1>10, <1>11, IterationStays
<1>13. QED
  BY <1>2, <1>12 DEF A
LEMMA MarkAllSound ==
  ASSUME NEW copied, Sound(copied), NEW issues \in SUBSET Issues
  PROVE  Sound(MarkAll(copied, issues))
<1> DEFINE order == SetToSeq(issues)
           N == Len(order)
           A == {p \in Seq(Node) : Sound(p)}
           g == [n \in 1..N |-> [p \in A |-> Mark(p, Find(p, UriOf(order[n])))]]
           r == CHOOSE h : h = [n \in 0..N |-> IF n = 0 THEN copied ELSE Mark(h[n - 1], Find(h[n - 1], UriOf(order[n])))]
<1>1. N \in Nat /\ \A n \in 1..N : order[n] \in Issues
  <2>1. IsFiniteSet(issues)
    BY ProviderAssumption, FS_Subset
  <2>2. order \in Seq(issues)
    BY <2>1, SetToSeqProperties
  <2> HIDE DEF order
  <2>3. QED
    BY <2>2
<1>2. MarkAll(copied, issues) = r[N]
  BY DEF MarkAll
<1> HIDE DEF order
<1>3. \A n \in 1..N, p \in A : Mark(p, Find(p, UriOf(order[n]))) \in A
  <2> SUFFICES ASSUME NEW n \in 1..N, NEW p \in A
               PROVE  Sound(Mark(p, Find(p, UriOf(order[n]))))
    BY DEF Sound
  <2>1. Sound(p)
    OBVIOUS
  <2>2. QED
    BY <2>1, MarkSound
<1>4. copied \in A
  BY DEF Sound
<1> HIDE DEF A
<1>5. g \in [1..N -> [A -> A]]
  BY <1>3
<1>6. \A n \in 1..N, p \in A : g[n][p] = Mark(p, Find(p, UriOf(order[n])))
  OBVIOUS
<1> HIDE DEF g, N
<1>7. PICK f \in [0..N -> A] : Iterates(f, g, copied, N)
  BY <1>1, <1>4, <1>5, Iterated
<1>8. f = [n \in 0..N |-> IF n = 0 THEN copied ELSE Mark(f[n - 1], Find(f[n - 1], UriOf(order[n])))]
  <2>1. \A n \in 0..N : n # 0 => n \in 1..N /\ n - 1 \in 0..N
    BY <1>1
  <2>2. \A n \in 0..N : n # 0 => f[n] = Mark(f[n - 1], Find(f[n - 1], UriOf(order[n])))
    BY <1>6, <1>7, <2>1 DEF Iterates
  <2>3. QED
    BY <1>7, <2>2 DEF Iterates
<1>9. r = [n \in 0..N |-> IF n = 0 THEN copied ELSE Mark(r[n - 1], Find(r[n - 1], UriOf(order[n])))]
  BY <1>8
<1> HIDE DEF r
<1>10. r[0] \in A
  BY <1>1, <1>4, <1>9
<1>11. ASSUME NEW n \in 1..N, r[n - 1] \in A
       PROVE  r[n] \in A
  <2>1. n \in 0..N /\ n # 0
    BY <1>1
  <2>2. r[n] = Mark(r[n - 1], Find(r[n - 1], UriOf(order[n])))
    BY <1>9, <2>1
  <2>3. QED
    BY <1>3, <1>11, <2>2
<1>12. r[N] \in A
  BY <1>1, <1>10, <1>11, IterationStays
<1>13. QED
  BY <1>2, <1>12 DEF A
-----------------------------------------------------------------------------
(* The steps.                                                              *)

\* What a handler goes on to do has to do with nodes it remembered before.
LEMMA GoesOn ==
  ASSUME ProviderInv, NEW k \in Handlers, NEW call \in Calls, calls' = [calls EXCEPT ![k] = call],
         call.op \in {"get", "create", "update", "delete"} => call.uri \in Uris,
         call.op = "reconcile" => call.todo # << >>,
         DrawnFrom(call.todo, calls[k].todo, 1..Len(calls[k].todo)),
         remote' \in [Issues -> Values], seen' \in [Issues -> Values], Sound(copies')
  PROVE  ProviderInv'
<1>1. calls \in [Handlers -> Calls]
  BY DEF ProviderInv, ProviderTyped
<1>2. calls'[k] = call /\ \A q \in Handlers : q # k => calls'[q] = calls[q]
  BY <1>1
<1>3. ProviderTyped'
  BY <1>1, <1>2 DEF ProviderInv, ProviderTyped
<1>4. Remembered(copies)'
  <2> SUFFICES ASSUME NEW q \in Handlers, NEW m \in 1..Len(calls'[q].todo), NEW n \in 1..Len(copies'),
                      calls'[q].todo[m].id = copies'[n].id
               PROVE  calls'[q].todo[m].uri = copies'[n].uri
    BY DEF Remembered
  <2>1. PICK j \in 1..Len(calls[q].todo) : calls'[q].todo[m] = calls[q].todo[j]
    <3>1. CASE q = k
      BY <1>2, <3>1 DEF DrawnFrom
    <3>2. CASE q # k
      BY <1>2, <3>2
    <3>3. QED
      BY <3>1, <3>2
  <2>2. Remembered(copies')
    BY DEF Sound
  <2>3. QED
    BY <2>1, <2>2 DEF Remembered
<1>5. Sound(copies)'
  BY <1>4 DEF Sound, Unique
<1>6. QED
  BY <1>3, <1>5 DEF ProviderInv

\* A handler that has just begun.
Request(op, u, then, node, known, todo) ==
  [op |-> op, told |-> FALSE, uri |-> u, then |-> then, node |-> node, known |-> known, todo |-> todo,
   got |-> [x \in Issues |-> "unborn"]]

LEMMA RequestTyped ==
  ASSUME NEW op \in Ops, NEW u \in Uris \cup {Idle.uri}, NEW node \in Nat,
         NEW then \in {"none", "update", "delete"}, NEW known \in SUBSET Uris,
         NEW todo \in Seq(Node)
  PROVE  Request(op, u, then, node, known, todo) \in Calls
<1>1. [x \in Issues |-> "unborn"] \in [Issues -> Values]
  BY DEF Values, Absent
<1> DEFINE got == [x \in Issues |-> "unborn"]
<1> HIDE DEF got
<1>2. [op |-> op, told |-> FALSE, uri |-> u, then |-> then, node |-> node, known |-> known,
       todo |-> todo, got |-> got] \in Calls
  BY <1>1 DEF Calls, got
<1>3. QED
  BY <1>2 DEF Request, got

\* What the handlers begin, written out.
LEMMA IdleForm == Idle = Request("idle", Idle.uri, "none", 0, {}, << >>)
<1> DEFINE d == UriOf(CHOOSE i0 \in Issues : TRUE)
           got == [x \in Issues |-> "unborn"]
<1>1. Idle = [op |-> "idle", told |-> FALSE, uri |-> d, then |-> "none",
              node |-> 0, known |-> {}, todo |-> << >>, got |-> got]
  BY DEF Idle
<1> HIDE DEF d, got
<1>2. Idle.uri = d
  BY <1>1
<1>3. QED
  BY <1>1, <1>2 DEF Request, got

LEMMA RequestForms ==
  ASSUME NEW op, NEW u, NEW then, NEW node, NEW known, NEW todo
  PROVE  /\ [Idle EXCEPT !.op = op] = Request(op, Idle.uri, "none", 0, {}, << >>)
         /\ [Idle EXCEPT !.op = op, !.todo = todo] = Request(op, Idle.uri, "none", 0, {}, todo)
         /\ [Idle EXCEPT !.op = op, !.known = known] = Request(op, Idle.uri, "none", 0, known, << >>)
         /\ [Idle EXCEPT !.op = op, !.uri = u] = Request(op, u, "none", 0, {}, << >>)
         /\ [Idle EXCEPT !.op = op, !.uri = u, !.then = then] = Request(op, u, then, 0, {}, << >>)
         /\ [Idle EXCEPT !.op = op, !.uri = u, !.node = node] = Request(op, u, "none", node, {}, << >>)
<1> DEFINE d == Idle.uri
           got == [x \in Issues |-> "unborn"]
<1>1. Idle = [op |-> "idle", told |-> FALSE, uri |-> d, then |-> "none",
              node |-> 0, known |-> {}, todo |-> << >>, got |-> got]
  BY IdleForm DEF Request
<1> HIDE DEF d, got
<1>2. ASSUME NEW call, call = [Idle EXCEPT !.op = op]
      PROVE  call = [op |-> op, told |-> FALSE, uri |-> d, then |-> "none", node |-> 0, known |-> {},
               todo |-> << >>, got |-> got]
  BY <1>1, <1>2
<1>3. ASSUME NEW call, call = [Idle EXCEPT !.op = op, !.todo = todo]
      PROVE  call = [op |-> op, told |-> FALSE, uri |-> d, then |-> "none", node |-> 0, known |-> {},
               todo |-> todo, got |-> got]
  BY <1>1, <1>3
<1>4. ASSUME NEW call, call = [Idle EXCEPT !.op = op, !.uri = u]
      PROVE  call = [op |-> op, told |-> FALSE, uri |-> u, then |-> "none", node |-> 0, known |-> {},
               todo |-> << >>, got |-> got]
  BY <1>1, <1>4
<1>5. ASSUME NEW call, call = [Idle EXCEPT !.op = op, !.uri = u, !.then = then]
      PROVE  call = [op |-> op, told |-> FALSE, uri |-> u, then |-> then, node |-> 0, known |-> {},
               todo |-> << >>, got |-> got]
  BY <1>1, <1>5
<1>6. ASSUME NEW call, call = [Idle EXCEPT !.op = op, !.uri = u, !.node = node]
      PROVE  call = [op |-> op, told |-> FALSE, uri |-> u, then |-> "none", node |-> node, known |-> {},
               todo |-> << >>, got |-> got]
  BY <1>1, <1>6
<1>7. ASSUME NEW call, call = [Idle EXCEPT !.op = op, !.known = known]
      PROVE  call = [op |-> op, told |-> FALSE, uri |-> d, then |-> "none", node |-> 0, known |-> known,
               todo |-> << >>, got |-> got]
  BY <1>1, <1>7
<1>8. QED
  BY <1>2, <1>3, <1>4, <1>5, <1>6, <1>7 DEF Request, d, got

LEMMA RequestKeeps ==
  ASSUME ProviderInv, NEW k \in Handlers, NEW op \in Ops \ {"reconcile"}, NEW u \in Uris \cup {Idle.uri},
         NEW node \in Nat, NEW then \in {"none", "update", "delete"}, NEW known \in SUBSET Uris,
         Begin(k, Request(op, u, then, node, known, << >>)),
         op \in {"get", "create", "update", "delete"} => u \in Uris,
         remote' \in [Issues -> Values], seen' \in [Issues -> Values], Sound(copies')
  PROVE  ProviderInv'
<1> DEFINE call == Request(op, u, then, node, known, << >>)
<1>1. calls' = [calls EXCEPT ![k] = call]
  BY DEF Begin
<1>2. << >> \in Seq(Node)
  OBVIOUS
<1>3. call.op = op /\ call.uri = u /\ call.todo = << >>
  BY DEF Request
<1>4. call \in Calls
  BY <1>2, RequestTyped
<1>5. DrawnFrom(call.todo, calls[k].todo, 1..Len(calls[k].todo))
  BY <1>3 DEF DrawnFrom
<1> HIDE DEF call
<1>6. QED
  BY <1>1, <1>3, <1>4, <1>5, GoesOn

LEMMA IdleKeeps ==
  ASSUME ProviderInv, NEW k \in Handlers, Begin(k, Idle),
         remote' \in [Issues -> Values], seen' \in [Issues -> Values], Sound(copies')
  PROVE  ProviderInv'
<1> DEFINE d == Idle.uri
<1>1. Idle = Request("idle", d, "none", 0, {}, << >>)
  BY IdleForm
<1>2. "idle" \in Ops \ {"reconcile"} /\ d \in Uris \cup {Idle.uri} /\ 0 \in Nat
      /\ {} \in SUBSET Uris
  BY DEF Ops
<1> HIDE DEF d
<1>3. Begin(k, Request("idle", d, "none", 0, {}, << >>))
  BY <1>1
<1>4. QED
  BY <1>2, <1>3, RequestKeeps
\* A request that is told something, and nothing else.
LEMMA ToldKeeps ==
  ASSUME ProviderInv, NEW k \in Handlers, NEW got \in [Issues -> Values], Told(k, got),
         remote' \in [Issues -> Values], seen' = seen, copies' = copies
  PROVE  ProviderInv'
<1>1. calls \in [Handlers -> Calls] /\ seen \in [Issues -> Values] /\ Sound(copies)
  BY DEF ProviderInv, ProviderTyped
<1> DEFINE call == [calls[k] EXCEPT !.told = TRUE, !.got = got]
<1>2. calls' = [calls EXCEPT ![k] = call]
  BY <1>1 DEF Told
<1>3. calls[k] \in Calls
  BY <1>1
<1>4. /\ call \in Calls /\ call.op = calls[k].op /\ call.uri = calls[k].uri
      /\ call.todo = calls[k].todo
  BY <1>3 DEF Calls
<1> HIDE DEF call
<1>5. /\ call.op \in {"get", "create", "update", "delete"} => call.uri \in Uris
      /\ call.op = "reconcile" => call.todo # << >>
  BY <1>4 DEF ProviderInv, ProviderTyped
<1>6. DrawnFrom(call.todo, calls[k].todo, 1..Len(calls[k].todo))
  BY <1>4 DEF DrawnFrom
<1>7. Sound(copies') /\ seen' \in [Issues -> Values]
  BY <1>1
<1>8. QED
  BY <1>2, <1>4, <1>5, <1>6, <1>7, GoesOn

LEMMA OnlyTyped ==
  ASSUME NEW i, NEW value \in Values
  PROVE  Only(i, value) \in [Issues -> Values]
<1>1. "unborn" \in Values
  BY DEF Values, Absent
<1>2. QED
  BY <1>1 DEF Only

LEMMA ReadKeeps ==
  ASSUME ProviderInv, NEW k \in Handlers, Read(k)
  PROVE  ProviderInv'
<1> DEFINE call == calls[k]
           one(u) == Only(IssueOf(u), remote[IssueOf(u)])
           got == CASE call.op = "get" -> one(call.uri)
                    [] call.op = "reconcile" -> one(call.todo[1].uri)
                    [] OTHER -> remote
<1>1. /\ remote \in [Issues -> Values] /\ call \in Calls
      /\ call.op = "get" => call.uri \in Uris
      /\ call.op = "reconcile" => call.todo # << >>
  BY DEF ProviderInv, ProviderTyped
<1>2. Told(k, got) /\ UNCHANGED <<remote, copies, seen>>
  BY DEF Read
<1>3. got \in [Issues -> Values]
  <2>1. CASE call.op = "get"
    BY <1>1, <2>1, UrisOfIssues, OnlyTyped
  <2>2. CASE call.op = "reconcile"
    <3>1. call.todo \in Seq(Node) /\ call.todo # << >>
      BY <1>1, <2>2 DEF Calls
    <3>2. call.todo[1] \in Node
      BY <3>1
    <3>3. call.todo[1].uri \in Uris
      BY <3>2 DEF Node
    <3>4. QED
      BY <1>1, <2>2, <3>3, UrisOfIssues, OnlyTyped
  <2>3. CASE call.op \notin {"get", "reconcile"}
    BY <1>1, <2>3
  <2>4. QED
    BY <2>1, <2>2, <2>3
<1> HIDE DEF got
<1>4. QED
  BY <1>1, <1>2, <1>3, ToldKeeps

LEMMA WroteKeeps ==
  ASSUME ProviderInv, NEW k \in Handlers, Wrote(k)
  PROVE  ProviderInv'
<1> DEFINE i == IssueOf(calls[k].uri)
<1>1. PICK value \in Values : Becomes(i, value) /\ Told(k, Only(i, value))
  BY DEF Wrote
<1>2. UNCHANGED <<copies, seen>>
  BY DEF Wrote
<1>3. remote' \in [Issues -> Values]
  BY <1>1 DEF Becomes, ProviderInv, ProviderTyped
<1>4. Only(i, value) \in [Issues -> Values]
  BY OnlyTyped
<1>5. QED
  BY <1>1, <1>2, <1>3, <1>4, ToldKeeps

\* A round remembers nodes that are copies.
LEMMA RemembersCopies ==
  ASSUME ProviderInv, NEW k \in Handlers,
         Begin(k, [Idle EXCEPT !.op = "reconcile", !.todo = Visible]), copies # << >>,
         UNCHANGED <<remote, copies, seen>>
  PROVE  ProviderInv'
<1> DEFINE op == "reconcile"
           call == [Idle EXCEPT !.op = op, !.todo = Visible]
           w == IF Len(copies) < Window THEN Len(copies) ELSE Window
<1>0. Window \in Nat /\ Window # 0
  BY ProviderAssumption
<1>1. ProviderTyped /\ Sound(copies) /\ copies \in Seq(Node)
  BY DEF ProviderInv, Sound
<1>2. w \in 0..Len(copies) /\ w > 0
  BY <1>0, <1>1
<1>3. Visible = SubSeq(copies, 1, w)
  BY DEF Visible
<1> HIDE DEF w
<1>4. /\ Visible \in Seq(Node) /\ Len(Visible) = w
      /\ \A m \in 1..Len(Visible) : m \in 1..Len(copies) /\ Visible[m] = copies[m]
  BY <1>1, <1>2, <1>3
<1>5. Visible # << >>
  BY <1>2, <1>4
<1>6. call = Request(op, Idle.uri, "none", 0, {}, Visible)
  BY RequestForms
<1>7. calls' = [calls EXCEPT ![k] = call]
  BY DEF Begin
<1> HIDE DEF call
<1>8. call.op = op /\ call.todo = Visible
  BY <1>6 DEF Request
<1>9. call \in Calls
  <2>1. op \in Ops /\ Idle.uri \in Uris \cup {Idle.uri} /\ 0 \in Nat /\ {} \in SUBSET Uris
    BY DEF Ops
  <2>2. QED
    BY <1>4, <1>6, <2>1, RequestTyped
<1>10. calls'[k] = call /\ \A q \in Handlers : q # k => calls'[q] = calls[q]
  BY <1>1, <1>7 DEF ProviderTyped
<1>11. ProviderTyped'
  BY <1>1, <1>5, <1>7, <1>8, <1>9, <1>10 DEF ProviderTyped
<1>12. Remembered(copies)'
  <2> SUFFICES ASSUME NEW q \in Handlers, NEW m \in 1..Len(calls'[q].todo), NEW n \in 1..Len(copies),
                      calls'[q].todo[m].id = copies[n].id
               PROVE  calls'[q].todo[m].uri = copies[n].uri
    BY DEF Remembered
  <2>1. CASE q = k
    <3>1. calls'[q].todo[m] = copies[m] /\ m \in 1..Len(copies)
      BY <1>4, <1>8, <1>10, <2>1
    <3>2. m = n
      BY <1>1, <3>1 DEF Sound, Unique
    <3>3. QED
      BY <3>1, <3>2
  <2>2. CASE q # k
    BY <1>1, <1>10, <2>2 DEF Sound, Remembered
  <2>3. QED
    BY <2>1, <2>2
<1>13. Sound(copies)'
  BY <1>1, <1>12 DEF Sound, Unique
<1>14. QED
  BY <1>11, <1>13 DEF ProviderInv
LEMMA NodesFound ==
  ASSUME Fits, NEW nodes, Sound(nodes), NEW u \in Uris
  PROVE  Find(nodes, u) \in Nat
<1>1. ASSUME NEW n \in 1..Len(nodes), nodes[n].id = Find(nodes, u)
      PROVE  Find(nodes, u) \in Nat
  <2>1. nodes[n] \in Node
    BY DEF Sound
  <2>2. QED
    BY <1>1, <2>1 DEF Node
<1>2. QED
  BY <1>1, FindFinds

\* A write goes on with the copy it has.
LEMMA ResolvedKeeps ==
  ASSUME Fits, ProviderInv, NEW k \in Handlers, NEW op \in {"update", "delete"}, NEW u \in Uris,
         NEW nodes, Sound(nodes), Begin(k, Resolved(op, u, nodes)),
         remote' \in [Issues -> Values], seen' \in [Issues -> Values], Sound(copies')
  PROVE  ProviderInv'
<1> DEFINE node == IF op = "delete" THEN Find(nodes, u) ELSE 0
<1>1. Resolved(op, u, nodes) = [Idle EXCEPT !.op = op, !.uri = u, !.node = node]
  BY DEF Resolved
<1>2. node \in Nat
  BY NodesFound
<1> HIDE DEF node
<1>3. Begin(k, Request(op, u, "none", node, {}, << >>))
  BY <1>1, RequestForms
<1>4. op \in Ops \ {"reconcile"} /\ {} \in SUBSET Uris
  BY DEF Ops
<1>5. QED
  BY <1>2, <1>3, <1>4, RequestKeeps

\* What a query sees of the copies are nodes.
LEMMA VisibleTyped ==
  ASSUME Sound(copies)
  PROVE  Visible \in Seq(Node)
<1> DEFINE w == IF Len(copies) < Window THEN Len(copies) ELSE Window
<1>1. copies \in Seq(Node) /\ w \in 0..Len(copies)
  BY ProviderAssumption DEF Sound
<1>2. Visible = SubSeq(copies, 1, w)
  BY DEF Visible
<1> HIDE DEF w
<1>3. QED
  BY <1>1, <1>2

\* Get, ProviderCreate, Write, Transition and List of a client.
LEMMA ClientKeeps ==
  ASSUME Fits, ProviderInv, NEW k \in Clients,
         \/ List(k)
         \/ \E i \in Issues : ProviderCreate(k, i) \/ Transition(k, i)
         \/ \E u \in Uris : Get(k, u) \/ Write(k, u, "update") \/ Write(k, u, "delete")
  PROVE  ProviderInv'
<1>0. /\ k \in Handlers /\ Sound(copies)
      /\ remote \in [Issues -> Values] /\ seen \in [Issues -> Values]
      /\ {"get", "create", "update", "delete", "list"} \subseteq Ops \ {"reconcile"} /\ 0 \in Nat
      /\ {} \in SUBSET Uris
  BY DEF Handlers, ProviderInv, ProviderTyped, Ops
<1>1. CASE List(k)
  <2> DEFINE known == {n.uri : n \in ToSet(Visible)}
  <2>1. Begin(k, [Idle EXCEPT !.op = "list", !.known = known]) /\ UNCHANGED <<remote, copies, seen>>
    BY <1>1 DEF List
  <2>2. known \in SUBSET Uris
    <3>1. Visible \in Seq(Node)
      BY <1>0, VisibleTyped
    <3>2. \A n \in ToSet(Visible) : n \in Node
      BY <3>1 DEF ToSet
    <3>3. \A n \in Node : n.uri \in Uris
      BY DEF Node
    <3>4. QED
      BY <3>2, <3>3
  <2> HIDE DEF known
  <2>3. Begin(k, Request("list", Idle.uri, "none", 0, known, << >>))
    BY <2>1, RequestForms
  <2>4. QED
    BY <1>0, <2>1, <2>2, <2>3, RequestKeeps
<1>2. ASSUME NEW u \in Uris, NEW op \in {"get", "create", "update"}, UNCHANGED <<remote, copies, seen>>,
             Begin(k, [Idle EXCEPT !.op = op, !.uri = u])
      PROVE  ProviderInv'
  <2>1. Begin(k, Request(op, u, "none", 0, {}, << >>))
    BY <1>2, RequestForms
  <2>2. QED
    BY <1>0, <1>2, <2>1, RequestKeeps
<1>3. ASSUME NEW u \in Uris, NEW op \in {"update", "delete"}, Write(k, u, op)
      PROVE  ProviderInv'
  <2>1. CASE Find(copies, u) = 0
    <3>1. Begin(k, [Idle EXCEPT !.op = "get", !.uri = u, !.then = op])
      BY <1>3, <2>1 DEF Write
    <3>2. [Idle EXCEPT !.op = "get", !.uri = u, !.then = op] = Request("get", u, op, 0, {}, << >>)
      BY RequestForms
    <3>3. Begin(k, Request("get", u, op, 0, {}, << >>))
      BY <3>1, <3>2
    <3>4. QED
      BY <1>0, <1>3, <3>3, RequestKeeps DEF Write
  <2>2. CASE Find(copies, u) # 0
    BY <1>0, <1>3, <2>2, ResolvedKeeps DEF Write
  <2>3. QED
    BY <2>1, <2>2
<1>4. ASSUME NEW i \in Issues, ProviderCreate(k, i) \/ Transition(k, i)
      PROVE  ProviderInv'
  <2>1. UriOf(i) \in Uris
    BY UrisOfIssues
  <2>2. QED
    BY <1>2, <1>4, <2>1 DEF ProviderCreate, Transition
<1>5. QED
  BY <1>1, <1>2, <1>3, <1>4 DEF Get

\* A get that a write had to wait for goes on to the write.
LEMMA GotKeeps ==
  ASSUME Fits, ProviderInv, NEW k \in Handlers, Answered(k), calls[k].op = "get"
  PROVE  ProviderInv'
<1> DEFINE u == calls[k].uri
           value == calls[k].got[IssueOf(u)]
<1>1. /\ calls[k] \in Calls /\ u \in Uris /\ ProviderTyped /\ Sound(copies)
      /\ remote \in [Issues -> Values] /\ seen \in [Issues -> Values]
  BY DEF ProviderInv, ProviderTyped
<1>2. value \in Values /\ calls[k].then \in {"none", "update", "delete"}
  BY <1>1, UrisOfIssues DEF Calls
<1>3. /\ copies' = IF value \in Contents THEN Materialize(copies, u, value) ELSE copies
      /\ Begin(k, IF value \in Contents /\ calls[k].then # "none"
                  THEN Resolved(calls[k].then, u, copies') ELSE Idle)
      /\ UNCHANGED <<remote, seen>>
  BY DEF Answered
<1> HIDE DEF u, value
<1>4. Sound(copies')
  BY <1>1, <1>2, <1>3, MaterializeSound
<1>5. remote' \in [Issues -> Values] /\ seen' \in [Issues -> Values]
  BY <1>1, <1>3
<1>6. CASE value \in Contents /\ calls[k].then # "none"
  <2>1. calls[k].then \in {"update", "delete"}
    BY <1>2, <1>6
  <2>2. Begin(k, Resolved(calls[k].then, u, copies'))
    BY <1>3, <1>6
  <2>3. QED
    BY <1>1, <1>4, <1>5, <2>1, <2>2, ResolvedKeeps
<1>7. CASE ~(value \in Contents /\ calls[k].then # "none")
  <2>1. Begin(k, Idle)
    BY <1>3, <1>7
  <2>2. QED
    BY <1>4, <1>5, <2>1, IdleKeeps
<1>8. QED
  BY <1>6, <1>7

LEMMA AnsweredKeeps ==
  ASSUME Fits, ProviderInv, NEW k \in Handlers, Answered(k)
  PROVE  ProviderInv'
<1> DEFINE call == calls[k]
           value == call.got[IssueOf(call.uri)]
<1>1. /\ call \in Calls /\ ProviderTyped /\ Sound(copies)
      /\ call.op \in {"get", "create", "update", "delete"} => call.uri \in Uris
      /\ remote \in [Issues -> Values] /\ seen \in [Issues -> Values]
  BY DEF ProviderInv, ProviderTyped
<1>2. call.got \in [Issues -> Values]
  BY <1>1 DEF Calls
<1>3. remote' \in [Issues -> Values] /\ seen' \in [Issues -> Values]
  BY <1>1 DEF Answered
<1>4. CASE call.op = "get"
  BY <1>4, GotKeeps
<1>5. CASE call.op \in {"create", "update"}
  <2>1. copies' = Materialize(copies, call.uri, value) /\ Begin(k, Idle)
    BY <1>5 DEF Answered
  <2>2. Sound(copies')
    BY <1>1, <1>2, <1>5, <2>1, UrisOfIssues, MaterializeSound
  <2>3. QED
    BY <1>3, <2>1, <2>2, IdleKeeps
<1>6. CASE call.op = "delete"
  <2>1. copies' = Without(copies, call.node) /\ Begin(k, Idle)
    BY <1>6 DEF Answered
  <2>2. Sound(copies')
    BY <1>1, <2>1, WithoutSound
  <2>3. QED
    BY <1>3, <2>1, <2>2, IdleKeeps
<1>7. CASE call.op = "list"
  <2> DEFINE new == {i \in Issues : UriOf(i) \notin call.known /\ Find(copies, UriOf(i)) = 0}
  <2>1. copies' = MaterializeAll(new, call.got) /\ Begin(k, Idle)
    BY <1>7 DEF Answered
  <2>2. new \in SUBSET Issues
    OBVIOUS
  <2> HIDE DEF new
  <2>3. Sound(copies')
    BY <1>1, <1>2, <2>1, <2>2, MaterializeAllSound
  <2>4. QED
    BY <1>3, <2>1, <2>3, IdleKeeps
<1>8. QED
  BY <1>4, <1>5, <1>6, <1>7 DEF Answered

LEMMA DiffedKeeps ==
  ASSUME Fits, ProviderInv, NEW k \in Handlers, Diffed(k)
  PROVE  ProviderInv'
<1> DEFINE got == calls[k].got
           news == {i \in Issues : got[i] \in Contents /\ got[i] # seen[i] /\ Find(copies, UriOf(i)) # 0}
           lost == {i \in Issues : got[i] \in Absent /\ seen[i] \in Contents /\ Find(copies, UriOf(i)) # 0}
<1>1. /\ calls[k] \in Calls /\ ProviderTyped /\ Sound(copies) /\ remote \in [Issues -> Values]
  BY DEF ProviderInv, ProviderTyped
<1>2. got \in [Issues -> Values]
  BY <1>1 DEF Calls
<1>3. /\ copies' = MarkAll(MaterializeAll(news, got), lost)
      /\ seen' = got /\ Begin(k, Idle) /\ remote' = remote
  BY DEF Diffed
<1>4. news \in SUBSET Issues /\ lost \in SUBSET Issues
  OBVIOUS
<1> HIDE DEF got, news, lost
<1>5. Sound(MaterializeAll(news, got))
  BY <1>1, <1>2, <1>4, MaterializeAllSound
<1>6. Sound(copies')
  BY <1>3, <1>4, <1>5, MarkAllSound
<1>7. QED
  BY <1>1, <1>2, <1>3, <1>6, IdleKeeps

\* On with the round: what is left of it is remembered already.
LEMMA NextNodeKeeps ==
  ASSUME ProviderInv, NEW k \in Handlers, calls[k].op = "reconcile", NextNode(k),
         remote' = remote, seen' = seen, Sound(copies')
  PROVE  ProviderInv'
<1>1. /\ calls[k] \in Calls /\ calls[k].todo # << >>
      /\ remote' \in [Issues -> Values] /\ seen' \in [Issues -> Values]
  BY DEF ProviderInv, ProviderTyped
<1> DEFINE todo == calls[k].todo
           rest == Tail(todo)
           call == [Idle EXCEPT !.op = "reconcile", !.todo = rest]
<1>2. todo \in Seq(Node) /\ todo # << >>
  BY <1>1 DEF Calls
<1>3. CASE Len(todo) = 1
  <2>1. Begin(k, Idle)
    BY <1>3 DEF NextNode
  <2>2. QED
    BY <1>1, <2>1, IdleKeeps
<1>4. CASE Len(todo) # 1
  <2>1. calls' = [calls EXCEPT ![k] = call]
    BY <1>4 DEF NextNode, Begin
  <2>3. /\ rest \in Seq(Node) /\ rest # << >>
        /\ \A m \in 1..Len(rest) : m + 1 \in 1..Len(todo) /\ rest[m] = todo[m + 1]
    <3> HIDE DEF todo
    <3>1. Len(todo) \in Nat /\ Len(todo) # 0
      BY <1>2
    <3>2. /\ rest \in Seq(Node) /\ Len(rest) = Len(todo) - 1
          /\ \A m \in 1..(Len(todo) - 1) : rest[m] = todo[m + 1]
      BY <1>2
    <3> HIDE DEF rest
    <3>3. QED
      BY <1>4, <3>1, <3>2
  <2> HIDE DEF rest
  <2>2. call = Request("reconcile", Idle.uri, "none", 0, {}, rest)
    BY RequestForms
  <2>4. DrawnFrom(rest, todo, 1..Len(todo))
    BY <2>3 DEF DrawnFrom
  <2> HIDE DEF call
  <2>5. call.op = "reconcile" /\ call.todo = rest
    BY <2>2 DEF Request
  <2>6. call \in Calls
    <3>1. "reconcile" \in Ops /\ Idle.uri \in Uris \cup {Idle.uri} /\ 0 \in Nat /\ {} \in SUBSET Uris
      BY DEF Ops
    <3>2. QED
      BY <2>2, <2>3, <3>1, RequestTyped
  <2>7. QED
    BY <1>1, <2>1, <2>3, <2>4, <2>5, <2>6, GoesOn
<1>5. QED
  BY <1>3, <1>4

LEMMA ReconciledKeeps ==
  ASSUME ProviderInv, NEW k \in Handlers, Reconciled(k)
  PROVE  ProviderInv'
<1> DEFINE was == calls[k].todo[1]
           value == calls[k].got[IssueOf(was.uri)]
           now == {n \in ToSet(copies) : n.id = was.id}
           c == IF value # was.content THEN value ELSE (CHOOSE n \in now : TRUE).content
<1>1. /\ calls[k] \in Calls /\ calls[k].op = "reconcile" /\ calls[k].todo # << >>
      /\ Sound(copies) /\ copies \in Seq(Node)
  BY DEF Reconciled, ProviderInv, ProviderTyped, Sound
<1>2. calls[k].todo \in Seq(Node) /\ calls[k].got \in [Issues -> Values]
  BY <1>1 DEF Calls
<1>3. was \in Node /\ 1 \in 1..Len(calls[k].todo)
  BY <1>1, <1>2
<1>4. was.id \in Nat \ {0} /\ was.uri \in Uris /\ value \in Values
  BY <1>2, <1>3, UrisOfIssues DEF Node
<1>5. /\ copies' = IF value \in Absent \/ now = {} THEN copies ELSE Put(copies, was.id, was.uri, c)
      /\ NextNode(k) /\ UNCHANGED <<remote, seen>>
  BY DEF Reconciled
<1>6. ASSUME now # {}
      PROVE  /\ c \in Values
             /\ \A n \in 1..Len(copies) : copies[n].uri = was.uri => copies[n].id = was.id
             /\ \A q \in Handlers : \A m \in 1..Len(calls[q].todo) :
                  calls[q].todo[m].id = was.id => calls[q].todo[m].uri = was.uri
  <2>1. \A n \in now : n \in Node
    BY <1>1 DEF ToSet
  <2>2. c \in Values
    BY <1>4, <1>6, <2>1 DEF Node
  <2>3. PICK j \in 1..Len(copies) : copies[j].id = was.id
    BY <1>1, <1>6 DEF ToSet
  <2>4. copies[j].uri = was.uri
    BY <1>1, <1>3, <2>3 DEF Sound, Remembered
  <2>5. \A n \in 1..Len(copies) : copies[n].uri = was.uri => copies[n].id = was.id
    BY <1>1, <2>3, <2>4 DEF Sound, Unique
  <2>6. \A q \in Handlers : \A m \in 1..Len(calls[q].todo) :
          calls[q].todo[m].id = was.id => calls[q].todo[m].uri = was.uri
    BY <1>1, <2>3, <2>4 DEF Sound, Remembered
  <2>7. QED
    BY <2>2, <2>5, <2>6
<1> HIDE DEF c, now, was, value
<1>7. Sound(copies')
  <2>1. CASE value \in Absent \/ now = {}
    BY <1>1, <1>5, <2>1
  <2>2. CASE ~(value \in Absent \/ now = {})
    <3>1. Sound(Put(copies, was.id, was.uri, c))
      BY <1>1, <1>4, <1>6, <2>2, PutSound
    <3>2. QED
      BY <1>5, <2>2, <3>1
  <2>3. QED
    BY <2>1, <2>2
<1>8. QED
  BY <1>1, <1>5, <1>7, NextNodeKeeps

LEMMA ProviderStep ==
  ASSUME Fits, ProviderInv, [ProviderNext]_providerVars
  PROVE  ProviderInv'
<1>0. /\ Sound(copies) /\ remote \in [Issues -> Values] /\ seen \in [Issues -> Values]
      /\ "idle" \in Ops \ {"reconcile"} /\ "seed" \in Ops \ {"reconcile"} /\ "diff" \in Ops \ {"reconcile"}
      /\ {} \in SUBSET Uris
  BY DEF ProviderInv, ProviderTyped, Ops
<1>1. ASSUME NEW i \in Issues, Edit(i) PROVE ProviderInv'
  <2>1. UNCHANGED <<copies, calls, seen>> /\ remote' \in [Issues -> Values]
    BY <1>0, <1>1 DEF Edit, Becomes, Contents, Values, Absent
  <2>2. QED
    BY <2>1 DEF ProviderInv, ProviderTyped, Sound, Unique, Remembered
<1>2. ASSUME NEW k \in Diffs, StartWatching(k) \/ Diff(k) PROVE ProviderInv'
  <2>1. PICK op \in {"seed", "diff"} : Begin(k, [Idle EXCEPT !.op = op])
    BY <1>2 DEF StartWatching, Diff
  <2>2. Begin(k, Request(op, Idle.uri, "none", 0, {}, << >>))
    BY <2>1, RequestForms
  <2>3. k \in Handlers /\ UNCHANGED <<remote, copies, seen>>
    BY <1>2 DEF StartWatching, Diff, Handlers
  <2>4. QED
    BY <1>0, <2>2, <2>3, RequestKeeps
<1>3. ASSUME NEW k \in Rounds, Reconcile(k) PROVE ProviderInv'
  <2>1. k \in Handlers
    BY DEF Handlers
  <2>2. QED
    BY <1>3, <2>1, RemembersCopies DEF Reconcile
<1>4. ASSUME NEW k \in Handlers, CallRefused(k) \/ Seeded(k) PROVE ProviderInv'
  <2>1. calls[k].got \in [Issues -> Values]
    BY DEF ProviderInv, ProviderTyped, Calls
  <2>2. Begin(k, Idle) /\ UNCHANGED <<remote, copies>> /\ seen' \in [Issues -> Values]
    BY <1>0, <1>4, <2>1 DEF CallRefused, Seeded
  <2>3. QED
    BY <1>0, <2>2, IdleKeeps
<1>5. ASSUME NEW k \in Handlers, CallFails(k) PROVE ProviderInv'
  <2>1. UNCHANGED <<remote, copies, seen>>
    BY <1>5 DEF CallFails
  <2>2. CASE calls[k].op = "reconcile"
    BY <1>0, <1>5, <2>1, <2>2, NextNodeKeeps DEF CallFails
  <2>3. CASE calls[k].op # "reconcile"
    BY <1>0, <1>5, <2>1, <2>3, IdleKeeps DEF CallFails
  <2>4. QED
    BY <2>2, <2>3
<1>6. CASE UNCHANGED providerVars
  BY <1>6 DEF providerVars, ProviderInv, ProviderTyped, Sound, Unique, Remembered
<1>7. QED
  BY <1>1, <1>2, <1>3, <1>4, <1>5, <1>6, ClientKeeps, ReadKeeps, WroteKeeps, AnsweredKeeps, DiffedKeeps,
     ReconciledKeeps DEF ProviderNext, Work

\* The graph never has two copies under one URI, for any issues and ways to write
\* their URIs, requests, diffs, lists and rounds at once, whatever fails, as long as a
\* query sees as many nodes as there are URIs: materialize() of provider-store.ts
\* finds the copy there is.
THEOREM CopiesAreUnique == Fits => (ProviderSpec => []OneCopy)
<1> SUFFICES ASSUME Fits PROVE ProviderSpec => []OneCopy
  OBVIOUS
<1>1. ProviderInit => ProviderInv
  <2> SUFFICES ASSUME ProviderInit PROVE ProviderInv
    OBVIOUS
  <2>1. /\ remote \in [Issues -> Values] /\ seen \in [Issues -> Values]
        /\ copies = << >> /\ calls = [k \in Handlers |-> Idle]
    BY DEF ProviderInit, Values, Absent, Contents
  <2>2. Idle \in Calls /\ Idle.op = "idle"
    <3> DEFINE d == Idle.uri
    <3>1. Idle = Request("idle", d, "none", 0, {}, << >>)
      BY IdleForm
    <3>2. "idle" \in Ops /\ d \in Uris \cup {Idle.uri} /\ 0 \in Nat /\ << >> \in Seq(Node)
          /\ {} \in SUBSET Uris
      BY DEF Ops
    <3> HIDE DEF d
    <3>3. QED
      BY <3>1, <3>2, RequestTyped DEF Request
  <2>3. ProviderTyped
    BY <2>1, <2>2 DEF ProviderTyped
  <2>4. Sound(copies)
    BY <2>1 DEF Sound, Unique, Remembered
  <2>5. QED
    BY <2>3, <2>4 DEF ProviderInv
<1>2. ProviderInv => OneCopy
  BY DEF ProviderInv, Sound, Unique, OneCopy
<1>3. ProviderInv /\ [ProviderNext]_providerVars => ProviderInv'
  BY ProviderStep
<1>4. QED
  BY <1>1, <1>2, <1>3, PTL DEF ProviderSpec
=============================================================================
