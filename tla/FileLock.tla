------------------------------ MODULE FileLock ------------------------------
(***************************************************************************)
(* The advisory lock file of src/storage/file-lock.ts, around the creates, *)
(* updates and deletes of src/providers/claude-tasks-fs.ts, by several     *)
(* processes.  withRegistryLock() of src/core/worktree.ts is the same loop.*)
(*                                                                         *)
(* Each system call is a step: the code between them is synchronous, but   *)
(* the processes are not.                                                  *)
(***************************************************************************)
EXTENDS Naturals, FiniteSets

CONSTANTS
  Writers,    \* processes
  Nobody,
  LockFaults, \* what else may happen: "kill", "old"
  MaxTasks    \* bound on the ids given

ASSUME FileLockAssumption ==
  Nobody \notin Writers /\ MaxTasks \in Nat /\ LockFaults \subseteq {"kill", "old"}

VARIABLES
  step,     \* where each writer is
  file,     \* who made the lock file
  stamped,  \* whether it has its pid and time
  old,      \* whether that time is more than staleTimeout ago
  mark,     \* .highwatermark
  read,     \* what each writer read of it
  task,     \* task[i]: who wrote the file of task i last, or Nobody
  given,    \* the ids each writer's creates returned
  broken    \* history: whether somebody unlinked the file of a holder that lives

lockVars == <<file, stamped, old>>
data == <<mark, read, task, given>>
fileLockVars == <<step, lockVars, data, broken>>

Ids == 1..MaxTasks
Inside == {"stamp", "read", "bump", "save", "update", "delete", "release"}
Steps == Inside \cup {"idle", "open", "exists", "break", "dead"}

FileLockTypeOK ==
  /\ step \in [Writers -> Steps]
  /\ file \in Writers \cup {Nobody} /\ stamped \in BOOLEAN /\ old \in BOOLEAN
  /\ mark \in 0..MaxTasks /\ read \in [Writers -> 0..MaxTasks]
  /\ task \in [Ids -> Writers \cup {Nobody}] /\ given \in [Writers -> SUBSET Ids]
  /\ broken \in BOOLEAN

FileLockInit ==
  /\ step = [w \in Writers |-> "idle"]
  /\ file = Nobody /\ stamped = FALSE /\ old = FALSE
  /\ mark = 0 /\ read = [w \in Writers |-> 0]
  /\ task = [i \in Ids |-> Nobody] /\ given = [w \in Writers |-> {}]
  /\ broken = FALSE

Step(w, s) == step' = [step EXCEPT ![w] = s]

NoFile == file' = Nobody /\ stamped' = FALSE /\ old' = FALSE

\* withFileLock() makes a lock and acquires it.
Want(w) ==
  /\ step[w] = "idle" /\ Step(w, "open")
  /\ UNCHANGED <<lockVars, data, broken>>

\* Mutation: O_EXCL is left out.
OpenShared(w) ==
  /\ step[w] = "open" /\ Step(w, "stamp")
  /\ file' = w /\ stamped' = FALSE /\ old' = FALSE
  /\ UNCHANGED <<data, broken>>

\* openSync() with O_EXCL: it makes the file, or fails with EEXIST.
Open(w) ==
  /\ step[w] = "open"
  /\ \/ /\ file = Nobody /\ Step(w, "stamp")
        /\ file' = w /\ stamped' = FALSE /\ old' = FALSE
     \/ /\ file # Nobody /\ Step(w, "exists") /\ UNCHANGED lockVars
  /\ UNCHANGED <<data, broken>>

\* The pid and the time go into the file; fn() begins.
Stamp(w) ==
  /\ step[w] = "stamp"
  /\ \E next \in {"read", "update", "delete"} : Step(w, next)
  /\ stamped' = (stamped \/ file = w)
  /\ UNCHANGED <<file, old, data, broken>>

\* isStale(): a file that cannot be read, that names a dead process or that is
\* too old is broken; one with nothing in it yet is not.
IsStale ==
  \/ file = Nobody
  \/ stamped /\ (step[file] = "dead" \/ old)

\* After EEXIST: break the lock, or try again after retryInterval.
Exists(w) ==
  /\ step[w] = "exists"
  /\ Step(w, IF IsStale THEN "break" ELSE "open")
  /\ UNCHANGED <<lockVars, data, broken>>

\* The timeout is over.
GiveUp(w) ==
  /\ step[w] = "exists" /\ ~IsStale /\ Step(w, "idle")
  /\ UNCHANGED <<lockVars, data, broken>>

\* breakLock() unlinks whatever file is there by now.
Break(w) ==
  /\ step[w] = "break" /\ Step(w, "open") /\ NoFile
  /\ broken' = (broken \/ (file # Nobody /\ step[file] # "dead"))
  /\ UNCHANGED data

\* create(): readHighwatermark(), ...
ReadMark(w) ==
  /\ step[w] = "read" /\ mark < MaxTasks /\ Step(w, "bump")
  /\ read' = [read EXCEPT ![w] = mark]
  /\ UNCHANGED <<lockVars, mark, task, given, broken>>

\* Mutation: the mark is what the next create gets.
BumpPast(w) ==
  /\ step[w] = "bump" /\ Step(w, "save")
  /\ mark' = read[w] + 2
  /\ UNCHANGED <<lockVars, read, task, given, broken>>

\* ... writeHighwatermark(), ...
Bump(w) ==
  /\ step[w] = "bump" /\ Step(w, "save")
  /\ mark' = read[w] + 1
  /\ UNCHANGED <<lockVars, read, task, given, broken>>

\* ... and the task's file, by a rename over whatever has its name.
Save(w) ==
  /\ step[w] = "save" /\ Step(w, "release")
  /\ task' = [task EXCEPT ![read[w] + 1] = w]
  /\ given' = [given EXCEPT ![w] = @ \cup {read[w] + 1}]
  /\ read' = [read EXCEPT ![w] = 0]
  /\ UNCHANGED <<lockVars, mark, broken>>

\* update(): NOT_FOUND, or the file is written anew.
Update(w) ==
  /\ step[w] = "update" /\ Step(w, "release")
  /\ \/ \E i \in Ids : task[i] # Nobody /\ task' = [task EXCEPT ![i] = w]
     \/ UNCHANGED task
  /\ UNCHANGED <<lockVars, mark, read, given, broken>>

\* delete(): NOT_FOUND, or the file is unlinked.
Delete(w) ==
  /\ step[w] = "delete" /\ Step(w, "release")
  /\ \/ \E i \in Ids : task[i] # Nobody /\ task' = [task EXCEPT ![i] = Nobody]
     \/ UNCHANGED task
  /\ UNCHANGED <<lockVars, mark, read, given, broken>>

\* release() unlinks the file, whoever's it is.
Release(w) ==
  /\ step[w] = "release" /\ Step(w, "idle") /\ NoFile
  /\ broken' = (broken \/ (file \notin {Nobody, w} /\ step[file] # "dead"))
  /\ UNCHANGED data

\* A process is killed.
Die(w) ==
  /\ "kill" \in LockFaults /\ step[w] \in Inside /\ Step(w, "dead")
  /\ UNCHANGED <<lockVars, data, broken>>

\* The holder was suspended for staleTimeout.
Age ==
  /\ "old" \in LockFaults /\ stamped /\ old' = TRUE
  /\ UNCHANGED <<step, file, stamped, data, broken>>

FileLockNext ==
  \/ \E w \in Writers :
       \/ Want(w) \/ Open(w) \/ Stamp(w) \/ Exists(w) \/ GiveUp(w) \/ Break(w)
       \/ ReadMark(w) \/ Bump(w) \/ Save(w) \/ Update(w) \/ Delete(w) \/ Release(w)
       \/ Die(w)
  \/ Age

FileLockSpec == FileLockInit /\ [][FileLockNext]_fileLockVars

(***************************************************************************)
(* Properties.                                                             *)
(***************************************************************************)
Distinct == \A v, w \in Writers : v # w => given[v] \cap given[w] = {}

\* Creates by several processes give different ids, whatever dies in between,
\* unless somebody unlinked the lock file of a holder that lives.
IdsDistinct == broken \/ Distinct

\* "All mutating operations are serialized through an advisory file lock"
\* (claude-tasks-fs.ts).  Not so: who finds the file gone after EEXIST breaks
\* the lock, which another may have taken by then.
CreatesSerialized == Distinct
=============================================================================
