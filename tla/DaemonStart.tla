---------------------------- MODULE DaemonStart ----------------------------
(***************************************************************************)
(* How daemons of a location start, serve and stop: start() and stop() of  *)
(* src/daemon/lifecycle.ts with the daemon lock of lock.ts, the registry of*)
(* all daemons of registry.ts and the socket of ipc.ts.                    *)
(*                                                                         *)
(* Each process runs one daemon.  A step ends where the code awaits, and   *)
(* any other process may then run.  daemon.lock is one file that says who  *)
(* serves; the directory daemon.lock.lock that proper-lockfile makes beside*)
(* it is what excludes: `guard` here, with the same for registry.json.     *)
(***************************************************************************)
EXTENDS Naturals, FiniteSets

CONSTANTS
  Procs,
  Locations,
  Placements,  \* where the processes may be: functions from Procs to Locations
  None,
  Faults,      \* what else may happen, of AllFaults
  MaxKills     \* bound on the processes killed

AllFaults == {"kill", "stall", "slow", "fail"}

ASSUME DaemonAssumption ==
  /\ None \notin Procs /\ Placements \subseteq [Procs -> Locations]
  /\ Faults \subseteq AllFaults /\ MaxKills \in Nat

VARIABLES
  at,         \* the location each process serves
  pc,         \* where its daemon is
  going,      \* whether it is on its way up or down
  lockFile,   \* the process daemon.lock names
  guard,      \* who made the directory beside it
  stale,      \* the guards not touched for 10 s
  socket,     \* whose server made the file at socketPath
  missing,    \* whether registry.json does not exist
  entry,      \* the process registry.json has for a location
  regGuard,   \* who holds its lock
  disturbed,  \* history: locations whose holder was killed or stalled
  recreated   \* history: whether a daemon wrote an empty registry.json

files == <<lockFile, guard, stale, socket>>
registry == <<missing, entry, regGuard, recreated>>
daemonVars == <<at, pc, going, files, registry, disturbed>>

\* The places of a daemon that has the guard, as far as it knows.
Registering == {"ensure", "create", "regLock", "regWrite"}
Holding == Registering \cup {"clean", "listen", "watch", "running", "stopping", "unsock", "unguard"}
Ended == {"exited", "killed"}
Places == Holding \cup Ended \cup
  {"new", "again", "inspect", "unlink", "write", "lock", "steal", "retake", "undo", "unfile"}

Holder == Procs \cup {None}

DaemonTypeOK ==
  /\ at \in [Procs -> Locations] /\ pc \in [Procs -> Places]
  /\ going \in [Procs -> {"up", "down"}]
  /\ lockFile \in [Locations -> Holder] /\ guard \in [Locations -> Holder]
  /\ stale \subseteq Locations /\ socket \in [Locations -> Holder]
  /\ missing \in BOOLEAN /\ entry \in [Locations -> Holder] /\ regGuard \in Holder
  /\ disturbed \subseteq Locations /\ recreated \in BOOLEAN

DaemonInit ==
  /\ at \in Placements
  /\ pc = [p \in Procs |-> "new"] /\ going = [p \in Procs |-> "up"]
  /\ lockFile = [l \in Locations |-> None] /\ guard = [l \in Locations |-> None]
  /\ stale = {} /\ socket = [l \in Locations |-> None]
  /\ missing \in BOOLEAN /\ entry = [l \in Locations |-> None] /\ regGuard = None
  /\ disturbed = {} /\ recreated = FALSE

\* isProcessAlive(); no process has the pid None.
Alive(p) == p \in Procs /\ pc[p] \notin Ended \cup {"new"}

Goto(p, place) == pc' = [pc EXCEPT ![p] = place]
Names(p) == lockFile[at[p]]

-----------------------------------------------------------------------------
(* start(): is a daemon running?                                           *)

\* A process comes up; checkExistingDaemon() reads the file to see if the
\* process it names is alive ...
Probe(p) ==
  /\ pc[p] = "new"
  /\ Goto(p, IF Alive(Names(p)) THEN "again" ELSE "inspect")
  /\ UNCHANGED <<at, going, files, registry, disturbed>>

\* ... and again for its contents: DAEMON_ALREADY_RUNNING.
ProbeAgain(p) ==
  /\ pc[p] = "again"
  /\ Goto(p, IF Names(p) = None THEN "inspect" ELSE "exited")
  /\ UNCHANGED <<at, going, files, registry, disturbed>>

(* acquire() of lock.ts.                                                   *)

\* Who does the file name?
Inspect(p) ==
  /\ pc[p] = "inspect"
  /\ Goto(p, IF Alive(Names(p)) THEN "exited" ELSE IF Names(p) = None THEN "write" ELSE "unlink")
  /\ UNCHANGED <<at, going, files, registry, disturbed>>

\* A dead process's file goes, if it is still that one or not.
UnlinkStale(p) ==
  /\ pc[p] = "unlink" /\ Goto(p, "write")
  /\ lockFile' = [lockFile EXCEPT ![at[p]] = None]
  /\ UNCHANGED <<at, going, guard, stale, socket, registry, disturbed>>

\* The file is written before the guard is taken, over whatever is there.
WriteLock(p) ==
  /\ pc[p] = "write" /\ Goto(p, "lock")
  /\ lockFile' = [lockFile EXCEPT ![at[p]] = p]
  /\ UNCHANGED <<at, going, guard, stale, socket, registry, disturbed>>

TakeGuard(p) ==
  /\ guard' = [guard EXCEPT ![at[p]] = p] /\ stale' = stale \ {at[p]}
  /\ Goto(p, "clean")

\* Mutation: the guard is taken from whoever has it.
LockAnyway(p) ==
  /\ pc[p] = "lock" /\ Names(p) # None /\ TakeGuard(p)
  /\ UNCHANGED <<at, going, lockFile, socket, registry, disturbed>>

\* lockfile.lock(): the file must exist and the directory must not, unless
\* nobody has touched it for 10 s; there is no second try.
Lock(p) ==
  /\ pc[p] = "lock"
  /\ LET l == at[p] IN
       \/ /\ lockFile[l] # None /\ guard[l] = None /\ TakeGuard(p)
       \/ /\ lockFile[l] # None /\ guard[l] # None /\ l \in stale
          /\ Goto(p, "steal") /\ UNCHANGED <<guard, stale>>
       \/ /\ lockFile[l] = None \/ (guard[l] # None /\ l \notin stale)
          /\ Goto(p, "undo") /\ UNCHANGED <<guard, stale>>
  /\ UNCHANGED <<at, going, lockFile, socket, registry, disturbed>>

\* The directory that was stale goes, if it is still that one or not ...
Steal(p) ==
  /\ pc[p] = "steal" /\ Goto(p, "retake")
  /\ guard' = [guard EXCEPT ![at[p]] = None] /\ stale' = stale \ {at[p]}
  /\ UNCHANGED <<at, going, lockFile, socket, registry, disturbed>>

\* ... and is made anew, unless another has.
Retake(p) ==
  /\ pc[p] = "retake"
  /\ \/ guard[at[p]] = None /\ TakeGuard(p)
     \/ guard[at[p]] # None /\ Goto(p, "undo") /\ UNCHANGED <<guard, stale>>
  /\ UNCHANGED <<at, going, lockFile, socket, registry, disturbed>>

\* Mutation: the directory goes with the file.
UndoBoth(p) ==
  /\ pc[p] = "undo" /\ Goto(p, "exited")
  /\ lockFile' = [lockFile EXCEPT ![at[p]] = None]
  /\ guard' = [guard EXCEPT ![at[p]] = None]
  /\ UNCHANGED <<at, going, stale, socket, registry, disturbed>>

\* LOCK_HELD: "clean up the file we created", whoever's it is by now.
Undo(p) ==
  /\ pc[p] = "undo" /\ Goto(p, "exited")
  /\ lockFile' = [lockFile EXCEPT ![at[p]] = None]
  /\ UNCHANGED <<at, going, guard, stale, socket, registry, disturbed>>

-----------------------------------------------------------------------------
(* start(), with the guard; register() and unregister() of registry.ts.    *)

\* removeSocketFile()
CleanSocket(p) ==
  /\ pc[p] = "clean" /\ Goto(p, "ensure")
  /\ socket' = [socket EXCEPT ![at[p]] = None]
  /\ UNCHANGED <<at, going, lockFile, guard, stale, registry, disturbed>>

\* ensureRegistry() looks for the file, without its lock, ...
Ensure(p) ==
  /\ pc[p] = "ensure" /\ Goto(p, IF missing THEN "create" ELSE "regLock")
  /\ UNCHANGED <<at, going, files, registry, disturbed>>

\* ... and if it saw none writes an empty one.
Create(p) ==
  /\ pc[p] = "create" /\ Goto(p, "regLock")
  /\ missing' = FALSE /\ entry' = [l \in Locations |-> None] /\ recreated' = TRUE
  /\ UNCHANGED <<at, going, files, regGuard, disturbed>>

RegLock(p) ==
  /\ pc[p] = "regLock" /\ regGuard = None
  /\ Goto(p, "regWrite") /\ regGuard' = p
  /\ UNCHANGED <<at, going, files, missing, entry, recreated, disturbed>>

\* Mutation: a daemon that stops takes every entry out.
RegWriteAll(p) ==
  /\ pc[p] = "regWrite"
  /\ \/ /\ going[p] = "up" /\ Goto(p, "listen")
        /\ entry' = [entry EXCEPT ![at[p]] = p]
     \/ /\ going[p] = "down" /\ Goto(p, "unsock")
        /\ entry' = [l \in Locations |-> None]
  /\ regGuard' = None
  /\ UNCHANGED <<at, going, files, missing, recreated, disturbed>>

\* Under the lock: read, replace or remove the location's entry, write; release.
RegWrite(p) ==
  /\ pc[p] = "regWrite"
  /\ \/ /\ going[p] = "up" /\ Goto(p, "listen")
        /\ entry' = [entry EXCEPT ![at[p]] = p]
     \/ /\ going[p] = "down" /\ Goto(p, "unsock")
        /\ entry' = [entry EXCEPT ![at[p]] = None]
  /\ regGuard' = None
  /\ UNCHANGED <<at, going, files, missing, recreated, disturbed>>

\* ipcServer.start(): unlink what is at socketPath, listen.
Listen(p) ==
  /\ pc[p] = "listen" /\ Goto(p, "watch")
  /\ socket' = [socket EXCEPT ![at[p]] = p]
  /\ UNCHANGED <<at, going, lockFile, guard, stale, registry, disturbed>>

\* The watchers, timers and providers: running.
Watch(p) ==
  /\ pc[p] = "watch" /\ Goto(p, "running")
  /\ UNCHANGED <<at, going, files, registry, disturbed>>

\* A step of start() throws, or the registry stays locked through five tries:
\* its server is closed, which unlinks its path, and the lock released.
StartFails(p) ==
  /\ going[p] = "up" /\ pc[p] \in Registering \cup {"clean", "listen", "watch"}
  /\ "fail" \in Faults \/ (pc[p] = "regLock" /\ regGuard # None)
  /\ Goto(p, "unguard") /\ going' = [going EXCEPT ![p] = "down"]
  /\ socket' = IF pc[p] = "watch" THEN [socket EXCEPT ![at[p]] = None] ELSE socket
  /\ regGuard' = IF pc[p] = "regWrite" THEN None ELSE regGuard
  /\ UNCHANGED <<at, lockFile, guard, stale, missing, entry, recreated, disturbed>>

-----------------------------------------------------------------------------
(* stop(), after a signal or the shutdown RPC.                             *)

\* Shutdown begins with the server, whose close() unlinks its path; then the
\* watchers, the final flush and the store.
Stop(p) ==
  /\ pc[p] = "running" /\ Goto(p, "stopping")
  /\ going' = [going EXCEPT ![p] = "down"]
  /\ UNCHANGED <<at, files, registry, disturbed>>

StopServer(p) ==
  /\ pc[p] = "stopping" /\ Goto(p, "ensure")
  /\ socket' = [socket EXCEPT ![at[p]] = None]
  /\ UNCHANGED <<at, going, lockFile, guard, stale, registry, disturbed>>

Unsock(p) ==
  /\ pc[p] = "unsock" /\ Goto(p, "unguard")
  /\ socket' = [socket EXCEPT ![at[p]] = None]
  /\ UNCHANGED <<at, going, lockFile, guard, stale, registry, disturbed>>

\* release(): the directory goes, whoever's it is, ...
Unguard(p) ==
  /\ pc[p] = "unguard" /\ Goto(p, "unfile")
  /\ guard' = [guard EXCEPT ![at[p]] = None] /\ stale' = stale \ {at[p]}
  /\ UNCHANGED <<at, going, lockFile, socket, registry, disturbed>>

\* ... then the file.
Unfile(p) ==
  /\ pc[p] = "unfile" /\ Goto(p, "exited")
  /\ lockFile' = [lockFile EXCEPT ![at[p]] = None]
  /\ UNCHANGED <<at, going, guard, stale, socket, registry, disturbed>>

\* stop() rejects, on shutdownTimeoutMs or a registry that stays locked, and
\* nobody handles it: the process exits, and takes its guards with it.
Abort(p) ==
  /\ going[p] = "down" /\ pc[p] \in Registering \cup {"stopping", "unsock"}
  /\ "slow" \in Faults \/ (pc[p] = "regLock" /\ regGuard # None)
  /\ Goto(p, "exited")
  /\ guard' = [guard EXCEPT ![at[p]] = None] /\ stale' = stale \ {at[p]}
  /\ regGuard' = IF regGuard = p THEN None ELSE regGuard
  /\ UNCHANGED <<at, going, lockFile, socket, missing, entry, recreated, disturbed>>

-----------------------------------------------------------------------------
(* Crashes, and what proper-lockfile makes of time.                        *)

\* SIGKILL or power: nothing is cleaned up.
Kill(p) ==
  /\ "kill" \in Faults /\ Alive(p) /\ Goto(p, "killed")
  /\ Cardinality({q \in Procs : pc[q] = "killed"}) < MaxKills
  /\ disturbed' = IF guard[at[p]] = p THEN disturbed \cup {at[p]} ELSE disturbed
  /\ UNCHANGED <<at, going, files, registry>>

\* Nobody touches the guard of a dead process, nor of one that was suspended or
\* sat in an execSync() for 10 s.
GuardStale(l) ==
  /\ guard[l] # None /\ l \notin stale
  /\ ~Alive(guard[l]) \/ "stall" \in Faults
  /\ stale' = stale \cup {l} /\ disturbed' = disturbed \cup {l}
  /\ UNCHANGED <<at, pc, going, lockFile, guard, socket, registry>>

\* A dead process's lock of the registry is taken as free after 10 s.
RegGuardStale ==
  /\ regGuard # None /\ ~Alive(regGuard) /\ regGuard' = None
  /\ UNCHANGED <<at, pc, going, files, missing, entry, recreated, disturbed>>

\* The update every 5 s touches the directory ...
Renew(p) ==
  /\ pc[p] \in Holding /\ guard[at[p]] = p /\ at[p] \in stale
  /\ stale' = stale \ {at[p]}
  /\ UNCHANGED <<at, pc, going, lockFile, guard, socket, registry, disturbed>>

\* Mutation: it does not look whose directory it is.
LostIfGone(p) ==
  /\ pc[p] \in Holding /\ guard[at[p]] = None /\ Goto(p, "exited")
  /\ regGuard' = IF regGuard = p THEN None ELSE regGuard
  /\ UNCHANGED <<at, going, files, missing, entry, recreated, disturbed>>

\* ... or finds it is not its own: the default onCompromised throws.
Lost(p) ==
  /\ pc[p] \in Holding /\ guard[at[p]] # p /\ Goto(p, "exited")
  /\ regGuard' = IF regGuard = p THEN None ELSE regGuard
  /\ UNCHANGED <<at, going, files, missing, entry, recreated, disturbed>>

-----------------------------------------------------------------------------
StartStep(p) ==
  \/ ProbeAgain(p) \/ Inspect(p) \/ UnlinkStale(p) \/ WriteLock(p)
  \/ Lock(p) \/ Steal(p) \/ Retake(p) \/ Undo(p)
  \/ CleanSocket(p) \/ Ensure(p) \/ Create(p) \/ RegLock(p) \/ RegWrite(p)
  \/ Listen(p) \/ Watch(p) \/ StartFails(p)

StopStep(p) == StopServer(p) \/ Unsock(p) \/ Unguard(p) \/ Unfile(p) \/ Abort(p)

DaemonStep(p) == StartStep(p) \/ StopStep(p) \/ Lost(p)

DaemonNext ==
  \/ \E p \in Procs :
       \/ Probe(p) \/ DaemonStep(p) \/ Stop(p) \/ Kill(p) \/ Renew(p)
  \/ \E l \in Locations : GuardStale(l)
  \/ RegGuardStale

DaemonSpec == DaemonInit /\ [][DaemonNext]_daemonVars

\* What a process awaits comes, and its timers fire.
DaemonFairSpec ==
  DaemonSpec /\ \A p \in Procs : WF_daemonVars(DaemonStep(p))

(***************************************************************************)
(* Properties.                                                             *)
(***************************************************************************)
Serving(p) == pc[p] \in Holding

\* "Ensures only one daemon per location" (lock.ts): two processes never have
\* the guard of one location, however their starts, stops and failures
\* interleave, unless a holder was killed or stalled.
OneDaemon ==
  \A p, q \in Procs :
    Serving(p) /\ Serving(q) /\ at[p] = at[q] /\ at[p] \notin disturbed => p = q

\* A running daemon is reached: the socket of its location is its own, and the
\* registry names it, unless a daemon started without a registry.json wrote an
\* empty one.  What other starts, stops and failures unlink is never its.
RunningReached ==
  \A p \in Procs :
    pc[p] = "running" /\ at[p] \notin disturbed
      => socket[at[p]] = p /\ (entry[at[p]] = p \/ recreated)

\* Starts that race do not all fail: one of them runs, unless a daemon of the
\* location was killed, failed or stopped.
SomeoneServes ==
  \A l \in Locations :
    (\E p \in Procs : at[p] = l /\ pc[p] = "inspect")
      ~> (\E q \in Procs : at[q] = l /\ (pc[q] \in {"running", "killed"} \/ going[q] = "down"))

\* Two daemons of one location, which a stale guard allows, do not last.
DoublesEnd ==
  <>[](\A p, q \in Procs : Serving(p) /\ Serving(q) /\ at[p] = at[q] => p = q)

\* Nor do the starts that find the file of a dead process, with no directory beside it,
\* all fail (acquire(): "If stale lock exists, remove it first").  Not so: one removes
\* what another is about to lock, whose clean-up then unlinks what the first has written.
DeadFileReplaced ==
  \A l \in Locations :
    (guard[l] = None /\ \E p \in Procs : at[p] = l /\ pc[p] = "unlink")
      ~> (\E q \in Procs : at[q] = l /\ (pc[q] = "running" \/ going[q] = "down"))

\* Clients find a running daemon (checkExistingDaemon()).  Not so: the start
\* that loses a race unlinks the file of the one that won.
RunningFound ==
  \A p \in Procs : pc[p] = "running" /\ at[p] \notin disturbed => lockFile[at[p]] = p
=============================================================================
