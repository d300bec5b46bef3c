---------------------------- MODULE FlushPipeline ----------------------------
(***************************************************************************)
(* How a write gets from the SQLite cache to graph.jsonl: the store's      *)
(* SyncManager (src/graph/sync.ts) inside the daemon's FlushManager        *)
(* (src/daemon/flush.ts), both timed by a DebouncedFlusher                 *)
(* (src/graph/debounce.ts), and who races them: RPC handlers that wait for *)
(* the disk, git pulls, the file watcher's reload, a crash, a shutdown.    *)
(*                                                                         *)
(* Contents are version numbers.  SQLite calls are synchronous, so a step  *)
(* runs from one file or timer event to the next.  Time is abstract: an    *)
(* armed timer may fire at any moment.                                     *)
(***************************************************************************)
EXTENDS Naturals, FiniteSets

CONSTANTS
  Local,         \* nodes this daemon writes
  Peer,          \* a node other machines write
  Callers,       \* RPCs that write and wait for the disk
  Syncs,         \* sync.now / sync.pull RPCs
  Writes,        \* the kinds of write made, of AllWrites
  Faults,        \* what else may happen, of AllFaults
  MultiLocation, \* the watcher reloads the store (location-state.ts)
  MaxVersion     \* bound on versions

AllWrites == {"edit", "terminal", "claim"}
AllFaults == {"crash", "stop", "slow", "fail"}
Nodes == Local \cup {Peer}

ASSUME PipelineAssumption ==
  /\ Peer \notin Local
  /\ Callers \cap Syncs = {}
  /\ Writes \subseteq AllWrites /\ Faults \subseteq AllFaults
  /\ MultiLocation \in BOOLEAN
  /\ MaxVersion \in Nat \ {0}

VARIABLES
  db,       \* db[n]: version of the node's SQLite row
  file,     \* file[n]: version of the node's line in graph.jsonl
  rows,     \* the dirty_nodes table of SQLite
  pending,  \* SyncManager: pendingDirtyNodes
  inner,    \* SyncManager: its debounced flusher
  job,      \* the flush of the store under way
  nodes,    \* FlushManager: dirtyNodes
  outer,    \* FlushManager: its debounced flusher
  busy,     \* FlushManager: a flush of outer waits for the store's
  paused,   \* FlushManager: isPaused
  stage,    \* how far the daemon's shutdown has come
  pc,       \* where each RPC is
  arg,      \* what each caller wrote: node and version
  notify,   \* the watcher has a change of graph.jsonl to report
  reloading,\* the watcher's handler is reloading the store
  acked,    \* history: the highest version a durable RPC confirmed
  edited,   \* history: the version of the last edit not lost since
  pulled,   \* history: the Peer's version a pull put in the file
  timed,    \* a timer's call waits for the flush under way
  failed    \* history: the last flush failed

store == <<rows, pending, inner, job>>
daemon == <<nodes, outer, busy, paused>>
rpcs == <<stage, pc, arg>>
watcher == <<notify, reloading>>
history == <<acked, edited, pulled>>
fate == <<timed, failed>>
vars == <<db, file, store, daemon, rpcs, watcher, history, fate>>

-----------------------------------------------------------------------------
(* The DebouncedFlusher: the dirty flag and the two timer handles.  A max  *)
(* timer that fired while a flush was in flight leaves its handle behind.  *)

Flusher == [dirty : BOOLEAN, debounce : BOOLEAN, max : {"off", "armed", "fired"}]

\* Mutation: the max timer's handle is set to something else than null.
QuietUndefined == [dirty |-> FALSE, debounce |-> FALSE, max |-> "undefined"]

Quiet == [dirty |-> FALSE, debounce |-> FALSE, max |-> "off"]

MarkDirty(f) == [f EXCEPT !.dirty = TRUE]

\* Mutation: no max timer.
ScheduleDebounceOnly(f) == [f EXCEPT !.debounce = TRUE]

Schedule(f) == [f EXCEPT !.debounce = TRUE, !.max = IF @ = "off" THEN "armed" ELSE @]

\* A timer fired while a flush was in flight: the call joins it, nothing else.
Spent(f, timer) ==
  IF timer = "debounce" THEN [f EXCEPT !.debounce = FALSE] ELSE [f EXCEPT !.max = "fired"]

Armed(f, timer) == IF timer = "debounce" THEN f.debounce ELSE f.max = "armed"

Versions == 0..MaxVersion
Idle == [phase |-> "idle", ids |-> {}, image |-> [n \in Nodes |-> 0]]

TypeOK ==
  /\ db \in [Nodes -> Versions] /\ file \in [Nodes -> Versions]
  /\ rows \subseteq Nodes /\ pending \subseteq Nodes /\ nodes \subseteq Nodes
  /\ inner \in Flusher /\ outer \in Flusher
  /\ job \in [phase : {"idle", "loading", "saving"}, ids : SUBSET Nodes,
              image : [Nodes -> Versions]]
  /\ busy \in BOOLEAN /\ paused \in BOOLEAN
  /\ pc \in [Callers \cup Syncs ->
               {"idle", "calling", "awaiting", "pulled"}]
  /\ stage \in {"running", "draining", "closing", "closed"}
  /\ arg \in [Callers -> [node : Local, version : Versions]]
  /\ notify \in BOOLEAN /\ reloading \in BOOLEAN
  /\ acked \in [Nodes -> Versions] /\ edited \in [Nodes -> Versions]
  /\ pulled \in Versions
  /\ timed \in BOOLEAN /\ failed \in BOOLEAN

\* The daemon has started on a graph.jsonl that holds every node.
Init ==
  /\ db = [n \in Nodes |-> 1] /\ file = db
  /\ rows = {} /\ pending = {} /\ inner = Quiet /\ job = Idle
  /\ nodes = {} /\ outer = Quiet /\ busy = FALSE /\ paused = FALSE
  /\ stage = "running" /\ pc = [p \in Callers \cup Syncs |-> "idle"]
  /\ arg \in [Callers -> [node : Local, version : {0}]]
  /\ notify = FALSE /\ reloading = FALSE
  /\ acked = [n \in Nodes |-> 0] /\ edited = db /\ pulled = 1
  /\ timed = FALSE /\ failed = FALSE

Running == stage = "running"

-----------------------------------------------------------------------------
(* The store's flush.                                                      *)

\* syncManager.flush(): joins the flush in flight, finds nothing dirty, or
\* moves the pending ids to dirty_nodes and starts reading graph.jsonl.
StoreFlush ==
  IF job.phase # "idle" THEN UNCHANGED store
  ELSE /\ inner' = Quiet
       /\ IF inner.dirty
          THEN /\ rows' = rows \cup pending
               /\ pending' = {}
               /\ job' = IF rows' = {} THEN Idle ELSE [Idle EXCEPT !.phase = "loading", !.ids = rows']
          ELSE UNCHANGED <<rows, pending, job>>

InnerTimer(timer) ==
  /\ Armed(inner, timer) /\ stage # "closed"
  /\ IF job.phase # "idle"
     THEN /\ timer = "max" => "slow" \in Faults
          /\ inner' = Spent(inner, timer)
          /\ UNCHANGED <<rows, pending, job>>
     ELSE StoreFlush
  /\ timed' = (job'.phase # "idle")
  /\ UNCHANGED <<db, file, daemon, rpcs, watcher, history, failed>>

\* graph.jsonl is read; the dirty rows replace what it says of their nodes.
StoreLoaded ==
  /\ job.phase = "loading"
  /\ job' = [job EXCEPT !.phase = "saving",
                        !.image = [n \in Nodes |-> IF n \in job.ids THEN db[n] ELSE file[n]]]
  /\ UNCHANGED <<db, file, rows, pending, inner, daemon, rpcs, watcher, history, fate>>

\* Mutation: the dirty flag is cleared when the flush ends, not when it starts.
StoreSavedThenClean ==
  /\ job.phase = "saving"
  /\ file' = job.image
  /\ rows' = rows \ job.ids
  /\ inner' = [inner EXCEPT !.dirty = FALSE]
  /\ job' = Idle
  /\ busy' = FALSE
  /\ notify' = (MultiLocation /\ Running)
  /\ timed' = FALSE /\ failed' = FALSE
  /\ UNCHANGED <<db, pending, nodes, outer, paused, rpcs, reloading, history>>

\* Mutation: the pending ids are cleared when the flush ends.
StoreSavedThenEmpty ==
  /\ job.phase = "saving"
  /\ file' = job.image
  /\ rows' = rows \ job.ids
  /\ pending' = {}
  /\ job' = Idle
  /\ busy' = FALSE
  /\ notify' = (MultiLocation /\ Running)
  /\ timed' = FALSE /\ failed' = FALSE
  /\ UNCHANGED <<db, inner, nodes, outer, paused, rpcs, reloading, history>>

\* The temporary file is renamed over graph.jsonl; the dirty marks go.
StoreSaved ==
  /\ job.phase = "saving"
  /\ file' = job.image
  /\ rows' = rows \ job.ids
  /\ job' = Idle
  /\ busy' = FALSE
  /\ notify' = (MultiLocation /\ Running)
  /\ timed' = FALSE /\ failed' = FALSE
  /\ UNCHANGED <<db, pending, inner, nodes, outer, paused, rpcs, reloading, history>>

-----------------------------------------------------------------------------
(* The daemon's flush manager.                                             *)

\* flusher.flush() of the FlushManager, on its dirty set ns and flusher f.
OuterFlush(ns, f) ==
  IF busy THEN nodes' = ns /\ outer' = f /\ UNCHANGED <<busy, store>>
  ELSE /\ outer' = Quiet
       /\ IF f.dirty /\ ns # {}
          THEN nodes' = {} /\ StoreFlush /\ busy' = (job'.phase # "idle")
          ELSE nodes' = ns /\ UNCHANGED <<busy, store>>

OuterTimer(timer) ==
  /\ Armed(outer, timer)
  /\ IF busy
     THEN /\ timer = "max" => "slow" \in Faults
          /\ outer' = Spent(outer, timer)
          /\ UNCHANGED <<nodes, busy, store>>
     ELSE OuterFlush(nodes, outer)
  /\ timed' = (timed \/ busy')
  /\ UNCHANGED <<db, file, paused, rpcs, watcher, history, failed>>

\* pause(): the timers and the dirty flag go, the dirty nodes stay.
Pause == paused' = TRUE /\ outer' = Quiet

\* Mutation: resume() schedules, and does not mark the flusher dirty again.
ResumeUnmarked(f) ==
  /\ paused' = FALSE
  /\ outer' = IF nodes = {} THEN f ELSE Schedule(f)

\* resume(), on its flusher f: whoever paused, the flush manager runs again.
Resume(f) ==
  /\ paused' = FALSE
  /\ outer' = IF nodes = {} THEN f ELSE Schedule(MarkDirty(f))

-----------------------------------------------------------------------------
(* Writes.                                                                 *)

\* store.updateNode: the row, then the SyncManager's mark and timer.
UpdateNode(n) ==
  /\ db[n] < MaxVersion
  /\ db' = [db EXCEPT ![n] = @ + 1]
  /\ pending' = pending \cup {n}
  /\ inner' = Schedule(MarkDirty(inner))
  /\ edited' = [edited EXCEPT ![n] = db[n] + 1]
  /\ UNCHANGED <<rows, job>>

\* A debounced write: the handler marks, schedules and returns.
Edit(n) ==
  /\ "edit" \in Writes /\ Running
  /\ UpdateNode(n)
  /\ nodes' = nodes \cup {n}
  /\ outer' = IF paused THEN MarkDirty(outer) ELSE Schedule(MarkDirty(outer))
  /\ UNCHANGED <<file, busy, paused, rpcs, watcher, acked, pulled, fate>>

\* A terminal transition goes through updateNode and waits for the disk.
Terminal(c, n) ==
  /\ "terminal" \in Writes /\ pc[c] = "idle" /\ Running
  /\ UpdateNode(n)
  /\ pc' = [pc EXCEPT ![c] = "calling"]
  /\ arg' = [arg EXCEPT ![c] = [node |-> n, version |-> db[n] + 1]]
  /\ UNCHANGED <<file, daemon, stage, watcher, acked, pulled, fate>>

\* A claim, release or renew marks the dirty row in SQLite, and nothing else.
ClaimWrite(c, n) ==
  /\ "claim" \in Writes /\ pc[c] = "idle" /\ Running
  /\ db[n] < MaxVersion
  /\ db' = [db EXCEPT ![n] = @ + 1]
  /\ rows' = rows \cup {n}
  /\ pc' = [pc EXCEPT ![c] = "calling"]
  /\ arg' = [arg EXCEPT ![c] = [node |-> n, version |-> db[n] + 1]]
  /\ UNCHANGED <<file, pending, inner, job, daemon, stage, watcher, history, fate>>

\* The tools.task handler: markDirty, then flush(), a no-op while paused.
DurableFlush(c) ==
  /\ pc[c] = "calling"
  /\ IF paused
     THEN /\ nodes' = nodes \cup {arg[c].node}
          /\ outer' = MarkDirty(outer)
          /\ pc' = [pc EXCEPT ![c] = "idle"]
          /\ UNCHANGED <<busy, store>>
     ELSE /\ OuterFlush(nodes \cup {arg[c].node}, MarkDirty(outer))
          /\ pc' = [pc EXCEPT ![c] = "awaiting"]
  /\ UNCHANGED <<db, file, paused, stage, arg, watcher, history, fate>>

\* flush() awaited the flusher: once more while nodes are dirty.
Drain(p) ==
  /\ pc[p] = "awaiting" /\ ~busy
  /\ ~paused /\ nodes # {}
  /\ OuterFlush(nodes, outer)
  /\ UNCHANGED <<db, file, paused, rpcs, watcher, history, fate>>

\* The RPC returns; unless a sync interrupted it, its write is confirmed.
DurableReturn(c) ==
  /\ pc[c] = "awaiting" /\ ~busy
  /\ paused \/ nodes = {}
  /\ pc' = [pc EXCEPT ![c] = "idle"]
  /\ acked' = IF paused THEN acked
              ELSE [acked EXCEPT ![arg[c].node] =
                      IF @ < arg[c].version THEN arg[c].version ELSE @]
  /\ UNCHANGED <<db, file, store, daemon, stage, arg, watcher, edited, pulled, fate>>

-----------------------------------------------------------------------------
(* Git syncs: runCoordinated of src/daemon/methods/sync.ts.                *)

SyncFlush(s) ==
  /\ pc[s] = "idle" /\ Running
  /\ IF paused THEN UNCHANGED <<nodes, outer, busy, store>> ELSE OuterFlush(nodes, outer)
  /\ pc' = [pc EXCEPT ![s] = "awaiting"]
  /\ UNCHANGED <<db, file, paused, stage, arg, watcher, history, fate>>

\* The flush is drained and paused, git runs to its end (execSync), and the
\* merge has brought the peer's next version and kept the local nodes.
SyncPull(s) ==
  /\ pc[s] = "awaiting" /\ ~busy
  /\ paused \/ nodes = {}
  /\ file[Peer] < MaxVersion
  /\ file' = [file EXCEPT ![Peer] = @ + 1]
  /\ pulled' = file[Peer] + 1
  /\ notify' = MultiLocation
  /\ Pause
  /\ pc' = [pc EXCEPT ![s] = "pulled"]
  /\ UNCHANGED <<db, store, nodes, busy, stage, arg, reloading, acked, edited, fate>>

\* Nothing to pull, or the git command failed: resume() follows at once.
SyncEmpty(s) ==
  /\ pc[s] = "awaiting" /\ ~busy
  /\ paused \/ nodes = {}
  /\ Resume(Quiet)
  /\ pc' = [pc EXCEPT ![s] = "idle"]
  /\ UNCHANGED <<db, file, store, nodes, busy, stage, arg, watcher, history, fate>>

\* store.reload(): every row becomes what the file says, newer or not.
Reload ==
  /\ db' = file
  /\ edited' = [n \in Nodes |-> IF file[n] < edited[n] THEN file[n] ELSE edited[n]]

SyncReload(s) ==
  /\ pc[s] = "pulled"
  /\ Reload /\ Resume(outer)
  /\ pc' = [pc EXCEPT ![s] = "idle"]
  /\ UNCHANGED <<file, store, nodes, busy, stage, arg, watcher, acked, pulled, fate>>

-----------------------------------------------------------------------------
(* The watcher's reload (location-state.ts), a crash, a shutdown.          *)

\* The watcher, paused while the FlushManager flushes, drops what it sees then.
WatcherFires ==
  /\ notify /\ ~reloading
  /\ notify' = FALSE
  /\ IF busy THEN UNCHANGED <<outer, paused, reloading>> ELSE Pause /\ reloading' = TRUE
  /\ UNCHANGED <<db, file, store, nodes, busy, rpcs, history, fate>>

WatcherReload ==
  /\ reloading
  /\ reloading' = FALSE
  /\ Reload /\ Resume(outer)
  /\ UNCHANGED <<file, store, nodes, busy, rpcs, notify, acked, pulled, fate>>

\* The process ends and the next one starts: the cache is there, initialize()
\* writes what graph.jsonl says over it; memory starts afresh.
Die ==
  /\ Reload
  /\ pending' = {} /\ inner' = Quiet /\ job' = Idle
  /\ nodes' = {} /\ outer' = Quiet /\ busy' = FALSE /\ paused' = FALSE
  /\ pc' = [p \in Callers \cup Syncs |-> "idle"]
  /\ notify' = FALSE /\ reloading' = FALSE
  /\ timed' = FALSE /\ failed' = FALSE
  /\ UNCHANGED <<file, rows, stage, arg, acked, pulled>>

\* kill -9.
CrashRestart == "crash" \in Faults /\ Running /\ Die

\* graph.jsonl cannot be read or written: the RPCs that wait get the error, the
\* marks stay in dirty_nodes, and nothing is scheduled.  The rejection of a
\* timer's call is nobody's, and ends the process.
FlushFails ==
  /\ "fail" \in Faults /\ Running /\ job.phase # "idle"
  /\ IF timed THEN Die
     ELSE /\ job' = Idle /\ busy' = FALSE /\ failed' = TRUE
          /\ pc' = [p \in Callers \cup Syncs |-> IF pc[p] = "awaiting" THEN "idle" ELSE pc[p]]
          /\ UNCHANGED <<db, file, rows, pending, inner, nodes, outer, paused, stage, arg,
                         watcher, history, timed>>

\* stop(), once the RPCs in flight are answered: the watcher stops, and
\* finalFlush() flushes the store if the FlushManager has a dirty node.
Stop ==
  /\ "stop" \in Faults /\ Running
  /\ \A p \in Callers \cup Syncs : pc[p] = "idle"
  /\ ~reloading
  /\ stage' = "draining"
  /\ notify' = FALSE
  /\ outer' = Quiet
  /\ nodes' = {}
  /\ IF nodes = {} THEN UNCHANGED store ELSE StoreFlush
  /\ busy' = (nodes # {} /\ job'.phase # "idle")
  /\ UNCHANGED <<db, file, paused, pc, arg, reloading, history, fate>>

\* store.close(): one more flush of the store, then the database is closed.
CloseFlush ==
  /\ stage = "draining" /\ ~busy
  /\ stage' = "closing"
  /\ StoreFlush
  /\ UNCHANGED <<db, file, daemon, pc, arg, watcher, history, fate>>

Closed ==
  /\ stage = "closing" /\ job.phase = "idle"
  /\ stage' = "closed"
  /\ UNCHANGED <<db, file, store, daemon, pc, arg, watcher, history, fate>>

\* A promise's continuations run before the next file, timer or socket event.
Continuation ==
  \/ \E p \in Callers \cup Syncs : Drain(p)
  \/ \E c \in Callers : DurableReturn(c)
  \/ \E s \in Syncs : SyncPull(s) \/ SyncEmpty(s)

Settled == busy \/ \A p \in Callers \cup Syncs : pc[p] # "awaiting"

Event ==
  /\ Settled
  /\ \/ \E timer \in {"debounce", "max"} : InnerTimer(timer) \/ OuterTimer(timer)
     \/ StoreLoaded \/ StoreSaved \/ FlushFails
     \/ \E n \in Local : Edit(n)
     \/ \E c \in Callers :
          (\E n \in Local : Terminal(c, n) \/ ClaimWrite(c, n)) \/ DurableFlush(c)
     \/ \E s \in Syncs : SyncFlush(s) \/ SyncReload(s)
     \/ WatcherFires \/ WatcherReload
     \/ CrashRestart \/ Stop \/ CloseFlush \/ Closed

Next == Continuation \/ Event

Spec == Init /\ [][Next]_vars

\* Timers fire, file operations end and handlers go on, as long as the process
\* runs: the event loop serves what is ready in turn, whatever else comes in.
FairSpec ==
  /\ Spec
  /\ WF_vars(Continuation)
  /\ \A timer \in {"debounce", "max"} :
       WF_vars(Settled /\ InnerTimer(timer)) /\ WF_vars(Settled /\ OuterTimer(timer))
  /\ SF_vars(Settled /\ StoreLoaded) /\ SF_vars(Settled /\ StoreSaved)
  /\ \A c \in Callers : SF_vars(Settled /\ DurableFlush(c))

(***************************************************************************)
(* Properties.                                                             *)
(***************************************************************************)

\* With nothing marked and no flush under way, the last edit of every node is
\* in graph.jsonl: no order of edits, timers, flushes, syncs and crashes loses
\* the mark of an edit (createSyncManager, createDebouncedFlusher).  A flush that
\* failed leaves edits behind; the next one that does not brings them all.
CaughtUp ==
  ~failed /\ ~inner.dirty /\ job.phase = "idle" => \A n \in Local : edited[n] <= file[n]

\* A row newer than its line in graph.jsonl is still marked, in memory or in
\* dirty_nodes, and will be written (clearDirty after the save of doFlush).
NothingForgotten ==
  \A n \in Local : db[n] > file[n] => n \in pending \cup rows

\* Whenever the FlushManager runs and holds dirty nodes, its flusher is dirty
\* too: the drain loop of flush() never spins on a flush that does nothing.
DrainEnds == nodes # {} /\ ~paused /\ ~busy => outer.dirty

\* An edit reaches graph.jsonl (debounceMs, maxDelayMs), unless it was lost with
\* the process or undone by a reload, or its flush failed: nothing tries again.
EditReachesDisk ==
  \A n \in Local : edited[n] > file[n] ~> edited[n] <= file[n] \/ failed

\* Every durable RPC is answered, whatever pauses and flushes meet it.
DurableAnswered == \A c \in Callers : pc[c] # "idle" ~> pc[c] = "idle"

\* A durable write is on disk when its RPC returns (DaemonFlushManager.flush).
DurableOnDisk == \A n \in Local : acked[n] <= file[n]

\* What a pull put into graph.jsonl stays there (runCoordinated).
PulledKept == pulled <= file[Peer]

\* The daemon's own save of graph.jsonl undoes no write (FileWatcher.pause).
WritesKept == [][\A n \in Local : db'[n] >= db[n]]_vars

\* After an orderly stop graph.jsonl holds every edit (finalFlush, close).
StopLosesNothing == stage = "closed" => \A n \in Local : edited[n] <= file[n]
=============================================================================
