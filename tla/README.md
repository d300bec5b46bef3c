# Verification of opentasks

opentasks keeps a graph of tasks and their relations. A daemon per repository
serves it over a Unix socket; `graph.jsonl`, tracked by git, is the source of
truth, and SQLite (`cache.db`) a cache that all reads and writes go through.
Agents claim tasks under leases, retry creates under idempotency keys, subscribe
to changes, and synchronise machines through git.

This directory models what is hard in that: who holds what when calls, timers,
file events, crashes and other machines interleave. Paths below are relative to
`src/` of the repository, which holds its package in `src/src/`.

To run one check: `tlc -workers 2 -config MCTaskClaims.cfg MCTaskClaims`. To
check the proofs of one module: `tlapm ClaimProofs.tla`. `PROJECT.json`
lists the runs, the mutants that each property catches, the theorems, and the
source lines of every definition.

## 1. Inventory

### 1.1 Components, their state and how they interact

| Component | State it keeps | Operations | Calls and is called by |
|---|---|---|---|
| SQLite persister, `storage/sqlite.ts` | rows of nodes, edges, tags; `dirty_nodes`; claim columns with a fence counter | conditional UPDATEs: `claimNode`, `releaseNode`, `renewNode`, `sweepExpiredClaims`; CRUD | the store; synchronous |
| Claim manager, `graph/coordination.ts` | none | `claim`, `release`, `renew`, claim queries, `claimNext` with the store | RPCs call it; turns rows into replies |
| Graph store, `graph/store.ts` | the sync manager's pending marks | CRUD, `createEdge` with `detectCycle`, `doFlush`, `reload`, `initialize`, `claimNext`, transactions | everything else of the daemon |
| Sync manager, debounced flusher, `graph/sync.ts`, `graph/debounce.ts` | dirty flag, two timers, the flush in flight | `markDirty`, `schedule`, `flush` | inside the store |
| Flush manager, `daemon/flush.ts` | dirty nodes, `isPaused`, a flusher of its own | `flush` with its drain loop, `pause`, `resume`, `finalFlush` | RPCs mark and flush, syncs and the watcher pause |
| JSONL persister, `storage/jsonl.ts` | `graph.jsonl` | load, atomic save | a flush loads, merges, saves |
| File watcher, `daemon/watcher.ts`, location state | paused flag, pending event | reports changes of `graph.jsonl`; reload | flushes pause it, git wakes it |
| Git syncer, `graph/git-graph-syncer.ts`; merge driver, `core/merge-driver.ts` | health, the repository | `commitIfDirty`, `pull`, `push` with rebase, auto-sync; three-way merge | sync RPCs, timer, flush; git calls the driver |
| Event manager, `daemon/events.ts` | epoch, sequence number, ring buffer | `emit`, `since` | the diff emits; clients ask |
| Watch RPCs, `daemon/methods/watch.ts`; IPC, `daemon/ipc.ts` | hash cache, debounce timer; a filter per socket | diff, broadcast | the file watcher wakes the diff |
| Client, `client/client.ts`; MCP server | cursor, held-back events | `subscribe` with backfill, `events_since` | over the socket |
| Idempotency cache, `daemon/idempotency.ts` | entries with expiry, creates in flight | `run` | `graph.create` |
| Provider store, materialization, `graph/provider-store.ts`, `providers/materialization.ts` | nodes that copy other trackers' issues | get, list, create, update, delete with write-through; reconciliation | RPCs and a timer call it; it runs the trackers' tools |
| Providers, `providers/beads.ts`, `claude-tasks-fs.ts` and others | the watch's cache; task files with their ids | CRUD, watch with debounce and diff | the provider store; other processes write the same files |
| MAP connector and bridge, `providers/map-*.ts` | connection, event cursor | reconnect, bridge events | a remote hub; used by no part of the daemon |
| Lifecycle, `daemon/lifecycle.ts` | who is the daemon; shutdown stage | start, stop, signals, lease reaper | composes all of the daemon |
| Daemon lock, registry, `daemon/lock.ts`, `daemon/registry.ts` | `daemon.lock` and the directory beside it; `registry.json` | acquire, release; register, unregister | the lifecycles of all processes |
| Advisory file lock, `storage/file-lock.ts` | a lock file with pid and time | acquire with stale check, release | task files, worktree registry |
| Archiver, remote stores, `materialization/` | archives on a git branch | archive, restore | the linker, RPCs; off unless configured |
| Session hooks, `sessionlog/hooks/`, `session/`, `store/` | one state file per agent session | a handler per event of the agent | the agent, git |
| Checkpoints, `sessionlog/strategy/` | shadow branches, checkpoints by id | save a step, the two commit hooks, condensation, migration | agents and git's hooks |
| Session watcher and linker, `daemon/sessionlog-*.ts` | last phase seen, nodes made | debounce, event kinds, session nodes | the session files wake it; writes into the graph |
| Federated graph, queries, configuration, CLI, redirects | derived views, files | read, parse, render | |

`PROJECT.json` lists every component with its files and whether it is modelled.

### 1.2 What is hard, and what must hold

- **Claims.** Sessions race for a task while leases lapse, some share an agent
  id, some force. A granted lease must hold until it ends; a fence must name one
  agent and shut everybody else out; a dead agent's claim must end.
- **Flushing.** Two debounced flushers, one inside the other, with a pause flag
  shared by syncs and reloads. No edit may lose its mark, no drain may spin, a
  durable call must be answered with its write on disk.
- **The cache and the file.** Restarts, reloads and pulls overlay lines on rows.
  A row must not be left with half a claim; edges must reach the file and must
  not close a cycle.
- **Events.** A bounded buffer, restarts, lost connections, and live events
  during a backfill. A subscriber must hear everything once and in order, or be
  told to read again.
- **Retries.** Concurrent and late retries of one create must make one node,
  whatever fails, lapses or is evicted.
- **Git.** Machines commit, pull, push and rebase one file. Nobody's change may
  be undone, a success must mean that, and all must come to agree.
- **Daemons.** Starts race for a lock that is a file and a directory, fail, stop,
  run out of time and are killed. One daemon serves a location, what others
  unlink is not its, and starts that race for a location nothing has happened to do not
  all fail.
- **Locked files.** Processes share task files under an advisory lock that is
  broken when it looks stale. Two creates must not give one id.
- **Other trackers.** Their tools run for a while and answer late, or fail after
  they have done the work. The graph has one copy under each URI of an issue, and it
  comes to say what the tracker says.
- **Sessions.** Hooks are processes that load, wait and save whole files; the
  daemon hears of them through a debounce. The file must say the phase the
  events lead to, an end must be heard, and the checkpoint a commit names must
  come to exist.

## 2. How the code is modelled

The daemon is one JavaScript process. What it does between two awaits of I/O or
timers is one step: `better-sqlite3` and `execSync` are synchronous, so an
UPDATE is atomic and a git command blocks its daemon; continuations of resolved
promises run before the next event. Requests that arrive in one chunk are served
one after the other, those of other sockets interleave at awaits. This is why
`createEdge` checks for a cycle and inserts in one step, and why `claimNext`,
which awaits between listing and claiming, does not.

Time is abstract: a timer that is armed may fire at any moment, unless a
property needs more, and then the model says so (the clock of `TaskClaims`;
`"slow"` in `FlushPipeline`, below). Contents are version numbers or model
values. Bounds (`MaxNow`, `MaxFence`, `MaxVersion`, `MaxEpoch`, `MaxEvents`,
`MaxWrites`, `MaxFaults`, `MaxNodes`, `MaxEdges`, `MaxRestarts`, `MaxTime`,
`MaxKills`, `MaxTasks`, `MaxEdits`, `MaxFails`, `MaxHooks`, `MaxLives`,
`MaxCommits`, `MaxStepsRun`, `MaxPulls`) are guards of the actions that would count past
them, and constants that the theorems leave open.

A definition whose comment says *mutation* is a plausible bug of the one it
stands before. No specification uses it: `PROJECT.json` says which property
fails when it takes the other's place.

## 3. Modules

### 3.1 TaskClaims: claims and leases

`row[t]` are the columns claiming reads or writes; `token[w][t]` the last reply
session `w` has; several sessions may share an agent id, which is all the daemon
sees. `Claim`, `Release`, `Renew` (fenced or not) and `SweepExpiredClaims` are
the four conditional UPDATEs with the claim manager around them. `ClaimNextStart`
reads the ready set, `ClaimNextTake` and `ClaimNextSkip` try its tasks one by one.
`Transition` and `SetArchived` are what other handlers do to the status in
between, without a look at the claim. `cut` records leases somebody was allowed
to cut short: by force, or as the same agent.

### 3.2 ClaimPersistence: claims in graph.jsonl

Extends `TaskClaims` by `line[t]`, the node's line. A line holds the columns
that were not NULL, `updateNode` sets only the columns a line has, and the INSERT
of a new row leaves the fence out. `WriteLine` may happen at any time or never
(`FlushPipeline` has the when). `Pull` merges any line of `TheirLines` into the
file, column by column as the merge driver does (`MergeDriver!Resolve`), against
`base`, which is afterwards that line or the merged one; `mixed` records the tasks
whose line then has a claim that neither side had. `Refresh` (a reload, or a
restart on the cache) overlays the lines, `Rebuild` inserts them into a new cache;
both add to `cut` the leases of tasks of which the file says something else.

### 3.3 FlushPipeline: from an edit to the file

`inner` is the flusher of the sync manager, `outer` that of the flush manager,
`job` the flush of the store under way with the image it will save: one step
takes the snapshot of ids, one reads the file and rows, one renames the image
over the file and clears the marks. Durable RPCs, syncs and the watcher's reload
pause and resume `outer`; `busy` is its flush waiting for the store's. Crashes and
an orderly stop may come at any point. `CONSTANTS Writes, Faults, MultiLocation`
choose what an instance lets happen. Without `"slow"` in `Faults` no max timer
fires while a flush is in flight: a save is then shorter than 30 seconds. With
`"fail"` a flush may fail while the daemon runs: the RPCs that wait for it get the
error, the marks stay in `dirty_nodes`, and no timer is set; where a timer's call
waits for it (`timed`), nobody catches the rejection and Node ends the process.
`failed` is what `CaughtUp` and `EditReachesDisk` except, until the next flush that
ends well, which must bring everything.

### 3.4 EventStream, EventLog, EventReplay: change events

`EventStream` has the operations of the event manager on one value: `Push`,
`Since`, `Current`. `EventLog` is what it promises, with no buffer: every event
of an epoch in a log, and an answer that is either all that came after the cursor
or the order to resync; to resync is allowed only when the cursor is outside the
window. `EventReplay` is the buffer with readers holding any cursor, and
`KeepsPromise` that it implements `EventLog`, `log` being its history and the
window the buffer size. What an answer has of the buffer is `Picked` by position
(`Subsequences`), a filter the proofs can reason about.

### 3.5 WatchEvents: a change reaches a client

Composes `EventStream` with the diff (`cache`, `due`), the socket (`wire`, `bound`),
the client library (`phase`, `pending`, `last`) and the application it asks for: one
that keeps a `view` and a `cursor`, applies events and reads the graph again when
told to resync. `Filter` says which nodes a subscription matches, and in which
contents (a filter may name statuses): the daemon tests the node as it is now, so
that a node that leaves the filter raises no event (`ViewsAreTheQuery`, section 6).
`Told` are the nodes of which it does tell, those that are gone or match now. The
graph survives a restart of the daemon, buffer and cache do not; every save is
reported by the file watcher in the end. Pollers use `events_since` without
subscribing. `Window` is the limit of a query that names none, 100 nodes in the
code: `recent` keeps the order of the last writes where it matters, and `Listed` is
what the diff gets to see.

### 3.6 Idempotency: one node per key

`run()` from await to await: a key is known (`RunKnown`, then `Fetched`, which may
find the node deleted), joined or owned (`JoinOrOwn`), its create done or failed,
which wakes who waits, in order, each of them looking again. Entries lapse at any
moment; a full table evicts its oldest.

### 3.7 GraphEdges: edges, cycles and the file

Edges in SQLite and in the file, with the marks and the three steps of a flush as
above, deletes of edges and nodes, reloads, syncs that merge another machine's
edges, crashes and lost caches. `Reaches` characterises the depth-first search of
`detectCycle`: `y` is reached unless a set closed under the edges has `x` in and
`y` out. A sync comes only when nothing is pending: what happens otherwise is
shown with `FlushPipeline` (`PulledKept`, section 6).

### 3.8 MergeDriver, GitSync: machines and git

`MergeDriver` is the pure three-way merge: of files node by node, of nodes field
by field. `GitSync` runs machines against one remote: `db`, `file`, `head`, the
commits `local` to the machine, the remote's commit it is based on. A sync goes
through commit, pull, push, rebase, push again, each of which may fail; its
daemon does nothing else meanwhile, the other machines do. git itself is
modelled from what it does to one file: a pull fast-forwards or merges, a rebase
replays each local commit with the merge driver, both refuse over uncommitted
changes. A call with `allowFailure` that fails is an empty answer: no status is a
clean file (`StatusUnread`, and the commit of a `Flush`), and a HEAD that could not
be read before or after a pull makes it one that changed something, or nothing. The
auto-sync timer is on, with auto-commit and auto-push; a flush is one step. Left out
are restarts, the last commit and push of a daemon that stops, and a `git rebase
--abort` that fails. `own` is a history:
the fields of nodes that a machine has changed since its last push, and of those
the remote had deleted and its merge or rebase brought back. A deletion gives way
to a change of any field of the node, so that a push may bring fields back that
its machine never wrote, and `PushKeepsOthers` has to count them as its own.

### 3.9 DaemonStart: daemons of a location

`pc[p]` is where the daemon of process `p` is between two awaits of `start()` or
`stop()`; `lockFile` the process that `daemon.lock` names, `guard` who made the
directory that proper-lockfile puts beside it, `stale` the guards nobody touched
for ten seconds. `Probe`, `Inspect`, `UnlinkStale`, `WriteLock`, `Lock`, `Steal`,
`Retake` and `Undo` are acquire(), system call by system call; `Ensure`, `Create`,
`RegLock` and `RegWrite` the registry; `Abort` the time limit of a shutdown, `Lost`
what proper-lockfile does when it finds another's directory. `disturbed` records
the locations whose holder was killed or stalled: there a guard may be stale, and
two daemons may run for a while (`DoublesEnd`).

### 3.10 FileLock: ids under the advisory lock

Each system call of `FileLock.acquire()`, `release()` and of the create, update
and delete of a Claude task file is a step. A file with nothing in it yet is not
stale, one that cannot be read is: so a writer that finds the file gone after
`EEXIST` breaks the lock of whoever took it since. `broken` records that.

### 3.11 ProviderStore: copies of other trackers' issues

`remote[i]` is an issue as the tracker has it, `copies` the nodes, the last one
written first, `calls[k]` a handler that has asked the tracker's tool (`told` once
the tool has answered). A copy has the `uri` it was made under and is found by that
string; the tracker answers to others of the same issue (`Aliases`), in which a caller
may write it, while lists, creates and the watch use `buildUri()`'s. What the answer does to the graph awaits SQLite only and
is one step: `Answered` for requests, `Diffed` for the watch, `Reconciled` for a
node of a round. A call may fail before or after the tool did its work.

### 3.12 SessionMachine, SessionLog: the phase of a session

`SessionMachine` is the pure state machine of `sessionlog/session/`. The handlers
of the hooks do not call it: each sets the phase itself (`Handled`), after it
has loaded the file and before it saves it. `SessionLog` runs them as processes
beside git's own hook and the stale-file unlink of a load; a hook may throw (git
and the file system fail it) or be killed at any point before its save
(`HookFails`), and an unlink may fail. The daemon looks: `StartWatcher` seeds the
cache, `WatcherReady` is chokidar's, which with `ignoreInitial` tells of nothing it
finds before that; then `Debounced`, `Deleted`, `Close`, with restarts. The linker
swallows its errors (`CloseFails`), and one that could not make the node goes on
with the URI for an id (`mistaken`), which no close finds. `truth` is what the
machine computes from the events; `astray` that a hook was lost, or wrote over what
another had written since it loaded, and no hook that sets the phase has been saved
since; `unheard` that an end came before the daemon looked, or between its look and
chokidar's being ready.

### 3.13 Checkpoints: what a commit's message names

Sessions save steps on the shadow branch of the commit they are based on;
`PrepareCommitMsg`, `MakeCommit`, `PostCommit`, `Condense` and `PassOver` are a
commit with its hooks, with steps of the sessions in between, amends and pulls.
The migration of a shadow branch to a new base makes a branch of another name
(`misplaced`), as git does with what the code asks of it. `passedBy` records the
commits whose checkpoint legally never comes.

### 3.14 Modules for TLC

An `MC` module gives the constants of an instance. Three put modules that share no
state side by side: a variable chosen at the start (`part`) says which one runs,
and the others stand still. Two more have a variable (`polled`, `stalls`) that
chooses between two kinds of instance of one module. The states then are the sum of the parts', and what a run says of a part is
what it would say of it alone.

### 3.15 Subsequences, Induction

`Subsequences` has the one helper on sequences that several modules share, as a
recursive function. `Induction` is for the proofs: induction over the naturals
for sets in the place of predicates (`NatSetInduction`, from the well-foundedness of
finite sets), and from it that functions defined by recursion exist and what
`Picked` and `SetToSeq` return. With it the proofs go through the code's loops
(the diff, the delivery of a backfill, a rebase), which the library's induction
theorems cannot do here.

## 4. What TLC checks

| Run | Configuration | Properties | States |
|---|---|---|---|
| claims | 3 sessions of 2 agents, 1 task, 2 leases, clock to 2, 3 claims | `TypeOK`, `LeaseHonoured`, `FenceIdentifiesAgent`, `ClaimFencesOutOthers`, `LapsedClaimEnds` | 163 k |
| claim_persistence | 2 sessions, 1 task, clock to 1, 2 claims, 2 pulls of 2 lines, 1 restart, reload or rebuild | `ClaimHasExpiry`, `LeaseSurvives` | 1.6 M |
| flush_alone | 2 nodes, 3 versions, 1 durable caller, crashes, failing flushes | `EditReachesDisk`, `CaughtUp`, `NothingForgotten` | 107 k |
| flush_shared | 1 node, 2 versions, a caller, a sync, claims, reloads, slow and failing saves, stop, crash | `TypeOK`, `DrainEnds`, `DurableAnswered` | 119 k |
| watch_events | 2 nodes of 2 contents, a filter that leaves out one content of one, buffer of 2, 3 changes, 1 loss of connection or daemon; or with a poller | `TypeOK`, `ViewsCatchUp`, `DeliveredInOrder`, `PollersInformed` | 332 k |
| watch_live | 1 node, buffer of 1, 3 changes, 2 losses, fair | `ChangesArrive` | 104 k |
| watch_window | 2 nodes, of which a query returns 1 | `DeletesAreReal`, violated (section 6) | |
| idempotency | 2 keys, 3 callers, table of 1, deletes, failures, lapses; beside it a session with 4 hooks and 2 lives of the daemon | `OneNodePerKey`, `OneCreateInFlight`, `Answered`; `FileFollowsMachine`, `EndedSessionsClose` | 540 k |
| edges | 2 nodes, 3 edges, every fault; beside it 2 sessions, 2 files, 2 commits, 3 steps | `CheckedAcyclic`, `EdgesReachFile`; `TrailersBacked` | 2.0 M |
| git_sync | 2 machines, 1 node of 2 fields, 2 writes or deletes, 1 failed git command | `TypeOK`, `PushKeepsOthers`, `SuccessIsSynced`, `Converges` | 174 k |
| daemon_start | 3 processes of 1 or 2 locations, failing starts, 1 killed; or 2 of one location that may stall as well | `OneDaemon`, `RunningReached`, `SomeoneServes`, `DoublesEnd` | 311 k |
| small_parts | a buffer of 2, 4 events in each of 2 epochs, any cursor; 2 writers of 2 tasks, killed or suspended; 1 issue with 2 URIs, a round, 1 change and 1 failure, the watch with one request at a time, or two requests of which one gets and deletes nothing | `BufferIsTail`, `KeepsPromise`; `IdsDistinct`; `OneCopy`, `CopiesConverge` | 439 k |

**Are the bounds enough?** Each run is the smallest in which the cases its
properties are about happen together. Claims: two sessions of one agent and one
of another give every pair of relations between sessions, three claims a holder,
a thief and a third. Flushes: two nodes so that a mark can be in a snapshot and
another outside it, three versions so that an edit falls before, during and after
a save. Events: a buffer smaller than the number of events, so that some are
evicted, and enough losses for a connection to be lost during the backfill that
follows another loss (`watch_live`). Idempotency: a table smaller than the number
of keys; sessions: enough hooks for a session to start, end and start again.
Git: two machines and two writes give both orders of a race, rejected pushes and
rebases that conflict. Daemons: two that race for one location and a third that
comes later, or registers another location in the same file. Locks: one writer
that breaks the other's lock, and dies, before either creates. Providers: a
get, a list or a create that overtakes another, or the diff, or the round.
Checkpoints: two sessions whose work is in one commit, and a second commit on top.
Two nodes suffice for `edges` to be run at all, and are few for an acyclicity
property: `CheckedAcyclic` is proved for any number. A
property that survives its mutant because the bound is too small would not be
listed: every one was seen to fail under its own configuration when a definition
it depends on is broken.

`CHECK_DEADLOCK FALSE` stands where writes are bounded and the system may come to
rest: a daemon with nothing to do has stopped for TLC.

**Syncs and edits.** `docs/SYNC.md:65` documents that an edit made during a sync
may be overwritten by the reload after it. So `CaughtUp` and
`NothingForgotten` are checked without syncs, and the run with syncs checks what
must hold even so.

### Fairness

- `TaskClaims`: weak fairness of the sweep, an interval timer
  of `daemon/lifecycle.ts:786`. Clients owe nothing: they may be dead.
- `FlushPipeline`: weak fairness of continuations (the event loop runs them first)
  and of each armed timer, strong fairness of the steps that wait for the file
  and of a durable RPC's flush, which syncs may disable again and again. An event
  is fair where no continuation is due (`Settled`), as the event loop serves
  ready events in turn. A debounce put off for ever by ever new edits is excluded
  by the bound on edits; that a max timer exists for that is `EditReachesDisk`'s
  business only where a flush outlasts it (section 6).
- `WatchEvents`: weak fairness of the file event, the diff, the server, the
  delivery of messages, and of an application that subscribes again. Losses are
  bounded; a network that never stays up delivers nothing.
- `Idempotency`: weak fairness of each fetch and create, which end in success or
  failure: no provider hangs for ever.
- `GitSync`: the flush is debounced and the auto-sync timer repeats, both may be
  blocked by a sync under way, so strong fairness; weak fairness of a sync's next
  git call, all of which have time limits. No fairness of `sync.now`, `sync.pull`
  or any write.
- `DaemonStart`: weak fairness of every step of a daemon that has started, for
  what it awaits comes and its timers fire. Nobody owes a start, a stop or a kill.
- `ProviderStore`: the tracker's tool ends, one way or the other, the handler goes
  on, and the timer of reconciliation fires again: weak fairness of each. Nobody
  owes a request or a watch.
- `SessionLog`: weak fairness of the debounce timer and of the handler that reads
  the transcript, which ends well or not. Hooks may be killed and owe nothing, and
  chokidar need not become ready.

## 5. What TLAPS proves

For every value of the constants that satisfies the named assumptions:

| Theorem | Statement |
|---|---|
| `ClaimProofs!TypeCorrect` | `Spec => []TypeOK` |
| `ClaimProofs!LeasesAreHonoured` | `Spec => []LeaseHonoured` |
| `ClaimProofs!FencesIdentifyAgents` | `Spec => []FenceIdentifiesAgent` |
| `ClaimProofs!LeasesAreExclusive` | two sessions of different agents never both hold a live lease that nothing cut |
| `ClaimProofs!ClaimsFenceOutOthers` | `Spec => ClaimFencesOutOthers` |
| `ClaimProofs!ClaimsHaveExpiry` | `PersistSpec => []ClaimHasExpiry` |
| `ClaimProofs!LeasesSurvive` | `PersistSpec => []LeaseSurvives` |
| `FlushPipelineProofs!PipelineTypes` | `Spec => []TypeOK` |
| `FlushPipelineProofs!DrainAlwaysEnds` | `Spec => []DrainEnds` |
| `FlushPipelineProofs!MarksAreKept` | `Alone => (Spec => []NothingForgotten)` |
| `FlushPipelineProofs!FileCatchesUp` | `Alone => (Spec => []CaughtUp)` |
| `DaemonProofs!BufferHoldsTail` | `Spec => []BufferIsTail` |
| `DaemonProofs!ReplayKeepsPromise` | `EventReplay` implements `EventLog` |
| `DaemonProofs!OneDaemonAlways` | `DaemonSpec => []OneDaemon` |
| `DaemonProofs!RunningIsReached` | `DaemonSpec => []RunningReached` |
| `DaemonProofs!IdsAreDistinct` | `FileLockSpec => []IdsDistinct` |
| `DaemonProofs!CopiesAreUnique` | `Fits => (ProviderSpec => []OneCopy)` |
| `WatchEventsProofs!WatchTypesKept` | `Spec => []TypeOK` |
| `WatchEventsProofs!EventsInOrder` | `Spec => []DeliveredInOrder` |
| `WatchEventsProofs!PollersAreInformed` | with `Seen`: `Spec => []PollersInformed` |
| `WatchEventsProofs!ViewsAreCaughtUp` | with `Seen` and `OneSub`: `Spec => []ViewsCatchUp` |
| `IdempotencySessionProofs!ReservationHolds` | `Spec => []OneCreateInFlight` |
| `IdempotencySessionProofs!RetriesMakeOneNode` | `Spec => []OneNodePerKey` |
| `IdempotencySessionProofs!FileFollows` | `OneByOne => (SessionSpec => []FileFollowsMachine)` |
| `EdgeCheckpointProofs!EdgeTypes` | `Spec => []TypeOK` |
| `EdgeCheckpointProofs!EdgesAreFlushed` | `Spec => []EdgesReachFile` |
| `EdgeCheckpointProofs!EdgesStayAcyclic` | `Spec => []CheckedAcyclic` |
| `EdgeCheckpointProofs!TrailersAreBacked` | `CheckpointsSpec => []TrailersBacked` |
| `GitSyncProofs!UncontestedChangesAreKept` | a merge keeps of a node every change that only one side made |
| `GitSyncProofs!MergeCommutes` | which side is ours does not matter, if the time stamps differ |
| `GitSyncProofs!TypeInvariant` | `Spec => []TypeOK` |
| `GitSyncProofs!EverySuccessIsSynced` | `Spec => SuccessIsSynced` |
| `GitSyncProofs!OthersAreKept` | `Spec => PushKeepsOthers` |

The five hypotheses are conditions on the constants of an instance; each is true of
an instance TLC runs, and without it the statement is false of the code (section 6):

| Hypothesis | What it says | Without it |
|---|---|---|
| `Alone` | the daemon makes no claim, syncs with nobody, has no watcher that reloads | the rows with `Writes`, `Syncs` and `MultiLocation` of MCFlushAlone |
| `Fits` | a query without a limit returns as many nodes as the issues have URIs: 100 | MCSmallParts, `Window = 1` |
| `OneByOne` | the agent waits for a hook before it runs the next, git's hooks run whenever | MCIdempotency, `OneByOne = FALSE` |
| `Seen` | no update is undone before the diff, and no more nodes than its query returns | MCWatchLive, `Reverts = TRUE`, and MCWatchWindow |
| `OneSub` | a connection has at most one subscription | MCWatchLive, `Subs = {s1, s2}` |

Elsewhere the assumptions are those of the modules (`ASSUME`): bounds are naturals,
some sets are finite or not empty, and values meant to be different are.

**Claims.** `LeaseHonoured` alone is not inductive: nothing would stop a session
from renewing with the fence of another. `IInv` adds `FenceBound` (no session has
a fence the row has not reached) and `FenceOwner` (who has the row's fence runs as
its holder). A step is a claim, a release, a renewal, a sweep, a tick or an edit
elsewhere (`StepKinds`); the proof looks at one session and one task in each. No
assumption on clocks or on the number of sessions is made.

**Claims in the file.** The rows have whole claims only if the lines have them too
(`Whole`): a restart brings the rows back from them. A merged claim that is one
side's is whole because that side's is; of any other nothing is claimed (`mixed`).
`LeaseSurvives` cannot use fences, which a rebuild sets back and another machine's
line replaces. It needs none (`LeaseStep`): another agent's claim waits for the
expiry, a release or a renewal asks for the agent.

**Flushes.** `DrainEnds` says nothing of a busy flusher; `DirtyTogether` does and
is inductive. For the marks the invariant says where the image to be saved gets
each node from in each phase of a flush (`Covered`), and that rows ahead of the
file are marked; it says so across failed flushes, which leave rows ahead of the file
with a mark in `dirty_nodes` only. `Alone` is an assumption and not a technicality: with claims,
syncs or a reloading watcher the statement is false (section 6).

**Events.** The buffer holds the tail of the log; from there `SinceIsMissed` gives
the answer of a served cursor and `RefusedIsOutside` that of a refused one, and
each step of `EventReplay` is a step of `EventLog` or none.

**Idempotency.** `Reserved` ties owners, waiters and program counters together and
says a waiter waits once. `WindowInv` says that a key with no entry in force has
no node made in its window by a request that had found none deleted.

**Edges.** `EdgeAdded` is the graph argument: an edge from `x` to `y` that is
added where `x` is not reached from `y` closes no cycle, since the cone of what
`y` reaches is closed. Every other step only takes edges away from `checked`. For
the file, `MarksInv` says again where the next image gets each edge from.

**Merges.** Both theorems go through the cases of `MergeLine` down to one field.
`MergeCommutes` needs different time stamps: with equal ones each machine keeps
its own, and only the order in which git merges makes them agree (`Converges`,
which TLC checks with equal stamps).

**Git.** `SyncInv` says of every machine that it owns (`own`) whatever its HEAD has
that the remote's commit it is based on has not, and whatever a commit it has not
pushed changes; that with nothing left to push its HEAD is that commit; and that a
`sync.now` under way has committed everything, or could not read its file's status,
or has an error on record which the steps that remain do not clear. The last is what `EverySuccessIsSynced` needs: a
later pull that goes well must not clear the error of an earlier commit. A rebase
replays any number of commits with the merge driver, each on what the one before it
came to. `RebasedOwns` goes by induction over them: what a replayed commit
changes was changed by the commit it replays, or belongs to a node it brings back.

**Checkpoints.** A trailer is written before its checkpoint. `Promised` says, from
the message to the end of the hooks, which session backs it: one on the commit's
parent, with a step recorded whose files are in the commit, or, once the hook has
read the sessions, one in its list. `StepsCurrent` is why a step that ends in
between takes nothing away: what it loaded is still what the session says, or has
been condensed.

**Sessions.** While a hook of the agent is under way the file lags behind:
`Pending` says that the event it was run for leads from what the file says to what
it must say, in every step between load and save, whatever git's hook writes
beside it and the daemon unlinks. Once a hook was lost, or wrote over another's
write (`astray`), what the file says proves nothing; but `Aimed` still says where the
event of the hook under way leads, so that the save of one that sets the phase,
whatever it loaded, brings file and machine together again.

**Copies.** A handler that has the tracker's answer finds the issue's copy by the
URI it was asked for, or by an id it remembers. `Unique` says that no two nodes have one
URI, `Remembered` that no id a handler holds is that of another URI's node; every
list the handlers make of the nodes (`Picked`, folds over answers) keeps both.

**Watching.** `WatchInv` has the types, `Tokens` (per handler at most one request or
answer is under way, in the phase that waits for it) and `InOrder`: what is on the
wire, in an answer or held back is of the stream, in its order, and newer than the
handler's cursor. This needs no hypothesis: order survives everything. What the
events add up to needs `StreamInv`: the buffer is numbered without gaps, its last
event on a node says what the diff's cache has of it, and a graph that differs from
the cache has a diff to come. A poller's view is then right but for what
`events.since` has for its cursor (`AsOf`). The view of a subscribed application is
right but for what is on the wire (`RightBehind`) or held back, or for what a
backfill from its cursor would bring: right about `Matched`, the nodes that are gone
or that the filter matches as the diff knows them. A diff that changes this set
tells of every node it adds. `ViewInv` follows this through the subscription: the
daemon's filter is the application's from the moment it answers (`Bound`, where
`OneSub` is needed), the answer of a query is right behind its place on the wire
(`Queries`), and a backfill's answer completes the view, with all that was held back
and sent before it among its events (`AnswersComplete`), so that dropping what is
not newer than the cursor drops nothing.

**Daemons.** The lock excludes by the directory, not by the file, which everybody
overwrites: `HoldersHold` says that who is past `Lock` has made the directory,
`StaleDisturbed` that only where a holder was killed or stalled is one taken from
somebody. `Reached` follows: who unlinks the socket or rewrites the entry of a
location holds its guard. The proof is for any number of processes and locations
and for all faults; TLC's run has killed and stalled processes and failing starts.

**Locks.** That a writer is inside says nothing of the file: `HoldersHold` ties the
two, and breaks where a lock file is unlinked under a holder that lives, which the
theorem therefore excludes by name (`broken`). A create reads the mark and raises
it in two calls; `MarkInv` says that between them nobody else gives an id, and that
none lies beyond the mark, so that one lost in a crash is never given again.

Only model-checked: liveness under fairness, which the prover does not reach
(`LapsedClaimEnds`, `EditReachesDisk`, `DurableAnswered`, `ChangesArrive`, `Answered`,
`Converges`, `SomeoneServes`, `DoublesEnd`, `CopiesConverge`, `EndedSessionsClose`).
Every invariant and action property of the passing runs has a theorem.

## 6. Where the code and its documents disagree

One is a run (`watch_window`). The others are a configuration of section 4 with
other values for some constants and the property in place of its own: make the
change in a copy of the `.cfg`, with `INVARIANT` or `PROPERTY` and the name as the
only property, and `tlc -config <copy> <module>` prints the behaviour that
violates it, most of them within seconds. (`MCFlushAlone.cfg` is of module
`MCFlushPipeline`, `MCWatchLive.cfg` and `MCWatchWindow.cfg` of `MCWatchEvents`.)

| Configuration | Changed | Property | The code | What is said of it |
|---|---|---|---|---|
| MCFlushAlone | `Writes = {"claim"}, Faults = {}` | `DurableOnDisk` | `storage/sqlite.ts:361`: a claim marks `dirty_nodes` but not the sync manager, whose flush finds nothing to do | `docs/SYNC.md:33`: claims are "Flushed to JSONL **before the RPC returns**" |
| MCFlushAlone | `Faults = {}` | `DurableOnDisk` | `graph/debounce.ts:131`: the flush of a terminal transition joins one that read its row earlier, and the drain loop looks at the flush manager's marks only | `daemon/flush.ts:128`: "Drain fully." |
| MCFlushAlone | `Writes = {"edit", "claim"}` | `NothingForgotten` | `graph/store.ts:304`: clearing the marks after the save clears that of a claim made during it | `storage/interface.ts:319`: "Array of node IDs that have been modified" |
| MCFlushAlone | `Callers = {}, Faults = {"slow"}` | `EditReachesDisk` | `graph/debounce.ts:123`: a max timer that fires during a flush keeps its handle and is not armed again; when the debounce fires in flight too, the flusher stays dirty with no timer | `graph/debounce.ts:57`: "Max delay: Forces flush even with continuous activity" |
| MCFlushAlone | `Syncs = {s1}` | `PulledKept` | `daemon/methods/sync.ts:41`: the store's own flusher is neither drained nor paused, its save under way lands on the pulled file | `daemon/methods/sync.ts:28`: "freeze the flush (so it can't fire mid-pull and clobber the pulled file)" |
| MCFlushAlone | `MultiLocation = TRUE` | `WritesKept` | `daemon/location-state.ts:337`: the watcher is resumed when the flush ends, reports the daemon's own save after that, and the reload overwrites newer rows | `daemon/watcher.ts:68`: "Pause change detection (during internal writes)" |
| MCFlushAlone | `Faults = {"stop"}` | `StopLosesNothing` | `daemon/flush.ts:157`: the last flush joins one in flight and does not run again | `docs/SYNC.md:61`: "So an orderly stop never loses pending writes." |
| MCTaskClaims | `Tasks = {t1, t2}, Blocks <- MCBlocks, MaxNow = 1, MaxFence = 1` | `ClaimNextTakesReady` | `graph/store.ts:386`: claims from a list read before; `claimNode` looks at neither status nor blockers | `graph/store.ts:128`: "Atomically claim the next ready, unclaimed task" |
| MCClaimPersistence | as it is | `FenceIdentifiesAgent` | `storage/sqlite.ts:178`: the INSERT has no `claim_fence`, a rebuilt cache counts from zero | `graph/coordination.ts:128`: "monotonic per node; guards stale release/renew" |
| MCClaimPersistence | as it is | `ClaimsExpire` | `core/merge-driver.ts:141`: `claimed_by` and `lock_until` are merged one by one; a claim without `lock_until` never counts as expired (`storage/sqlite.ts:455`) | `docs/STATUS.md:71`: "Leases / heartbeat / dead-agent reclaim ... 60s daemon reaper actively clears expired claims" |
| MCClaimPersistence | as it is | `CacheFollowsFile` | `storage/sqlite.ts:286`: a column the line lacks is left alone, a reload keeps a lease the file has lost | `graph/store.ts:405`: "Re-read JSONL (source of truth) and sync to SQLite" |
| MCWatchLive | `Nodes = {n1, n2}, Filter <- OneEach` | `OnlyMatching` | `client/client.ts:726`: the backfill hands over every missed event, whatever the filter | `client/client.ts:672`: "Invoked for each matching change event" |
| MCWatchLive | `Nodes = {n1, n2}, Subs = {s1, s2}, Filter <- OneEach` | `ViewsCatchUp` | `daemon/ipc.ts:255`: one filter per socket, a client's second subscription replaces the first's | `client/client.ts:657`: "The optional `filter` narrows delivery server-side" |
| MCWatchLive | `Reverts = TRUE` | `ViewsCatchUp` | `daemon/methods/watch.ts:263`: an update undone before the diff is told to nobody, who read it in between keeps it | `client/client.ts:656`: "The daemon pushes `watch.event` notifications for node creates, updates, and deletes" |
| MCWatchLive | `Subs = {}, Pollers = {p1}` | `PollersCatchUp` | `daemon/methods/watch.ts:312`: only a subscription starts the watch | `mcp/server.ts:590`: "Pull graph change events since a cursor ... instead of re-querying the world" |
| MCWatchWindow | as it is | `DeletesAreReal` | `daemon/methods/watch.ts:253`: the diff's query has no limit and gets 100 nodes (`storage/interface.ts:362`), the last written; one that a write pushes out is taken for deleted | `client/client.ts:656`: "The daemon pushes `watch.event` notifications for node creates, updates, and deletes" |
| MCIdempotency | `MaxNodes = 3` | `OneLiveNodePerKey` | `daemon/idempotency.ts:96`: two retries that both find the node deleted both create | `daemon/idempotency.ts:25`: "Run `create` at most once per `key`" |
| MCIdempotency | `OneByOne = FALSE` | `FileFollowsMachine` | `sessionlog/hooks/lifecycle.ts:175`: a turn's end that is served after the session's sets the phase to idle, whatever it was | `sessionlog/session/state-machine.ts`: ended stays ended on `TurnEnd` |
| MCIdempotency | as it is | `EndsAreHeard` | `daemon/sessionlog-watcher.ts:372`: the cache is filled before chokidar looks, which with `ignoreInitial` reports nothing of what changed in between | `daemon/sessionlog-watcher.ts:5`: "Watches .git/sessionlog-sessions/ for session state changes and emits structured events" |
| MCWatchParts | as it is | `ViewsAreTheQuery` | `daemon/methods/watch.ts:75`: the filter is tested on the node as it is now; a change by which a node leaves a `statuses` filter is told to nobody | `client/client.ts:657`: "The optional `filter` narrows delivery server-side by provider node type and/or status" |
| MCGraphEdges | `Faults = {"delete"}` | `FileIsSnapshot` | `graph/store.ts:291`: the flush takes no edge out of the file | `docs/SYNC.md:23`: "full-file snapshot on flush" |
| MCGraphEdges | `Faults = {"delete", "restart"}` | `Acyclic` | `graph/store.ts:337`: a restart inserts the file's edges, deleted ones among them, unchecked | `README.md:173`: "`blocks` (cycle-checked)" |
| MCGraphEdges | `Faults = {"pull"}` | `Acyclic` | `core/merge-driver.ts:221`: edges of two machines are merged and reloaded unchecked | `docs/STATUS.md:34`: "Cycle-checked `blocks` edges" |
| MCGraphEdges | `Faults = {"restart"}` | `CacheReachesFile` | `graph/store.ts:686`: after a crash an edge is in the cache, unmarked, and never written | `docs/SYNC.md:22`: cache.db is "rebuilt from JSONL on startup" |
| MCGraphEdges | as it is | `EveryTrailerBacked` | `sessionlog/strategy/manual-commit.ts:193`: the trailer is in the message before the checkpoint is made, which fails or finds that a step has moved the session to the new commit | `sessionlog/strategy/manual-commit.ts:11`: "PostCommit -> Condenses session data" |
| MCGraphEdges | as it is | `TrailersDistinct` | `sessionlog/strategy/manual-commit.ts:178`: a session offers the ID of its last checkpoint again, and the next commit's replaces it in the store | nothing: the comment above it says "Generate or reuse checkpoint ID"; listed for what becomes of the first one |
| MCGraphEdges | as it is | `StepsAreWritten` | `sessionlog/git-operations.ts:222`: `refs/heads/` comes before a name that has it, the migrated branch is at `refs/heads/refs/heads/`, and the next step finds it by one name and not by the other | `sessionlog/strategy/manual-commit.ts`: "Old shadow branch exists — rename it to the new base" |
| MCGitSync | as it is | `SuccessIsCommitted` | `graph/git-graph-syncer.ts:259`: `git status` may fail or run out of time, which reads as a clean file; nothing is committed, pull and push succeed, and `lastSuccessAt` is dated | `graph/git-graph-syncer.ts:192`: "`lastSuccessAt` is updated only when a FULL sync cycle succeeds" |
| MCGitSync | `MultiLocation = FALSE, MaxFaults = 0` | `ViewsConverge` | `graph/git-graph-syncer.ts:305`: the timer's push rebases and so rewrites `graph.jsonl`; in a daemon of one location nothing reloads SQLite | `docs/SYNC.md:44`: "It **never pulls**, so it cannot hit the flush-vs-pull race" |
| MCSmallParts | as it is | `CreatesSerialized` | `storage/file-lock.ts:82`: who finds the lock file gone after `EEXIST` takes it for stale and unlinks the file another has made since | `providers/claude-tasks-fs.ts`: "All mutating operations are serialized through an advisory file lock" |
| MCSmallParts | `Window = 1, Issues = {i1, i2}, MaxEdits = 2` | `OneCopy` | `providers/materialization.ts:135`: the find reads the 100 nodes last written, and makes a second copy of an issue whose copy is older | `graph/provider-store.ts:500`: "Acceptable for local graph sizes" |
| MCSmallParts | as it is | `OneCopyPerIssue` | `graph/provider-store.ts:498`: the find compares URIs as strings, and beads answers to `beads://`, `bd://` and the bare id (`providers/beads.ts:605`): a caller that writes it another way gets a second copy | `graph/provider-store.ts:1141`: "Track provider URIs from local-provider nodes to prevent duplicates" |
| MCDaemonStart | as it is | `DeadFileReplaced` | `daemon/lock.ts:88`: a start that removes a dead process's file removes what another is about to lock; the other's clean-up (`:119`) then unlinks what the first has written, and both have failed | `daemon/lock.ts:85`: "If stale lock exists, remove it first"; `docs/TROUBLESHOOTING.md:95`: "a lock left by a dead process is treated as stale on the next start" |
| MCDaemonStart | as it is | `RunningFound` | `daemon/lock.ts:119`: who loses the race for the lock unlinks the file, which by then is the winner's | `daemon/lock.ts:118`: "Clean up the file we created" |

The properties of this table are invariants except `EditReachesDisk`,
`WritesKept`, `ClaimNextTakesReady`, `CacheFollowsFile`, `PollersCatchUp`,
`DeletesAreReal`, `SuccessIsCommitted`, `ViewsConverge` and `DeadFileReplaced`, which
are temporal.

Read in the code and not run:

- `commitIfDirty` never clears its own error from the syncer's health, so that
  after one failed commit no later cycle dates `lastSuccessAt`, however well it
  goes (`graph/git-graph-syncer.ts:243` and `:378`; push and pull do clear theirs).
- `search` looks into titles and contents only (`storage/sqlite.ts:515`). What
  searches for a URI finds nothing: `findByUri` of `providers/materialization.ts:112`,
  so that each refresh of a remote node makes another; the linker's search for a
  session's node (`daemon/sessionlog-linker.ts:216`), so that a restarted daemon
  makes another (as `SessionLog` has it); the archiver's, so that it archives nothing.
- The limit of 100 nodes is also that of `reconcileProviders`, `query.ready`,
  `getClaimsFor`, `getExpiredClaims` and of what a reload compares with.
- `createEdge` makes a second edge of the same kind between two nodes
  (`graph/store.ts:644`); `docs/INTERFACE.md:201` says "Creating a duplicate edge
  returns the existing edge".
- The archive's retry of a rejected push is `git rebase <remote>/<branch> <branch>`
  in the repository it archives to (`materialization/git-archive-store.ts`), which
  by default is the one the user works in: it leaves that branch checked out.

## 7. Not modelled

What the modules leave out of the code they model is in the notes of
`PROJECT.json`. Whole parts that are left out, and why:

- **MAP connector and bridge** (`providers/map-*.ts`): exported, and used by no
  part of the daemon. Reconnection and order are those of an SDK outside the
  repository.
- **Provider sync** (`providers/sync.ts`): a timer that refreshes remote nodes one
  by one. What could go wrong in it is the search of section 6, which needs no
  model to be seen.
- **Archiver and remote stores** (`materialization/`): off unless configured, and
  what calls them finds no node to archive (section 6). Nothing waits for them.
- **Federated graph, queries, history, attempts, redirects, discovery**: reads.
  They keep no state between calls that another call could find stale, except for
  caches that are dropped whole. The ready view is modelled where a claim depends
  on it; it is a comprehension over rows and would be its own reference definition.
- **Agents, commands and summaries of the session log, CLI, configuration,
  schemas, context files, skill tracking**: parsers, renderers and declarations.
  Rewind and reset of checkpoints are single commands of a user.
- **Health, metrics, discovery of the daemon** and the parts `start()` sets up that
  have no module above.
- **`src/evals/`**: harnesses that drive the program, and no part of it.

This is why the definitions map to a small part of all lines: more than half of
the code is of these kinds.

Next, if the project goes on: the safety arguments that the liveness properties
rest on; flushes that fail during the shutdown in `FlushPipeline`; the restart of a
machine in `GitSync`.
