------------------------------- MODULE GitSync -------------------------------
(***************************************************************************)
(* Machines that share a graph through a git remote: sync.now, sync.pull   *)
(* (src/daemon/methods/sync.ts) and the auto-sync timer, as they drive the *)
(* syncer (src/graph/git-graph-syncer.ts), whose git calls merge with      *)
(* MergeDriver.                                                            *)
(*                                                                         *)
(* A git command blocks its daemon, which does nothing else meanwhile; the *)
(* other machines do.  A daemon's flush is one step (FlushPipeline has its *)
(* steps), and clocks are arbitrary: an edit is stamped with any time.     *)
(***************************************************************************)
EXTENDS MergeDriver, Sequences, SequencesExt

CONSTANTS
  Machines,
  MultiLocation, \* the daemon's mode: flushes commit, file changes are reloaded
  MaxTime,       \* bound on the time stamps
  MaxWrites,     \* bound on the writes
  MaxFaults      \* bound on the git commands that fail

ASSUME SyncAssumption ==
  /\ MultiLocation \in BOOLEAN
  /\ Values = 0..MaxWrites /\ Absent \notin Values
  /\ MaxTime \in Nat /\ MaxWrites \in Nat /\ MaxFaults \in Nat

VARIABLES
  db,       \* db[m]: the rows of SQLite
  dirty,    \* dirty[m]: the rows the next flush writes
  file,     \* file[m]: graph.jsonl in the working tree
  head,     \* head[m]: graph.jsonl in the commit HEAD
  local,    \* local[m]: the machine's own commits the remote has not got
  base,     \* base[m]: the last commit of the remote that HEAD contains
  remote,   \* the remote's branch: its latest commit
  at,       \* at[m]: the sync under way, where it is, whether its pull brought
            \* changes, and whether it could not read the status of a dirty file
  failed,   \* failed[m]: health.lastErrorOp
  touched,  \* touched[m]: the watcher has not yet reported git's change
  own,      \* history: own[m]: the fields m has changed or brought back, and not pushed
  writes, faults

store == <<db, dirty>>
repo == <<head, local, base>>
bounds == <<writes, faults>>
vars == <<store, file, repo, remote, at, failed, touched, own, bounds>>

Kinds == {"now", "pull", "auto"}
Steps == {"idle", "pull", "push", "retry"}
Nothing == [kind |-> "now", step |-> "idle", changed |-> FALSE, unread |-> FALSE]

\* A commit of the remote: how many there were before, and what it holds.
Commit == [number : Nat, content : File]

TypeOK ==
  /\ db \in [Machines -> File] /\ dirty \in [Machines -> SUBSET Ids]
  /\ file \in [Machines -> File] /\ head \in [Machines -> File]
  /\ local \in [Machines -> Seq([parent : File, content : File])]
  /\ base \in [Machines -> Commit] /\ remote \in Commit
  /\ at \in [Machines -> [kind : Kinds, step : Steps, changed : BOOLEAN, unread : BOOLEAN]]
  /\ failed \in [Machines -> {"none", "commit", "pull", "push"}]
  /\ touched \in [Machines -> BOOLEAN]
  /\ own \in [Machines -> SUBSET (Ids \X Fields)]

\* The machines start from clones of one graph.
First == [id \in Ids |-> [fields |-> [f \in Fields |-> 0], updated |-> 0]]

Init ==
  /\ db = [m \in Machines |-> First]
  /\ remote = [number |-> 0, content |-> First]
  /\ dirty = [m \in Machines |-> {}]
  /\ file = db /\ head = db
  /\ local = [m \in Machines |-> << >>]
  /\ base = [m \in Machines |-> remote]
  /\ at = [m \in Machines |-> Nothing]
  /\ failed = [m \in Machines |-> "none"]
  /\ touched = [m \in Machines |-> FALSE] /\ own = [m \in Machines |-> {}]
  /\ writes = 0 /\ faults = 0

-----------------------------------------------------------------------------
(* The daemon's own work.                                                  *)

Idle(m) == at[m].step = "idle"

\* A write of a field; a number not yet written stands for what it sets.
Write(m, id, f, time) ==
  /\ Idle(m) /\ writes < MaxWrites /\ db[m][id] # NoLine
  /\ writes' = writes + 1
  /\ db' = [db EXCEPT ![m][id].fields[f] = writes + 1, ![m][id].updated = time]
  /\ dirty' = [dirty EXCEPT ![m] = @ \cup {id}]
  /\ UNCHANGED <<file, repo, remote, at, failed, touched, own, faults>>

\* A hard delete.
Delete(m, id) ==
  /\ Idle(m) /\ writes < MaxWrites /\ db[m][id] # NoLine
  /\ writes' = writes + 1
  /\ db' = [db EXCEPT ![m][id] = NoLine]
  /\ dirty' = [dirty EXCEPT ![m] = @ \cup {id}]
  /\ UNCHANGED <<file, repo, remote, at, failed, touched, own, faults>>

\* graph.jsonl after a flush of the dirty rows.
Flushed(m) == [id \in Ids |-> IF id \in dirty[m] THEN db[m][id] ELSE file[m][id]]

\* What a file says of a field of a node.
At(content, x) == IF content[x[1]] = NoLine THEN Absent ELSE content[x[1]].fields[x[2]]

\* commitIfDirty, of graph.jsonl as it will be.
CommitIfDirty(m, content) ==
  /\ head' = [head EXCEPT ![m] = content]
  /\ local' = IF content = head[m] THEN local
              ELSE [local EXCEPT ![m] = Append(@, [parent |-> head[m], content |-> content])]
  /\ own' = [own EXCEPT ![m] = @ \cup {x \in Ids \X Fields : At(content, x) # At(head[m], x)}]
  /\ UNCHANGED base

Fault == faults < MaxFaults /\ faults' = faults + 1

Fails(m, op) == failed' = [failed EXCEPT ![m] = op]

\* The flush manager's debounced flush; several locations' flushes also commit.
\* That may fail, or not read the status of the file and take it for clean.
Flush(m) ==
  /\ Idle(m) /\ dirty[m] # {}
  /\ file' = [file EXCEPT ![m] = Flushed(m)]
  /\ dirty' = [dirty EXCEPT ![m] = {}]
  /\ IF MultiLocation
     THEN \/ CommitIfDirty(m, Flushed(m)) /\ UNCHANGED <<failed, faults>>
          \/ Fault /\ (Fails(m, "commit") \/ UNCHANGED failed) /\ UNCHANGED <<repo, own>>
     ELSE UNCHANGED <<repo, own, failed, faults>>
  /\ UNCHANGED <<db, remote, at, touched, writes>>

\* reload(): a row takes what its line has, and keeps what the line lacks.
Overlaid(row, line) ==
  IF line = NoLine \/ row = NoLine THEN line
  ELSE [line EXCEPT !.fields = [f \in Fields |-> IF @[f] = Absent THEN row.fields[f] ELSE @[f]]]

Reloaded(m, content) == [db EXCEPT ![m] = [id \in Ids |-> Overlaid(@[id], content[id])]]

\* The watcher reports what git did to graph.jsonl.
WatcherReload(m) ==
  /\ Idle(m) /\ touched[m]
  /\ touched' = [touched EXCEPT ![m] = FALSE]
  /\ db' = Reloaded(m, file[m])
  /\ UNCHANGED <<dirty, file, repo, remote, at, failed, own, bounds>>

-----------------------------------------------------------------------------
(* A sync.                                                                 *)

\* What the sync has met so far is on record; an operation that succeeds clears
\* its own error.
SucceedsAtAll(m, op) == failed' = [failed EXCEPT ![m] = "none"] \* mutation
SucceedsUnset(m, op) == failed' = [failed EXCEPT ![m] = "undefined"] \* mutation
Succeeds(m, op) == failed' = [failed EXCEPT ![m] = IF @ = op THEN "none" ELSE @]

GoesOn(m, step, changed) ==
  /\ at' = [at EXCEPT ![m].step = step, ![m].changed = changed]
  /\ UNCHANGED db

\* The sync returns, and what a pull brought is reloaded.
Returns(m, changed) ==
  /\ at' = [at EXCEPT ![m] = Nothing]
  /\ db' = IF changed THEN Reloaded(m, file'[m]) ELSE db

\* sync.now and sync.pull drain the flush, the timer does not.
Drained(m, kind) == IF kind = "auto" THEN file[m] ELSE Flushed(m)
StillDirty(m, kind) == IF kind = "auto" THEN dirty ELSE [dirty EXCEPT ![m] = {}]

\* What comes after the commit.
Started(m, kind, unread) ==
  at' = [at EXCEPT ![m] = [kind |-> kind, changed |-> FALSE, unread |-> unread,
                           step |-> IF kind = "auto" THEN "push" ELSE "pull"]]

SyncStarts(m, kind) ==
  /\ Idle(m)
  /\ file' = [file EXCEPT ![m] = Drained(m, kind)]
  /\ dirty' = StillDirty(m, kind)
  /\ CommitIfDirty(m, file'[m])
  /\ Started(m, kind, FALSE)
  /\ UNCHANGED <<db, remote, failed, touched, bounds>>

\* git status fails or times out: no line of it means a clean file, and no error.
StatusUnread(m, kind) ==
  /\ Idle(m) /\ Fault
  /\ file' = [file EXCEPT ![m] = Drained(m, kind)]
  /\ file'[m] # head[m]
  /\ dirty' = StillDirty(m, kind)
  /\ Started(m, kind, TRUE)
  /\ UNCHANGED <<db, repo, remote, failed, touched, own, writes>>

\* The commit fails: sync.now goes on, the others end.
CommitFails(m, kind) ==
  /\ Idle(m) /\ Fault
  /\ file' = [file EXCEPT ![m] = Drained(m, kind)]
  /\ file'[m] # head[m]
  /\ dirty' = StillDirty(m, kind)
  /\ Fails(m, "commit")
  /\ IF kind = "now" THEN Started(m, kind, FALSE) ELSE UNCHANGED at
  /\ UNCHANGED <<db, repo, remote, touched, own, writes>>

Behind(m) == base[m] # remote

Clean(m) == file[m] = head[m]

\* Mutation: the watcher misses what git writes.
CheckOutUnseen(m, content) ==
  /\ head' = [head EXCEPT ![m] = content]
  /\ file' = [file EXCEPT ![m] = content]
  /\ base' = [base EXCEPT ![m] = remote]
  /\ UNCHANGED touched

\* HEAD and the working tree become content, on top of the remote's commit.
CheckOut(m, content) ==
  /\ head' = [head EXCEPT ![m] = content]
  /\ file' = [file EXCEPT ![m] = content]
  /\ base' = [base EXCEPT ![m] = remote]
  /\ touched' = [touched EXCEPT ![m] = MultiLocation]

\* The fields of the nodes the remote has deleted and content still has: a deletion
\* gives way to a change of any of them.
BroughtBack(content) ==
  {x \in Ids \X Fields : remote.content[x[1]] = NoLine /\ content[x[1]] # NoLine}

AfterPull(m, changed) == IF at[m].kind = "now" THEN GoesOn(m, "push", changed) ELSE Returns(m, changed)

\* git pull: fast-forward, or merge and commit the merge.  It has changed something
\* if HEAD is another than before, as far as the two calls that ask could tell.
Pull(m) ==
  /\ at[m].step = "pull" /\ (Behind(m) => Clean(m))
  /\ IF Behind(m)
     THEN LET merged == MergeJsonl(base[m].content, head[m], remote.content)
          IN  /\ CheckOut(m, merged)
              /\ own' = [own EXCEPT ![m] = @ \cup BroughtBack(merged)]
     ELSE UNCHANGED <<head, file, base, touched, own>>
  /\ Succeeds(m, "pull")
  /\ \/ AfterPull(m, Behind(m)) /\ UNCHANGED faults
     \/ AfterPull(m, ~Behind(m)) /\ Fault
  /\ UNCHANGED <<dirty, local, remote, writes>>

\* git refuses to pull over uncommitted changes, or cannot reach the remote.
PullFails(m) ==
  /\ at[m].step = "pull"
  /\ \/ Behind(m) /\ ~Clean(m) /\ UNCHANGED faults
     \/ Fault
  /\ Fails(m, "pull")
  /\ UNCHANGED <<dirty, file, repo, remote, touched, own, writes>>
  /\ AfterPull(m, FALSE)

\* The remote takes HEAD, unless it has nothing new.
Push(m) ==
  /\ at[m].step \in {"push", "retry"} /\ ~Behind(m)
  /\ remote' = IF local[m] = << >> THEN remote
               ELSE [number |-> remote.number + 1, content |-> head[m]]
  /\ base' = [base EXCEPT ![m] = remote']
  /\ local' = [local EXCEPT ![m] = << >>] /\ own' = [own EXCEPT ![m] = {}]
  /\ Succeeds(m, "push")
  /\ UNCHANGED <<dirty, file, head, touched, bounds>>
  /\ Returns(m, at[m].changed)

\* What the last of some commits on top of the remote's holds.
Tip(commits) == IF commits = << >> THEN remote.content ELSE Last(commits).content

\* One commit more, with what it changed; one that has become empty is dropped.
Replay(commits, c) ==
  LET content == MergeJsonl(c.parent, Tip(commits), c.content)
  IN  IF content = Tip(commits) THEN commits
      ELSE Append(commits, [parent |-> Tip(commits), content |-> content])

\* The commits rebased one by one; the merge commits among them were not kept.
Replayed(m) ==
  LET replayed[n \in 0..Len(local[m])] ==
        IF n = 0 THEN << >> ELSE Replay(replayed[n - 1], local[m][n])
  IN  replayed

Rebased(m) == Replayed(m)[Len(local[m])]

\* The remote has moved on and rejects HEAD: push() fetches and rebases.
Rebase(m) ==
  /\ at[m].step = "push" /\ Behind(m) /\ Clean(m)
  /\ local' = [local EXCEPT ![m] = Rebased(m)]
  /\ CheckOut(m, Tip(Rebased(m)))
  /\ own' = [own EXCEPT ![m] =
       @ \cup UNION {BroughtBack(Rebased(m)[i].content) : i \in DOMAIN Rebased(m)}]
  /\ GoesOn(m, "retry", at[m].changed)
  /\ UNCHANGED <<dirty, remote, failed, bounds>>

\* A push ends without success: git cannot reach the remote, or rebase over
\* uncommitted changes, or the remote has moved on again.
PushFails(m) ==
  /\ at[m].step \in {"push", "retry"}
  /\ \/ Behind(m) /\ (at[m].step = "retry" \/ ~Clean(m)) /\ UNCHANGED faults
     \/ Fault
  /\ Fails(m, "push")
  /\ UNCHANGED <<dirty, file, repo, remote, touched, own, writes>>
  /\ Returns(m, at[m].changed)

Step(m) == Pull(m) \/ PullFails(m) \/ Push(m) \/ Rebase(m) \/ PushFails(m)

Next ==
  \E m \in Machines :
    \/ \E id \in Ids, f \in Fields, time \in 1..MaxTime : Write(m, id, f, time)
    \/ \E id \in Ids : Delete(m, id)
    \/ Flush(m) \/ WatcherReload(m)
    \/ \E kind \in Kinds : SyncStarts(m, kind) \/ StatusUnread(m, kind) \/ CommitFails(m, kind)
    \/ Step(m)

Spec == Init /\ [][Next]_vars

\* Flushes are debounced, files watched, the auto-sync timer goes off, and the
\* git calls of a sync return.
FairSpec ==
  /\ Spec
  /\ \A m \in Machines :
       /\ SF_vars(Flush(m)) /\ SF_vars(WatcherReload(m))
       /\ SF_vars(SyncStarts(m, "auto"))
       /\ WF_vars(Step(m))
(***************************************************************************)
(* Properties.                                                             *)
(***************************************************************************)

\* A push changes what the remote says of a field only if its machine has changed
\* that field, or brought its node back: no merge or rebase undoes another
\* machine's change (mergeJsonl, push()).
PushKeepsOthers ==
  [][\A x \in Ids \X Fields :
       At(remote'.content, x) # At(remote.content, x) =>
         \E m \in Machines :
           local[m] # << >> /\ local'[m] = << >> /\ x \in own[m]]_vars

\* A sync.now returns with no error on record: what health.lastSuccessAt dates.
Success(m) == at[m].kind = "now" /\ ~Idle(m) /\ Idle(m)' /\ failed'[m] = "none"

\* A success left nothing behind: all the machine had committed is in the remote,
\* with all the remote had, and all it had written is committed, unless the cycle
\* could not read the status of its file.
SuccessIsSynced ==
  [][\A m \in Machines :
       Success(m) =>
         /\ local'[m] = << >> /\ head'[m] = base'[m].content
         /\ file'[m] = head'[m] \/ at[m].unread]_vars

\* A success says that all the machine had written is in the remote.
SuccessIsCommitted == [][\A m \in Machines : Success(m) => file'[m] = remote'.content]_vars

\* Once writes and failures end, every machine comes to have the remote's graph,
\* its edits among it, in graph.jsonl and in what queries are answered from
\* (startAutoSync).
Converges ==
  <>[](\A m \in Machines : Clean(m) /\ file[m] = remote.content /\ db[m] = file[m])

\* What queries are answered from comes to be what graph.jsonl says.
ViewsConverge == <>[](\A m \in Machines : db[m] = file[m])
=============================================================================
