--------------------------- MODULE ClaimPersistence ---------------------------
(***************************************************************************)
(* Task claims across daemon restarts and reloads: the lines of graph.jsonl *)
(* beside the rows of TaskClaims, and how SQLite is brought back from them. *)
(*                                                                         *)
(* A line holds the columns that were not NULL when it was written         *)
(* (rowToNode), so an unclaimed task's line says nothing of a claim.       *)
(* UPDATE writes the columns the line has; INSERT leaves claim_fence out.  *)
(* When a dirty row is flushed is not modelled here (see FlushPipeline):   *)
(* any row may be written at any time, or never.  A pull merges another    *)
(* machine's line in, column by column, and so a claim in parts.           *)
(***************************************************************************)
EXTENDS TaskClaims, Integers

CONSTANTS
  TheirLines,   \* the lines of a task another machine may have pushed
  MaxRestarts,  \* bound on restarts and reloads
  MaxPulls      \* bound on pulls

ASSUME PersistAssumption ==
  TheirLines \subseteq Row /\ MaxRestarts \in Nat /\ MaxPulls \in Nat

VARIABLES
  line,         \* line[t]: the task's line in graph.jsonl
  base,         \* base[t]: the line the next merge finds both sides come from
  restarts,     \* how often SQLite was brought back from the file
  pulls,        \* how often a line was merged
  mixed         \* history: tasks whose line has a claim no side of a merge had

files == <<line, base, restarts, pulls, mixed>>
pvars == <<vars, files>>

\* The columns are resolved as the merge driver does (its constants play no part).
Merge == INSTANCE MergeDriver WITH
  Ids <- Tasks, Fields <- {"claimedBy", "lockUntil"}, Values <- Agents, Absent <- NoAgent, NoLine <- NoAgent

PersistTypeOK ==
  /\ line \in [Tasks -> Row] /\ base \in [Tasks -> Row]
  /\ restarts \in 0..MaxRestarts /\ pulls \in 0..MaxPulls
  /\ mixed \subseteq Tasks

PersistInit ==
  Init /\ line = row /\ base = row /\ restarts = 0 /\ pulls = 0 /\ mixed = {}

ClaimOf(l) == <<l.claimedBy, l.lockUntil>>

\* A claim without an expiry, or an expiry without a claim.
Half(l) == ~(l.claimedBy = NoAgent <=> l.lockUntil = 0)

\* Mutation: lock_until is not among the updateable fields.
OverlayKeepingLease(r, l) ==
  [l EXCEPT !.claimedBy = IF l.claimedBy = NoAgent THEN r.claimedBy ELSE l.claimedBy,
            !.lockUntil = r.lockUntil]

\* UPDATE from a line: a column the line lacks keeps its value.
Overlay(r, l) ==
  [l EXCEPT !.claimedBy = IF l.claimedBy = NoAgent THEN r.claimedBy ELSE l.claimedBy,
            !.lockUntil = IF l.lockUntil = 0 THEN r.lockUntil ELSE l.lockUntil]

\* Mutation: lock_until is left out as claim_fence is.
InsertUnleased(l) == [l EXCEPT !.fence = 0, !.lockUntil = 0]

\* INSERT from a line: claim_fence gets the column's default.
Insert(l) == [l EXCEPT !.fence = 0]

\* The leases on tasks of T: a file that says otherwise takes them away.
LeasesOn(T) == Workers \X T

\* A flush of the store writes the line of a dirty task.
WriteLine(t) ==
  /\ line' = [line EXCEPT ![t] = row[t]]
  /\ UNCHANGED <<vars, base, restarts, pulls, mixed>>

\* fieldLevelMerge of a line that both sides, or one of them, changed.
Merged(b, o, their, newer) ==
  [claimedBy |-> Merge!Resolve(b.claimedBy, o.claimedBy, their.claimedBy, newer),
   lockUntil |-> Merge!Resolve(b.lockUntil, o.lockUntil, their.lockUntil, newer),
   fence |-> Merge!Resolve(b.fence, o.fence, their.fence, newer),
   status |-> Merge!Resolve(b.status, o.status, their.status, newer),
   archived |-> Merge!Resolve(b.archived, o.archived, their.archived, newer)]

\* A pull or rebase merges another machine's line of t; newer says whose
\* updated_at wins.  Next time that machine comes from its own line, or from
\* the merged one if it got that in between.
Pull(t, their, newer, got) ==
  LET merged == Merged(base[t], line[t], their, newer) IN
  /\ pulls < MaxPulls
  /\ pulls' = pulls + 1
  /\ line' = [line EXCEPT ![t] = merged]
  /\ base' = [base EXCEPT ![t] = IF got THEN merged ELSE their]
  /\ mixed' = IF ClaimOf(merged) \in {ClaimOf(line[t]), ClaimOf(their)} /\ ~Half(their)
              THEN mixed ELSE mixed \cup {t}
  /\ UNCHANGED <<vars, restarts>>

\* The line has a column of a claim that is not the row's.
Overrides(l, r) ==
  \/ l.claimedBy \notin {NoAgent, r.claimedBy}
  \/ l.lockUntil \notin {0, r.lockUntil}

\* The daemon restarts on its cache, or reload() runs: every row is updated.
\* A claimNext of the old process is gone; what sessions were told stays.
Refresh(restart) ==
  /\ restarts < MaxRestarts
  /\ restarts' = restarts + 1
  /\ row' = [t \in Tasks |-> Overlay(row[t], line[t])]
  /\ queue' = IF restart THEN [w \in Workers |-> {}] ELSE queue
  /\ cut' = cut \cup LeasesOn({t \in Tasks : Overrides(line[t], row[t])})
  /\ UNCHANGED <<now, token, line, base, pulls, mixed>>

\* The cache is not there (it is not in git): every row is inserted.
Rebuild ==
  /\ restarts < MaxRestarts
  /\ restarts' = restarts + 1
  /\ row' = [t \in Tasks |-> Insert(line[t])]
  /\ queue' = [w \in Workers |-> {}]
  /\ cut' = cut \cup LeasesOn({t \in Tasks : ClaimOf(line[t]) # ClaimOf(row[t])})
  /\ UNCHANGED <<now, token, line, base, pulls, mixed>>

PersistNext ==
  \/ Next /\ UNCHANGED files
  \/ \E t \in Tasks : WriteLine(t)
  \/ \E t \in Tasks, their \in TheirLines, newer \in BOOLEAN, got \in BOOLEAN : Pull(t, their, newer, got)
  \/ \E restart \in BOOLEAN : Refresh(restart)
  \/ Rebuild

PersistSpec == PersistInit /\ [][PersistNext]_pvars

(***************************************************************************)
(* Properties.                                                             *)
(***************************************************************************)

\* However a row was brought back, a claim it names has an expiry and an expiry
\* names a claim: flushes, restarts, reloads and pulls break neither unless a
\* merge put a claim together from two (updateNode's field list, the INSERT).
ClaimHasExpiry ==
  \A t \in Tasks : t \notin mixed => (row[t].claimedBy = NoAgent <=> row[t].lockUntil = 0)

\* A lease that was told to a session outlives a restart, a reload and a lost
\* cache, unless the file has another claim: who holds the task, and till when,
\* comes back although the fence starts again (insertNodes, updateNode).
LeaseSurvives ==
  \A w \in Workers, t \in Tasks :
    Live(w, t) /\ <<w, t>> \notin cut =>
      row[t].claimedBy = AgentOf[w] /\ row[t].lockUntil >= token[w][t].until

\* A claim always has an expiry, so that the reaper can end it
\* (sweepExpiredClaims).  A merge of a release with a renewal, and a claim
\* merged on top of it, leave one without.
ClaimsExpire == \A t \in Tasks : row[t].claimedBy # NoAgent => row[t].lockUntil # 0

\* After a restart or a reload SQLite says what graph.jsonl, the source of
\* truth, says (initialize and reload of GraphStore).
CacheFollowsFile == [][restarts' # restarts => row' = line]_pvars
=============================================================================
