----------------------------- MODULE TaskClaims -----------------------------
(***************************************************************************)
(* Task claims: the lease and fence columns of the SQLite `nodes` table,   *)
(* the conditional UPDATEs of src/storage/sqlite.ts that change them, and  *)
(* what the worker sessions that called them were told.                    *)
(*                                                                         *)
(* A worker is one session (one process holding replies); several sessions *)
(* may use the same agent id, which is all the daemon ever sees.  Each     *)
(* UPDATE is one step: better-sqlite3 is synchronous.  claimNext is not:   *)
(* it awaits the ready set, then each claim, so it takes several steps.    *)
(***************************************************************************)
EXTENDS Naturals, FiniteSets

CONSTANTS
  Tasks,      \* ids of native nodes of type 'task'
  Workers,    \* client sessions
  Agents,     \* agent ids
  AgentOf,    \* the agent id each session claims under
  NoAgent,    \* NULL in claimed_by
  Blocks,     \* the edges <<from, to>> of type 'blocks'
  TaskActions,\* the task actions clients use
  Leases,     \* the leaseMs values clients ask for, in clock ticks
  MaxNow,     \* bound on the clock
  MaxFence    \* bound on claims per task

ASSUME ConstantsAssumption ==
  /\ AgentOf \in [Workers -> Agents]
  /\ NoAgent \notin Agents
  /\ Blocks \subseteq Tasks \X Tasks
  /\ Leases \subseteq Nat \ {0}
  /\ MaxNow \in Nat /\ MaxFence \in Nat

VARIABLES
  row,        \* row[t]: the columns of task t that claiming reads or writes
  now,        \* the daemon's clock
  queue,      \* queue[w]: ready tasks a claimNext of w has yet to try
  token,      \* token[w][t]: the last claim reply w holds for t
  cut         \* history: leases cut short by a force or by a sibling session

vars == <<row, now, queue, token, cut>>

Statuses == {"open", "in_progress", "blocked", "closed", "failed", "abandoned"}

Row == [claimedBy: Agents \cup {NoAgent}, lockUntil: Nat, fence: Nat,
        status: Statuses, archived: BOOLEAN]

Token == [fence: Nat, until: Nat]
NoToken == [fence |-> 0, until |-> 0]

TypeOK ==
  /\ row \in [Tasks -> Row]
  /\ now \in Nat
  /\ queue \in [Workers -> SUBSET Tasks]
  /\ token \in [Workers -> [Tasks -> Token]]
  /\ cut \subseteq Workers \X Tasks

Init ==
  /\ row = [t \in Tasks |-> [claimedBy |-> NoAgent, lockUntil |-> 0, fence |-> 0,
                             status |-> "open", archived |-> FALSE]]
  /\ now = 0
  /\ queue = [w \in Workers |-> {}]
  /\ token = [w \in Workers |-> [t \in Tasks |-> NoToken]]
  /\ cut = {}

(***************************************************************************)
(* The guards and writes of claimNode, releaseNode, renewNode and          *)
(* sweepExpiredClaims.                                                     *)
(***************************************************************************)

\* Mutation: the expiry guard of claimNode compares the wrong way round.
ClaimableEarly(r, a) ==
  ~r.archived /\ (r.claimedBy \in {NoAgent, a} \/ now <= r.lockUntil)

\* lockUntil 0 stands for NULL, which lets anybody claim.
Claimable(r, a) ==
  ~r.archived /\ (r.claimedBy \in {NoAgent, a} \/ r.lockUntil <= now)

Unclaimed(r) == [r EXCEPT !.claimedBy = NoAgent, !.lockUntil = 0]

\* Mutation: the sweep leaves out the instant of expiry.
ExpiredStrictly(r) == r.claimedBy # NoAgent /\ r.lockUntil # 0 /\ r.lockUntil < now

\* A claim without an expiry is none that expires.
Expired(r) == r.claimedBy # NoAgent /\ r.lockUntil # 0 /\ r.lockUntil <= now

\* Mutation: the fence guard alone decides, without the claimant.
HeldByFence(w, t, fenced) == fenced => token[w][t].fence = row[t].fence

\* The caller is the holder; with a fence, the very claim it was given.
HeldFor(w, t, fenced) ==
  /\ row[t].claimedBy = AgentOf[w]
  /\ fenced => token[w][t].fence = row[t].fence

Siblings(w) == {v \in Workers \ {w} : AgentOf[v] = AgentOf[w]}

\* Mutation: a claim that replaces a claim of the same agent keeps its fence.
ClaimLandsKeepingFence(w, t, force, lease) ==
  LET f == IF row[t].claimedBy = AgentOf[w] THEN row[t].fence ELSE row[t].fence + 1
      hit == IF force THEN Workers \ {w} ELSE Siblings(w)
  IN /\ row[t].fence < MaxFence
     /\ IF force THEN ~row[t].archived ELSE Claimable(row[t], AgentOf[w])
     /\ row' = [row EXCEPT ![t].claimedBy = AgentOf[w],
                           ![t].lockUntil = now + lease,
                           ![t].fence = f]
     /\ token' = [token EXCEPT ![w][t] = [fence |-> f, until |-> now + lease]]
     /\ cut' = (cut \cup (hit \X {t})) \ {<<w, t>>}

\* The UPDATE of claimNode that matched, and the reply it hands to w.
ClaimLands(w, t, force, lease) ==
  LET f == row[t].fence + 1
      hit == IF force THEN Workers \ {w} ELSE Siblings(w)
  IN /\ row[t].fence < MaxFence
     /\ IF force THEN ~row[t].archived ELSE Claimable(row[t], AgentOf[w])
     /\ row' = [row EXCEPT ![t].claimedBy = AgentOf[w],
                           ![t].lockUntil = now + lease,
                           ![t].fence = f]
     /\ token' = [token EXCEPT ![w][t] = [fence |-> f, until |-> now + lease]]
     /\ cut' = (cut \cup (hit \X {t})) \ {<<w, t>>}

Claim(w, t, force, lease) ==
  /\ ClaimLands(w, t, force, lease)
  /\ UNCHANGED <<now, queue>>

Release(w, t, fenced) ==
  /\ HeldFor(w, t, fenced)
  /\ row' = [row EXCEPT ![t] = Unclaimed(@)]
  /\ token' = [token EXCEPT ![w][t] = NoToken]
  /\ cut' = cut \cup (Siblings(w) \X {t})
  /\ UNCHANGED <<now, queue>>

\* No expiry check: a lapsed lease nobody took since can be renewed.
Renew(w, t, fenced, lease) ==
  /\ HeldFor(w, t, fenced)
  /\ row' = [row EXCEPT ![t].lockUntil = now + lease]
  /\ token' = [token EXCEPT ![w][t] = [fence |-> row[t].fence, until |-> now + lease]]
  /\ cut' = (IF now + lease < row[t].lockUntil THEN cut \cup (Siblings(w) \X {t}) ELSE cut)
              \ {<<w, t>>}
  /\ UNCHANGED <<now, queue>>

SweepExpiredClaims ==
  /\ \E t \in Tasks : Expired(row[t])
  /\ row' = [t \in Tasks |-> IF Expired(row[t]) THEN Unclaimed(row[t]) ELSE row[t]]
  /\ UNCHANGED <<now, queue, token, cut>>

(***************************************************************************)
(* The ready set and claimNext.                                            *)
(***************************************************************************)

\* The ready_tasks view: only a closed blocker, or an archived one, unblocks.
Ready(t) ==
  /\ row[t].status = "open"
  /\ ~row[t].archived
  /\ \A b \in Tasks : <<b, t>> \in Blocks => row[b].status = "closed" \/ row[b].archived

\* The candidates of claimNext: ready, and under no live lease.
ClaimNextStart(w) ==
  /\ queue[w] = {}
  /\ queue' = [queue EXCEPT ![w] =
                 {t \in Tasks : Ready(t) /\ ~(row[t].claimedBy # NoAgent /\ row[t].lockUntil > now)}]
  /\ queue'[w] # {}
  /\ UNCHANGED <<row, now, token, cut>>

ClaimNextTake(w, t, lease) ==
  /\ t \in queue[w]
  /\ ClaimLands(w, t, FALSE, lease)
  /\ queue' = [queue EXCEPT ![w] = {}]
  /\ UNCHANGED now

ClaimNextSkip(w, t) ==
  /\ t \in queue[w]
  /\ ~Claimable(row[t], AgentOf[w])
  /\ queue' = [queue EXCEPT ![w] = @ \ {t}]
  /\ UNCHANGED <<row, now, token, cut>>

(***************************************************************************)
(* What other calls do to the columns claiming reads.                      *)
(***************************************************************************)

ValidActions == [s \in Statuses |->
  CASE s = "open" -> {"start", "block", "close", "abandon"}
    [] s = "in_progress" -> {"complete", "block", "close", "fail", "abandon"}
    [] s = "blocked" -> {"reopen", "close", "fail", "abandon"}
    [] s \in {"closed", "failed", "abandoned"} -> {"reopen"}]

\* Mutation: a close that writes a status outside the model.
StatusAfterDone(action) ==
  CASE action = "reopen" -> "open" [] OTHER -> "done"

StatusAfter(action) ==
  CASE action = "start" -> "in_progress"
    [] action \in {"complete", "close"} -> "closed"
    [] action = "block" -> "blocked"
    [] action = "reopen" -> "open"
    [] action = "fail" -> "failed"
    [] action = "abandon" -> "abandoned"

\* A transition looks at the status only: it neither needs nor ends a claim.
Transition(t, action) ==
  /\ action \in ValidActions[row[t].status]
  /\ row' = [row EXCEPT ![t].status = StatusAfter(action)]
  /\ UNCHANGED <<now, queue, token, cut>>

SetArchived(t) ==
  /\ row' = [row EXCEPT ![t].archived = ~@]
  /\ UNCHANGED <<now, queue, token, cut>>

Tick ==
  /\ now < MaxNow
  /\ now' = now + 1
  /\ UNCHANGED <<row, queue, token, cut>>

ClaimStep ==
  \/ \E w \in Workers, t \in Tasks, force \in BOOLEAN, lease \in Leases : Claim(w, t, force, lease)
  \/ \E w \in Workers, t \in Tasks, fenced \in BOOLEAN : Release(w, t, fenced)
  \/ \E w \in Workers, t \in Tasks, fenced \in BOOLEAN, lease \in Leases : Renew(w, t, fenced, lease)
  \/ SweepExpiredClaims

ClaimNextStep ==
  \E w \in Workers :
    \/ ClaimNextStart(w)
    \/ \E t \in Tasks, lease \in Leases : ClaimNextTake(w, t, lease)
    \/ \E t \in Tasks : ClaimNextSkip(w, t)

GraphStep ==
  \/ \E t \in Tasks, action \in TaskActions : Transition(t, action)
  \/ \E t \in Tasks : SetArchived(t)

Next == ClaimStep \/ ClaimNextStep \/ GraphStep \/ Tick

Spec == Init /\ [][Next]_vars

\* The daemon's 60 s timer calls sweepExpiredClaims for as long as it runs.
FairSpec == Spec /\ WF_vars(SweepExpiredClaims)

(***************************************************************************)
(* Properties.                                                             *)
(***************************************************************************)

Live(w, t) == token[w][t].until > now

\* What claim and renew replied stays true until the lease runs out: the row
\* still names the session's agent, its fence and at least its expiry, unless
\* a forced claim or a session of the same agent cut the lease short
\* (claimNode, releaseNode, renewNode, sweepExpiredClaims).
LeaseHonoured ==
  \A w \in Workers, t \in Tasks :
    Live(w, t) /\ <<w, t>> \notin cut =>
      /\ row[t].claimedBy = AgentOf[w]
      /\ row[t].fence = token[w][t].fence
      /\ row[t].lockUntil >= token[w][t].until

\* A fence token belongs to one agent: two sessions holding the same fence of
\* a task run under the same agent id (claim_fence of claimNode and renewNode).
FenceIdentifiesAgent ==
  \A v, w \in Workers, t \in Tasks :
    token[v][t].fence = token[w][t].fence /\ token[v][t].fence > 0 => AgentOf[v] = AgentOf[w]

\* What makes FenceIdentifiesAgent inductive: no session holds a fence the row
\* has not reached, and whoever holds the row's fence runs as its holder.
FenceBound ==
  /\ \A w \in Workers, t \in Tasks : token[w][t].fence <= row[t].fence
  /\ \A t \in Tasks : row[t].claimedBy # NoAgent => row[t].fence > 0

FenceOwner ==
  \A w \in Workers, t \in Tasks :
    token[w][t].fence = row[t].fence /\ row[t].claimedBy # NoAgent
      => row[t].claimedBy = AgentOf[w]

\* From the moment a claim lands, every other session's fence for the task is
\* stale: its fenced release and renew are refused (ClaimInfo.fence).
ClaimFencesOutOthers ==
  [][\A v \in Workers, t \in Tasks :
       (\E lease \in Leases : \/ \E force \in BOOLEAN : Claim(v, t, force, lease)
                              \/ ClaimNextTake(v, t, lease))
         => \A w \in Workers \ {v} : ~HeldFor(w, t, TRUE)']_vars

\* A lapsed claim does not stay: it is renewed, taken over or, the agent being
\* dead, cleared by the daemon's reaper (sweepExpiredClaims).
LapsedClaimEnds ==
  \A t \in Tasks : LET lapsed == row[t].claimedBy # NoAgent /\ row[t].lockUntil <= now
                  IN lapsed ~> ~lapsed

\* claimNext claims a task that is ready when it claims it (GraphStore.claimNext).
ClaimNextTakesReady ==
  [][\A w \in Workers, t \in Tasks, lease \in Leases : ClaimNextTake(w, t, lease) => Ready(t)]_vars
=============================================================================
