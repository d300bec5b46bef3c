------------------------ MODULE EdgeCheckpointProofs -------------------------
(***************************************************************************)
(* Proofs about GraphEdges, for any set of nodes and any bound on edges, and *)
(* about Checkpoints, for any agents, files and bounds.                    *)
(***************************************************************************)
EXTENDS GraphEdges, Checkpoints, FiniteSetTheorems, TLAPS

(***************************************************************************)
(* Types.                                                                  *)
(***************************************************************************)
LEMMA NewEdgeType ==
  ASSUME TypeOK, made < MaxEdges, NEW a \in Nodes, NEW b \in Nodes
  PROVE  made + 1 \in 0..MaxEdges /\ NewEdge(a, b) \in Edge
<1>1. made \in Nat /\ made + 1 <= MaxEdges
  BY EdgesAssumption DEF TypeOK
<1>2. QED  BY <1>1, EdgesAssumption DEF Edge, NewEdge

LEMMA TypeStep == TypeOK /\ [Next]_vars => TypeOK'
<1> SUFFICES ASSUME TypeOK, [Next]_vars PROVE TypeOK'
  OBVIOUS
<1>1. ASSUME NEW a \in Nodes, NEW b \in Nodes, CreateEdge(a, b) \/ PeerCreates(a, b)
      PROVE  TypeOK'
  <2>1. made + 1 \in 0..MaxEdges /\ NewEdge(a, b) \in Edge
    BY <1>1, NewEdgeType DEF CreateEdge, PeerCreates
  <2>2. QED  BY <1>1, <2>1 DEF CreateEdge, PeerCreates, TypeOK, history
<1>2. ASSUME NEW e \in edges, DeleteEdge(e)
      PROVE  TypeOK'
  BY <1>2 DEF DeleteEdge, TypeOK, Edge, Removed
<1>3. ASSUME NEW n \in Nodes, DeleteNode(n)
      PROVE  TypeOK'
  BY <1>3 DEF DeleteNode, TypeOK, Touching, Removed
<1>4. CASE FlushStarts
  BY <1>4 DEF FlushStarts, TypeOK, Idle, history
<1>5. CASE FlushLoaded
  BY <1>5 DEF FlushLoaded, TypeOK, Touching, history
<1>6. CASE FlushSaved
  BY <1>6 DEF FlushSaved, TypeOK, Idle, history
<1>7. CASE Reload \/ Restart \/ Rebuild \/ Sync
  BY <1>7 DEF Reload, Restart, Rebuild, Sync, TypeOK, Idle, Touching, Removed
<1>8. CASE UNCHANGED vars
  BY <1>8 DEF vars, history, TypeOK
<1>9. QED
  BY <1>1, <1>2, <1>3, <1>4, <1>5, <1>6, <1>7, <1>8 DEF Next

\* Every variable keeps its type (GraphEdges!Spec).
THEOREM EdgeTypes == Spec => []TypeOK
<1>1. Init => TypeOK
  BY EdgesAssumption DEF Init, TypeOK, Idle
<1>2. QED  BY <1>1, TypeStep, PTL DEF Spec

(***************************************************************************)
(* Edges reach graph.jsonl.  A restart forgets the marks of edges the      *)
(* cache keeps (CacheReachesFile fails), so this is about edges the present*)
(* process made.                                                           *)
(***************************************************************************)
Touches(e, ids) == e.from \in ids \/ e.to \in ids

\* Where the next image of the file, if there is a flush under way, gets e from.
Covered(e) ==
  CASE job.phase = "idle" -> e \in edgeLines \/ Touches(e, rows)
    [] job.phase = "loading" -> e \in edgeLines \/ Touches(e, job.ids)
    [] job.phase = "saving" -> e \in job.edges

MarksInv ==
  /\ TypeOK
  /\ job.phase = "saving" => edgeLines \subseteq job.edges
  /\ \A e \in edges \cap fresh : Covered(e) \/ Touches(e, pending)

\* An edge of the file is covered in every phase.
LEMMA LinesCovered == MarksInv => \A e \in edgeLines : Covered(e)
  BY DEF MarksInv, Covered, TypeOK

LEMMA MarksStep == MarksInv /\ [Next]_vars => MarksInv'
<1> SUFFICES ASSUME MarksInv, [Next]_vars PROVE MarksInv'
  OBVIOUS
<1>0. TypeOK /\ TypeOK' /\ \A e \in edgeLines : Covered(e)
  BY TypeStep, LinesCovered DEF MarksInv
<1>1. ASSUME NEW a \in Nodes, NEW b \in Nodes, CreateEdge(a, b)
      PROVE  MarksInv'
  <2>1. \A e \in edges' \cap fresh' : e \in edges \cap fresh \/ Touches(e, pending')
    BY <1>0, <1>1 DEF CreateEdge, Touches, NewEdge, TypeOK
  <2>2. \A e \in edges : Touches(e, pending) => Touches(e, pending')
    BY <1>1 DEF CreateEdge, Touches
  <2>3. \A e \in edges : Covered(e) <=> Covered(e)'
    BY <1>0, <1>1 DEF CreateEdge, Covered, Touches
  <2>4. QED  BY <1>0, <1>1, <2>1, <2>2, <2>3 DEF CreateEdge, MarksInv
<1>2. ASSUME NEW a \in Nodes, NEW b \in Nodes, PeerCreates(a, b)
      PROVE  MarksInv'
  BY <1>0, <1>2 DEF PeerCreates, MarksInv, Covered, Touches, history
<1>3. ASSUME NEW e \in edges, DeleteEdge(e)
      PROVE  MarksInv'
  BY <1>0, <1>3 DEF DeleteEdge, MarksInv, Covered, Touches, Removed
<1>4. ASSUME NEW n \in Nodes, DeleteNode(n)
      PROVE  MarksInv'
  BY <1>0, <1>4 DEF DeleteNode, MarksInv, Covered, Touches, Removed
<1>5. CASE FlushStarts
  <2>1. \A e \in edges \cap fresh : e \in edgeLines \/ Touches(e, rows \cup pending)
    BY <1>5 DEF FlushStarts, MarksInv, Covered, Touches
  <2>2. job'.phase = "loading" /\ job'.ids = rows \cup pending
    BY <1>5 DEF FlushStarts, Idle
  <2>3. QED  BY <1>0, <1>5, <2>1, <2>2 DEF FlushStarts, MarksInv, Covered, history
<1>6. CASE FlushLoaded
  <2>1. job'.phase = "saving" /\ job'.edges = edgeLines \cup Touching(job.ids)
    BY <1>0, <1>6 DEF FlushLoaded, TypeOK
  <2>2. \A e \in edges \cap fresh : e \in job'.edges \/ Touches(e, pending)
    BY <1>6, <2>1 DEF FlushLoaded, MarksInv, Covered, Touches, Touching
  <2>3. QED  BY <1>0, <1>6, <2>1, <2>2 DEF FlushLoaded, MarksInv, Covered, history
<1>7. CASE FlushSaved
  <2>1. job'.phase = "idle" /\ edgeLines' = job.edges /\ pending' = pending /\ edges' = edges
    BY <1>7 DEF FlushSaved, Idle
  <2>2. QED  BY <1>0, <1>7, <2>1 DEF FlushSaved, MarksInv, Covered, history
<1>8. CASE Reload
  BY <1>0, <1>8 DEF Reload, MarksInv, Covered, Touches, Removed
<1>9. CASE Rebuild
  BY <1>0, <1>9 DEF Rebuild, MarksInv, Covered, Touches, Idle
<1>10. CASE Sync
  BY <1>0, <1>10 DEF Sync, MarksInv, Covered, Touches, Removed
<1>11. CASE UNCHANGED vars
  BY <1>0, <1>11 DEF vars, history, MarksInv, Covered, Touches
<1>12. CASE Restart
  BY <1>0, <1>12 DEF Restart, MarksInv, Idle
<1>13. QED
  BY <1>1, <1>2, <1>3, <1>4, <1>5, <1>6, <1>7, <1>8, <1>9, <1>10, <1>11, <1>12 DEF Next

\* No order of edges made and deleted, nodes deleted, flushes, reloads, syncs and
\* restarts leaves an edge the running process made out of graph.jsonl.
THEOREM EdgesAreFlushed == Spec => []EdgesReachFile
<1>1. Init => MarksInv
  BY EdgesAssumption DEF Init, MarksInv, TypeOK, Idle
<1>2. MarksInv => EdgesReachFile
  BY DEF MarksInv, Covered, Touches, EdgesReachFile
<1>3. QED
  BY <1>1, <1>2, MarksStep, PTL DEF Spec

(***************************************************************************)
(* Cycles.  Deleted edges that come back and edges of other machines make  *)
(* cycles (Acyclic fails); edges detectCycle has let in do not.            *)
(***************************************************************************)
\* The nodes that can be reached from x.
Cone(E, x) == {y \in Nodes : Reaches(E, x, y)}

LEMMA ConeIsClosed ==
  ASSUME NEW E \in SUBSET Edge, NEW x \in Nodes
  PROVE  Cone(E, x) \in SUBSET Nodes /\ x \in Cone(E, x) /\ Closed(Cone(E, x), E)
  BY DEF Cone, Reaches, Closed, Edge

\* Fewer edges, fewer cycles.
LEMMA SubsetAcyclic ==
  ASSUME NEW E \in SUBSET Edge, NEW F \in SUBSET E, HasNoCycle(E)
  PROVE  HasNoCycle(F)
  BY DEF HasNoCycle, Reaches, Closed

\* An edge from a to b closes no cycle, if a is not reached from b.
LEMMA EdgeAdded ==
  ASSUME NEW E \in SUBSET Edge, NEW new \in Edge, HasNoCycle(E),
         ~Reaches(E, new.to, new.from)
  PROVE  HasNoCycle(E \cup {new})
<1> DEFINE F == E \cup {new}
           B == Cone(E, new.to)
<1>1. new.from \in Nodes /\ new.to \in Nodes
  BY DEF Edge
<1>2. B \in SUBSET Nodes /\ new.to \in B /\ Closed(B, E) /\ new.from \notin B
  BY <1>1, ConeIsClosed DEF Cone
<1>3. Closed(B, F)
  BY <1>2 DEF Closed
<1>4. ~Reaches(F, new.to, new.from)
  BY <1>2, <1>3 DEF Reaches
<1>5. ASSUME NEW e \in E PROVE ~Reaches(F, e.to, e.from)
  <2> DEFINE C == Cone(E, e.to)
  <2>1. e.from \in Nodes /\ e.to \in Nodes
    BY DEF Edge
  <2>2. C \in SUBSET Nodes /\ e.to \in C /\ Closed(C, E) /\ e.from \notin C
    BY <2>1, ConeIsClosed DEF Cone, HasNoCycle
  <2>3. CASE new.from \notin C
    <3>1. Closed(C, F)
      BY <2>2, <2>3 DEF Closed
    <3>2. QED  BY <2>2, <3>1 DEF Reaches
  <2>4. CASE new.from \in C
    <3>1. e.from \notin B
      \* Otherwise b reaches e.from, then e.to, and then a.
      <4>1. SUFFICES ASSUME e.from \in B PROVE FALSE
        OBVIOUS
      <4>2. e.to \in B
        BY <1>2, <4>1 DEF Closed
      <4>3. new.from \in B
        BY <1>2, <2>4, <4>2 DEF Cone, Reaches
      <4>4. QED  BY <1>2, <4>3
    <3>2. B \cup C \in SUBSET Nodes /\ e.to \in B \cup C /\ e.from \notin B \cup C
      BY <1>2, <2>2, <3>1
    <3>3. Closed(B \cup C, F)
      BY <1>2, <2>2 DEF Closed
    <3>4. QED  BY <3>2, <3>3 DEF Reaches
  <2>5. QED  BY <2>3, <2>4
<1>6. QED  BY <1>4, <1>5 DEF HasNoCycle

\* With fewer edges less is reached.
LEMMA SubsetReaches ==
  ASSUME NEW E \in SUBSET Edge, NEW F \in SUBSET E, NEW x \in Nodes, NEW y \in Nodes,
         ~Reaches(E, x, y)
  PROVE  ~Reaches(F, x, y)
  BY DEF Reaches, Closed

CycleInv == TypeOK /\ HasNoCycle(checked)

LEMMA CycleStep == CycleInv /\ [Next]_vars => CycleInv'
<1> SUFFICES ASSUME CycleInv, [Next]_vars PROVE CycleInv'
  OBVIOUS
<1>0. TypeOK /\ TypeOK' /\ checked \in SUBSET edges /\ edges \in SUBSET Edge
  BY TypeStep DEF CycleInv, TypeOK
<1>1. ASSUME NEW a \in Nodes, NEW b \in Nodes, CreateEdge(a, b)
      PROVE  CycleInv'
  <2> DEFINE new == NewEdge(a, b)
  <2>1. new \in Edge /\ new.from = a /\ new.to = b
    BY <1>0, <1>1, NewEdgeType DEF CreateEdge, NewEdge
  <2>2. ~Reaches(edges, b, a) /\ checked' = checked \cup {new}
    BY <1>1 DEF CreateEdge, HasCycle
  <2>3. ~Reaches(checked, new.to, new.from)
    BY <1>0, <2>1, <2>2, SubsetReaches
  <2>4. HasNoCycle(checked')
    BY <1>0, <2>1, <2>2, <2>3, EdgeAdded DEF CycleInv
  <2>5. QED  BY <1>0, <2>4 DEF CycleInv
<1>2. CASE checked' \subseteq checked
  BY <1>0, <1>2, SubsetAcyclic DEF CycleInv
<1>3. ASSUME NEW a \in Nodes, NEW b \in Nodes, PeerCreates(a, b)
      PROVE  checked' \subseteq checked
  BY <1>3 DEF PeerCreates, history
<1>4. ASSUME NEW e \in edges, DeleteEdge(e)
      PROVE  checked' \subseteq checked
  BY <1>4 DEF DeleteEdge, Removed
<1>5. ASSUME NEW n \in Nodes, DeleteNode(n)
      PROVE  checked' \subseteq checked
  BY <1>5 DEF DeleteNode, Removed
<1>6. FlushStarts \/ FlushLoaded \/ FlushSaved => checked' \subseteq checked
  BY DEF FlushStarts, FlushLoaded, FlushSaved, history
<1>7. Reload \/ Restart \/ Rebuild \/ Sync => checked' \subseteq checked
  BY DEF Reload, Restart, Rebuild, Sync, Removed
<1>8. UNCHANGED vars => checked' \subseteq checked
  BY DEF vars, history
<1>9. QED
  BY <1>1, <1>2, <1>3, <1>4, <1>5, <1>6, <1>7, <1>8 DEF Next

\* No crash, restart, flush, reload, sync, delete or lost cache lets detectCycle
\* miss a cycle among the edges it checked, for any set of nodes.
THEOREM EdgesStayAcyclic == Spec => []CheckedAcyclic
<1>1. Init => CycleInv
  BY EdgesAssumption DEF Init, CycleInv, TypeOK, Idle, HasNoCycle
<1>2. CycleInv => CheckedAcyclic
  BY DEF CycleInv, CheckedAcyclic
<1>3. QED
  BY <1>1, <1>2, CycleStep, PTL DEF Spec

-----------------------------------------------------------------------------
(***************************************************************************)
(* Checkpoints: the ID a commit's message has is backed.  From the message to *)
(* the end of the hooks, some session that had work in the commit keeps it, on *)
(* a shadow branch that post-commit finds, or the checkpoint is there.     *)
(***************************************************************************)

SessionStates == [base : Commits, stepped : BOOLEAN, files : SUBSET Files,
                  last : 0..MaxCommits, exists : BOOLEAN]
Branches == [on : BOOLEAN, tree : SUBSET Files]

CheckpointsTyped ==
  /\ head \in Commits
  /\ commits \in [0..head -> [parent : 0..head, tree : SUBSET Files, id : 0..MaxCommits]]
  /\ unsaved \in SUBSET Files
  /\ sessions \in [Agents -> SessionStates]
  /\ steps \in [Agents -> [on : BOOLEAN, state : SessionStates]]
  /\ shadow \in [Commits -> Branches] /\ misplaced \in [Commits -> Branches]
  /\ checkpoints \in [CheckpointIDs -> SUBSET Agents]
  /\ hook \in [at : {"idle", "message", "made", "post"}, files : SUBSET Files, id : 0..MaxCommits,
               amend : BOOLEAN, list : SUBSET Agents, seen : [Agents -> SessionStates] \cup {<< >>}]
  /\ hook.at = "message" => head < MaxCommits
  /\ hook.at = "post" => hook.seen \in [Agents -> SessionStates]

\* What a step under way has loaded is what the session file says, unless the
\* session was condensed since, and then it has no step to condense.
StepsCurrent ==
  \A a \in Agents : steps[a].on => sessions[a] = steps[a].state \/ ~sessions[a].stepped

\* A session on the commit's parent has work in the commit, and post-commit will see it.
HasWork(s, parent, tree) ==
  /\ Recorded(s) /\ s.base = parent
  /\ s.files \cap tree \cap commits[parent].tree # {}

\* How far the ID in the message of the commit under way is backed.
Promised ==
  /\ hook.at = "message" /\ hook.id # NoCheckpoint /\ ~hook.amend =>
       \E a \in Agents : HasWork(sessions[a], head, hook.files)
  /\ hook.at \in {"made", "post"} => commits[head].id = hook.id
  /\ hook.at = "made" /\ hook.id # NoCheckpoint /\ head \notin passedBy =>
       \E a \in Agents : HasWork(sessions[a], commits[head].parent, commits[head].tree)
  /\ hook.at = "post" => hook.id # NoCheckpoint
  /\ hook.at = "post" /\ head \notin passedBy =>
       \/ checkpoints[hook.id] # {}
       \/ \E a \in hook.list : HasWork(hook.seen[a], commits[head].parent, commits[head].tree)

Backed(c) ==
  \/ c \in passedBy
  \/ commits[c].id = NoCheckpoint
  \/ checkpoints[commits[c].id] # {}

CheckpointsInv ==
  /\ CheckpointsTyped /\ StepsCurrent /\ Promised
  /\ \A c \in 0..head : Backed(c) \/ (c = head /\ hook.at \in {"made", "post"})

USE DEF NoCheckpoint, CheckpointIDs, Commits

LEMMA NextCommitNumber == CheckpointsTyped => NextCommit = head + 1
<1> SUFFICES ASSUME CheckpointsTyped PROVE Cardinality(0..head) = head + 1
  BY DEF CheckpointsTyped, NextCommit
<1>1. head \in Nat
  BY CheckpointsAssumption DEF CheckpointsTyped
<1>2. QED
  BY <1>1, FS_Interval

LEMMA HeadIsCommit ==
  CheckpointsTyped => /\ head \in Nat /\ head \in 0..head /\ head \in Commits
                      /\ commits[head] \in [parent : 0..head, tree : SUBSET Files, id : 0..MaxCommits]
                      /\ commits[head].parent \in Commits /\ commits[head].parent \in 0..head
                      /\ commits[head].id \in 0..MaxCommits /\ commits[head].tree \in SUBSET Files
<1> SUFFICES ASSUME CheckpointsTyped
             PROVE  /\ head \in Nat /\ head \in 0..head /\ head \in Commits
                    /\ commits[head] \in [parent : 0..head, tree : SUBSET Files, id : 0..MaxCommits]
                    /\ commits[head].parent \in Commits /\ commits[head].parent \in 0..head
                    /\ commits[head].id \in 0..MaxCommits /\ commits[head].tree \in SUBSET Files
  OBVIOUS
<1>1. head \in Commits /\ head \in Nat /\ head \in 0..head
  BY CheckpointsAssumption DEF CheckpointsTyped
<1>2. commits[head] \in [parent : 0..head, tree : SUBSET Files, id : 0..MaxCommits]
  BY <1>1 DEF CheckpointsTyped
<1>3. QED
  BY <1>1, <1>2, CheckpointsAssumption

LEMMA CheckpointsInit0 == CheckpointsInit => CheckpointsInv
<1> SUFFICES ASSUME CheckpointsInit PROVE CheckpointsInv
  OBVIOUS
<1>1. Unstarted \in SessionStates /\ NoBranch \in Branches
  BY CheckpointsAssumption DEF Unstarted, SessionStates, NoBranch, Branches
<1>2. CheckpointsTyped
  BY <1>1, CheckpointsAssumption DEF CheckpointsInit, CheckpointsTyped, NoStep, NoHooks
<1>3. QED
  BY <1>2, CheckpointsAssumption DEF CheckpointsInit, CheckpointsInv, StepsCurrent, Promised, Backed, NoStep, NoHooks

\* Shadow branches are found as long as none is deleted.
LEMMA ShadowsStay ==
  ASSUME CheckpointsTyped, CheckpointsTyped',
         \A c \in Commits : (shadow[c].on => shadow'[c].on) /\ (misplaced[c].on => misplaced'[c].on)
  PROVE  \A c \in Commits : Shadow(c).on => Shadow(c)'.on
BY DEF Shadow, CheckpointsTyped, Branches

\* What keeps the work of sessions that were seen keeps the promise.
LEMMA PromiseStays ==
  ASSUME CheckpointsInv, UNCHANGED <<head, commits, hook, checkpoints, passedBy>>,
         \A b \in Agents, p \in Commits : \A tree :
           /\ HasWork(sessions[b], p, tree) => HasWork(sessions[b], p, tree)'
           /\ HasWork(hook.seen[b], p, tree) => HasWork(hook.seen[b], p, tree)'
  PROVE  Promised'
<1>1. Promised /\ CheckpointsTyped
  BY DEF CheckpointsInv
<1>2. head \in Nat /\ head \in Commits /\ head \in 0..head /\ 0..head \subseteq Commits
  BY <1>1, CheckpointsAssumption DEF CheckpointsTyped, Commits
<1>3. hook.list \subseteq Agents
  BY <1>1 DEF CheckpointsTyped
<1>4. commits[head].parent \in Commits
  <2>1. commits[head] \in [parent : 0..head, tree : SUBSET Files, id : 0..MaxCommits]
    BY <1>1, <1>2 DEF CheckpointsTyped
  <2>2. QED
    BY <1>2, <2>1
<1>5. QED
  BY <1>1, <1>2, <1>3, <1>4 DEF Promised

LEMMA LoadKeeps ==
  ASSUME CheckpointsInv, NEW a \in Agents, LoadForStep(a)
  PROVE  CheckpointsInv'
<1> USE CheckpointsAssumption
<1> DEFINE loaded == IF sessions[a].exists THEN sessions[a]
                     ELSE [Unstarted EXCEPT !.base = head, !.exists = TRUE]
           s == Migrated(loaded)
<1>1. CheckpointsTyped
  BY DEF CheckpointsInv
<1>2. loaded \in SessionStates /\ s \in SessionStates
  <2>1. head \in Commits /\ sessions[a] \in SessionStates
    BY <1>1 DEF CheckpointsTyped
  <2>2. [Unstarted EXCEPT !.base = head, !.exists = TRUE] \in SessionStates
    <3>1. Unstarted \in SessionStates
      BY DEF Unstarted, SessionStates
    <3>2. QED
      BY <2>1, <3>1 DEF SessionStates
  <2>3. loaded \in SessionStates
    BY <2>1, <2>2
  <2>4. QED
    BY <2>1, <2>3 DEF SessionStates, Migrated
<1>3. /\ steps' = [steps EXCEPT ![a] = [on |-> TRUE, state |-> s]]
      /\ sessions' = [sessions EXCEPT ![a] = s]
      /\ misplaced' = IF loaded.base = head \/ ~Shadow(loaded.base).on THEN misplaced
                      ELSE [misplaced EXCEPT ![head] = Shadow(loaded.base)]
      /\ passedBy' = IF hook.at \in {"made", "post"} /\ loaded.base # head THEN passedBy \cup {head} ELSE passedBy
      /\ UNCHANGED <<head, commits, unsaved, shadow, checkpoints, hook>>
  BY DEF LoadForStep
<1>4. loaded.base \in Commits /\ head \in Commits
  BY <1>1, <1>2 DEF SessionStates, CheckpointsTyped
<1> HIDE DEF s, loaded
<1>5. \A c \in Commits : Shadow(c) \in Branches
  BY <1>1 DEF CheckpointsTyped, Shadow
<1>6. misplaced' \in [Commits -> Branches] /\ \A c \in Commits : misplaced[c].on => misplaced'[c].on
  BY <1>1, <1>3, <1>4, <1>5 DEF CheckpointsTyped, Branches
<1>7. CheckpointsTyped'
  BY <1>1, <1>2, <1>3, <1>6 DEF CheckpointsTyped
<1>8. \A c \in Commits : Shadow(c).on => Shadow(c)'.on
  BY <1>1, <1>3, <1>6, <1>7, ShadowsStay
<1>9. StepsCurrent'
  BY <1>1, <1>3 DEF CheckpointsInv, CheckpointsTyped, StepsCurrent
<1>10. loaded.base = head => s = loaded
  BY <1>2 DEF s, Migrated, SessionStates
<1>11. ASSUME NEW b \in Agents, Recorded(sessions[b]), sessions[b].base = head \/ b # a
       PROVE  sessions'[b] = sessions[b]
  BY <1>1, <1>3, <1>10, <1>11 DEF CheckpointsTyped, Recorded, loaded
<1>12. ASSUME NEW b \in Agents, NEW p \in Commits, NEW tree, HasWork(sessions[b], p, tree),
              p = head \/ loaded.base = head \/ b # a
       PROVE  HasWork(sessions[b], p, tree)'
  <2>1. sessions'[b] = sessions[b]
    BY <1>11, <1>12, <1>1, <1>3, <1>10 DEF HasWork, loaded, CheckpointsTyped, Recorded
  <2>2. QED
    BY <1>12, <1>3, <1>8, <2>1 DEF HasWork, Recorded
<1>13. \A b \in Agents, p \in Commits : \A tree :
         HasWork(hook.seen[b], p, tree) => HasWork(hook.seen[b], p, tree)'
  BY <1>3, <1>8 DEF HasWork, Recorded
<1>14. Promised'
  <2>1. Promised /\ head \in 0..head /\ commits[head].parent \in Commits
    BY <1>1 DEF CheckpointsInv, CheckpointsTyped
  <2>2. hook.at = "made" /\ head \notin passedBy' => loaded.base = head
    BY <1>3
  <2>3. hook.at = "message" /\ hook.id # NoCheckpoint /\ ~hook.amend =>
          \E b \in Agents : HasWork(sessions[b], head, hook.files)'
    BY <2>1, <1>3, <1>4, <1>12 DEF Promised
  <2>4. hook.at = "made" /\ hook.id # NoCheckpoint /\ head \notin passedBy' =>
          \E b \in Agents : HasWork(sessions[b], commits[head].parent, commits[head].tree)'
    BY <2>1, <2>2, <1>3, <1>12 DEF Promised
  <2>5. hook.at = "post" /\ head \notin passedBy' =>
          \/ checkpoints[hook.id] # {}
          \/ \E b \in hook.list : HasWork(hook.seen[b], commits[head].parent, commits[head].tree)'
    <3>1. hook.list \subseteq Agents
      BY <1>1 DEF CheckpointsTyped
    <3>2. QED
      BY <3>1, <2>1, <1>3, <1>13 DEF Promised
  <2>6. QED
    BY <2>1, <2>3, <2>4, <2>5, <1>3 DEF Promised
<1>15. \A c \in 0..head' : Backed(c)' \/ (c = head' /\ hook.at' \in {"made", "post"})
  BY <1>3 DEF CheckpointsInv, Backed
<1>16. QED
  BY <1>7, <1>9, <1>14, <1>15 DEF CheckpointsInv

\* Every session saved by a step is the one it loaded, with more files in it.
LEMMA SaveKeeps ==
  ASSUME CheckpointsInv, NEW a \in Agents, SaveStep(a) \/ SaveTaskStep(a)
  PROVE  CheckpointsInv'
<1> USE CheckpointsAssumption
<1>1. CheckpointsTyped
  BY DEF CheckpointsInv
<1>2. PICK worked \in SUBSET Files, stepped \in BOOLEAN :
        /\ unsaved' = unsaved \cup worked
        /\ sessions' = [sessions EXCEPT ![a] =
             [steps[a].state EXCEPT !.stepped = stepped, !.files = @ \cup worked]]
        /\ stepped = steps[a].state.stepped \/ stepped
  <2>1. CASE SaveStep(a)
    BY <2>1 DEF SaveStep
  <2>2. CASE SaveTaskStep(a)
    <3>1. PICK worked \in SUBSET Files :
            /\ unsaved' = unsaved \cup worked
            /\ sessions' = [sessions EXCEPT ![a] = [steps[a].state EXCEPT !.files = @ \cup worked]]
      BY <2>2 DEF SaveTaskStep
    <3>2. steps[a].state \in SessionStates
      BY <1>1 DEF CheckpointsTyped
    <3>3. [steps[a].state EXCEPT !.files = @ \cup worked]
            = [steps[a].state EXCEPT !.stepped = steps[a].state.stepped, !.files = @ \cup worked]
      BY <3>2 DEF SessionStates
    <3>4. QED
      BY <3>1, <3>2, <3>3 DEF SessionStates
  <2>3. QED
    BY <2>1, <2>2
<1> DEFINE s == [steps[a].state EXCEPT !.stepped = stepped, !.files = @ \cup worked]
<1>3. /\ steps[a].on
      /\ shadow' = [shadow EXCEPT ![steps[a].state.base] = Branch(commits[head].tree)]
      /\ steps' = [steps EXCEPT ![a] = NoStep]
      /\ UNCHANGED <<head, commits, misplaced, checkpoints, hook, passedBy>>
  BY DEF SaveStep, SaveTaskStep, WriteTemporary
<1>40. steps[a].state \in SessionStates
  BY <1>1 DEF CheckpointsTyped
<1>4. /\ s \in SessionStates
      /\ s.base = steps[a].state.base /\ s.exists = steps[a].state.exists
      /\ steps[a].state.files \subseteq s.files
      /\ steps[a].state.stepped => s.stepped
  BY <1>40, <1>2 DEF SessionStates
<1>5. sessions' = [sessions EXCEPT ![a] = s]
  BY <1>2
<1> HIDE DEF s
<1>6. commits[head].tree \in SUBSET Files /\ steps[a].state.base \in Commits
  BY <1>1, HeadIsCommit DEF CheckpointsTyped, SessionStates
<1>7. shadow' \in [Commits -> Branches] /\ \A c \in Commits : shadow[c].on => shadow'[c].on
  BY <1>1, <1>3, <1>6 DEF CheckpointsTyped, Branches, Branch
<1>8. NoStep \in [on : BOOLEAN, state : SessionStates]
  BY DEF NoStep, Unstarted, SessionStates
<1>9. CheckpointsTyped'
  BY <1>1, <1>2, <1>3, <1>4, <1>5, <1>7, <1>8 DEF CheckpointsTyped
<1>10. \A c \in Commits : Shadow(c).on => Shadow(c)'.on
  BY <1>1, <1>3, <1>7, <1>9, ShadowsStay
<1>11. StepsCurrent'
  BY <1>1, <1>3, <1>5 DEF CheckpointsInv, CheckpointsTyped, StepsCurrent, NoStep
<1>12. ASSUME NEW b \in Agents, NEW p \in Commits, NEW tree, HasWork(sessions[b], p, tree)
       PROVE  HasWork(sessions[b], p, tree)'
  <2>1. CASE b # a
    BY <2>1, <1>1, <1>3, <1>5, <1>10, <1>12 DEF HasWork, Recorded, CheckpointsTyped
  <2>2. CASE b = a
    <3>1. sessions[a] = steps[a].state /\ sessions'[a] = s
      BY <2>2, <1>1, <1>3, <1>5, <1>12 DEF HasWork, Recorded, CheckpointsInv, StepsCurrent, CheckpointsTyped
    <3>2. QED
      BY <3>1, <2>2, <1>3, <1>4, <1>10, <1>12 DEF HasWork, Recorded
  <2>3. QED
    BY <2>1, <2>2
<1>13. \A b \in Agents, p \in Commits : \A tree :
         HasWork(hook.seen[b], p, tree) => HasWork(hook.seen[b], p, tree)'
  BY <1>3, <1>10 DEF HasWork, Recorded
<1>14. Promised'
  BY <1>1, <1>3, <1>12, <1>13, PromiseStays
<1>15. QED
  BY <1>9, <1>11, <1>14, <1>3 DEF CheckpointsInv, Backed

LEMMA FailKeeps ==
  ASSUME CheckpointsInv, NEW a \in Agents, StepFails(a)
  PROVE  CheckpointsInv'
<1> USE CheckpointsAssumption
<1>1. /\ unsaved' \in SUBSET Files /\ steps' = [steps EXCEPT ![a] = NoStep]
      /\ UNCHANGED <<head, commits, sessions, shadow, misplaced, checkpoints, stepsRun, hook, passedBy>>
  BY DEF StepFails, CheckpointsInv, CheckpointsTyped
<1>2. NoStep \in [on : BOOLEAN, state : SessionStates]
  BY DEF NoStep, Unstarted, SessionStates
<1>3. CheckpointsTyped'
  BY <1>1, <1>2 DEF CheckpointsInv, CheckpointsTyped
<1>4. StepsCurrent'
  BY <1>1 DEF CheckpointsInv, CheckpointsTyped, StepsCurrent, NoStep
<1>5. QED
  BY <1>1, <1>3, <1>4 DEF CheckpointsInv, Promised, Backed, HasWork, Recorded, Shadow

\* Before it moves, HEAD's files are those of the sessions the message was for.
LEMMA PrepareKeeps ==
  ASSUME CheckpointsInv, NEW staged \in SUBSET unsaved, NEW amend \in BOOLEAN,
         PrepareCommitMsg(staged, amend)
  PROVE  CheckpointsInv'
<1> USE CheckpointsAssumption
<1> DEFINE base == {a \in Agents : /\ Recorded(sessions[a]) /\ sessions[a].base = head
                                   /\ StagedOverlap(sessions[a], staged)}
<1>0. CheckpointsTyped
  BY DEF CheckpointsInv
<1>1. head \in 0..head /\ head \in Commits /\ commits[head].id \in 0..MaxCommits
  BY <1>0, HeadIsCommit
<1>2. NextCommit = head + 1 /\ head < MaxCommits /\ hook.at = "idle"
      /\ UNCHANGED <<head, commits, unsaved, sessions, shadow, misplaced, checkpoints, steps, passedBy>>
  <2>1. NextCommit <= MaxCommits /\ hook.at = "idle"
        /\ UNCHANGED <<head, commits, unsaved, sessions, shadow, misplaced, checkpoints, steps, passedBy>>
    BY DEF PrepareCommitMsg
  <2>2. NextCommit = head + 1
    BY <1>0, NextCommitNumber
  <2>3. QED
    BY <1>1, <2>1, <2>2
<1>3. PICK id \in 0..MaxCommits :
        /\ hook' = [NoHooks EXCEPT !.at = "message", !.files = staged, !.id = id, !.amend = amend]
        /\ amend \/ id = NoCheckpoint \/ base # {}
  <2>1. NextCommit \in 0..MaxCommits
    BY <1>1, <1>2
  <2>2. \A a \in Agents : sessions[a].last \in 0..MaxCommits
    BY <1>0 DEF CheckpointsTyped, SessionStates
  <2> DEFINE Set(id) == hook' = [NoHooks EXCEPT !.at = "message", !.files = staged, !.id = id, !.amend = amend]
  <2>3. \/ amend /\ Set(commits[head].id)
        \/ base = {} /\ Set(NoCheckpoint)
        \/ \E a \in base : Set(IF sessions[a].last # NoCheckpoint THEN sessions[a].last ELSE NextCommit)
    BY DEF PrepareCommitMsg
  <2> HIDE DEF Set
  <2>4. PICK id \in 0..MaxCommits : Set(id) /\ (amend \/ id = NoCheckpoint \/ base # {})
    <3>1. CASE amend /\ Set(commits[head].id)
      BY <3>1, <1>1
    <3>2. CASE base = {} /\ Set(NoCheckpoint)
      BY <3>2
    <3>3. CASE \E a \in base : Set(IF sessions[a].last # NoCheckpoint THEN sessions[a].last ELSE NextCommit)
      BY <3>3, <2>1, <2>2
    <3>4. QED
      BY <2>3, <3>1, <3>2, <3>3
  <2>5. QED
    BY <2>4 DEF Set
<1>4. hook' = [at |-> "message", files |-> staged, id |-> id, amend |-> amend, list |-> {}, seen |-> << >>]
  BY <1>3 DEF NoHooks
<1>5. CheckpointsTyped'
  BY <1>0, <1>1, <1>2, <1>4 DEF CheckpointsTyped
<1>6. ASSUME NEW b \in base PROVE HasWork(sessions[b], head, staged)'
  BY <1>2 DEF HasWork, StagedOverlap, Recorded, Shadow
<1>7. Promised'
  BY <1>2, <1>3, <1>4, <1>6 DEF Promised
<1>8. QED
  BY <1>2, <1>5, <1>7 DEF CheckpointsInv, StepsCurrent, Backed

\* The commit has the files that were staged beside those of its parent.
LEMMA MakeCommitKeeps ==
  ASSUME CheckpointsInv, MakeCommit
  PROVE  CheckpointsInv'
<1> USE CheckpointsAssumption
<1> DEFINE parent == IF hook.amend THEN commits[head].parent ELSE head
           new == [parent |-> parent, tree |-> commits[head].tree \cup hook.files, id |-> hook.id]
<1>0. CheckpointsTyped
  BY DEF CheckpointsInv
<1>1. /\ head \in Nat /\ head \in 0..head /\ head \in Commits /\ parent \in 0..head
      /\ commits[head].tree \in SUBSET Files /\ DOMAIN commits = 0..head
  BY <1>0, HeadIsCommit DEF CheckpointsTyped
<1>2. hook.at = "message" /\ NextCommit = head + 1 /\ head + 1 \in Commits
  BY <1>0, <1>1, NextCommitNumber DEF MakeCommit, CheckpointsTyped
<1>3. /\ commits' = [c \in 0..(head + 1) |-> IF c # head + 1 THEN commits[c] ELSE new]
      /\ head' = head + 1
  <2>1. DOMAIN commits \cup {NextCommit} = 0..(head + 1)
    BY <1>1, <1>2
  <2>2. QED
    BY <1>2, <2>1 DEF MakeCommit
<1>4. /\ passedBy' = IF hook.amend THEN passedBy \cup {head + 1} ELSE passedBy
      /\ hook' = [hook EXCEPT !.at = "made"]
      /\ UNCHANGED <<sessions, shadow, misplaced, checkpoints, steps>>
  BY <1>2 DEF MakeCommit
<1>5. unsaved' \in SUBSET Files
  BY <1>0 DEF MakeCommit, CheckpointsTyped
<1>6. hook.id \in 0..MaxCommits /\ hook.files \in SUBSET Files
  BY <1>0 DEF CheckpointsTyped
<1>7. commits' \in [0..(head + 1) -> [parent : 0..(head + 1), tree : SUBSET Files, id : 0..MaxCommits]]
  <2>1. \A c \in 0..head : commits[c] \in [parent : 0..(head + 1), tree : SUBSET Files, id : 0..MaxCommits]
    <3>1. \A c \in 0..head : commits[c] \in [parent : 0..head, tree : SUBSET Files, id : 0..MaxCommits]
      BY <1>0 DEF CheckpointsTyped
    <3>2. 0..head \subseteq 0..(head + 1)
      BY <1>1
    <3>3. QED
      BY <3>1, <3>2
  <2>2. new \in [parent : 0..(head + 1), tree : SUBSET Files, id : 0..MaxCommits]
    BY <1>1, <1>6
  <2> HIDE DEF new
  <2>3. QED
    BY <1>1, <1>3, <2>1, <2>2
<1>8. commits'[head + 1] = new /\ \A c \in 0..head : commits'[c] = commits[c]
  BY <1>1, <1>3
<1>9. hook'.at = "made" /\ hook'.id = hook.id /\ hook'.amend = hook.amend /\ hook'.list = hook.list /\ hook'.seen = hook.seen
      /\ hook'.files = hook.files
  BY <1>0, <1>4 DEF CheckpointsTyped
<1>10. CheckpointsTyped'
  BY <1>0, <1>2, <1>3, <1>4, <1>5, <1>7, <1>9 DEF CheckpointsTyped
<1>11. Promised'
  <2> SUFFICES ASSUME hook.id # NoCheckpoint, head + 1 \notin passedBy'
               PROVE  \E a \in Agents : HasWork(sessions[a], commits[head].parent, commits[head].tree)'
    <3>1. commits'[head'].id = hook'.id
      BY <1>3, <1>8, <1>9
    <3>2. QED
      BY <3>1, <1>3, <1>9 DEF Promised
  <2>1. ~hook.amend /\ parent = head
    BY <1>4
  <2>2. PICK a \in Agents : HasWork(sessions[a], head, hook.files)
    BY <1>2, <2>1 DEF CheckpointsInv, Promised
  <2>3. /\ sessions'[a].base = head /\ Recorded(sessions[a])'
        /\ sessions[a].files \cap hook.files \cap commits[head].tree # {}
    BY <1>4, <2>2 DEF HasWork, Recorded, Shadow
  <2>4. /\ commits'[head'].parent = head /\ commits'[head'].tree = commits[head].tree \cup hook.files
        /\ commits'[head] = commits[head]
    BY <1>1, <1>3, <1>8, <2>1
  <2>5. sessions[a].files \cap commits'[head'].tree \cap commits'[head].tree # {}
    BY <2>3, <2>4
  <2>6. HasWork(sessions[a], commits[head].parent, commits[head].tree)'
    BY <1>4, <2>3, <2>4, <2>5 DEF HasWork
  <2>7. QED
    BY <2>6
<1>12. \A c \in 0..head' : Backed(c)' \/ (c = head' /\ hook'.at \in {"made", "post"})
  <2>1. \A c \in 0..head : Backed(c) => Backed(c)'
    BY <1>4, <1>8 DEF Backed
  <2>2. \A c \in 0..head : Backed(c)
    BY <1>2 DEF CheckpointsInv
  <2>3. \A c \in 0..head' : c \in 0..head \/ c = head'
    BY <1>1, <1>3
  <2>4. QED
    BY <2>1, <2>2, <2>3, <1>9
<1>13. QED
  BY <1>4, <1>10, <1>11, <1>12 DEF CheckpointsInv, StepsCurrent

LEMMA PullKeeps ==
  ASSUME CheckpointsInv, Pull
  PROVE  CheckpointsInv'
<1> USE CheckpointsAssumption
<1> DEFINE new == [commits[head] EXCEPT !.parent = head, !.id = NoCheckpoint]
<1>0. CheckpointsTyped
  BY DEF CheckpointsInv
<1>1. /\ head \in Nat /\ head \in 0..head /\ head \in Commits
      /\ commits[head] \in [parent : 0..head, tree : SUBSET Files, id : 0..MaxCommits]
      /\ DOMAIN commits = 0..head
  BY <1>0, HeadIsCommit DEF CheckpointsTyped
<1>2. hook.at = "idle" /\ NextCommit = head + 1 /\ head + 1 \in Commits
  BY <1>0, <1>1, NextCommitNumber DEF Pull
<1>3. /\ commits' = [c \in 0..(head + 1) |-> IF c # head + 1 THEN commits[c] ELSE new]
      /\ head' = head + 1
  <2>1. DOMAIN commits \cup {NextCommit} = 0..(head + 1)
    BY <1>1, <1>2
  <2>2. QED
    BY <1>2, <2>1 DEF Pull
<1>4. UNCHANGED <<unsaved, sessions, shadow, misplaced, checkpoints, steps, hook, passedBy>>
  BY DEF Pull
<1>5. new \in [parent : 0..(head + 1), tree : SUBSET Files, id : 0..MaxCommits] /\ new.id = NoCheckpoint
  <2>1. new \in [parent : 0..head, tree : SUBSET Files, id : 0..MaxCommits] /\ new.id = NoCheckpoint
    <3>1. 0 \in 0..MaxCommits
      OBVIOUS
    <3> DEFINE R == [parent : 0..head, tree : SUBSET Files, id : 0..MaxCommits]
    <3>2. \A r \in R, p \in 0..head, i \in 0..MaxCommits :
            [r EXCEPT !.parent = p, !.id = i] \in R /\ [r EXCEPT !.parent = p, !.id = i].id = i
      OBVIOUS
    <3>3. QED
      BY <1>1, <3>1, <3>2
  <2>2. 0..head \subseteq 0..(head + 1)
    BY <1>1
  <2> HIDE DEF new
  <2>3. QED
    BY <2>1, <2>2
<1>6. commits' \in [0..(head + 1) -> [parent : 0..(head + 1), tree : SUBSET Files, id : 0..MaxCommits]]
  <2>1. \A c \in 0..head : commits[c] \in [parent : 0..(head + 1), tree : SUBSET Files, id : 0..MaxCommits]
    <3>1. \A c \in 0..head : commits[c] \in [parent : 0..head, tree : SUBSET Files, id : 0..MaxCommits]
      BY <1>0 DEF CheckpointsTyped
    <3>2. 0..head \subseteq 0..(head + 1)
      BY <1>1
    <3>3. QED
      BY <3>1, <3>2
  <2> HIDE DEF new
  <2>2. QED
    BY <1>1, <1>3, <1>5, <2>1
<1>7. commits'[head + 1] = new /\ \A c \in 0..head : commits'[c] = commits[c]
  BY <1>1, <1>3
<1>8. CheckpointsTyped'
  BY <1>0, <1>2, <1>3, <1>4, <1>6 DEF CheckpointsTyped
<1>9. \A c \in 0..head' : Backed(c)'
  <2> SUFFICES ASSUME NEW c \in 0..(head + 1) PROVE Backed(c)'
    BY <1>3
  <2>1. CASE c = head + 1
    <3>1. commits'[c].id = NoCheckpoint
      BY <1>5, <1>7, <2>1
    <3>2. QED
      BY <3>1 DEF Backed
  <2>2. CASE c \in 0..head
    <3>1. Backed(c)
      BY <1>2, <2>2 DEF CheckpointsInv
    <3>2. commits'[c] = commits[c]
      BY <1>7, <2>2
    <3>3. QED
      BY <1>4, <3>1, <3>2 DEF Backed
  <2>3. c = head + 1 \/ c \in 0..head
    BY <1>1
  <2>4. QED
    BY <2>1, <2>2, <2>3
<1>10. QED
  BY <1>2, <1>4, <1>8, <1>9 DEF CheckpointsInv, StepsCurrent, Promised

\* The sessions on the parent are listed with what they had to show.
LEMMA PostCommitKeeps ==
  ASSUME CheckpointsInv, PostCommit
  PROVE  CheckpointsInv'
<1> USE CheckpointsAssumption
<1> DEFINE list == {a \in Agents : sessions[a].exists /\ sessions[a].base = commits[head].parent}
<1>0. CheckpointsTyped /\ Promised
  BY DEF CheckpointsInv
<1>1. /\ hook.at = "made" /\ UNCHANGED <<head, commits, unsaved, sessions, shadow, misplaced, checkpoints, steps, passedBy>>
      /\ hook' = IF hook.id = NoCheckpoint \/ list = {} THEN NoHooks
                 ELSE [hook EXCEPT !.at = "post", !.list = list, !.seen = sessions]
  BY DEF PostCommit
<1>2. head \in 0..head /\ commits[head].id = hook.id
  BY <1>0, <1>1, HeadIsCommit DEF Promised
<1>3. ASSUME NEW a \in Agents, HasWork(sessions[a], commits[head].parent, commits[head].tree)
      PROVE  a \in list
  BY <1>3 DEF HasWork, Recorded
<1>4. sessions \in [Agents -> SessionStates] /\ list \in SUBSET Agents
  BY <1>0 DEF CheckpointsTyped
<1> HIDE DEF list
<1>5. CASE hook.id = NoCheckpoint \/ list = {}
  <2>1. hook' = NoHooks
    BY <1>1, <1>5
  <2>2. CheckpointsTyped'
    <3>1. hook' \in [at : {"idle", "message", "made", "post"}, files : SUBSET Files, id : 0..MaxCommits,
                     amend : BOOLEAN, list : SUBSET Agents, seen : [Agents -> SessionStates] \cup {<< >>}]
          /\ hook'.at = "idle"
      BY <2>1 DEF NoHooks
    <3>2. QED
      BY <1>0, <1>1, <3>1 DEF CheckpointsTyped
  <2>3. Backed(head)
    BY <1>0, <1>1, <1>2, <1>3, <1>5 DEF Promised, Backed
  <2>4. QED
    BY <1>1, <2>1, <2>2, <2>3 DEF CheckpointsInv, StepsCurrent, Promised, Backed, NoHooks
<1>6. CASE hook.id # NoCheckpoint /\ list # {}
  <2>1. /\ hook' \in [at : {"idle", "message", "made", "post"}, files : SUBSET Files, id : 0..MaxCommits,
                      amend : BOOLEAN, list : SUBSET Agents, seen : [Agents -> SessionStates] \cup {<< >>}]
        /\ hook'.at = "post" /\ hook'.id = hook.id /\ hook'.list = list /\ hook'.seen = sessions
    BY <1>0, <1>1, <1>4, <1>6 DEF CheckpointsTyped
  <2>2. CheckpointsTyped'
    BY <1>0, <1>1, <1>4, <2>1 DEF CheckpointsTyped
  <2>3. ASSUME head \notin passedBy
        PROVE  \E a \in list : HasWork(hook'.seen[a], commits[head].parent, commits[head].tree)
    BY <1>0, <1>1, <1>3, <1>6, <2>1, <2>3 DEF Promised
  <2>4. Promised'
    BY <1>1, <1>2, <1>6, <2>1, <2>3 DEF Promised, HasWork, Recorded, Shadow
  <2>5. QED
    BY <1>1, <2>1, <2>2, <2>4 DEF CheckpointsInv, StepsCurrent, Backed
<1>7. QED
  BY <1>5, <1>6

\* NextSession(): the last session listed ends the hooks.
LEMMA NextSessionType ==
  ASSUME CheckpointsTyped, hook.at = "post", NEW a \in Agents, NextSession(a)
  PROVE  /\ hook' \in [at : {"idle", "message", "made", "post"}, files : SUBSET Files, id : 0..MaxCommits,
                       amend : BOOLEAN, list : SUBSET Agents, seen : [Agents -> SessionStates] \cup {<< >>}]
         /\ \/ hook'.at = "idle" /\ hook.list = {a}
            \/ /\ hook'.at = "post" /\ hook'.id = hook.id /\ hook'.seen = hook.seen
               /\ hook'.list = hook.list \ {a}
         /\ hook'.at = "post" => hook'.seen \in [Agents -> SessionStates]
<1> USE CheckpointsAssumption
<1>1. CASE hook.list = {a}
  BY <1>1 DEF NextSession, NoHooks
<1>2. CASE hook.list # {a}
  BY <1>2 DEF NextSession, CheckpointsTyped
<1>3. QED
  BY <1>1, <1>2

LEMMA CondenseKeeps ==
  ASSUME CheckpointsInv, NEW a \in Agents, Condense(a)
  PROVE  CheckpointsInv'
<1> USE CheckpointsAssumption
<1> DEFINE s == hook.seen[a]
<1>0. CheckpointsTyped /\ Promised /\ hook.at = "post" /\ hook.id # NoCheckpoint /\ commits[head].id = hook.id
  BY DEF CheckpointsInv, Promised, Condense
<1>1. s \in SessionStates /\ hook.id \in CheckpointIDs /\ head \in 0..head /\ head \in Commits
  BY <1>0, HeadIsCommit DEF CheckpointsTyped
<1>2. /\ NextSession(a) /\ UNCHANGED <<head, commits, unsaved, misplaced, steps>>
      /\ \/ checkpoints' = [checkpoints EXCEPT ![hook.id] = {a}] /\ passedBy' = passedBy
         \/ passedBy' = passedBy \cup {head} /\ checkpoints' = checkpoints
  BY DEF Condense
<1>3. PICK remaining \in SUBSET Files :
        /\ shadow' = IF remaining # {} THEN shadow ELSE [shadow EXCEPT ![s.base] = NoBranch]
        /\ sessions' = [sessions EXCEPT ![a] =
             [s EXCEPT !.base = head, !.stepped = FALSE, !.files = remaining, !.last = hook.id]]
  <2>1. Remaining(s) \subseteq SUBSET Files
    BY <1>1 DEF Remaining, SessionStates
  <2>2. QED
    BY <2>1 DEF Condense
<1> DEFINE n == [s EXCEPT !.base = head, !.stepped = FALSE, !.files = remaining, !.last = hook.id]
<1>4. n \in SessionStates /\ ~n.stepped
  <2>1. \A t \in SessionStates, b \in Commits, f \in SUBSET Files, l \in 0..MaxCommits :
          LET m == [t EXCEPT !.base = b, !.stepped = FALSE, !.files = f, !.last = l]
          IN  m \in SessionStates /\ ~m.stepped
    BY DEF SessionStates
  <2>2. hook.id \in 0..MaxCommits
    BY <1>1
  <2>3. QED
    BY <1>1, <2>1, <2>2
<1>5. shadow' \in [Commits -> Branches]
  BY <1>0, <1>1, <1>3 DEF CheckpointsTyped, SessionStates, Branches, NoBranch
<1>6. checkpoints' \in [CheckpointIDs -> SUBSET Agents]
      /\ \A id \in CheckpointIDs : checkpoints[id] # {} => checkpoints'[id] # {}
  <2>1. checkpoints \in [CheckpointIDs -> SUBSET Agents] /\ {a} \in SUBSET Agents
    BY <1>0 DEF CheckpointsTyped
  <2>2. QED
    BY <1>1, <1>2, <2>1
<1> HIDE DEF n, s
<1>7. sessions' = [sessions EXCEPT ![a] = n]
  BY <1>3 DEF n, s
<1>8. CheckpointsTyped'
  BY <1>0, <1>2, <1>4, <1>5, <1>6, <1>7, NextSessionType DEF CheckpointsTyped
<1>9. StepsCurrent'
  BY <1>0, <1>2, <1>4, <1>7 DEF CheckpointsInv, CheckpointsTyped, StepsCurrent
<1>10. head \in passedBy' \/ checkpoints'[hook.id] # {}
  <2>1. checkpoints \in [CheckpointIDs -> SUBSET Agents]
    BY <1>0 DEF CheckpointsTyped
  <2>2. QED
    BY <1>1, <1>2, <2>1
<1>11. Promised'
  BY <1>0, <1>2, <1>10, NextSessionType DEF Promised
<1>12. \A c \in 0..head : commits[c].id \in 0..MaxCommits
  BY <1>0 DEF CheckpointsTyped
<1>13. \A c \in 0..head : Backed(c) \/ c = head
  BY DEF CheckpointsInv
<1>14. \A c \in 0..head' : Backed(c)'
  BY <1>0, <1>2, <1>6, <1>10, <1>12, <1>13 DEF Backed
<1>15. QED
  BY <1>8, <1>9, <1>11, <1>14 DEF CheckpointsInv

\* A session passed over is none of those the promise rests on.
LEMMA PassOverKeeps ==
  ASSUME CheckpointsInv, NEW a \in Agents, PassOver(a)
  PROVE  CheckpointsInv'
<1> USE CheckpointsAssumption
<1>0. CheckpointsTyped /\ Promised /\ hook.at = "post" /\ hook.id # NoCheckpoint /\ commits[head].id = hook.id
  BY DEF CheckpointsInv, Promised, PassOver
<1>1. /\ NextSession(a)
      /\ UNCHANGED <<head, commits, unsaved, sessions, shadow, misplaced, checkpoints, steps, passedBy>>
      /\ ~(Recorded(hook.seen[a]) /\ CommittedOverlap(hook.seen[a], commits[head].parent))
  BY DEF PassOver
<1>2. ~HasWork(hook.seen[a], commits[head].parent, commits[head].tree)
  BY <1>1 DEF HasWork, CommittedOverlap
<1>3. CheckpointsTyped'
  BY <1>0, <1>1, NextSessionType DEF CheckpointsTyped
<1>4. \/ head \in passedBy \/ checkpoints[hook.id] # {}
      \/ \E b \in hook.list \ {a} : HasWork(hook.seen[b], commits[head].parent, commits[head].tree)
  BY <1>0, <1>2 DEF Promised
<1>5. CASE hook'.at = "idle" /\ hook.list = {a}
  BY <1>0, <1>1, <1>3, <1>4, <1>5 DEF CheckpointsInv, StepsCurrent, Promised, Backed
<1>6. CASE hook'.at = "post" /\ hook'.id = hook.id /\ hook'.seen = hook.seen /\ hook'.list = hook.list \ {a}
  <2>1. \A b \in hook.list :
          HasWork(hook.seen[b], commits[head].parent, commits[head].tree)
            => HasWork(hook.seen[b], commits[head].parent, commits[head].tree)'
    BY <1>1, <1>6 DEF HasWork, Recorded, Shadow
  <2>2. head \notin passedBy =>
          \/ checkpoints[hook.id] # {}
          \/ \E b \in hook'.list : HasWork(hook.seen[b], commits[head].parent, commits[head].tree)'
    BY <1>4, <1>6, <2>1
  <2>3. Promised'
    BY <1>0, <1>1, <1>6, <2>2 DEF Promised
  <2>4. QED
    BY <1>0, <1>1, <1>3, <1>6, <2>3 DEF CheckpointsInv, StepsCurrent, Backed
<1>7. QED
  BY <1>0, <1>1, <1>5, <1>6, NextSessionType

LEMMA CheckpointsStep == CheckpointsInv /\ [CheckpointsNext]_checkpointVars => CheckpointsInv'
<1> SUFFICES ASSUME CheckpointsInv, [CheckpointsNext]_checkpointVars PROVE CheckpointsInv'
  OBVIOUS
<1>1. ASSUME NEW a \in Agents,
             LoadForStep(a) \/ SaveStep(a) \/ SaveTaskStep(a) \/ StepFails(a) \/ Condense(a) \/ PassOver(a)
      PROVE  CheckpointsInv'
  BY <1>1, LoadKeeps, SaveKeeps, FailKeeps, CondenseKeeps, PassOverKeeps
<1>2. ASSUME NEW staged \in SUBSET unsaved, NEW amend \in BOOLEAN, PrepareCommitMsg(staged, amend)
      PROVE  CheckpointsInv'
  BY <1>2, PrepareKeeps
<1>3. CASE MakeCommit \/ PostCommit \/ Pull
  BY <1>3, MakeCommitKeeps, PostCommitKeeps, PullKeeps
<1>4. CASE UNCHANGED checkpointVars
  <2>1. UNCHANGED <<head, commits, unsaved, sessions, shadow, misplaced, checkpoints, steps, hook, passedBy>>
    BY <1>4 DEF checkpointVars
  <2>2. CheckpointsTyped'
    BY <2>1 DEF CheckpointsInv, CheckpointsTyped
  <2>3. StepsCurrent'
    BY <2>1 DEF CheckpointsInv, StepsCurrent
  <2>4. \A s, parent, tree : HasWork(s, parent, tree) <=> HasWork(s, parent, tree)'
    BY <2>1 DEF HasWork, Recorded, Shadow
  <2>5. Promised'
    BY <2>1, <2>4 DEF CheckpointsInv, Promised
  <2>6. \A c \in 0..head : Backed(c) <=> Backed(c)'
    BY <2>1 DEF Backed
  <2>7. QED
    BY <2>1, <2>2, <2>3, <2>5, <2>6 DEF CheckpointsInv
<1>5. QED
  BY <1>1, <1>2, <1>3, <1>4 DEF CheckpointsNext

\* Once its hooks are done, the checkpoint the message of a commit names exists, for
\* any sessions, steps saved meanwhile and other commits, but for the commits that are
\* amends, whose checkpoint could not be written, or that a step overtook:
\* prepareCommitMsg() and postCommit() of manual-commit.ts.
THEOREM TrailersAreBacked == CheckpointsSpec => []TrailersBacked
<1>1. CheckpointsInv => TrailersBacked
  <2> SUFFICES ASSUME CheckpointsInv, hook.at = "idle", NEW c \in DOMAIN commits \ passedBy,
                      commits[c].id # NoCheckpoint
               PROVE  checkpoints[commits[c].id] # {}
    BY DEF TrailersBacked
  <2>1. c \in 0..head
    BY DEF CheckpointsInv, CheckpointsTyped
  <2>2. QED
    BY <2>1 DEF CheckpointsInv, Backed
<1>2. QED
  BY <1>1, CheckpointsInit0, CheckpointsStep, PTL DEF CheckpointsSpec
=============================================================================
