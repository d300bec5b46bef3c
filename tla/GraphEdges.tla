----------------------------- MODULE GraphEdges -----------------------------
(***************************************************************************)
(* The edges of the graph (src/graph/store.ts): in SQLite, where blocks    *)
(* edges are kept acyclic, and in graph.jsonl, through flushes, reloads,   *)
(* pulls and restarts.  When a flush starts, FlushPipeline says; here one  *)
(* may start whenever something is marked.                                 *)
(***************************************************************************)
EXTENDS Naturals, FiniteSets

CONSTANTS
  Nodes,     \* nodes that may block each other
  MaxEdges,  \* bound on the edges ever made
  Faults     \* what may happen besides the making of edges, of AllFaults

AllFaults == {"delete", "deleteNode", "reload", "pull", "restart", "rebuild"}

ASSUME EdgesAssumption == MaxEdges \in Nat /\ Faults \subseteq AllFaults

Edge == [id : 1..MaxEdges, from : Nodes, to : Nodes]

VARIABLES
  nodes,     \* rows of SQLite's nodes table
  edges,     \* rows of SQLite's edges table
  nodeLines, \* nodes of graph.jsonl
  edgeLines, \* edges of graph.jsonl
  pending,   \* SyncManager: pendingDirtyNodes
  rows,      \* the dirty_nodes table
  job,       \* the flush under way, and what it will write
  peers,     \* edges the other machines have
  made,      \* how many edges were made
  checked,   \* history: edges detectCycle let in, in SQLite ever since
  fresh      \* history: edges this process made

history == <<checked, fresh>>
vars == <<nodes, edges, nodeLines, edgeLines, pending, rows, job, peers, made, history>>

Idle == [phase |-> "idle", ids |-> {}, nodes |-> {}, edges |-> {}]

TypeOK ==
  /\ nodes \subseteq Nodes /\ nodeLines \subseteq Nodes
  /\ edges \subseteq Edge /\ edgeLines \subseteq Edge /\ peers \subseteq Edge
  /\ pending \subseteq Nodes /\ rows \subseteq Nodes
  /\ job \in [phase : {"idle", "loading", "saving"}, ids : SUBSET Nodes,
              nodes : SUBSET Nodes, edges : SUBSET Edge]
  /\ made \in 0..MaxEdges
  /\ checked \subseteq edges /\ fresh \subseteq Edge

Init ==
  /\ nodes = Nodes /\ nodeLines = Nodes
  /\ edges = {} /\ edgeLines = {} /\ peers = {}
  /\ pending = {} /\ rows = {} /\ job = Idle
  /\ made = 0
  /\ checked = {} /\ fresh = {}

-----------------------------------------------------------------------------
(* Cycles.                                                                 *)

\* A set of nodes that no edge of E leaves.
Closed(S, E) == \A e \in E : e.from \in S => e.to \in S

\* What the depth-first search from x finds: y is in every closed set x is in.
Reaches(E, x, y) == \A S \in SUBSET Nodes : x \in S /\ Closed(S, E) => y \in S

\* Mutation: the search starts at the wrong end.
CycleBackwards(E, a, b) == Reaches(E, a, b)

\* detectCycle: the edge from a to b would close a cycle.
HasCycle(E, a, b) == Reaches(E, b, a)

Touching(ids) == {e \in edges : e.from \in ids \/ e.to \in ids}

-----------------------------------------------------------------------------
(* The operations.                                                         *)

NewEdge(a, b) == [id |-> made + 1, from |-> a, to |-> b]

\* Mutation: the new edge marks neither of its nodes.
CreateEdgeUnmarked(a, b) ==
  /\ made < MaxEdges /\ {a, b} \subseteq nodes
  /\ ~HasCycle(edges, a, b)
  /\ made' = made + 1
  /\ edges' = edges \cup {NewEdge(a, b)}
  /\ checked' = checked \cup {NewEdge(a, b)} /\ fresh' = fresh \cup {NewEdge(a, b)}
  /\ UNCHANGED <<nodes, nodeLines, edgeLines, pending, rows, job, peers>>

CreateEdge(a, b) ==
  /\ made < MaxEdges /\ {a, b} \subseteq nodes
  /\ ~HasCycle(edges, a, b)
  /\ made' = made + 1
  /\ edges' = edges \cup {NewEdge(a, b)}
  /\ checked' = checked \cup {NewEdge(a, b)} /\ fresh' = fresh \cup {NewEdge(a, b)}
  /\ pending' = pending \cup {a, b}
  /\ UNCHANGED <<nodes, nodeLines, edgeLines, rows, job, peers>>

\* What left SQLite is checked no more, though it may come back.
Removed == checked' = checked \cap edges' /\ fresh' = fresh

DeleteEdge(e) ==
  /\ "delete" \in Faults /\ e \in edges
  /\ edges' = edges \ {e} /\ Removed
  /\ pending' = pending \cup {e.from, e.to}
  /\ UNCHANGED <<nodes, nodeLines, edgeLines, rows, job, peers, made>>

\* Mutation: the node is marked by a tombstone's name.
DeleteNodeTombstone(n) ==
  /\ "deleteNode" \in Faults /\ n \in nodes
  /\ nodes' = nodes \ {n}
  /\ edges' = edges \ Touching({n}) /\ Removed
  /\ pending' = pending \cup {"__deleted__"}
  /\ UNCHANGED <<nodeLines, edgeLines, rows, job, peers, made>>

\* A hard delete takes the node's edges along; only the node is marked.
DeleteNode(n) ==
  /\ "deleteNode" \in Faults /\ n \in nodes
  /\ nodes' = nodes \ {n}
  /\ edges' = edges \ Touching({n}) /\ Removed
  /\ pending' = pending \cup {n}
  /\ UNCHANGED <<nodeLines, edgeLines, rows, job, peers, made>>

-----------------------------------------------------------------------------
(* The flush.                                                              *)

FlushStarts ==
  /\ job.phase = "idle" /\ pending # {}
  /\ rows' = rows \cup pending
  /\ pending' = {}
  /\ job' = [Idle EXCEPT !.phase = "loading", !.ids = rows']
  /\ UNCHANGED <<nodes, edges, nodeLines, edgeLines, peers, made, history>>

\* Marked nodes are taken from SQLite; their edges there are added to the
\* file's.
FlushLoaded ==
  /\ job.phase = "loading"
  /\ job' = [job EXCEPT !.phase = "saving",
                        !.nodes = (nodeLines \ job.ids) \cup (nodes \cap job.ids),
                        !.edges = edgeLines \cup Touching(job.ids)]
  /\ UNCHANGED <<nodes, edges, nodeLines, edgeLines, pending, rows, peers, made, history>>

FlushSaved ==
  /\ job.phase = "saving"
  /\ nodeLines' = job.nodes /\ edgeLines' = job.edges
  /\ rows' = rows \ job.ids
  /\ job' = Idle
  /\ UNCHANGED <<nodes, edges, pending, peers, made, history>>

-----------------------------------------------------------------------------
(* What graph.jsonl does to SQLite.                                        *)

\* reload(): the nodes of the file, its edges, and edges that hang on no node
\* SQLite had, which the search for stale edges does not come by.
Reload ==
  /\ "reload" \in Faults
  /\ nodes' = nodeLines
  /\ edges' = edgeLines \cup (edges \ Touching(nodes)) /\ Removed
  /\ UNCHANGED <<nodeLines, edgeLines, pending, rows, job, peers, made>>

\* The next process finds the cache as it was; initialize() adds the file's.
Restart ==
  /\ "restart" \in Faults
  /\ nodes' = nodes \cup nodeLines
  /\ edges' = edges \cup edgeLines
  /\ checked' = checked /\ fresh' = {}
  /\ pending' = {} /\ job' = Idle
  /\ UNCHANGED <<nodeLines, edgeLines, rows, peers, made>>

\* The next process finds no cache.
Rebuild ==
  /\ "rebuild" \in Faults
  /\ nodes' = nodeLines
  /\ edges' = edgeLines
  /\ checked' = checked \cap edges' /\ fresh' = {}
  /\ pending' = {} /\ rows' = {} /\ job' = Idle
  /\ UNCHANGED <<nodeLines, edgeLines, peers, made>>

\* Another machine makes an edge, with what it has got of ours.
PeerCreates(a, b) ==
  /\ "pull" \in Faults
  /\ made < MaxEdges
  /\ ~HasCycle(peers, a, b)
  /\ made' = made + 1
  /\ peers' = peers \cup {NewEdge(a, b)}
  /\ UNCHANGED <<nodes, edges, nodeLines, edgeLines, pending, rows, job, history>>

\* sync.now, with nothing left to flush: the merge driver keeps the edges of
\* both sides, the reload follows, and the other machine gets the result.
Sync ==
  /\ "pull" \in Faults
  /\ pending = {} /\ job.phase = "idle"
  /\ edgeLines' = edgeLines \cup peers
  /\ peers' = edgeLines'
  /\ nodes' = nodeLines
  /\ edges' = edgeLines' \cup (edges \ Touching(nodes)) /\ Removed
  /\ UNCHANGED <<nodeLines, pending, rows, job, made>>

Next ==
  \/ \E a, b \in Nodes : CreateEdge(a, b) \/ PeerCreates(a, b)
  \/ \E e \in edges : DeleteEdge(e)
  \/ \E n \in Nodes : DeleteNode(n)
  \/ FlushStarts \/ FlushLoaded \/ FlushSaved
  \/ Reload \/ Restart \/ Rebuild \/ Sync

Spec == Init /\ [][Next]_vars

(***************************************************************************)
(* Properties.                                                             *)
(***************************************************************************)

HasNoCycle(E) == \A e \in E : ~Reaches(E, e.to, e.from)

\* No order of creates, deletes, flushes, reloads, syncs and restarts gets a
\* cycle past detectCycle: every cycle has an edge that came with a file.
CheckedAcyclic == HasNoCycle(checked)

\* With nothing marked and no flush under way, every edge this process made and
\* nobody deleted is in graph.jsonl, and outlives the cache (doFlush).
EdgesReachFile ==
  pending = {} /\ rows = {} /\ job.phase = "idle" => edges \cap fresh \subseteq edgeLines

\* No task blocks itself, through whatever tasks: the edges SQLite answers
\* queries from have no cycle (README.md: "`blocks` (cycle-checked)").
Acyclic == HasNoCycle(edges)

\* With nothing marked and no flush under way, graph.jsonl holds the edges of
\* SQLite and no others (docs/SYNC.md: "full-file snapshot on flush").
FileIsSnapshot ==
  pending = {} /\ rows = {} /\ job.phase = "idle" => edgeLines = edges

\* With nothing marked and no flush under way, every edge queries are answered
\* from is in graph.jsonl (docs/SYNC.md: "rebuilt from JSONL on startup").
CacheReachesFile ==
  pending = {} /\ rows = {} /\ job.phase = "idle" => edges \subseteq edgeLines
=============================================================================
