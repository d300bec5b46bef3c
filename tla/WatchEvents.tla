----------------------------- MODULE WatchEvents -----------------------------
(***************************************************************************)
(* How a change of the graph reaches a client: the daemon diffs the graph  *)
(* against its hash cache (src/daemon/methods/watch.ts), stamps and        *)
(* buffers the events (EventStream), pushes them to the sockets that       *)
(* subscribed (src/daemon/ipc.ts), and the client library backfills from   *)
(* its cursor after a lost connection (subscribe() of src/client/client.ts)*)
(* while live events already arrive.  Agents may also poll (the            *)
(* events_since tool of src/mcp/server.ts).                                *)
(*                                                                         *)
(* A subscription belongs to an application that keeps a view of the graph *)
(* and a cursor: it applies the events, and reads the graph again when     *)
(* told to resync, as subscribe() asks of it.                              *)
(***************************************************************************)
EXTENDS EventStream, FiniteSets, SequencesExt

CONSTANTS
  Nodes,
  Subs,      \* subscriptions of one client, all on its one connection
  Filter,    \* Filter[s]: what the subscription's filter matches: nodes, and the
             \* contents (their status) in which it matches them
  Pollers,   \* agents that poll events_since
  Reverts,   \* a change may be undone before the diff has seen it
  Window,    \* how many nodes a query without a limit returns: 100
  MaxWrites, \* bound on the changes of the graph
  MaxFaults  \* bound on lost connections and restarts

ASSUME WatchAssumption ==
  /\ IsFiniteSet(Nodes) /\ Filter \in [Subs -> SUBSET (Nodes \X (1..2))]
  /\ Event = [node : Nodes, content : 0..2]
  /\ Reverts \in BOOLEAN /\ Window \in Nat \ {0}
  /\ MaxWrites \in Nat /\ MaxFaults \in Nat

VARIABLES
  graph,    \* graph[n]: the content of node n, 0 when there is none
  recent,   \* the nodes, the last one written first
  stream,   \* the event manager
  cache,    \* the diff's hash cache
  watched,  \* the location is watched: seeded and hooked
  changed,  \* graph.jsonl has changed, the file watcher will say so
  due,      \* the debounce timer of the diff is armed
  up,       \* the client is connected
  bound,    \* the filter the daemon holds for the connection: a set of filters
  wire,     \* messages on their way to the client
  asked,    \* asked[s]: the request of s on its way to the daemon
  phase,    \* where subscribe() is
  pending,  \* events held back during the backfill
  last,     \* the position of the last event delivered, for the de-dupe
  cursor,   \* the application's cursor, if it has one
  view,     \* the application's view
  stale,    \* the application has to read the graph
  ordered,  \* history: every delivery so far came after the one before it
  poll,     \* a poller's cursor, whether it must read the graph, its view, and
            \* (history) whether the graph was watched when it took its cursor
  writes, faults

server == <<graph, recent, stream, cache, watched, changed, due>>
socket == <<up, bound, wire, asked>>
handler == <<last, cursor, view, ordered>>
client == <<phase, pending, handler, stale>>
bounds == <<writes, faults>>
vars == <<server, socket, client, poll, bounds>>

NoCursor == [epoch |-> -1, seq |-> 0]
NoNodes == [n \in Nodes |-> 0]

Phases == {"off", "subscribing", "resuming", "backfilling", "on"}

TypeOK ==
  /\ graph \in [Nodes -> 0..2] /\ ToSet(recent) = Nodes /\ cache \in [Nodes -> 0..2]
  /\ watched \in BOOLEAN /\ changed \in BOOLEAN /\ due \in BOOLEAN /\ up \in BOOLEAN
  /\ bound \subseteq SUBSET (Nodes \X (1..2))
  /\ asked \in [Subs -> {"none", "subscribe", "since", "query", "unsubscribe"}]
  /\ phase \in [Subs -> Phases]
  /\ \A s \in Subs :
       /\ cursor[s].epoch \in Epochs \cup {-1} /\ cursor[s].seq \in Nat
       /\ phase[s] # "off" => up
  /\ view \in [Subs -> [Nodes -> 0..2]]
  /\ stale \in [Subs -> BOOLEAN] /\ ordered \in [Subs -> BOOLEAN]

Init ==
  /\ graph = NoNodes /\ cache = NoNodes /\ recent = SetToSeq(Nodes)
  /\ stream = Fresh(0)
  /\ watched = FALSE /\ changed = FALSE /\ due = FALSE
  /\ up = FALSE /\ bound = {} /\ wire = << >> /\ asked = [s \in Subs |-> "none"]
  /\ phase = [s \in Subs |-> "off"] /\ pending = [s \in Subs |-> << >>]
  /\ last = [s \in Subs |-> NoCursor] /\ cursor = last
  /\ view = [s \in Subs |-> NoNodes] /\ stale = [s \in Subs |-> TRUE]
  /\ ordered = [s \in Subs |-> TRUE]
  /\ poll = [p \in Pollers |-> [cursor |-> NoCursor, stale |-> TRUE, view |-> NoNodes,
                             informed |-> FALSE]]
  /\ writes = 0 /\ faults = 0

-----------------------------------------------------------------------------
(* The daemon.                                                             *)

\* The order is kept only where a query may be cut short.
Touch(n) ==
  recent' = IF Window >= Cardinality(Nodes) THEN recent
            ELSE << n >> \o Picked(recent, {i \in DOMAIN recent : recent[i] # n})

\* query.nodes({}): the Window nodes last written, of those there are.
Listed ==
  LET existing == {i \in DOMAIN recent : graph[recent[i]] # 0}
      seen == {i \in existing : Cardinality({j \in existing : j <= i}) <= Window}
  IN  [n \in Nodes |-> IF n \in {recent[i] : i \in seen} THEN graph[n] ELSE 0]

\* A node is created, changed or removed; the flush will save it.
Write(n, content) ==
  /\ writes < MaxWrites
  /\ content # graph[n]
  /\ watched /\ content = cache[n] => Reverts
  /\ graph' = [graph EXCEPT ![n] = content]
  /\ Touch(n)
  /\ changed' = TRUE
  /\ writes' = writes + 1
  /\ UNCHANGED <<stream, cache, watched, due, socket, client, poll, faults>>

\* The file watcher reports graph.jsonl: scheduleDiff, if anyone listens.
FileChanged ==
  /\ changed
  /\ changed' = FALSE
  /\ due' = watched
  /\ UNCHANGED <<graph, recent, stream, cache, watched, socket, client, poll, bounds>>

\* The events of one diff: created and updated nodes, then deleted ones.
Differences ==
  LET listed == Listed
      differ == {n \in Nodes : listed[n] # cache[n]}
      Events(ns) == [i \in DOMAIN SetToSeq(ns) |->
                       [node |-> SetToSeq(ns)[i], content |-> listed[SetToSeq(ns)[i]]]]
  IN  Events({n \in differ : listed[n] # 0}) \o Events({n \in differ : listed[n] = 0})

\* eventMatchesFilter: of the node as it is now; a delete carries no node to filter
\* on.
Matches(e, filter) == e.content = 0 \/ <<e.node, e.content>> \in filter

Stamp(events) ==
  [i \in DOMAIN events |-> [seq |-> stream.latestSeq + i, epoch |-> stream.epoch, event |-> events[i]]]

Wanted(stamped) == Picked(stamped, {i \in DOMAIN stamped : \E filter \in bound : Matches(stamped[i].event, filter)})

Notify(stamped) == [i \in DOMAIN Wanted(stamped) |-> [kind |-> "event", what |-> Wanted(stamped)[i]]]

PushAll(s, events) ==
  LET pushed[n \in 0..Len(events)] == IF n = 0 THEN s ELSE Push(pushed[n - 1], events[n])
  IN  pushed[Len(events)]

\* diffAndBroadcast
Diff ==
  /\ due
  /\ due' = FALSE
  /\ stream' = PushAll(stream, Differences)
  /\ cache' = Listed
  /\ wire' = wire \o Notify(Stamp(Differences))
  /\ UNCHANGED <<graph, recent, watched, changed, up, bound, asked, client, poll, bounds>>

Reply(s, kind, what) == [kind |-> kind, sub |-> s, what |-> what]

\* Mutation: every subscription seeds the cache again.
ServeSubscribeReseeding(s) ==
  /\ asked[s] = "subscribe"
  /\ bound' = {Filter[s]}
  /\ watched' = TRUE
  /\ cache' = Listed
  /\ wire' = Append(wire, Reply(s, "subscribe", << >>))
  /\ asked' = [asked EXCEPT ![s] = "none"]
  /\ UNCHANGED <<graph, recent, stream, changed, due, up, client, poll, bounds>>

\* watch.subscribe: the connection's filter is replaced; the first subscriber
\* makes the daemon watch, from the graph as it is now.
ServeSubscribe(s) ==
  /\ asked[s] = "subscribe"
  /\ bound' = {Filter[s]}
  /\ watched' = TRUE
  /\ cache' = IF watched THEN cache ELSE Listed
  /\ wire' = Append(wire, Reply(s, "subscribe", << >>))
  /\ asked' = [asked EXCEPT ![s] = "none"]
  /\ UNCHANGED <<graph, recent, stream, changed, due, up, client, poll, bounds>>

\* events.since
ServeSince(s) ==
  /\ asked[s] = "since"
  /\ wire' = Append(wire, Reply(s, "since", Since(stream, cursor[s])))
  /\ asked' = [asked EXCEPT ![s] = "none"]
  /\ UNCHANGED <<server, up, bound, client, poll, bounds>>

\* graph.query, with the filter of the subscription
ServeQuery(s) ==
  /\ asked[s] = "query"
  /\ wire' = Append(wire, Reply(s, "query", [n \in Nodes |-> IF <<n, graph[n]>> \in Filter[s] THEN graph[n] ELSE 0]))
  /\ asked' = [asked EXCEPT ![s] = "none"]
  /\ UNCHANGED <<server, up, bound, client, poll, bounds>>

\* watch.unsubscribe: the connection's filter goes.
ServeUnsubscribe(s) ==
  /\ asked[s] = "unsubscribe"
  /\ bound' = {}
  /\ asked' = [asked EXCEPT ![s] = "none"]
  /\ UNCHANGED <<server, up, wire, client, poll, bounds>>

-----------------------------------------------------------------------------
(* The client.                                                             *)

\* Mutation: the request goes out on whatever connection there is.
StayConnected == UNCHANGED up

EnsureConnected == up' = TRUE

\* subscribe(): connect if need be, hook the handler, call watch.subscribe.
Subscribe(s) ==
  /\ phase[s] = "off" /\ asked[s] = "none"
  /\ EnsureConnected
  /\ phase' = [phase EXCEPT ![s] = IF cursor[s] = NoCursor THEN "subscribing" ELSE "resuming"]
  /\ asked' = [asked EXCEPT ![s] = "subscribe"]
  /\ last' = [last EXCEPT ![s] = NoCursor]
  /\ stale' = [stale EXCEPT ![s] = @ \/ cursor[s] = NoCursor]
  /\ UNCHANGED <<server, bound, wire, pending, cursor, view, ordered, poll, bounds>>

\* The function subscribe() returned: no more events for this handler.
Unsubscribe(s) ==
  /\ phase[s] = "on" /\ asked[s] = "none"
  /\ faults < MaxFaults /\ faults' = faults + 1
  /\ phase' = [phase EXCEPT ![s] = "off"]
  /\ asked' = [asked EXCEPT ![s] = "unsubscribe"]
  /\ UNCHANGED <<server, up, bound, wire, pending, handler, stale, poll, writes>>

After(x, c) == x.epoch > c.epoch \/ (x.epoch = c.epoch /\ x.seq > c.seq)

Delivered(c, x) ==
  LET at == [epoch |-> x.epoch, seq |-> x.seq]
  IN  [last |-> at, cursor |-> at,
       view |-> [c.view EXCEPT ![x.event.node] = x.event.content],
       ordered |-> c.ordered /\ After(x, c.cursor)]

\* Mutation: no de-dupe.
DeliverTwice(c, x) == Delivered(c, x)

\* What deliver() makes of a handler's state c on a stamped event x: an event
\* at or before the last one delivered is a duplicate.
Deliver(c, x) ==
  IF x.epoch = c.last.epoch /\ x.seq <= c.last.seq THEN c ELSE Delivered(c, x)

Handler(s) == [last |-> last[s], cursor |-> cursor[s], view |-> view[s], ordered |-> ordered[s]]

DeliverAll(c, events) ==
  LET heard[n \in 0..Len(events)] == IF n = 0 THEN c ELSE Deliver(heard[n - 1], events[n])
  IN  heard[Len(events)]

\* The handlers' new states, as a function of the subscription.
Become(state) ==
  /\ last' = [s \in Subs |-> state[s].last]
  /\ cursor' = [s \in Subs |-> state[s].cursor]
  /\ view' = [s \in Subs |-> state[s].view]
  /\ ordered' = [s \in Subs |-> state[s].ordered]

\* Mutation: events are let through during the backfill.
LiveAtOnce(s) == phase[s] # "off"

\* Events are let through unless a backfill has to come first.
Live(s) == phase[s] \in {"subscribing", "on"}

Received == wire # << >> /\ wire' = Tail(wire)

\* A watch.event: every handler on the connection gets it.
ReceiveEvent ==
  /\ Received /\ wire[1].kind = "event"
  /\ LET x == wire[1].what
     IN  /\ Become([s \in Subs |-> IF Live(s) THEN Deliver(Handler(s), x) ELSE Handler(s)])
         /\ pending' = [s \in Subs |-> IF phase[s] = "off" \/ Live(s) THEN pending[s]
                                       ELSE Append(pending[s], x)]
  /\ UNCHANGED <<server, up, bound, asked, phase, stale, poll, bounds>>

\* watch.subscribe has answered: backfill from the cursor, if there is one.
ReceiveSubscribed(s) ==
  /\ Received /\ wire[1].kind = "subscribe" /\ wire[1].sub = s
  /\ IF phase[s] = "subscribing"
     THEN phase' = [phase EXCEPT ![s] = "on"] /\ UNCHANGED asked
     ELSE phase' = [phase EXCEPT ![s] = "backfilling"] /\ asked' = [asked EXCEPT ![s] = "since"]
  /\ UNCHANGED <<server, up, bound, pending, handler, stale, poll, bounds>>

\* events.since has answered: deliver the missed events or call onResync, then
\* the events held back.
ReceiveMissed(s) ==
  /\ Received /\ wire[1].kind = "since" /\ wire[1].sub = s
  /\ LET answer == wire[1].what
     IN  /\ Become([w \in Subs |-> IF w = s THEN DeliverAll(Handler(s), answer.events \o pending[s])
                                   ELSE Handler(w)])
         /\ stale' = [stale EXCEPT ![s] = @ \/ answer.resync]
  /\ pending' = [pending EXCEPT ![s] = << >>]
  /\ phase' = [phase EXCEPT ![s] = "on"]
  /\ UNCHANGED <<server, up, bound, asked, poll, bounds>>

\* A backfill that failed: onResync, then the events held back.
GivenUp(s) == IF phase[s] = "backfilling" THEN DeliverAll(Handler(s), pending[s]) ELSE Handler(s)

\* events.since timed out or failed.
BackfillFails(s) ==
  /\ phase[s] = "backfilling" /\ asked[s] = "since"
  /\ faults < MaxFaults /\ faults' = faults + 1
  /\ Become([w \in Subs |-> IF w = s THEN GivenUp(s) ELSE Handler(w)])
  /\ stale' = [stale EXCEPT ![s] = TRUE]
  /\ pending' = [pending EXCEPT ![s] = << >>]
  /\ phase' = [phase EXCEPT ![s] = "on"]
  /\ asked' = [asked EXCEPT ![s] = "none"]
  /\ UNCHANGED <<server, up, bound, wire, poll, writes>>

ConnectionLost ==
  /\ faults < MaxFaults /\ faults' = faults + 1
  /\ up' = FALSE /\ bound' = {} /\ wire' = << >> /\ asked' = [s \in Subs |-> "none"]
  /\ phase' = [s \in Subs |-> "off"] /\ pending' = [s \in Subs |-> << >>]
  /\ Become([s \in Subs |-> GivenUp(s)])
  /\ stale' = [s \in Subs |-> stale[s] \/ phase[s] = "backfilling"]
  /\ UNCHANGED <<poll, writes>>

Disconnect == up /\ ConnectionLost /\ UNCHANGED server

\* The daemon's process ends and another starts, on the same graph.
Restart ==
  /\ stream.epoch < MaxEpoch
  /\ ConnectionLost
  /\ stream' = Fresh(stream.epoch + 1)
  /\ cache' = NoNodes /\ watched' = FALSE /\ changed' = FALSE /\ due' = FALSE
  /\ UNCHANGED <<graph, recent>>

\* The application reads the graph.
AskQuery(s) ==
  /\ phase[s] = "on" /\ stale[s] /\ asked[s] = "none"
  /\ ~\E i \in DOMAIN wire : wire[i].kind = "query" /\ wire[i].sub = s
  /\ asked' = [asked EXCEPT ![s] = "query"]
  /\ UNCHANGED <<server, up, bound, wire, client, poll, bounds>>

\* An answer that outlived its subscription is of no use to the next.
ReceiveGraph(s) ==
  /\ Received /\ wire[1].kind = "query" /\ wire[1].sub = s
  /\ IF phase[s] = "on"
     THEN view' = [view EXCEPT ![s] = wire[1].what] /\ stale' = [stale EXCEPT ![s] = FALSE]
     ELSE UNCHANGED <<view, stale>>
  /\ UNCHANGED <<server, up, bound, asked, phase, pending, last, cursor, ordered, poll, bounds>>

\* events_since: with no cursor, or after a resync, the head becomes the cursor
\* and the agent reads the graph; else it applies what it missed.
Poll(p) ==
  /\ poll' = [poll EXCEPT ![p] =
       LET answer == Since(stream, @.cursor)
           c == DeliverAll([last |-> NoCursor, cursor |-> @.cursor, view |-> @.view, ordered |-> TRUE],
                           answer.events)
       IN  IF @.cursor = NoCursor \/ answer.resync
           THEN [@ EXCEPT !.cursor = Current(stream), !.stale = TRUE, !.informed = watched]
           ELSE [@ EXCEPT !.cursor = c.cursor, !.view = c.view]]
  /\ UNCHANGED <<server, socket, client, bounds>>

PollerReads(p) ==
  /\ poll[p].stale
  /\ poll' = [poll EXCEPT ![p].view = graph, ![p].stale = FALSE]
  /\ UNCHANGED <<server, socket, client, bounds>>

Serve(s) == ServeSubscribe(s) \/ ServeSince(s) \/ ServeQuery(s) \/ ServeUnsubscribe(s)

Receive(s) == ReceiveSubscribed(s) \/ ReceiveMissed(s) \/ ReceiveGraph(s)

Next ==
  \/ \E n \in Nodes, content \in 0..2 : Write(n, content)
  \/ FileChanged \/ Diff \/ Restart \/ Disconnect \/ ReceiveEvent
  \/ \E s \in Subs : Serve(s) \/ Receive(s) \/ Subscribe(s) \/ Unsubscribe(s) \/ AskQuery(s) \/ BackfillFails(s)
  \/ \E p \in Pollers : Poll(p) \/ PollerReads(p)

Spec == Init /\ [][Next]_vars

\* Files are watched, timers fire, sockets deliver, the daemon answers, and the
\* application subscribes again when its connection is gone.
FairSpec ==
  /\ Spec
  /\ WF_vars(FileChanged) /\ WF_vars(Diff) /\ WF_vars(ReceiveEvent)
  /\ \A s \in Subs : /\ WF_vars(Serve(s)) /\ WF_vars(Receive(s))
                     /\ WF_vars(Subscribe(s)) /\ WF_vars(AskQuery(s))
  /\ \A p \in Pollers : WF_vars(Poll(p)) /\ WF_vars(PollerReads(p))

(***************************************************************************)
(* Properties.                                                             *)
(***************************************************************************)

\* A change that made node n what it is now is one the subscription is told of.
Told(s, n) == Matches([node |-> n, content |-> graph[n]], Filter[s])

\* Nothing is on its way that says anything of n.
Settled(s, n) ==
  /\ phase[s] = "on" /\ ~stale[s]
  /\ ~changed /\ ~due
  /\ \A i \in DOMAIN wire : wire[i].kind = "event" => wire[i].what.event.node # n

\* An application that owes no read of the graph is never wrong about a node that
\* is gone, or that the filter matches as it is now, without something on its way to
\* tell it: a diff to come, an event on the wire or held back, or a backfill from its
\* cursor (subscribe()).
ViewsCatchUp ==
  \A s \in Subs : \A n \in Nodes : Told(s, n) /\ Settled(s, n) => view[s][n] = graph[n]

\* Nor about any other node: the view is what the query of the filter would answer.
\* Not so: the change by which a node leaves the filter matches it no longer, and is
\* not told (eventMatchesFilter); a backfill is not filtered at all.
ViewsAreTheQuery ==
  \A s \in Subs : \A n \in Nodes :
    Settled(s, n) => view[s][n] = IF <<n, graph[n]>> \in Filter[s] THEN graph[n] ELSE 0

\* No handler hears an event twice, or after a later one, across backfills, live
\* delivery, lost connections and restarts (deliver()).
DeliveredInOrder == \A s \in Subs : ordered[s]

\* Every application comes to know every change it subscribed to, whatever
\* connections and daemons are lost on the way.
ChangesArrive ==
  \A s \in Subs : \A n \in Nodes :
    graph[n] # view[s][n] /\ Told(s, n) ~> graph[n] = view[s][n] \/ ~Told(s, n)

\* A polling agent that took its cursor while the graph was watched, and has read
\* the graph when told to, knows every change before its cursor (events_since).
PollersInformed ==
  \A p \in Pollers :
    /\ poll[p].informed /\ ~poll[p].stale
    /\ ~changed /\ ~due
    /\ Since(stream, poll[p].cursor) = [resync |-> FALSE, events |-> << >>]
    => poll[p].view = graph

\* An application hears of nodes as its filter matches them, and of nothing else
\* (subscribe(): "Invoked for each matching change event").
OnlyMatching ==
  \A s \in Subs : \A n \in Nodes : view[s][n] # 0 => <<n, view[s][n]>> \in Filter[s]

\* "Detect deletes": the diff says of a node that it was deleted when it was
\* (diffAndBroadcast()).  Not so: beyond Window nodes, one that is no longer among
\* the last written is taken for deleted.
DeletesAreReal ==
  [][\A n \in Nodes : cache[n] # 0 /\ cache'[n] = 0 /\ stream'.epoch = stream.epoch
       => graph[n] = 0]_vars

\* A polling agent comes to know every change (events_since: "get just what
\* changed instead of re-querying the world").
PollersCatchUp ==
  \A p \in Pollers : \A n \in Nodes :
    poll[p].view[n] # graph[n] ~> poll[p].view[n] = graph[n]
=============================================================================
