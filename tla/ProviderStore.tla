---------------------------- MODULE ProviderStore ----------------------------
(***************************************************************************)
(* The copies the graph keeps of the issues of a local provider (beads,    *)
(* sudocode): src/graph/provider-store.ts over src/providers/              *)
(* materialization.ts, the provider's watch (beads.ts) and the rounds of   *)
(* reconciliation the daemon starts (src/daemon/lifecycle.ts).             *)
(*                                                                         *)
(* Every call of the provider runs its command line tool: what it does and *)
(* what it sees happens while the handler waits.  What a handler does with *)
(* the answer awaits SQLite only and is one step.  The edges that come     *)
(* with the issues, providers that keep pointers only and the background   *)
(* refresh of remote ones (sync.ts) are left out.                          *)
(*                                                                         *)
(* A provider answers to several URIs of an issue (parseUri()): bd-1,      *)
(* bd://bd-1 and beads://./bd-1 are one to beads, and only the last is     *)
(* what buildUri() gives.  A copy carries the URI it was made under, and   *)
(* is looked for by that string alone.                                     *)
(***************************************************************************)
EXTENDS Naturals, FiniteSets, SequencesExt, Subsequences

CONSTANTS
  Issues,
  Aliases,   \* how a caller may write the URI of an issue, but for buildUri()'s way
  Clients,   \* requests under way at once
  Diffs,     \* runs of the watch's diff under way at once
  Rounds,    \* rounds of reconciliation under way at once
  Window,    \* how many nodes a query without a limit returns: 100
  MaxEdits,  \* bound on the changes of issues
  MaxFails   \* bound on the calls that fail

ASSUME ProviderAssumption ==
  /\ Clients \cap Diffs = {} /\ Rounds \cap (Clients \cup Diffs) = {}
  /\ IsFiniteSet(Issues) /\ IsFiniteSet(Aliases) /\ IsFiniteSet(Clients \cup Diffs \cup Rounds)
  /\ Window \in Nat \ {0} /\ MaxEdits \in Nat /\ MaxFails \in Nat

VARIABLES
  remote,   \* remote[i]: issue i as the provider has it
  copies,   \* the nodes with a provider_uri, the last one written first
  calls,    \* calls[k]: what handler k is doing
  watching, \* the file watcher is up
  stirred,  \* it has reported a change: the debounce timer runs
  seen,     \* the watch's cache of the issues
  edits, fails

providerVars == <<remote, copies, calls, watching, stirred, seen, edits, fails>>

Contents == {"a", "b"}
Absent == {"unborn", "gone"}
Values == Contents \cup Absent
Handlers == Clients \cup Diffs \cup Rounds

Uris == Issues \X ({"canonical"} \cup Aliases)

\* parseUri(), buildUri()
IssueOf(uri) == uri[1]
UriOf(i) == <<i, "canonical">>

Idle ==
  [op |-> "idle", told |-> FALSE, uri |-> UriOf(CHOOSE i \in Issues : TRUE), then |-> "none",
   node |-> 0, known |-> {}, todo |-> << >>, got |-> [i \in Issues |-> "unborn"]]

Ops == {"idle", "get", "update", "create", "delete", "list", "seed", "diff", "reconcile"}

ProviderTypeOK ==
  /\ remote \in [Issues -> Values] /\ seen \in [Issues -> Values]
  /\ \A n \in ToSet(copies) : n.id \in Nat /\ n.uri \in Uris /\ n.content \in Contents
  /\ \A k \in Handlers : /\ calls[k].op \in Ops /\ calls[k].told \in BOOLEAN
                         /\ calls[k].known \subseteq Uris /\ calls[k].got \in [Issues -> Values]
  /\ watching \in BOOLEAN /\ stirred \in BOOLEAN
  /\ edits \in 0..MaxEdits /\ fails \in 0..MaxFails

ProviderInit ==
  /\ remote \in [Issues -> {"a", "unborn"}] /\ seen = [i \in Issues |-> "unborn"]
  /\ copies = << >>
  /\ calls = [k \in Handlers |-> Idle]
  /\ watching = FALSE /\ stirred = FALSE
  /\ edits = 0 /\ fails = 0

-----------------------------------------------------------------------------
(* The graph: what a query sees of the copies, and materialize().          *)

Visible == SubSeq(copies, 1, IF Len(copies) < Window THEN Len(copies) ELSE Window)

\* findExternalNodeByUri(), findByProviderUri(): 0, or the node's id.
Find(nodes, uri) ==
  LET here == {n \in DOMAIN nodes : n <= Window /\ nodes[n].uri = uri}
  IN  IF here = {} THEN 0 ELSE nodes[Min(here)].id

Without(nodes, id) == Picked(nodes, {n \in DOMAIN nodes : nodes[n].id # id})

\* updateNode(): the node is now the last one written.
Put(nodes, id, uri, c) == << [id |-> id, uri |-> uri, content |-> c] >> \o Without(nodes, id)

IdsOf(nodes) == {n.id : n \in ToSet(nodes)}

InUse(nodes) ==
  IdsOf(nodes) \cup (UNION {IdsOf(calls[k].todo) : k \in Handlers}) \cup {calls[k].node : k \in Handlers}

NewId(nodes) == CHOOSE id \in 1..(Cardinality(InUse(nodes)) + 1) : id \notin InUse(nodes)

\* Mutation: the find before the call was enough.
MaterializeBlind(nodes, uri, c) == Put(nodes, NewId(nodes), uri, c)

Materialize(nodes, uri, c) ==
  Put(nodes, IF Find(nodes, uri) = 0 THEN NewId(nodes) ELSE Find(nodes, uri), uri, c)

\* The same for every issue of a list that is to be written, in its order.
MaterializeAll(issues, got) ==
  LET order == SetToSeq({i \in issues : got[i] \in Contents})
      nodes[n \in 0..Len(order)] ==
        IF n = 0 THEN copies ELSE Materialize(nodes[n - 1], UriOf(order[n]), got[order[n]])
  IN  nodes[Len(order)]

-----------------------------------------------------------------------------
(* The provider.                                                           *)

\* Something writes the issue; the watcher sees the file.
Becomes(i, value) ==
  /\ edits < MaxEdits /\ edits' = edits + 1
  /\ remote[i] # value
  /\ remote' = [remote EXCEPT ![i] = value]
  /\ stirred' = (stirred \/ watching)

\* Somebody works on the issue with the provider's own tool.
Edit(i) ==
  /\ \E value \in Contents \cup {"gone"} :
       /\ remote[i] = "unborn" => value # "gone"
       /\ remote[i] # "gone"
       /\ Becomes(i, value)
  /\ UNCHANGED <<copies, calls, watching, seen, fails>>

Begin(k, call) == calls' = [calls EXCEPT ![k] = call]

Told(k, got) == calls' = [calls EXCEPT ![k].told = TRUE, ![k].got = got]

Only(i, value) == [j \in Issues |-> IF j = i THEN value ELSE "unborn"]

\* bd show, bd list
Read(k) ==
  /\ calls[k].op \in {"get", "reconcile", "list", "seed", "diff"} /\ ~calls[k].told
  /\ LET one(uri) == Only(IssueOf(uri), remote[IssueOf(uri)])
     IN  Told(k, CASE calls[k].op = "get" -> one(calls[k].uri)
                   [] calls[k].op = "reconcile" -> one(calls[k].todo[1].uri)
                   [] OTHER -> remote)
  /\ UNCHANGED <<remote, copies, watching, stirred, seen, edits, fails>>

\* bd create, bd update, bd delete
Wrote(k) ==
  /\ ~calls[k].told
  /\ LET i == IssueOf(calls[k].uri)
     IN  \E value \in Values :
           /\ \/ calls[k].op = "create" /\ remote[i] = "unborn" /\ value \in Contents
              \/ calls[k].op = "update" /\ remote[i] \in Contents /\ value \in Contents
              \/ calls[k].op = "delete" /\ remote[i] \in Contents /\ value = "gone"
           /\ Becomes(i, value)
           /\ Told(k, Only(i, value))
  /\ UNCHANGED <<copies, watching, seen, fails>>

-----------------------------------------------------------------------------
(* Requests.                                                               *)

\* providerGet(), resolveNode() of a URI that has no copy; and, whether it has one
\* or not, resolveNode() that is to refresh, and materializeNode().
Get(k, uri) ==
  /\ calls[k] = Idle
  /\ Begin(k, [Idle EXCEPT !.op = "get", !.uri = uri])
  /\ UNCHANGED <<remote, copies, watching, stirred, seen, edits, fails>>

\* providerCreate()
ProviderCreate(k, i) ==
  /\ calls[k] = Idle /\ remote[i] = "unborn"
  /\ Begin(k, [Idle EXCEPT !.op = "create", !.uri = UriOf(i)])
  /\ UNCHANGED <<remote, copies, watching, stirred, seen, edits, fails>>

\* The node of the copy is what a delete removes in the end.
Resolved(op, uri, nodes) ==
  [Idle EXCEPT !.op = op, !.uri = uri, !.node = IF op = "delete" THEN Find(nodes, uri) ELSE 0]

\* providerUpdate(), providerDelete(): resolveForWrite() gets the issue first if
\* there is no copy under its URI.
Write(k, uri, op) ==
  /\ calls[k] = Idle
  /\ Begin(k, IF Find(copies, uri) = 0
              THEN [Idle EXCEPT !.op = "get", !.uri = uri, !.then = op]
              ELSE Resolved(op, uri, copies))
  /\ UNCHANGED <<remote, copies, watching, stirred, seen, edits, fails>>

\* taskTransition(), taskAssign(): resolveTaskProvider() reads the id from the URI,
\* and the answer is materialized under buildUri()'s.
Transition(k, i) ==
  /\ calls[k] = Idle
  /\ Begin(k, [Idle EXCEPT !.op = "update", !.uri = UriOf(i)])
  /\ UNCHANGED <<remote, copies, watching, stirred, seen, edits, fails>>

\* providerListTasks(), taskReady()
List(k) ==
  /\ calls[k] = Idle
  /\ Begin(k, [Idle EXCEPT !.op = "list", !.known = {n.uri : n \in ToSet(Visible)}])
  /\ UNCHANGED <<remote, copies, watching, stirred, seen, edits, fails>>

\* What a request does with the answer.
Answered(k) ==
  LET call == calls[k]
      value == call.got[IssueOf(call.uri)]
  IN  /\ call.told
      /\ \/ /\ call.op = "get"
            /\ copies' = IF value \in Contents THEN Materialize(copies, call.uri, value) ELSE copies
            /\ Begin(k, IF value \in Contents /\ call.then # "none"
                        THEN Resolved(call.then, call.uri, copies') ELSE Idle)
         \/ /\ call.op \in {"create", "update"}
            /\ copies' = Materialize(copies, call.uri, value)
            /\ Begin(k, Idle)
         \/ /\ call.op = "delete"
            /\ copies' = Without(copies, call.node)
            /\ Begin(k, Idle)
         \/ /\ call.op = "list"
            /\ copies' = MaterializeAll({i \in Issues : UriOf(i) \notin call.known /\ Find(copies, UriOf(i)) = 0},
                                      call.got)
            /\ Begin(k, Idle)
      /\ UNCHANGED <<remote, watching, stirred, seen, edits, fails>>

-----------------------------------------------------------------------------
(* The watch (Watchable).                                                  *)

\* startWatching(): the cache is seeded first.
StartWatching(k) ==
  /\ ~watching /\ \A d \in Diffs : calls[d] = Idle
  /\ Begin(k, [Idle EXCEPT !.op = "seed"])
  /\ UNCHANGED <<remote, copies, watching, stirred, seen, edits, fails>>

\* seedCache() is done: the watcher is created, and reports changes from here on.
Seeded(k) ==
  /\ calls[k].op = "seed" /\ calls[k].told
  /\ seen' = calls[k].got /\ watching' = TRUE
  /\ Begin(k, Idle)
  /\ UNCHANGED <<remote, copies, stirred, edits, fails>>

\* The debounce timer fires, whether or not another diff is under way.
Diff(k) ==
  /\ stirred /\ calls[k] = Idle
  /\ stirred' = FALSE
  /\ Begin(k, [Idle EXCEPT !.op = "diff"])
  /\ UNCHANGED <<remote, copies, watching, seen, edits, fails>>

\* The copy is marked as stale, and so the last one written.
Mark(nodes, id) == Picked(nodes, {n \in DOMAIN nodes : nodes[n].id = id}) \o Without(nodes, id)

MarkAll(copied, issues) ==
  LET order == SetToSeq(issues)
      nodes[n \in 0..Len(order)] ==
        IF n = 0 THEN copied ELSE Mark(nodes[n - 1], Find(nodes[n - 1], UriOf(order[n])))
  IN  nodes[Len(order)]

\* diffAndEmit(), and handleNodeChange() for each event, whose URI is buildUri()'s:
\* an issue that has a copy under it is materialized anew, or marked as stale when
\* it is gone.
Diffed(k) ==
  LET got == calls[k].got
      news == {i \in Issues : got[i] \in Contents /\ got[i] # seen[i] /\ Find(copies, UriOf(i)) # 0}
      lost == {i \in Issues : got[i] \in Absent /\ seen[i] \in Contents /\ Find(copies, UriOf(i)) # 0}
  IN  /\ calls[k].op = "diff" /\ calls[k].told
      /\ copies' = MarkAll(MaterializeAll(news, got), lost)
      /\ seen' = got
      /\ Begin(k, Idle)
      /\ UNCHANGED <<remote, watching, stirred, edits, fails>>

-----------------------------------------------------------------------------
(* Reconciliation.                                                         *)

\* reconcileProviders(): the copies as they are now.  A round that finds the
\* provider unavailable leaves it out.
Reconcile(k) ==
  /\ calls[k] = Idle /\ copies # << >>
  /\ Begin(k, [Idle EXCEPT !.op = "reconcile", !.todo = Visible])
  /\ UNCHANGED <<remote, copies, watching, stirred, seen, edits, fails>>

\* On with the next node of the round.
NextNode(k) ==
  Begin(k, IF Len(calls[k].todo) = 1 THEN Idle
           ELSE [Idle EXCEPT !.op = "reconcile", !.todo = Tail(calls[k].todo)])

\* Mutation: the node is written with what the round knew of it.
ReconciledBack(k) ==
  LET old == calls[k].todo[1]
      value == calls[k].got[IssueOf(old.uri)]
      now == {n \in ToSet(copies) : n.id = old.id}
  IN  /\ calls[k].op = "reconcile" /\ calls[k].told
      /\ copies' = IF value \in Absent \/ now = {} THEN copies
                   ELSE Put(copies, old.id, old.uri, old.content)
      /\ NextNode(k)
      /\ UNCHANGED <<remote, watching, stirred, seen, edits, fails>>

\* What get() answered is compared with the copy as the round found it: if it
\* differs the node is written, else it is stamped.  A node that was deleted
\* meanwhile is an error, an issue that is gone is left alone.
Reconciled(k) ==
  LET old == calls[k].todo[1]
      value == calls[k].got[IssueOf(old.uri)]
      now == {n \in ToSet(copies) : n.id = old.id}
  IN  /\ calls[k].op = "reconcile" /\ calls[k].told
      /\ copies' = IF value \in Absent \/ now = {} THEN copies
                   ELSE Put(copies, old.id, old.uri,
                            IF value # old.content THEN value ELSE (CHOOSE n \in now : TRUE).content)
      /\ NextNode(k)
      /\ UNCHANGED <<remote, watching, stirred, seen, edits, fails>>

-----------------------------------------------------------------------------

\* A call fails or times out, before or after the tool has done its work.
CallFails(k) ==
  /\ calls[k].op # "idle" /\ fails < MaxFails /\ fails' = fails + 1
  /\ IF calls[k].op = "reconcile" THEN NextNode(k) ELSE Begin(k, Idle)
  /\ watching' = (watching \/ calls[k].op = "seed")
  /\ UNCHANGED <<remote, copies, stirred, seen, edits>>

\* The tool has nothing to do it to: an error.  A create whose issue somebody made
\* first is of another issue.  MaxEdits ends the writes.
CallRefused(k) ==
  /\ ~calls[k].told /\ calls[k].op \in {"create", "update", "delete"}
  /\ \/ calls[k].op = "create" /\ remote[IssueOf(calls[k].uri)] # "unborn"
     \/ calls[k].op # "create" /\ remote[IssueOf(calls[k].uri)] \in Absent
     \/ edits = MaxEdits
  /\ Begin(k, Idle)
  /\ UNCHANGED <<remote, copies, watching, stirred, seen, edits, fails>>

Work(k) ==
  Read(k) \/ Wrote(k) \/ CallRefused(k) \/ Answered(k) \/ Seeded(k) \/ Diffed(k) \/ Reconciled(k)

ProviderNext ==
  \/ \E i \in Issues : Edit(i)
  \/ \E k \in Clients :
       \/ List(k)
       \/ \E i \in Issues : ProviderCreate(k, i) \/ Transition(k, i)
       \/ \E uri \in Uris : Get(k, uri) \/ Write(k, uri, "update") \/ Write(k, uri, "delete")
  \/ \E k \in Diffs : StartWatching(k) \/ Diff(k)
  \/ \E k \in Rounds : Reconcile(k)
  \/ \E k \in Handlers : Work(k) \/ CallFails(k)

\* The tool ends, one way or the other, the daemon goes on, and the timers of
\* the watch and of reconciliation (backgroundInterval) fire.
ProviderFairness ==
  /\ \A k \in Handlers : WF_providerVars(Work(k))
  /\ \A k \in Rounds : WF_providerVars(Reconcile(k))

ProviderSpec == ProviderInit /\ [][ProviderNext]_providerVars /\ ProviderFairness

(***************************************************************************)
(* Properties.                                                             *)
(***************************************************************************)

\* The graph has one copy at most under a URI, however many requests, diffs and
\* lists come upon it at once (materialize()).
OneCopy ==
  \A m, n \in DOMAIN copies : copies[m].uri = copies[n].uri => m = n

\* And one of an issue, which is what the list means by not having the same task
\* twice (providerListTasks()).  This does not hold: a caller that writes the URI
\* in another way gets a copy of its own.
OneCopyPerIssue ==
  \A m, n \in DOMAIN copies : IssueOf(copies[m].uri) = IssueOf(copies[n].uri) => m = n

\* Once the issues are left alone, each copy of one that exists says what the
\* provider says, and stays so, whatever stale answers were still to come
\* (reconcileProviders()).
CopiesConverge ==
  <>[](\A n \in DOMAIN copies :
         LET now == remote[IssueOf(copies[n].uri)]
         IN  now \in Contents => copies[n].content = now)
=============================================================================
