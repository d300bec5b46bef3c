----------------------------- MODULE SessionLog -----------------------------
(***************************************************************************)
(* The state file of one agent session and the node the daemon keeps of    *)
(* it: the hooks that write the file (src/sessionlog/hooks/lifecycle.ts,   *)
(* store/session-store.ts, the post-commit hook of strategy/               *)
(* manual-commit.ts), the watcher of the daemon (src/daemon/               *)
(* sessionlog-watcher.ts) and its linker (sessionlog-linker.ts).           *)
(*                                                                         *)
(* Each hook is a process of its own that loads the file, awaits, and      *)
(* saves it whole; it may throw or be killed at any point of that.  The    *)
(* hooks of the agent come one after the other; git runs its own at any    *)
(* time.  A file that is there can be read.  Sessions of src/sessionlog    *)
(* have none of the fields the watcher takes checkpoints, tasks and plans  *)
(* from: those events, and the edges to tasks, are left out.               *)
(***************************************************************************)
EXTENDS SessionMachine, Naturals, Sequences

CONSTANTS
  OneByOne,     \* the agent waits for a hook before it runs the next
  MaxHooks,     \* bound on the hooks run
  MaxLives      \* bound on the starts of the daemon

ASSUME SessionAssumption == OneByOne \in BOOLEAN /\ MaxHooks \in Nat /\ MaxLives \in Nat \ {0}

VARIABLES
  agent,    \* what the agent is doing
  truth,    \* history: the phase its events lead to, in order
  state,    \* the phase in the session's file
  aged,     \* the session ended more than STALE_SESSION_DAYS ago
  hooks,    \* the hooks under way
  hooksRun,
  astray,   \* history: a hook was lost, or wrote over another's write, since when
            \* no hook that sets the phase has saved it
  lives,    \* starts of the daemon
  watcher,  \* "down", "starting" (the cache is seeded, chokidar not ready) or "on"
  touched,  \* a change of the file is in the debounce
  removed,  \* the file's end has yet to be reported
  cached,   \* sessionCache: the phase last seen
  ending,   \* "ended" events whose transcript is being read
  known,    \* createdNodes: the session's node, or 0
  mistaken, \* createdNodes has the URI in place of an id: no node could be made
  nodes,    \* the nodes made for the session
  unheard,  \* history: it had ended "before" the daemon looked, or ended when
            \* chokidar was "unready"; and the watcher has seen nothing since
  failed    \* history: the last close of the daemon threw

fileVars == <<state, touched, removed, unheard>>
hookVars == <<agent, truth, aged, hooks, hooksRun, astray>>
linkerVars == <<known, mistaken, nodes, failed>>
daemonSide == <<lives, watcher, cached, ending, linkerVars>>
sessionVars == <<fileVars, hookVars, daemonSide>>

Runners == {"agent", "agent2", "git"}
NoHook == [event |-> "none", at |-> "done", loaded |-> "none"]

SessionTypeOK ==
  /\ agent \in {"off", "idle", "turn"} /\ truth \in Phases /\ state \in Phases
  /\ aged \in BOOLEAN /\ astray \in BOOLEAN /\ unheard \in {"no", "before", "unready"}
  /\ hooks \in [Runners -> [event : Announcements \cup {"none", "GitCommit"},
                            at : {"done", "load", "reload", "unlink", "save"}, loaded : Phases]]
  /\ hooksRun \in 0..MaxHooks /\ lives \in 0..MaxLives
  /\ watcher \in {"down", "starting", "on"} /\ touched \in BOOLEAN /\ removed \in BOOLEAN
  /\ mistaken \in BOOLEAN /\ failed \in BOOLEAN
  /\ cached \in Phases /\ known \in 0..Len(nodes) /\ ending \in Nat

SessionInit ==
  /\ agent = "off" /\ truth = "none" /\ state = "none" /\ aged = FALSE
  /\ hooks = [r \in Runners |-> NoHook] /\ hooksRun = 0 /\ astray = FALSE
  /\ lives = 0 /\ watcher = "down" /\ touched = FALSE /\ removed = FALSE /\ unheard = "no"
  /\ cached = "none" /\ ending = 0 /\ known = 0 /\ mistaken = FALSE /\ nodes = << >> /\ failed = FALSE

-----------------------------------------------------------------------------
(* The agent and git announce what happens.                                *)

\* What the agent does next, and what it is doing then.
Lawful(event) ==
  CASE event = "SessionStart" -> IF agent = "off" THEN "idle" ELSE agent
    [] event = "TurnStart" /\ agent # "turn" -> "turn"
    [] event = "TurnEnd" /\ agent = "turn" -> "idle"
    [] event = "Compaction" /\ agent # "off" -> agent
    [] event = "SessionStop" /\ agent # "off" -> "off"
    [] OTHER -> "never"

Announce(r, event) ==
  /\ hooksRun < MaxHooks /\ hooksRun' = hooksRun + 1
  /\ hooks[r].at = "done"
  /\ hooks' = [hooks EXCEPT ![r] = [event |-> event, at |-> "load", loaded |-> "none"]]

\* dispatch(): the agent runs the hook of an event.
Dispatch(r, event) ==
  /\ Lawful(event) # "never" /\ agent' = Lawful(event)
  /\ OneByOne => hooks["agent"].at = "done" /\ hooks["agent2"].at = "done"
  /\ truth' = Transition(truth, event)
  /\ Announce(r, event)
  /\ UNCHANGED <<fileVars, aged, astray, daemonSide>>

\* A commit, in whatever terminal.
PostCommit ==
  /\ Announce("git", "GitCommit")
  /\ UNCHANGED <<fileVars, agent, truth, aged, astray, daemonSide>>

\* A file that says ended is left alone for STALE_SESSION_DAYS.
GetsOld ==
  /\ state = "ended" /\ ~aged
  /\ \A r \in Runners : hooks[r].at = "done"
  /\ aged' = TRUE
  /\ UNCHANGED <<fileVars, agent, truth, hooks, hooksRun, astray, daemonSide>>

-----------------------------------------------------------------------------
(* A hook: load(), list(), save().                                         *)

\* The watcher hears of every write, of whatever it says; while chokidar is not
\* ready it takes what it finds for what was there, and may or may not tell.
Write(phase) ==
  /\ state' = phase
  /\ \E told \in CASE watcher = "on" -> {TRUE} [] watcher = "starting" -> BOOLEAN [] OTHER -> {FALSE} :
       /\ touched' = (touched \/ (told /\ phase # "none"))
       /\ removed' = (removed \/ (told /\ phase = "none" /\ state # "none"))
       /\ unheard' = IF watcher = "starting" /\ ~told /\ phase = "ended" /\ state # "ended"
                     THEN "unready" ELSE unheard

Go(r, at, phase) == hooks' = [hooks EXCEPT ![r].at = at, ![r].loaded = phase]

\* Events that make the session.
Makes(r) == hooks[r].event \in {"SessionStart", "TurnStart"}

\* The file is read.  A stale one is about to be unlinked and is no session; a
\* hook that finds none is done, but for those that make one.
Load(r) ==
  /\ hooks[r].at \in {"load", "reload"}
  /\ Go(r, CASE aged /\ state = "ended" -> "unlink"
             [] state = "none" /\ ~(Makes(r) /\ hooks[r].at = "load") -> "done"
             [] OTHER -> "save", state)
  /\ UNCHANGED <<fileVars, agent, truth, aged, hooksRun, astray, daemonSide>>

\* An unlink that fails is ignored.
Unlink(r) ==
  /\ hooks[r].at = "unlink"
  /\ \/ Write("none") /\ astray' = (astray \/ (state # "none" /\ ~aged))
     \/ UNCHANGED <<fileVars, astray>>
  /\ Go(r, IF Makes(r) THEN "save" ELSE "done", "none")
  /\ UNCHANGED <<agent, truth, aged, hooksRun, daemonSide>>

\* Mutation: a session that comes back stays ended.
HandledStaysEnded(event, loaded) ==
  CASE event = "SessionStart" -> IF loaded = "none" THEN "idle" ELSE loaded
    [] event = "TurnStart"    -> "active"
    [] event = "TurnEnd"      -> "idle"
    [] event = "SessionStop"  -> "ended"
    [] OTHER                  -> loaded

\* The phase each handler saves: handleSessionStart(), handleTurnStart(), ...; a
\* compaction, a subagent or a commit saves the one it loaded.
Handled(event, loaded) ==
  CASE event = "SessionStart" -> IF loaded \in {"none", "ended"} THEN "idle" ELSE loaded
    [] event = "TurnStart"    -> "active"
    [] event = "TurnEnd"      -> "idle"
    [] event = "SessionStop"  -> "ended"
    [] OTHER                  -> loaded

\* Events whose handler sets the phase, whatever it was.
Sets(event) == event \in {"TurnStart", "TurnEnd", "SessionStop"}

\* The file is no longer what the hook loaded, and not the stale one it could not unlink.
Overwrites(r) == state # hooks[r].loaded /\ ~(aged /\ hooks[r].loaded = "none")

\* save().  The first turn of a session nobody made makes it first.
Save(r) ==
  LET event == hooks[r].event
      makes == event = "TurnStart" /\ hooks[r].loaded = "none"
  IN  /\ hooks[r].at = "save"
      /\ Write(Handled(IF makes THEN "SessionStart" ELSE event, hooks[r].loaded))
      /\ Go(r, IF makes THEN "reload" ELSE "done", "none")
      /\ aged' = FALSE
      /\ astray' = IF Sets(event) /\ ~makes THEN FALSE ELSE astray \/ Overwrites(r)
      /\ UNCHANGED <<agent, truth, hooksRun, daemonSide>>

\* git or the file system fails a hook, before or after it has computed the
\* phase, or the hook is killed: it ends without a save.
HookFails(r) ==
  /\ hooks[r].at # "done"
  /\ Go(r, "done", "none")
  /\ astray' = (astray \/ hooks[r].event \notin {"Compaction", "GitCommit"})
  /\ UNCHANGED <<fileVars, agent, truth, aged, hooksRun, daemonSide>>

-----------------------------------------------------------------------------
(* The daemon.                                                             *)

\* start(): what is there is taken as seen, and no event tells of it.
StartWatcher ==
  /\ watcher = "down" /\ lives < MaxLives /\ lives' = lives + 1
  /\ watcher' = "starting" /\ cached' = state
  /\ unheard' = IF state = "ended" THEN "before" ELSE "no"
  /\ failed' = FALSE
  /\ UNCHANGED <<state, touched, removed, hookVars, ending, known, mistaken, nodes>>

\* chokidar has been through the directory, and reports what changes from now on.
WatcherReady ==
  /\ watcher = "starting" /\ watcher' = "on"
  /\ UNCHANGED <<fileVars, hookVars, lives, cached, ending, linkerVars>>

\* The daemon stops or dies.
StopWatcher ==
  /\ watcher # "down" /\ watcher' = "down"
  /\ touched' = FALSE /\ removed' = FALSE
  /\ cached' = "none" /\ ending' = 0 /\ known' = 0 /\ mistaken' = FALSE
  /\ UNCHANGED <<state, unheard, hookVars, lives, nodes, failed>>

\* Mutation: a session seen for the first time has just started.
EventTypeNew(previous, current) ==
  CASE previous = "none" -> "started"
    [] current = "ended" /\ previous # "ended" -> "ended"
    [] previous # current -> "updated"
    [] OTHER -> "nothing"

\* determineEventType()
EventType(previous, current) ==
  CASE current = "ended" /\ previous # "ended" -> "ended"
    [] previous = "none" -> "started"
    [] previous # current -> "updated"
    [] OTHER -> "nothing"

\* ensureSessionNode(): the search for the URI looks into titles and finds
\* nothing, so what this daemon has not made it makes.  If that fails it takes
\* the URI for the node's id, and keeps it.
Ensure(phase) ==
  IF known # 0 \/ mistaken THEN UNCHANGED <<known, mistaken, nodes>>
  ELSE \/ /\ nodes' = Append(nodes, [phase |-> phase, closed |-> FALSE])
          /\ known' = Len(nodes') /\ UNCHANGED mistaken
       \/ mistaken' = TRUE /\ UNCHANGED <<known, nodes>>

\* The debounce timer of the file fires.  An "updated" event looks for the node
\* in the same way, and changes nothing.
Debounced ==
  /\ touched /\ touched' = FALSE
  /\ LET event == IF state = "none" THEN "nothing" ELSE EventType(cached, state)
     IN  /\ cached' = IF state = "none" THEN cached ELSE state
         /\ ending' = IF event = "ended" THEN ending + 1 ELSE ending
         /\ unheard' = IF event = "nothing" THEN unheard ELSE "no"
         /\ IF event = "started" THEN Ensure(state) ELSE UNCHANGED <<known, mistaken, nodes>>
  /\ UNCHANGED <<state, removed, hookVars, lives, watcher, failed>>

\* handleFileDelete(): the nodes are kept.
Deleted ==
  /\ removed /\ removed' = FALSE /\ cached' = "none"
  /\ UNCHANGED <<state, touched, unheard, hookVars, lives, watcher, ending, linkerVars>>

\* The transcript has been read: the linker closes the session's node.
Close ==
  /\ ending > 0 /\ ending' = ending - 1
  /\ ~mistaken /\ UNCHANGED mistaken
  /\ known' = IF known = 0 THEN Len(nodes) + 1 ELSE known
  /\ nodes' = [i \in 1..(IF known' > Len(nodes) THEN known' ELSE Len(nodes)) |->
                 IF i = known' THEN [phase |-> "ended", closed |-> TRUE] ELSE nodes[i]]
  /\ failed' = FALSE
  /\ UNCHANGED <<fileVars, hookVars, lives, watcher, cached>>

\* A query or a write of the linker throws, as the update of a node that has a
\* URI for its id does.  It is caught, and nothing tries again.
CloseFails ==
  /\ ending > 0 /\ ending' = ending - 1
  /\ Ensure("ended") \/ UNCHANGED <<known, mistaken, nodes>>
  /\ failed' = TRUE
  /\ UNCHANGED <<fileVars, hookVars, lives, watcher, cached>>

SessionNext ==
  \/ \E r \in IF OneByOne THEN {"agent"} ELSE {"agent", "agent2"}, event \in Announcements :
       Dispatch(r, event)
  \/ PostCommit \/ GetsOld
  \/ \E r \in Runners : Load(r) \/ Unlink(r) \/ Save(r) \/ HookFails(r)
  \/ StartWatcher \/ WatcherReady \/ StopWatcher
  \/ Debounced \/ Deleted \/ Close \/ CloseFails

\* Timers fire and handlers end, well or not; hooks may be killed, and chokidar
\* need not become ready.
SessionFairness == WF_sessionVars(Debounced) /\ WF_sessionVars(Close \/ CloseFails)

SessionSpec == SessionInit /\ [][SessionNext]_sessionVars /\ SessionFairness

(***************************************************************************)
(* Properties.                                                             *)
(***************************************************************************)

\* When no hook is running, the file says the phase the state machine computes
\* from the agent's events.  A hook that is lost, or that wrote over what another
\* had written, leads it astray no longer than until the next start or end of a
\* turn, or end of the session, is saved.
FileFollowsMachine ==
  (\A r \in Runners : hooks[r].at = "done") =>
    \/ astray
    \/ state = truth
    \/ truth = "ended" /\ state = "none" /\ aged

\* A session whose file comes to say "ended" where the daemon can see it, and goes
\* on to, gets a node that is closed for good: no debounce, restart of the session
\* or slow transcript loses its end, unless the close itself throws.
EndedSessionsClose ==
  <>[](state = "ended" /\ watcher # "down" /\ unheard = "no" /\ ~failed)
    => <>[](nodes # << >> /\ nodes[Len(nodes)].closed)

\* The watcher hears of every session that ends after it has looked at the
\* directory (start).  What ends before chokidar is ready it does not.
EndsAreHeard == unheard # "unready"
=============================================================================
