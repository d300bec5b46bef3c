---------------------------- MODULE Checkpoints ----------------------------
(***************************************************************************)
(* Checkpoints of agents' work: src/sessionlog/strategy/manual-commit.ts   *)
(* over store/checkpoint-store.ts and strategy/content-overlap.ts.  Each   *)
(* step of a session is kept on the shadow branch of the commit it is      *)
(* based on; prepare-commit-msg puts the ID of a checkpoint into the       *)
(* message of a commit that has work of a session, and post-commit makes   *)
(* that checkpoint.                                                        *)
(*                                                                         *)
(* The hooks and the steps are processes: each reads the session files,    *)
(* runs git for a while, and writes them back.  A shadow branch has the    *)
(* tree of the commit, so a file that is new in the working tree is not on *)
(* it.  Files are only ever modified or made; the metadata directory of a  *)
(* step has a plain name (git mktree refuses one with a slash).            *)
(***************************************************************************)
EXTENDS Naturals, FiniteSets

CONSTANTS
  Agents,      \* sessions
  Files,
  Tracked,     \* those that are in the first commit
  MaxCommits,  \* bound on the commits made
  MaxStepsRun  \* bound on the steps saved

ASSUME CheckpointsAssumption == Tracked \subseteq Files /\ MaxCommits \in Nat /\ MaxStepsRun \in Nat

VARIABLES
  head,        \* the commit HEAD is at; commit 0 is the first
  commits,     \* commits[c]: its parent, the files in it, the ID in its message
  unsaved,     \* files that differ from HEAD
  sessions,    \* the session files
  shadow,      \* shadow[c]: the files on the shadow branch of commit c, if there is one
  misplaced,   \* the same of the branch a migration made, at refs/heads/refs/heads/
  checkpoints, \* checkpoints[id]: the session whose checkpoint it is, or nothing
  steps,       \* saveStep() under way: what it loaded
  stepsRun,
  hook,        \* the commit under way
  passedBy     \* history: commits that are amends, whose checkpoint could not be
               \* written, or that a session's step saw before post-commit was done

checkpointVars == <<head, commits, unsaved, sessions, shadow, misplaced,
                   checkpoints, steps, stepsRun, hook, passedBy>>

NoCheckpoint == 0
CheckpointIDs == 1..MaxCommits
Commits == 0..MaxCommits
NoBranch == [on |-> FALSE, tree |-> {}]
Branch(tree) == [on |-> TRUE, tree |-> tree]

Unstarted == [base |-> 0, stepped |-> FALSE, files |-> {}, last |-> NoCheckpoint, exists |-> FALSE]
NoStep == [on |-> FALSE, state |-> Unstarted]
NoHooks == [at |-> "idle", files |-> {}, id |-> NoCheckpoint, amend |-> FALSE, list |-> {}, seen |-> << >>]

CheckpointsInit ==
  /\ head = 0 /\ commits = [c \in {0} |-> [parent |-> 0, tree |-> Tracked, id |-> NoCheckpoint]]
  /\ unsaved = {} /\ sessions = [a \in Agents |-> Unstarted] 
  /\ shadow = [c \in Commits |-> NoBranch] /\ misplaced = [c \in Commits |-> NoBranch]
  /\ checkpoints = [id \in CheckpointIDs |-> {}]
  /\ steps = [a \in Agents |-> NoStep] /\ stepsRun = 0
  /\ hook = NoHooks /\ passedBy = {}

NextCommit == Cardinality(DOMAIN commits)

\* What git finds for refs/heads/<branch>: that, or refs/heads/refs/heads/<branch>.
Shadow(c) == IF shadow[c].on THEN shadow[c] ELSE misplaced[c]

Recorded(s) == s.exists /\ s.stepped /\ s.files # {} /\ Shadow(s.base).on

-----------------------------------------------------------------------------
(* saveStep()                                                              *)

\* migrateShadowBranchIfNeeded(): HEAD moved on, and the session with it.
Migrated(s) == [s EXCEPT !.base = head]

\* The session is loaded, or made, and migrated.  updateRef() puts refs/heads/ before
\* a name that has it; git branch -d refuses a branch that is not merged.
LoadForStep(a) ==
  LET loaded == IF sessions[a].exists THEN sessions[a]
                ELSE [Unstarted EXCEPT !.base = head, !.exists = TRUE]
  IN  /\ ~steps[a].on /\ stepsRun < MaxStepsRun /\ stepsRun' = stepsRun + 1
      /\ steps' = [steps EXCEPT ![a] = [on |-> TRUE, state |-> Migrated(loaded)]]
      /\ sessions' = [sessions EXCEPT ![a] = Migrated(loaded)]
      /\ misplaced' = IF loaded.base = head \/ ~Shadow(loaded.base).on THEN misplaced
                      ELSE [misplaced EXCEPT ![head] = Shadow(loaded.base)]
      /\ passedBy' = IF hook.at \in {"made", "post"} /\ loaded.base # head THEN passedBy \cup {head} ELSE passedBy
      /\ UNCHANGED <<head, commits, unsaved, shadow, checkpoints, hook>>

\* writeTemporary() finds a branch, and git rev-parse none of its short name.
Unwritable(a) == ~shadow[steps[a].state.base].on /\ misplaced[steps[a].state.base].on

\* The shadow branch gets the tree of HEAD.
WriteTemporary(a) ==
  /\ steps[a].on /\ ~Unwritable(a)
  /\ shadow' = [shadow EXCEPT ![steps[a].state.base] = Branch(commits[head].tree)]
  /\ steps' = [steps EXCEPT ![a] = NoStep]

\* The state as it was loaded is saved with the step in it.
SaveStep(a) ==
  /\ WriteTemporary(a)
  /\ \E worked \in (SUBSET Files) \ {{}} :
       /\ unsaved' = unsaved \cup worked
       /\ sessions' = [sessions EXCEPT ![a] =
            [steps[a].state EXCEPT !.stepped = TRUE, !.files = @ \cup worked]]
  /\ UNCHANGED <<head, commits, misplaced, checkpoints, stepsRun, hook, passedBy>>

\* saveTaskStep(): a subagent's step is not counted.
SaveTaskStep(a) ==
  /\ WriteTemporary(a)
  /\ \E worked \in (SUBSET Files) \ {{}} :
       /\ unsaved' = unsaved \cup worked
       /\ sessions' = [sessions EXCEPT ![a] = [steps[a].state EXCEPT !.files = @ \cup worked]]
  /\ UNCHANGED <<head, commits, misplaced, checkpoints, stepsRun, hook, passedBy>>

\* The files are changed, and saveStep() throws.
StepFails(a) ==
  /\ steps[a].on /\ Unwritable(a)
  /\ \E worked \in (SUBSET Files) \ {{}} : unsaved' = unsaved \cup worked
  /\ steps' = [steps EXCEPT ![a] = NoStep]
  /\ UNCHANGED <<head, commits, sessions, shadow, misplaced, checkpoints, stepsRun, hook, passedBy>>

-----------------------------------------------------------------------------
(* git commit                                                              *)

\* stagedFilesOverlapWithContent(): a file of the session that HEAD has is staged.
StagedOverlap(s, staged) == staged \cap s.files \cap commits[head].tree # {}

\* filesOverlapWithContent(): the parent or the shadow branch has a file of the session.
CommittedOverlap(s, parent) ==
  s.files \cap commits[head].tree \cap (commits[parent].tree \cup Shadow(s.base).tree) # {}

\* prepareCommitMsg(): the ID the session has, or a new one.
PrepareCommitMsg(staged, amend) ==
  LET base == {a \in Agents : /\ Recorded(sessions[a]) /\ sessions[a].base = head
                              /\ StagedOverlap(sessions[a], staged)}
      Set(id) == hook' = [NoHooks EXCEPT !.at = "message", !.files = staged, !.id = id, !.amend = amend]
  IN  /\ hook.at = "idle" /\ NextCommit <= MaxCommits
      /\ \/ amend /\ commits[head].id # NoCheckpoint /\ Set(commits[head].id)
         \/ /\ ~amend \/ commits[head].id = NoCheckpoint
            /\ IF base = {} THEN Set(NoCheckpoint)
               ELSE \E a \in base : Set(IF sessions[a].last # NoCheckpoint THEN sessions[a].last ELSE NextCommit)
      /\ UNCHANGED <<head, commits, unsaved, sessions, shadow, misplaced, checkpoints, steps, stepsRun, passedBy>>

\* git makes the commit.
MakeCommit ==
  LET parent == IF hook.amend THEN commits[head].parent ELSE head
  IN  /\ hook.at = "message"
      /\ commits' = [c \in DOMAIN commits \cup {NextCommit} |->
           IF c # NextCommit THEN commits[c]
           ELSE [parent |-> parent, tree |-> commits[head].tree \cup hook.files, id |-> hook.id]]
      /\ head' = NextCommit
      /\ passedBy' = IF hook.amend THEN passedBy \cup {NextCommit} ELSE passedBy
      /\ \E left \in SUBSET hook.files : unsaved' = (unsaved \ hook.files) \cup left
      /\ hook' = [hook EXCEPT !.at = "made"]
      /\ UNCHANGED <<sessions, shadow, misplaced, checkpoints, steps, stepsRun>>

\* HEAD moves without the hooks: a pull, a rebase.
Pull ==
  /\ hook.at = "idle" /\ NextCommit <= MaxCommits
  /\ commits' = [c \in DOMAIN commits \cup {NextCommit} |->
       IF c # NextCommit THEN commits[c] ELSE [commits[head] EXCEPT !.parent = head, !.id = NoCheckpoint]]
  /\ head' = NextCommit
  /\ UNCHANGED <<unsaved, sessions, shadow, misplaced, checkpoints, steps, stepsRun, hook, passedBy>>

\* Mutation: the sessions based on the commit itself.
PostCommitOfHead ==
  /\ hook.at = "made"
  /\ LET list == {a \in Agents : sessions[a].exists /\ sessions[a].base = head}
     IN  hook' = IF hook.id = NoCheckpoint \/ list = {} THEN NoHooks
                 ELSE [hook EXCEPT !.at = "post", !.list = list, !.seen = sessions]
  /\ UNCHANGED <<head, commits, unsaved, sessions, shadow, misplaced, checkpoints, steps, stepsRun, passedBy>>

\* postCommit(): the sessions based on the parent, as their files are now.
PostCommit ==
  /\ hook.at = "made"
  /\ LET list == {a \in Agents : sessions[a].exists /\ sessions[a].base = commits[head].parent}
     IN  hook' = IF hook.id = NoCheckpoint \/ list = {} THEN NoHooks
                 ELSE [hook EXCEPT !.at = "post", !.list = list, !.seen = sessions]
  /\ UNCHANGED <<head, commits, unsaved, sessions, shadow, misplaced, checkpoints, steps, stepsRun, passedBy>>

\* filesWithRemainingAgentChanges(): what is not in the commit, and what differs from
\* the shadow branch's and was changed again since.
Remaining(s) ==
  LET again == s.files \cap hook.files \cap Shadow(s.base).tree \cap unsaved
  IN  {(s.files \ hook.files) \cup some : some \in SUBSET again}

NextSession(a) ==
  hook' = IF hook.list = {a} THEN NoHooks ELSE [hook EXCEPT !.list = @ \ {a}]

\* condenseSession(): the checkpoint replaces one of the same ID.  What is left
\* is carried forward; when nothing is, the shadow branch is deleted.  All this
\* happens also if the checkpoint cannot be written.
Condense(a) ==
  LET s == hook.seen[a]
  IN  /\ hook.at = "post" /\ a \in hook.list
      /\ Recorded(s) /\ CommittedOverlap(s, commits[head].parent)
      /\ \/ checkpoints' = [checkpoints EXCEPT ![hook.id] = {a}] /\ UNCHANGED passedBy
         \/ passedBy' = passedBy \cup {head} /\ UNCHANGED checkpoints
      /\ \E remaining \in Remaining(s) :
           /\ shadow' = IF remaining # {} THEN shadow ELSE [shadow EXCEPT ![s.base] = NoBranch]
           /\ sessions' = [sessions EXCEPT ![a] =
                [s EXCEPT !.base = head, !.stepped = FALSE, !.files = remaining, !.last = hook.id]]
      /\ NextSession(a)
      /\ UNCHANGED <<head, commits, unsaved, misplaced, steps, stepsRun>>

\* A session without steps, a shadow branch or files in the parent is left alone.
PassOver(a) ==
  /\ hook.at = "post" /\ a \in hook.list
  /\ ~(Recorded(hook.seen[a]) /\ CommittedOverlap(hook.seen[a], commits[head].parent))
  /\ NextSession(a)
  /\ UNCHANGED <<head, commits, unsaved, sessions, shadow, misplaced, checkpoints, steps, stepsRun, passedBy>>

CheckpointsNext ==
  \/ \E a \in Agents : LoadForStep(a) \/ SaveStep(a) \/ SaveTaskStep(a) \/ StepFails(a) \/ Condense(a) \/ PassOver(a)
  \/ \E staged \in (SUBSET unsaved) \ {{}}, amend \in BOOLEAN : PrepareCommitMsg(staged, amend)
  \/ MakeCommit \/ PostCommit \/ Pull

CheckpointsSpec == CheckpointsInit /\ [][CheckpointsNext]_checkpointVars

(***************************************************************************)
(* Properties.                                                             *)
(***************************************************************************)

\* Once the hooks of a commit are done, the checkpoint its message names exists,
\* whichever sessions had work in it and whatever steps were saved meanwhile;
\* but for the commits in passedBy.
TrailersBacked ==
  hook.at = "idle" =>
    \A c \in DOMAIN commits \ passedBy :
      commits[c].id # NoCheckpoint => checkpoints[commits[c].id] # {}

\* Without those exceptions, and: no two commits name the same checkpoint.
\* Neither holds.
EveryTrailerBacked ==
  hook.at = "idle" =>
    \A c \in DOMAIN commits : commits[c].id # NoCheckpoint => checkpoints[commits[c].id] # {}
TrailersDistinct ==
  \A c, d \in DOMAIN commits \ passedBy :
    c # d /\ commits[c].id = commits[d].id => commits[c].id = NoCheckpoint

\* "Old shadow branch exists -- rename it to the new base" (manual-commit.ts), so
\* that no step of a session fails.  Not so.
StepsAreWritten == \A a \in Agents : ~(steps[a].on /\ Unwritable(a))
=============================================================================
