------------------------ MODULE FlushPipelineProofs ------------------------
(***************************************************************************)
(* Proofs about FlushPipeline, for any nodes, RPCs, syncs and versions.    *)
(***************************************************************************)
EXTENDS FlushPipeline, TLAPS

\* A flusher stays one through every call on it.
LEMMA FlusherTypes ==
  ASSUME NEW f \in Flusher
  PROVE  /\ Quiet \in Flusher /\ MarkDirty(f) \in Flusher /\ Schedule(f) \in Flusher
         /\ \A timer \in {"debounce", "max"} : Spent(f, timer) \in Flusher
         /\ Schedule(MarkDirty(f)) \in Flusher
BY DEF Flusher, Quiet, MarkDirty, Schedule, Spent

\* The flush of the store keeps the types of what it changes.
LEMMA StoreFlushType ==
  ASSUME TypeOK, StoreFlush
  PROVE  /\ rows' \subseteq Nodes /\ pending' \subseteq Nodes /\ inner' \in Flusher
         /\ job' \in [phase : {"idle", "loading", "saving"}, ids : SUBSET Nodes,
                      image : [Nodes -> Versions]]
<1> USE PipelineAssumption
<1>1. Idle \in [phase : {"idle", "loading", "saving"}, ids : SUBSET Nodes,
                image : [Nodes -> Versions]]
  BY DEF Idle, Versions
<1>2. CASE job.phase # "idle"
  BY <1>2 DEF StoreFlush, TypeOK, store
<1>3. CASE job.phase = "idle" /\ ~inner.dirty
  BY <1>3, FlusherTypes DEF StoreFlush, TypeOK
<1>4. CASE job.phase = "idle" /\ inner.dirty
  <2>1. rows' \subseteq Nodes /\ pending' \subseteq Nodes /\ inner' \in Flusher
    BY <1>4, FlusherTypes DEF StoreFlush, TypeOK
  <2>2. [Idle EXCEPT !.phase = "loading", !.ids = rows'] \in
          [phase : {"idle", "loading", "saving"}, ids : SUBSET Nodes, image : [Nodes -> Versions]]
    BY <1>1, <2>1 DEF Idle
  <2>3. QED  BY <1>1, <1>4, <2>1, <2>2 DEF StoreFlush
<1>5. QED  BY <1>2, <1>3, <1>4

\* So does the FlushManager's flush.
LEMMA OuterFlushType ==
  ASSUME TypeOK, NEW ns \in SUBSET Nodes, NEW f \in Flusher, OuterFlush(ns, f)
  PROVE  /\ rows' \subseteq Nodes /\ pending' \subseteq Nodes /\ inner' \in Flusher
         /\ job' \in [phase : {"idle", "loading", "saving"}, ids : SUBSET Nodes,
                      image : [Nodes -> Versions]]
         /\ nodes' \subseteq Nodes /\ outer' \in Flusher /\ busy' \in BOOLEAN
<1>1. CASE UNCHANGED store
  <2>1. /\ rows' \subseteq Nodes /\ pending' \subseteq Nodes /\ inner' \in Flusher
        /\ job' \in [phase : {"idle", "loading", "saving"}, ids : SUBSET Nodes,
                     image : [Nodes -> Versions]]
    BY <1>1 DEF TypeOK, store
  <2>2. nodes' \subseteq Nodes /\ outer' \in Flusher /\ busy' \in BOOLEAN
    BY FlusherTypes DEF OuterFlush, TypeOK
  <2>3. QED  BY <2>1, <2>2
<1>2. CASE StoreFlush
  BY <1>2, StoreFlushType, FlusherTypes DEF OuterFlush, TypeOK
<1>3. QED  BY <1>1, <1>2 DEF OuterFlush

\* The type of the variables is preserved by every step.
LEMMA TypeStep == TypeOK /\ [Next]_vars => TypeOK'
<1> USE PipelineAssumption, FlusherTypes DEF Nodes, Versions, fate
<1>0. SUFFICES ASSUME TypeOK, [Next]_vars PROVE TypeOK'
  OBVIOUS
<1> USE <1>0
<1>1. ASSUME NEW timer \in {"debounce", "max"}, InnerTimer(timer)
      PROVE  TypeOK'
  <2>1. CASE StoreFlush
    BY <1>1, <2>1, StoreFlushType DEF InnerTimer, TypeOK, daemon, rpcs, watcher, history
  <2>2. CASE ~StoreFlush
    BY <1>1, <2>2 DEF InnerTimer, TypeOK, daemon, rpcs, watcher, history
  <2>3. QED  BY <2>1, <2>2
<1>2. ASSUME NEW timer \in {"debounce", "max"}, OuterTimer(timer)
      PROVE  TypeOK'
  <2>1. CASE OuterFlush(nodes, outer)
    <3>1. nodes \in SUBSET Nodes /\ outer \in Flusher
      BY DEF TypeOK
    <3>2. QED
      BY <1>2, <2>1, <3>1, OuterFlushType DEF OuterTimer, TypeOK, rpcs, watcher, history
  <2>2. CASE ~OuterFlush(nodes, outer)
    BY <1>2, <2>2 DEF OuterTimer, TypeOK, rpcs, watcher, history, store
  <2>3. QED  BY <2>1, <2>2
<1>3. CASE StoreLoaded
  <2>1. [n \in Nodes |-> IF n \in job.ids THEN db[n] ELSE file[n]] \in [Nodes -> Versions]
    BY DEF TypeOK
  <2>2. job' \in [phase : {"idle", "loading", "saving"}, ids : SUBSET Nodes,
                  image : [Nodes -> Versions]]
    BY <1>3, <2>1 DEF StoreLoaded, TypeOK
  <2>3. QED
    BY <1>3, <2>2 DEF StoreLoaded, TypeOK, daemon, rpcs, watcher, history
<1>4. CASE StoreSaved
  <2>1. Idle \in [phase : {"idle", "loading", "saving"}, ids : SUBSET Nodes,
                  image : [Nodes -> Versions]]
    BY DEF Idle
  <2>2. job.image \in [Nodes -> Versions]
    BY DEF TypeOK
  <2>3. QED
    BY <1>4, <2>1, <2>2 DEF StoreSaved, TypeOK, rpcs, history
<1>5. ASSUME NEW n \in Local, UpdateNode(n)
      PROVE  /\ db' \in [Nodes -> Versions] /\ edited' \in [Nodes -> Versions]
             /\ pending' \subseteq Nodes /\ inner' \in Flusher /\ UNCHANGED <<rows, job>>
  BY <1>5 DEF UpdateNode, TypeOK
<1>6. ASSUME NEW n \in Local, Edit(n)
      PROVE  TypeOK'
  <2>1. nodes' \subseteq Nodes /\ outer' \in Flusher
    BY <1>6 DEF Edit, TypeOK
  <2>2. QED  BY <1>5, <1>6, <2>1 DEF Edit, TypeOK, rpcs, watcher
<1>7. ASSUME NEW c \in Callers, NEW n \in Local, Terminal(c, n)
      PROVE  TypeOK'
  <2>1. arg' \in [Callers -> [node : Local, version : Versions]]
    BY <1>7 DEF Terminal, UpdateNode, TypeOK
  <2>2. QED  BY <1>5, <1>7, <2>1 DEF Terminal, TypeOK, daemon, watcher
<1>8. ASSUME NEW c \in Callers, NEW n \in Local, ClaimWrite(c, n)
      PROVE  TypeOK'
  <2>1. arg' \in [Callers -> [node : Local, version : Versions]] /\ db' \in [Nodes -> Versions]
    BY <1>8 DEF ClaimWrite, TypeOK
  <2>2. QED  BY <1>8, <2>1 DEF ClaimWrite, TypeOK, daemon, watcher, history
<1>9. ASSUME NEW c \in Callers, DurableFlush(c)
      PROVE  TypeOK'
  <2>1. nodes \cup {arg[c].node} \in SUBSET Nodes /\ MarkDirty(outer) \in Flusher
    BY DEF TypeOK
  <2>2. CASE paused
    BY <1>9, <2>1, <2>2 DEF DurableFlush, TypeOK, watcher, history, store
  <2>3. CASE ~paused
    <3>1. OuterFlush(nodes \cup {arg[c].node}, MarkDirty(outer))
      BY <1>9, <2>3 DEF DurableFlush
    <3>2. QED
      BY <1>9, <2>1, <2>3, <3>1, OuterFlushType DEF DurableFlush, TypeOK, watcher, history
  <2>4. QED  BY <2>2, <2>3
<1>10. ASSUME NEW p \in Callers \cup Syncs, Drain(p)
       PROVE  TypeOK'
  <2>1. nodes \in SUBSET Nodes /\ outer \in Flusher
    BY DEF TypeOK
  <2>2. QED
    BY <1>10, <2>1, OuterFlushType DEF Drain, TypeOK, rpcs, watcher, history
<1>11. ASSUME NEW c \in Callers, DurableReturn(c)
       PROVE  TypeOK'
  <2>1. acked' \in [Nodes -> Versions]
    BY <1>11 DEF DurableReturn, TypeOK
  <2>2. QED
    BY <1>11, <2>1 DEF DurableReturn, TypeOK, store, daemon, watcher
<1>12. ASSUME NEW s \in Syncs, SyncFlush(s)
       PROVE  TypeOK'
  <2>1. nodes \in SUBSET Nodes /\ outer \in Flusher
    BY DEF TypeOK
  <2>2. CASE paused
    BY <1>12, <2>2 DEF SyncFlush, TypeOK, watcher, history, store
  <2>3. CASE ~paused
    BY <1>12, <2>1, <2>3, OuterFlushType DEF SyncFlush, TypeOK, watcher, history
  <2>4. QED  BY <2>2, <2>3
<1>13. ASSUME NEW s \in Syncs, SyncPull(s)
       PROVE  TypeOK'
  <2>1. file' \in [Nodes -> Versions] /\ pulled' \in Versions
    BY <1>13 DEF SyncPull, TypeOK
  <2>2. QED
    BY <1>13, <2>1 DEF SyncPull, Pause, TypeOK, store
<1>15. ASSUME NEW f \in Flusher, Resume(f)
       PROVE  outer' \in Flusher /\ paused' \in BOOLEAN
  BY <1>15 DEF Resume, TypeOK
<1>16. ASSUME Reload
       PROVE  db' \in [Nodes -> Versions] /\ edited' \in [Nodes -> Versions]
  BY <1>16 DEF Reload, TypeOK
<1>17. ASSUME NEW s \in Syncs, SyncEmpty(s)
       PROVE  TypeOK'
  <2>1. outer' \in Flusher /\ paused' \in BOOLEAN
    BY <1>15, <1>17 DEF SyncEmpty, TypeOK
  <2>2. QED
    BY <1>17, <2>1 DEF SyncEmpty, TypeOK, store, watcher, history
<1>18. ASSUME NEW s \in Syncs, SyncReload(s)
       PROVE  TypeOK'
  BY <1>15, <1>16, <1>18 DEF SyncReload, TypeOK, store, watcher
<1>19. CASE WatcherFires
  BY <1>19 DEF WatcherFires, Pause, TypeOK, store, rpcs, history
<1>20. CASE WatcherReload
  BY <1>15, <1>16, <1>20 DEF WatcherReload, TypeOK, store, rpcs
<1>21. CASE Die
  <2>1. Idle \in [phase : {"idle", "loading", "saving"}, ids : SUBSET Nodes,
                  image : [Nodes -> Versions]] /\ Quiet \in Flusher
    BY DEF Idle, TypeOK
  <2>2. QED
    BY <1>16, <1>21, <2>1 DEF Die, TypeOK
<1>22. CASE Stop
  <2>1. CASE StoreFlush
    BY <1>22, <2>1, StoreFlushType DEF Stop, TypeOK, history
  <2>2. CASE UNCHANGED store
    BY <1>22, <2>2 DEF Stop, TypeOK, history, store
  <2>3. QED  BY <1>22, <2>1, <2>2 DEF Stop
<1>23. CASE CloseFlush
  BY <1>23, StoreFlushType DEF CloseFlush, TypeOK, daemon, watcher, history
<1>24. CASE Closed
  BY <1>24 DEF Closed, TypeOK, store, daemon, watcher, history
<1>25. CASE UNCHANGED vars
  BY <1>25 DEF vars, TypeOK, store, daemon, rpcs, watcher, history
<1>26. CASE CrashRestart
  BY <1>21, <1>26 DEF CrashRestart
<1>27. CASE FlushFails
  <2>1. CASE timed
    BY <1>21, <1>27, <2>1 DEF FlushFails
  <2>2. CASE ~timed
    <3>1. Idle \in [phase : {"idle", "loading", "saving"}, ids : SUBSET Nodes,
                    image : [Nodes -> Versions]]
      BY DEF Idle
    <3>2. pc' \in [Callers \cup Syncs -> {"idle", "calling", "awaiting", "pulled"}]
      BY <1>27, <2>2 DEF FlushFails, TypeOK
    <3>3. QED
      BY <1>27, <2>2, <3>1, <3>2 DEF FlushFails, TypeOK, watcher, history
  <2>3. QED  BY <2>1, <2>2
<1>28. QED
  BY <1>1, <1>2, <1>3, <1>4, <1>6, <1>7, <1>8, <1>9, <1>10, <1>11, <1>12, <1>13,
     <1>17, <1>18, <1>19, <1>20, <1>22, <1>23, <1>24, <1>25, <1>26, <1>27
     DEF Next, Continuation, Event, Settled

LEMMA InitTypes == Init => TypeOK /\ nodes = {}
<1> USE PipelineAssumption
<1>0. SUFFICES ASSUME Init PROVE TypeOK /\ nodes = {}
  OBVIOUS
<1>1. 0 \in Versions /\ 1 \in Versions
  BY DEF Versions
<1>2. Quiet \in Flusher
  BY DEF Quiet, Flusher
<1>3. Idle \in [phase : {"idle", "loading", "saving"}, ids : SUBSET Nodes,
                image : [Nodes -> Versions]]
  BY <1>1 DEF Idle
<1>4. /\ db \in [Nodes -> Versions] /\ file \in [Nodes -> Versions]
      /\ acked \in [Nodes -> Versions] /\ edited \in [Nodes -> Versions] /\ pulled \in Versions
  BY <1>0, <1>1 DEF Init
<1>5. pc \in [Callers \cup Syncs -> {"idle", "calling", "awaiting", "pulled"}]
  BY <1>0 DEF Init
<1>6. arg \in [Callers -> [node : Local, version : Versions]]
  BY <1>0, <1>1 DEF Init
<1>7. QED
  BY <1>0, <1>2, <1>3, <1>4, <1>5, <1>6 DEF Init, TypeOK

\* Every variable keeps its type (FlushPipeline!Spec).
THEOREM PipelineTypes == Spec => []TypeOK
<1>1. QED
  BY InitTypes, TypeStep, PTL DEF Spec

(***************************************************************************)
(* The drain loop.  DrainEnds says nothing of a flusher that is busy; what *)
(* is inductive does.                                                      *)
(***************************************************************************)
DirtyTogether == nodes # {} /\ ~paused => outer.dirty

LEMMA DrainStep == TypeOK /\ DirtyTogether /\ [Next]_vars => DirtyTogether'
<1> USE DEF DirtyTogether
<1>0. SUFFICES ASSUME TypeOK, DirtyTogether, [Next]_vars PROVE DirtyTogether'
  OBVIOUS
<1>1. /\ outer \in Flusher
      /\ \A timer \in {"debounce", "max"} : Spent(outer, timer).dirty = outer.dirty
      /\ MarkDirty(outer).dirty /\ Schedule(MarkDirty(outer)).dirty
  BY <1>0 DEF TypeOK, Flusher, Spent, MarkDirty, Schedule
<1>2. ASSUME NEW ns, NEW f, OuterFlush(ns, f), ns # {} => f.dirty
      PROVE  nodes' # {} => outer'.dirty
  BY <1>2 DEF OuterFlush
<1>3. ASSUME NEW timer \in {"debounce", "max"}, OuterTimer(timer)
      PROVE  DirtyTogether'
  <2>1. CASE busy
    BY <1>0, <1>1, <1>3, <2>1 DEF OuterTimer
  <2>2. CASE ~busy
    BY <1>0, <1>2, <1>3, <2>2 DEF OuterTimer
  <2>3. QED  BY <2>1, <2>2
<1>4. ASSUME NEW n \in Local, Edit(n)
      PROVE  DirtyTogether'
  BY <1>1, <1>4 DEF Edit
<1>5. ASSUME NEW c \in Callers, DurableFlush(c)
      PROVE  DirtyTogether'
  <2>1. CASE paused
    BY <1>1, <1>5, <2>1 DEF DurableFlush
  <2>2. CASE ~paused
    BY <1>1, <1>2, <1>5, <2>2 DEF DurableFlush
  <2>3. QED  BY <2>1, <2>2
<1>6. ASSUME NEW p \in Callers \cup Syncs, Drain(p)
      PROVE  DirtyTogether'
  BY <1>0, <1>2, <1>6 DEF Drain
<1>7. ASSUME NEW s \in Syncs, SyncFlush(s)
      PROVE  DirtyTogether'
  BY <1>0, <1>2, <1>7 DEF SyncFlush
<1>8. ASSUME NEW f \in Flusher, Resume(f), nodes' = nodes
      PROVE  DirtyTogether'
  BY <1>8 DEF Resume, Flusher, MarkDirty, Schedule
<1>9. CASE CrashRestart \/ Stop
  BY <1>9 DEF CrashRestart, Die, Stop
<1>10. ASSUME UNCHANGED <<nodes, outer, paused>>
       PROVE  DirtyTogether'
  BY <1>0, <1>10
<1>11. ASSUME NEW s \in Syncs, SyncPull(s)
       PROVE  DirtyTogether'
  BY <1>11 DEF SyncPull, Pause
<1>12. CASE WatcherFires
  BY <1>0, <1>12 DEF WatcherFires, Pause
<1>13. ASSUME NEW timer \in {"debounce", "max"}, InnerTimer(timer)
       PROVE  DirtyTogether'
  BY <1>10, <1>13 DEF InnerTimer, daemon
<1>14. ASSUME NEW c \in Callers, NEW n \in Local, Terminal(c, n) \/ ClaimWrite(c, n)
       PROVE  DirtyTogether'
  BY <1>10, <1>14 DEF Terminal, ClaimWrite, daemon
<1>15. ASSUME NEW c \in Callers, DurableReturn(c)
       PROVE  DirtyTogether'
  BY <1>10, <1>15 DEF DurableReturn, daemon
<1>16. ASSUME NEW s \in Syncs, SyncEmpty(s)
       PROVE  DirtyTogether'
  BY <1>1, <1>8, <1>16 DEF SyncEmpty, Quiet, Flusher
<1>17. ASSUME NEW s \in Syncs, SyncReload(s)
       PROVE  DirtyTogether'
  BY <1>1, <1>8, <1>17 DEF SyncReload
<1>18. CASE WatcherReload
  BY <1>1, <1>8, <1>18 DEF WatcherReload
<1>19. CASE StoreLoaded \/ StoreSaved \/ CloseFlush \/ Closed \/ UNCHANGED vars
  BY <1>10, <1>19 DEF StoreLoaded, StoreSaved, CloseFlush, Closed, vars, daemon
<1>20. CASE FlushFails
  BY <1>10, <1>20 DEF FlushFails, Die
<1>21. QED
  BY <1>0, <1>3, <1>4, <1>5, <1>6, <1>7, <1>9, <1>11, <1>12, <1>13, <1>14, <1>15, <1>16,
     <1>17, <1>18, <1>19, <1>20 DEF Next, Continuation, Event, Settled

\* However pauses, resumes, flushes, crashes and stops interleave, the drain
\* loop of DaemonFlushManager.flush never spins on a clean flusher.
THEOREM DrainAlwaysEnds == Spec => []DrainEnds
<1>1. Init => TypeOK /\ DirtyTogether
  BY InitTypes DEF DirtyTogether
<1>2. DirtyTogether => DrainEnds
  BY DEF DirtyTogether, DrainEnds
<1>3. QED
  BY <1>1, <1>2, TypeStep, DrainStep, PTL DEF Spec

(***************************************************************************)
(* The marks.  Claims forget theirs and reloads undo rows (the runs show   *)
(* both), so the daemon here makes no claim, syncs with nobody and has a   *)
(* watcher that reloads nothing; it may crash and stop at any step.        *)
(***************************************************************************)
Alone == Syncs = {} /\ ~MultiLocation /\ "claim" \notin Writes

\* Where the next image of n, if there is a flush under way, gets n from.
Covered(n) ==
  /\ job.phase = "idle" /\ ~failed => db[n] <= file[n]
  /\ job.phase = "loading" => n \in job.ids \/ db[n] <= file[n]
  /\ job.phase = "saving" => db[n] <= job.image[n]

Marks ==
  /\ pending # {} => inner.dirty
  /\ job.ids \subseteq rows
  /\ \A n \in Local : edited[n] <= db[n]
  /\ \A n \in Local : n \notin pending => Covered(n)
  /\ \A n \in Local : db[n] > file[n] => n \in pending \cup rows

MarksInv == Alone /\ TypeOK /\ ~notify /\ ~reloading /\ Marks

\* A flush of the store that starts takes every mark with it.
LEMMA StoreFlushMarks ==
  ASSUME TypeOK, Marks, StoreFlush, UNCHANGED <<db, file, edited, failed>>
  PROVE  Marks'
<1> USE DEF Nodes, Versions
<1>0. \A n \in Local : db[n] \in Nat /\ file[n] \in Nat
  BY PipelineAssumption DEF TypeOK
<1>1. CASE job.phase # "idle"
  BY <1>1 DEF StoreFlush, Marks, Covered, store
<1>2. CASE job.phase = "idle" /\ ~inner.dirty
  <2>1. UNCHANGED <<rows, pending, job>> /\ pending = {}
    BY <1>2 DEF StoreFlush, Marks
  <2>2. QED  BY <2>1 DEF Marks, Covered
<1>3. CASE job.phase = "idle" /\ inner.dirty
  <2>1. rows' = rows \cup pending /\ pending' = {}
    BY <1>3 DEF StoreFlush
  <2>2. CASE rows' = {}
    <3>1. job' = Idle
      BY <1>3, <2>2 DEF StoreFlush
    <3>2. job'.phase = "idle" /\ job'.ids = {}
      BY <3>1 DEF Idle
    <3>3. \A n \in Local : db[n] <= file[n]
      BY <1>0, <2>1, <2>2 DEF Marks
    <3>4. QED  BY <2>1, <3>2, <3>3 DEF Marks, Covered
  <2>3. CASE rows' # {}
    <3>1. job' = [Idle EXCEPT !.phase = "loading", !.ids = rows']
      BY <1>3, <2>3 DEF StoreFlush
    <3>2. job'.phase = "loading" /\ job'.ids = rows'
      BY <3>1 DEF Idle
    <3>3. \A n \in Local : n \in job'.ids \/ db[n] <= file[n]
      BY <1>0, <2>1, <3>2 DEF Marks
    <3>4. QED  BY <2>1, <3>2, <3>3 DEF Marks, Covered
  <2>4. QED  BY <2>2, <2>3
<1>4. QED  BY <1>1, <1>2, <1>3

\* An edit marks its node.
LEMMA UpdateMarks ==
  ASSUME TypeOK, Marks, NEW n \in Local, UpdateNode(n), UNCHANGED <<file, failed>>
  PROVE  Marks'
<1> USE DEF Nodes, Versions
<1>1. inner'.dirty
  BY DEF UpdateNode, Schedule, MarkDirty, TypeOK, Flusher
<1>2. \A m \in Local : edited'[m] <= db'[m]
  BY PipelineAssumption DEF UpdateNode, TypeOK, Marks
<1>3. \A m \in Local \ {n} : db'[m] = db[m]
  BY DEF UpdateNode, TypeOK
<1>4. pending' = pending \cup {n} /\ UNCHANGED <<rows, job>>
  BY DEF UpdateNode
<1>5. ASSUME NEW m \in Local, m \notin pending'
      PROVE  Covered(m)'
  BY <1>3, <1>4, <1>5 DEF Marks, Covered
<1>6. \A m \in Local : db'[m] > file'[m] => m \in pending' \cup rows'
  BY <1>3, <1>4 DEF Marks
<1>7. QED
  BY <1>1, <1>2, <1>4, <1>5, <1>6 DEF Marks

\* A step that touches none of this.
LEMMA OtherMarks ==
  ASSUME Marks, UNCHANGED <<db, file, edited, store, failed>>
  PROVE  Marks'
BY DEF Marks, Covered, store

\* No step of a daemon alone loses a mark.
LEMMA MarksStep == MarksInv /\ [Next]_vars => MarksInv'
<1> USE DEF Nodes, Versions, fate
<1>0. SUFFICES ASSUME MarksInv, [Next]_vars
               PROVE  Marks' /\ ~notify' /\ ~reloading'
  BY TypeStep DEF MarksInv, Alone
<1>a. TypeOK /\ Marks /\ ~notify /\ ~reloading /\ Syncs = {} /\ ~MultiLocation /\ "claim" \notin Writes
  BY <1>0 DEF MarksInv, Alone
<1>b. \A n \in Local : db[n] \in Nat /\ file[n] \in Nat /\ edited[n] \in Nat /\ job.image[n] \in Nat
  BY <1>a, PipelineAssumption DEF TypeOK
<1>c. ASSUME NEW ns, NEW f, OuterFlush(ns, f), UNCHANGED <<db, file, history, failed>>
      PROVE  Marks'
  <2>1. CASE StoreFlush
    BY <1>a, <1>c, <2>1, StoreFlushMarks DEF history
  <2>2. CASE UNCHANGED store
    BY <1>a, <1>c, <2>2, OtherMarks DEF history
  <2>3. QED  BY <1>c, <2>1, <2>2 DEF OuterFlush
<1>1. ASSUME NEW timer \in {"debounce", "max"}, InnerTimer(timer)
      PROVE  Marks' /\ ~notify' /\ ~reloading'
  <2>1. CASE StoreFlush
    BY <1>a, <1>1, <2>1, StoreFlushMarks DEF InnerTimer, history, watcher
  <2>2. CASE inner' = Spent(inner, timer) /\ UNCHANGED <<rows, pending, job>>
    <3>1. inner'.dirty = inner.dirty
      BY <1>a, <2>2 DEF Spent, TypeOK, Flusher
    <3>2. QED
      BY <1>a, <1>1, <2>2, <3>1 DEF InnerTimer, history, watcher, Marks, Covered
  <2>3. QED  BY <1>1, <2>1, <2>2 DEF InnerTimer
<1>2. ASSUME NEW timer \in {"debounce", "max"}, OuterTimer(timer)
      PROVE  Marks' /\ ~notify' /\ ~reloading'
  <2>1. CASE OuterFlush(nodes, outer)
    BY <1>a, <1>c, <1>2, <2>1 DEF OuterTimer, watcher
  <2>2. CASE UNCHANGED store
    BY <1>a, <1>2, <2>2, OtherMarks DEF OuterTimer, watcher, history
  <2>3. QED  BY <1>2, <2>1, <2>2 DEF OuterTimer, store
<1>3. CASE StoreLoaded
  <2>1. /\ job'.phase = "saving" /\ job'.ids = job.ids
        /\ \A n \in Local : job'.image[n] = IF n \in job.ids THEN db[n] ELSE file[n]
    BY <1>a, <1>3 DEF StoreLoaded, TypeOK
  <2>2. ASSUME NEW n \in Local, n \notin pending
        PROVE  db[n] <= job'.image[n]
    BY <1>a, <1>b, <1>3, <2>1, <2>2 DEF StoreLoaded, Marks, Covered
  <2>3. QED
    BY <1>a, <1>3, <2>1, <2>2 DEF StoreLoaded, Marks, Covered, history, watcher
<1>4. CASE StoreSaved
  <2>1. job'.phase = "idle" /\ job'.ids = {} /\ file' = job.image /\ ~failed'
    BY <1>4 DEF StoreSaved, Idle
  <2>2. ASSUME NEW n \in Local, n \notin pending
        PROVE  db[n] <= file'[n]
    BY <1>a, <1>4, <2>1, <2>2 DEF StoreSaved, Marks, Covered
  <2>3. UNCHANGED <<db, pending, inner, edited>>
    BY <1>4 DEF StoreSaved, history
  <2>4. \A n \in Local : db[n] > file'[n] => n \in pending
    BY <1>b, <2>1, <2>2
  <2>5. QED
    BY <1>a, <1>4, <2>1, <2>2, <2>3, <2>4 DEF StoreSaved, Marks, Covered
<1>5. ASSUME NEW n \in Local, Edit(n) \/ \E c \in Callers : Terminal(c, n)
      PROVE  Marks' /\ ~notify' /\ ~reloading'
  BY <1>a, <1>5, UpdateMarks DEF Edit, Terminal, watcher
<1>6. ASSUME NEW c \in Callers, DurableFlush(c)
      PROVE  Marks' /\ ~notify' /\ ~reloading'
  <2>1. CASE paused
    BY <1>a, <1>6, <2>1, OtherMarks DEF DurableFlush, watcher, history
  <2>2. CASE ~paused
    BY <1>a, <1>c, <1>6, <2>2 DEF DurableFlush, watcher
  <2>3. QED  BY <2>1, <2>2
<1>7. ASSUME NEW p \in Callers \cup Syncs, Drain(p)
      PROVE  Marks' /\ ~notify' /\ ~reloading'
  BY <1>a, <1>c, <1>7 DEF Drain, watcher
<1>8. ASSUME NEW c \in Callers, DurableReturn(c)
      PROVE  Marks' /\ ~notify' /\ ~reloading'
  BY <1>a, <1>8, OtherMarks DEF DurableReturn, watcher
<1>9. CASE Die
  <2>1. /\ db' = file /\ file' = file /\ rows' = rows /\ pending' = {}
        /\ job'.phase = "idle" /\ job'.ids = {} /\ ~notify' /\ ~reloading'
    BY <1>9 DEF Die, Reload, Idle
  <2>2. \A n \in Local : edited'[n] <= file[n]
    BY <1>a, <1>b, <1>9 DEF Die, Reload
  <2>3. QED
    BY <1>b, <2>1, <2>2 DEF Marks, Covered
<1>10. CASE Stop
  <2>1. CASE StoreFlush
    BY <1>a, <1>10, <2>1, StoreFlushMarks DEF Stop, history
  <2>2. CASE UNCHANGED store
    BY <1>a, <1>10, <2>2, OtherMarks DEF Stop, history
  <2>3. QED  BY <1>10, <2>1, <2>2 DEF Stop
<1>11. CASE CloseFlush
  BY <1>a, <1>11, StoreFlushMarks DEF CloseFlush, watcher, history
<1>12. CASE Closed
  BY <1>a, <1>12, OtherMarks DEF Closed, watcher, history
<1>13. CASE UNCHANGED vars
  BY <1>a, <1>13, OtherMarks DEF vars, watcher, history
<1>14. ~WatcherFires /\ ~WatcherReload /\ \A c \in Callers, n \in Local : ~ClaimWrite(c, n)
  BY <1>a DEF WatcherFires, WatcherReload, ClaimWrite
<1>15. CASE CrashRestart
  BY <1>9, <1>15 DEF CrashRestart
<1>16. CASE FlushFails
  <2>1. CASE timed
    BY <1>9, <1>16, <2>1 DEF FlushFails
  <2>2. CASE ~timed
    <3>1. /\ job'.phase = "idle" /\ job'.ids = {} /\ failed'
          /\ UNCHANGED <<db, file, rows, pending, inner, edited, notify, reloading>>
      BY <1>16, <2>2 DEF FlushFails, Idle, watcher, history
    <3>2. QED  BY <1>a, <3>1 DEF Marks, Covered
  <2>3. QED  BY <2>1, <2>2
<1>17. QED
  BY <1>0, <1>a, <1>1, <1>2, <1>3, <1>4, <1>5, <1>6, <1>7, <1>8, <1>15, <1>16, <1>10, <1>11, <1>12,
     <1>13, <1>14 DEF Next, Continuation, Event, Settled

LEMMA MarksInit == Alone /\ Init => MarksInv
<1>1. SUFFICES ASSUME Alone, Init PROVE Marks
  BY InitTypes DEF MarksInv, Init
<1>2. job.phase = "idle" /\ job.ids = {}
  BY <1>1 DEF Init, Idle
<1>3. \A n \in Local : db[n] = 1 /\ file[n] = 1 /\ edited[n] = 1
  BY <1>1 DEF Init, Nodes
<1>4. QED
  BY <1>1, <1>2, <1>3 DEF Init, Marks, Covered

LEMMA MarksSuffice == MarksInv => CaughtUp /\ NothingForgotten
<1>1. SUFFICES ASSUME MarksInv PROVE CaughtUp /\ NothingForgotten
  OBVIOUS
<1>2. \A n \in Local : db[n] \in Nat /\ file[n] \in Nat /\ edited[n] \in Nat
  BY <1>1, PipelineAssumption DEF MarksInv, TypeOK, Nodes, Versions
<1>3. CaughtUp
  <2>1. SUFFICES ASSUME ~failed, ~inner.dirty, job.phase = "idle", NEW n \in Local
                 PROVE  edited[n] <= file[n]
    BY DEF CaughtUp
  <2>2. db[n] <= file[n] /\ edited[n] <= db[n]
    BY <1>1, <2>1 DEF MarksInv, Marks, Covered
  <2>3. QED  BY <1>2, <2>2
<1>4. QED  BY <1>1, <1>3 DEF MarksInv, Marks, NothingForgotten

\* A daemon that makes no claim and reloads nothing forgets no edit: each is in
\* graph.jsonl, or marked in memory or in dirty_nodes, through any order of
\* timers, flushes, durable RPCs, crashes and stops (sync.ts, debounce.ts).
THEOREM MarksAreKept == Alone => (Spec => []NothingForgotten)
<1> SUFFICES ASSUME Alone PROVE Spec => []NothingForgotten
  OBVIOUS
<1>1. MarksInv /\ [Next]_vars => MarksInv'
  BY MarksStep
<1>2. QED
  BY <1>1, MarksInit, MarksSuffice, PTL DEF Spec

\* Nor does it stop over an edit: when its store's flusher is clean and no flush
\* runs, every edit is in graph.jsonl, unless a flush failed (debounce.ts).
THEOREM FileCatchesUp == Alone => (Spec => []CaughtUp)
<1> SUFFICES ASSUME Alone PROVE Spec => []CaughtUp
  OBVIOUS
<1>1. MarksInv /\ [Next]_vars => MarksInv'
  BY MarksStep
<1>2. QED
  BY <1>1, MarksInit, MarksSuffice, PTL DEF Spec
=============================================================================
