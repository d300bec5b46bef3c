----------------------------- MODULE EventReplay -----------------------------
(***************************************************************************)
(* events.since and events.current as RPCs (src/daemon/methods/events.ts)  *)
(* over the event stream, with restarts of the daemon: any reader may ask  *)
(* with any cursor, its own or one kept from another epoch.                *)
(***************************************************************************)
EXTENDS EventStream

CONSTANTS
  Readers,
  MaxEvents   \* bound on the events of one epoch

VARIABLES
  stream,  \* the event manager of this process
  answer,  \* the last answer each reader got from events.since
  log      \* history: every event of this epoch

vars == <<stream, answer, log>>

\* Cursors a client may hold: of any epoch, ahead of the head, malformed.
Cursors == [epoch : Epochs, seq : -1 .. (MaxEvents + 1)]

Promise == INSTANCE EventLog WITH Window <- BufferSize, epoch <- stream.epoch

Init ==
  /\ stream = Fresh(0)
  /\ answer = [r \in Readers |-> Promise!NoAnswer]
  /\ log = << >>

Emit(e) ==
  /\ Len(log) < MaxEvents
  /\ stream' = Push(stream, e)
  /\ log' = Append(log, e)
  /\ UNCHANGED answer

EventsSince(r, c) ==
  /\ answer' = [answer EXCEPT ![r] =
       [cursor |-> c, resync |-> Since(stream, c).resync, events |-> Since(stream, c).events]]
  /\ UNCHANGED <<stream, log>>

Restart ==
  /\ stream.epoch < MaxEpoch
  /\ stream' = Fresh(stream.epoch + 1)
  /\ log' = << >>
  /\ UNCHANGED answer

Next ==
  \/ \E e \in Event : Emit(e)
  \/ \E r \in Readers, c \in Cursors : EventsSince(r, c)
  \/ Restart

Spec == Init /\ [][Next]_vars

\* The ring buffer is the tail of the log, and as long as it may be.
BufferIsTail ==
  LET evicted == Len(log) - Len(stream.buffer)
  IN  /\ stream.latestSeq = Len(log)
      /\ Len(stream.buffer) <= BufferSize
      /\ evicted = 0 \/ (evicted > 0 /\ Len(stream.buffer) = BufferSize)
      /\ \A i \in DOMAIN stream.buffer :
           stream.buffer[i] = [seq |-> evicted + i, epoch |-> stream.epoch,
                               event |-> log[evicted + i]]

\* What the RPCs answer is what EventLog promises: every missed event, each once
\* and with its own number, or resync, and that only outside the window.
KeepsPromise == Promise!Spec
=============================================================================
