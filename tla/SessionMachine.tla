--------------------------- MODULE SessionMachine ---------------------------
(***************************************************************************)
(* The phases of an agent's session as src/sessionlog/session/             *)
(* state-machine.ts computes them: the phase an event leads to.  Its       *)
(* actions (condense, discard, warn) belong to the strategy and are left   *)
(* out.  "none" is a session nobody has heard of.                          *)
(***************************************************************************)

Phases == {"none", "idle", "active", "ended"}
Announcements == {"SessionStart", "TurnStart", "TurnEnd", "Compaction", "SessionStop"}

TransitionFromIdle(event) ==
  CASE event = "TurnStart"   -> "active"
    [] event = "SessionStop" -> "ended"
    [] OTHER                 -> "idle"

TransitionFromActive(event) ==
  CASE event = "TurnEnd"     -> "idle"
    [] event = "SessionStop" -> "ended"
    [] OTHER                 -> "active"

TransitionFromEnded(event) ==
  CASE event = "TurnStart"    -> "active"
    [] event = "SessionStart" -> "idle"
    [] OTHER                  -> "ended"

\* transition().  The first turn makes the session if its start was not seen.
Transition(phase, event) ==
  CASE phase = "idle"   -> TransitionFromIdle(event)
    [] phase = "active" -> TransitionFromActive(event)
    [] phase = "ended"  -> TransitionFromEnded(event)
    [] OTHER            -> IF event = "SessionStart" THEN "idle"
                           ELSE IF event = "TurnStart" THEN "active" ELSE "none"
=============================================================================
