--------------------------- MODULE SessionTrace ---------------------------
(***************************************************************************)
(* The relational rules a session log obeys: turns do not overlap and are  *)
(* numbered consecutively, steps are numbered consecutively inside their   *)
(* turn, and execution events name the open turn and step.  The package    *)
(* ships these rules as a runtime companion (session/src/invariant.ts);    *)
(* here they are a monitor that other modules drive with each event they   *)
(* append.  Event sequence numbers and tool calls are checked elsewhere.   *)
(***************************************************************************)
EXTENDS Naturals, Sequences

None == 0   \* the companion's null: turns and steps are numbered from 1

FreshTrace(lastTurn) ==
  [openTurn |-> None, openStep |-> None,
   nextTurn |-> lastTurn + 1, nextStep |-> 1, legal |-> TRUE]

TraceType == [openTurn : Nat, openStep : Nat, nextTurn : Nat, nextStep : Nat,
              legal : BOOLEAN]

TurnStart(turn)      == [type |-> "turn/start", turn |-> turn, step |-> None]
TurnEnd(turn)        == [type |-> "turn/end",   turn |-> turn, step |-> None]
StepStart(turn, step) == [type |-> "step/start", turn |-> turn, step |-> step]
StepEnd(turn, step)   == [type |-> "step/end",   turn |-> turn, step |-> step]
Assistant(turn, step) == [type |-> "assistant",  turn |-> turn, step |-> step]
RequestHeader         == [type |-> "request",    turn |-> None, step |-> None]

(* validateEvent: whether the companion accepts the event.                 *)
Accepts(t, e) ==
  \/ e.type = "turn/start" /\ t.openTurn = None /\ e.turn = t.nextTurn
  \/ e.type = "turn/end"   /\ t.openTurn = e.turn /\ t.openStep = None
  \/ e.type = "step/start" /\ t.openTurn = e.turn /\ t.openStep = None
                           /\ e.step = t.nextStep
  \/ e.type \in {"step/end", "assistant"}
                           /\ t.openTurn = e.turn /\ t.openStep = e.step
  \/ e.type = "request"    /\ t.openTurn # None

(* applyTransition: commit one event; a refused event marks the trace.     *)
Log(t, e) ==
  [openTurn |-> CASE e.type = "turn/start" -> e.turn
                  [] e.type = "turn/end"   -> None
                  [] OTHER                 -> t.openTurn,
   openStep |-> CASE e.type = "step/start" -> e.step
                  [] e.type = "step/end"   -> None
                  [] OTHER                 -> t.openStep,
   nextTurn |-> IF e.type = "turn/end" THEN t.nextTurn + 1 ELSE t.nextTurn,
   nextStep |-> CASE e.type = "turn/start" -> 1
                  [] e.type = "step/end"   -> t.nextStep + 1
                  [] OTHER                 -> t.nextStep,
   legal    |-> t.legal /\ Accepts(t, e)]
===========================================================================
