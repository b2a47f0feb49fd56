------------------------------- MODULE Repair -------------------------------
(***************************************************************************)
(* interruptedTurnClosers: the synthetic events that close a session log   *)
(* which a crash cut anywhere.  A session grows its log the way the driver *)
(* does; a crash keeps any prefix; resuming appends the closers, and a     *)
(* crash may again keep only some of them (JSONL appends a repair without  *)
(* atomicity).                                                             *)
(*                                                                         *)
(* The judge is the runtime companion of the log, with the tool part that  *)
(* SessionTrace leaves out.                                                *)
(***************************************************************************)
EXTENDS SessionTrace, SequencesExt

CONSTANTS Calls,     \* tool-call ids; a provider may use one again later
          MaxLog,    \* bound: events a live session appends up to
          MaxAsk     \* bound: calls one assistant message asks for

RepairAssumption == MaxLog \in Nat /\ MaxAsk \in Nat

VARIABLES
  log,      \* the session's events
  mode,     \* live, or down after a crash
  goal      \* history: what the first repair since the crash set out to reach

vars == <<log, mode, goal>>

(* Events carry the asked calls of an assistant message in order, the call *)
(* of a tool event, and whether a synthetic result says the call started.  *)
Event(e, calls, code) ==
  [type |-> e.type, turn |-> e.turn, step |-> e.step, calls |-> calls, code |-> code]
Plain(e)               == Event(e, <<>>, "none")
Asks(turn, step, cs)   == Event(Assistant(turn, step), cs, "none")
ToolCall(turn, step, c) ==
  Event([type |-> "tool/call", turn |-> turn, step |-> step], <<c>>, "none")
ToolResult(turn, step, c, code) ==
  Event([type |-> "tool/result", turn |-> turn, step |-> step], <<c>>, code)

-----------------------------------------------------------------------------
(* The companion: SessionTrace's relations, and for tool events the calls  *)
(* recorded in the open step.                                              *)
AdmitsTool(c, e) ==
  /\ c.trace.openTurn = e.turn /\ c.trace.openStep = e.step
  /\ \/ e.type = "tool/call"
     \/ /\ e.type = "tool/result"
        /\ e.calls[1] \in c.pending \/ e.code = "TOOL_NOT_STARTED"

Commit(c, e) ==
  IF e.type \in {"tool/call", "tool/result"}
  THEN [trace   |-> [c.trace EXCEPT !.legal = @ /\ AdmitsTool(c, e)],
        pending |-> IF e.type = "tool/call" THEN c.pending \cup {e.calls[1]}
                                            ELSE c.pending \ {e.calls[1]}]
  ELSE [trace   |-> Log(c.trace, e),
        pending |-> IF e.type = "step/end" THEN {} ELSE c.pending]

Companion(l) == FoldLeft(Commit, [trace |-> FreshTrace(0), pending |-> {}], l)

-----------------------------------------------------------------------------
(* The scan of the log: the open turn and step, and the calls asked for    *)
(* but not answered, in order, with the step that asked and whether the    *)
(* call's own event is in the log.                                         *)
Asked(e) == [i \in DOMAIN e.calls |->
              [call |-> e.calls[i], step |-> e.step, started |-> FALSE]]

Cleared(e) == e.type \in {"turn/start", "turn/end", "step/end"}

StillPending(pending, e) == pending   \* variant: a result settles no call
Unanswered(pending, e) == RemoveFirstMatch(pending, LAMBDA p : p.call = e.calls[1])

Scan(s, e) ==
  [turn |-> CASE e.type = "turn/start" -> e.turn
              [] e.type = "turn/end"   -> None
              [] OTHER                 -> s.turn,
   step |-> CASE e.type = "step/start" -> e.step
              [] Cleared(e)            -> None
              [] OTHER                 -> s.step,
   pending |->
     CASE Cleared(e) -> <<>>
       [] e.type = "assistant" -> s.pending \o Asked(e)
       [] e.type = "tool/call" ->
            [i \in DOMAIN s.pending |->
               IF s.pending[i].call = e.calls[1]
               THEN [s.pending[i] EXCEPT !.started = TRUE] ELSE s.pending[i]]
       [] e.type = "tool/result" -> Unanswered(s.pending, e)
       [] OTHER -> s.pending]

Scanned(l) == FoldLeft(Scan, [turn |-> None, step |-> None, pending |-> <<>>], l)

CodeUnknown(p) == "TOOL_OUTCOME_UNKNOWN"   \* variant: one code for every call
Code(p) == IF p.started THEN "TOOL_OUTCOME_UNKNOWN" ELSE "TOOL_NOT_STARTED"

ResultsFor(s) ==
  [i \in DOMAIN s.pending |->
     ToolResult(s.turn, s.pending[i].step, s.pending[i].call, Code(s.pending[i]))]

ClosersStepFirst(l) ==   \* variant: the step is closed before its calls
  LET s == Scanned(l) IN
  IF s.turn = None THEN <<>>
  ELSE (IF s.step # None THEN <<Plain(StepEnd(s.turn, s.step))>> ELSE <<>>)
       \o ResultsFor(s) \o <<Plain(TurnEnd(s.turn))>>

Closers(l) ==
  LET s == Scanned(l) IN
  IF s.turn = None THEN <<>>
  ELSE ResultsFor(s)
       \o (IF s.step # None THEN <<Plain(StepEnd(s.turn, s.step))>> ELSE <<>>)
       \o <<Plain(TurnEnd(s.turn))>>

Repaired(l) == l \o Closers(l)

-----------------------------------------------------------------------------
(* How a live session grows its log: the driver opens and closes turns and *)
(* steps, one assistant message asks for calls, the scheduler starts them  *)
(* in order and answers started calls in order.  A failed batch leaves     *)
(* calls of a closed step unanswered.                                      *)
Events ==
  LET t == Companion(log).trace
      s == Scanned(log)
      askedNow == \E i \in DOMAIN log : /\ log[i].type = "assistant"
                                        /\ log[i].turn = t.openTurn
                                        /\ log[i].step = t.openStep
      waiting  == SelectInSeq(s.pending, LAMBDA p : ~p.started)   \* 0: none
      running  == SelectInSeq(s.pending, LAMBDA p : p.started) IN
  (IF t.openTurn = None THEN {Plain(TurnStart(t.nextTurn))} ELSE {})
  \cup (IF t.openTurn # None /\ t.openStep = None
        THEN {Plain(TurnEnd(t.openTurn)), Plain(StepStart(t.openTurn, t.nextStep))}
        ELSE {})
  \cup (IF t.openStep # None
        THEN {Plain(StepEnd(t.openTurn, t.openStep))}
             \cup (IF askedNow THEN {}
                   ELSE {Asks(t.openTurn, t.openStep, SetToSeq(cs)) :
                           cs \in {x \in SUBSET Calls :
                                   IsFiniteSet(x) /\ Cardinality(x) <= MaxAsk}})
             \cup (IF waiting = 0 THEN {}
                   ELSE {ToolCall(t.openTurn, t.openStep, s.pending[waiting].call)})
             \cup (IF running = 0 THEN {}
                   ELSE {ToolResult(t.openTurn, t.openStep, s.pending[running].call, "none")})
        ELSE {})

Init == log = <<>> /\ mode = "live" /\ goal = <<>>

Grow ==
  /\ mode = "live" /\ Len(log) < MaxLog
  /\ \E e \in Events : log' = Append(log, e)
  /\ UNCHANGED <<mode, goal>>

(* A crash keeps a prefix: what was flushed.                               *)
Crash ==
  /\ mode = "live"
  /\ \E n \in 0..Len(log) : log' = SubSeq(log, 1, n)
  /\ mode' = "down" /\ goal' = <<>>

(* The repair's append is cut: only the first closers survive.             *)
RepairCut ==
  /\ mode = "down" /\ Closers(log) # <<>>
  /\ goal' = IF goal = <<>> THEN Repaired(log) ELSE goal
  /\ \E n \in Len(log)..Len(Repaired(log)) : log' = SubSeq(Repaired(log), 1, n)
  /\ UNCHANGED mode

Resume ==
  /\ mode = "down"
  /\ log' = Repaired(log)
  /\ mode' = "live" /\ goal' = <<>>

Next == Grow \/ Crash \/ RepairCut \/ Resume

Spec == Init /\ [][Next]_vars

-----------------------------------------------------------------------------
(* Wherever a crash cuts a log, and whatever sessions did after earlier    *)
(* repairs, the repaired log is one the companion accepts event by event,  *)
(* with no turn left open (repair.ts interruptedTurnClosers).              *)
RepairedLegal ==
  LET c == Companion(Repaired(log)) IN c.trace.legal /\ c.trace.openTurn = None

(* In a repaired log each asked call of the step the crash interrupted has *)
(* exactly one result in that step, a call id used again elsewhere counts  *)
(* for nothing, and a synthetic result says truly whether the call's own   *)
(* event is in the log.                                                    *)
AnsweredOnce ==
  LET s == Scanned(log)
      final == Repaired(log)
      here(i) == final[i].turn = s.turn /\ final[i].step = s.step
      of(type, c) == {i \in DOMAIN final : here(i) /\ final[i].type = type
                                           /\ c \in Range(final[i].calls)} IN
  s.turn # None /\ s.step # None =>
    \A c \in Calls :
      /\ Cardinality(of("tool/result", c)) = Cardinality(of("assistant", c))
      /\ \A i \in of("tool/result", c) :
           IF final[i].code = "TOOL_NOT_STARTED"
           THEN of("tool/call", c) = {}
           ELSE \E j \in of("tool/call", c) : j < i

(* A repair cut short is completed by the next one to the very log the     *)
(* first repair set out to write, however often it is cut.                 *)
RepairConverges == goal # <<>> => Repaired(log) = goal
=============================================================================
