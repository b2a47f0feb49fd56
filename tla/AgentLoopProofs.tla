-------------------------- MODULE AgentLoopProofs --------------------------
(***************************************************************************)
(* Proofs about the agent loop, for any messages and any number of steps:  *)
(* its log stays legal, a follow-up is the only prompt of its turn, a wake *)
(* is latched only behind an activity that cannot deliver it, an aborted   *)
(* driver starts nothing, whenIdle() resolves only at rest, the inbox      *)
(* holds every waiting message once, and the driver keeps the promise of   *)
(* Delivery.                                                               *)
(***************************************************************************)
EXTENDS AgentLoopDelivery, FiniteSetTheorems, SequenceTheorems, TLAPS

Phases    == [kind : {"idle", "maintenance", "running"}, turn : Nat, step : Nat]
Decisions == [kind : {"none", "reject", "enter"}, messages : SUBSET Messages, empty : BOOLEAN]

Between == {"off", "job", "turnStart", "returned"}
InTurn  == {"stepTop", "assemble", "preStep", "preStepThrew", "decided", "turnStopping"}
InStep  == {"request", "built", "stream", "requestError", "tools", "stepDone", "stepThrew"}

(* Where the driver can be suspended in which phase.                       *)
Placed ==
  /\ at = "off" <=> Idle
  /\ at = "job" <=> phase.kind = "maintenance"
  /\ at = "turnStart" => phase.step = 0

(* What the session log has open at each place.                            *)
TraceAt ==
  /\ trace.legal = TRUE
  /\ at \in Between =>
       trace.openTurn = None /\ trace.openStep = None /\ trace.nextTurn = phase.turn + 1
  /\ at \notin Between =>
       phase.turn > 0 /\ trace.openTurn = phase.turn /\ trace.nextTurn = phase.turn
  /\ at \in InTurn => trace.openStep = None /\ trace.nextStep = phase.step + 1
  /\ at \in InStep =>
       phase.step > 0 /\ trace.openStep = phase.step /\ trace.nextStep = phase.step

(* A wake classified against an aborted signal is sent before anything can *)
(* replace that signal.                                                    *)
WakeAt ==
  /\ LatchJustified
  /\ sending = "wakeAfterAbort" => ~Idle /\ Aborted

ActivityAt == activityDone => Idle

(* The first boundary of a turn is the only one that takes a prompt.       *)
PromptAt ==
  /\ prompts = {} \/ \E m \in Messages : prompts = {m}
  /\ at = "stepTop" /\ target = "next-turn" => prompts = {}

IInv == TypeOK /\ Placed /\ TraceAt /\ WakeAt /\ ActivityAt /\ PromptAt

-----------------------------------------------------------------------------
(* What turn/start does to the companion's state, and when it is legal.  *)
LEMMA TurnStarts ==
  ASSUME NEW t \in TraceType, NEW n \in Nat
  PROVE  LET u == Log(t, TurnStart(n))
         IN  /\ u \in TraceType
             /\ u.openTurn = n /\ u.openStep = t.openStep
             /\ u.nextTurn = t.nextTurn /\ u.nextStep = 1
             /\ t.legal = TRUE /\ t.openTurn = None /\ n = t.nextTurn => u.legal = TRUE
BY DEF TraceType, None, Log, Accepts, TurnStart

(* What turn/end does to the companion's state, and when it is legal.    *)
LEMMA TurnEnds ==
  ASSUME NEW t \in TraceType, NEW n \in Nat
  PROVE  LET u == Log(t, TurnEnd(n))
         IN  /\ u \in TraceType
             /\ u.openTurn = None /\ u.openStep = t.openStep
             /\ u.nextTurn = t.nextTurn + 1 /\ u.nextStep = t.nextStep
             /\ t.legal = TRUE /\ t.openTurn = n /\ t.openStep = None => u.legal = TRUE
BY DEF TraceType, None, Log, Accepts, TurnEnd

(* What step/start does to the companion's state, and when it is legal.  *)
LEMMA StepStarts ==
  ASSUME NEW t \in TraceType, NEW n \in Nat, NEW k \in Nat
  PROVE  LET u == Log(t, StepStart(n, k))
         IN  /\ u \in TraceType
             /\ u.openTurn = t.openTurn /\ u.openStep = k
             /\ u.nextTurn = t.nextTurn /\ u.nextStep = t.nextStep
             /\ t.legal = TRUE /\ t.openTurn = n /\ t.openStep = None /\ k = t.nextStep => u.legal = TRUE
BY DEF TraceType, None, Log, Accepts, StepStart

(* What step/end does to the companion's state, and when it is legal.    *)
LEMMA StepCloses ==
  ASSUME NEW t \in TraceType, NEW n \in Nat, NEW k \in Nat
  PROVE  LET u == Log(t, StepEnd(n, k))
         IN  /\ u \in TraceType
             /\ u.openTurn = t.openTurn /\ u.openStep = None
             /\ u.nextTurn = t.nextTurn /\ u.nextStep = t.nextStep + 1
             /\ t.legal = TRUE /\ t.openTurn = n /\ t.openStep = k => u.legal = TRUE
BY DEF TraceType, None, Log, Accepts, StepEnd

(* What an assistant message does to the companion's state, and when it is legal. *)
LEMMA AssistantSpeaks ==
  ASSUME NEW t \in TraceType, NEW n \in Nat, NEW k \in Nat
  PROVE  LET u == Log(t, Assistant(n, k))
         IN  /\ u \in TraceType
             /\ u.openTurn = t.openTurn /\ u.openStep = t.openStep
             /\ u.nextTurn = t.nextTurn /\ u.nextStep = t.nextStep
             /\ t.legal = TRUE /\ t.openTurn = n /\ t.openStep = k => u.legal = TRUE
BY DEF TraceType, None, Log, Accepts, Assistant

(* What a request header does to the companion's state, and when it is legal. *)
LEMMA RequestOpens ==
  ASSUME NEW t \in TraceType
  PROVE  LET u == Log(t, RequestHeader)
         IN  /\ u \in TraceType
             /\ u.openTurn = t.openTurn /\ u.openStep = t.openStep
             /\ u.nextTurn = t.nextTurn /\ u.nextStep = t.nextStep
             /\ t.legal = TRUE /\ t.openTurn # None => u.legal = TRUE
BY DEF TraceType, None, Log, Accepts, RequestHeader

(* The fields of a phase.                                                  *)
LEMMA PhaseFields ==
  \A p \in Phases : p.turn \in Nat /\ p.step \in Nat
                    /\ p.kind \in {"idle", "maintenance", "running"}
BY DEF Phases

(* A reserved driver's phase.                                              *)
LEMMA PhaseReserved ==
  ASSUME NEW n \in Nat
  PROVE  LET q == [kind |-> "running", turn |-> n, step |-> 0]
         IN  q \in Phases /\ q.kind = "running" /\ q.turn = n /\ q.step = 0
BY DEF Phases

(* Claiming or releasing the idle phase.                                   *)
LEMMA PhaseKinds ==
  ASSUME NEW p \in Phases, NEW k \in {"maintenance", "idle"}
  PROVE  LET q == [p EXCEPT !.kind = k]
         IN  q \in Phases /\ q.kind = k /\ q.turn = p.turn /\ q.step = p.step
BY DEF Phases

(* Converging to idle.                                                     *)
LEMMA PhaseConverges ==
  ASSUME NEW p \in Phases
  PROVE  LET q == [p EXCEPT !.kind = "idle", !.step = 0]
         IN  q \in Phases /\ q.kind = "idle" /\ q.turn = p.turn /\ q.step = 0
BY DEF Phases

(* Numbering a step, or starting over between turns.                       *)
LEMMA PhaseSteps ==
  ASSUME NEW p \in Phases, NEW n \in Nat
  PROVE  LET q == [p EXCEPT !.step = n]
         IN  q \in Phases /\ q.kind = p.kind /\ q.turn = p.turn /\ q.step = n
BY DEF Phases

(* Numbering a turn.                                                       *)
LEMMA PhaseTurns ==
  ASSUME NEW p \in Phases
  PROVE  LET q == [p EXCEPT !.turn = @ + 1]
         IN  q \in Phases /\ q.kind = p.kind /\ q.turn = p.turn + 1 /\ q.step = p.step
<1>1. p.turn + 1 \in Nat
  BY DEF Phases
<1> QED BY <1>1 DEF Phases

(* The pre-step decisions are decisions.                                   *)
LEMMA DecisionMoves ==
  /\ Undecided \in Decisions
  /\ [Undecided EXCEPT !.kind = "reject"] \in Decisions
  /\ \A S \in SUBSET Messages, empty \in BOOLEAN :
       [kind |-> "enter", messages |-> S, empty |-> empty] \in Decisions
BY DEF Undecided, Decisions

(* The inbox lists stay lists of messages.                                 *)
LEMMA ListMoves ==
  /\ <<>> \in Seq(Messages)
  /\ \A s \in Seq(Messages), m \in Messages : Append(s, m) \in Seq(Messages)
  /\ \A s \in Seq(Messages) : s # <<>> => Head(s) \in Messages /\ Tail(s) \in Seq(Messages)
  /\ \A s \in Seq(Messages) : \A i \in DOMAIN s : Without(s, i) \in Seq(Messages)
<1>1. ASSUME NEW s \in Seq(Messages), NEW i \in DOMAIN s
      PROVE  Without(s, i) \in Seq(Messages)
  <2>1. SubSeq(s, 1, i - 1) \in Seq(Messages) /\ SubSeq(s, i + 1, Len(s)) \in Seq(Messages)
    OBVIOUS
  <2> QED BY <2>1, ConcatProperties DEF Without
<1> QED BY <1>1

(* A message's history stays one.                                          *)
LEMMA FateMoves ==
  \A S, what : fate \in [Messages -> Fates] /\ what \in Fates /\ Becomes(S, what)
                 => fate' \in [Messages -> Fates]
BY DEF Becomes

-----------------------------------------------------------------------------
(* TypeOK, in the parts the steps change together.                         *)
TypeParts ==
  /\ phase \in Phases /\ abort \in Causes \cup {"none"}
  /\ wakeRequested \in BOOLEAN /\ replay \in BOOLEAN
  /\ nextStep \in Seq(Messages) /\ nextTurn \in Seq(Messages)
  /\ sending \in {"no", "wake", "wakeAfterAbort"} /\ at \in Places
  /\ target \in Targets /\ turnEnds \in Endings /\ decision \in Decisions
  /\ trace \in TraceType
  /\ fate \in [Messages -> Fates] /\ prompts \in SUBSET Messages
  /\ activityDone \in BOOLEAN /\ waiter \in {"none", "current", "stale"}

(* The two forms say the same.                                             *)
LEMMA TypeIsParts == TypeOK <=> TypeParts
BY DEF TypeOK, TypeParts, Phases, Decisions

(* A driver starts with typed variables.                                   *)
LEMMA StartTyped ==
  ASSUME TypeParts, StartDriver(phase.turn)
  PROVE  /\ phase' \in Phases /\ abort' \in Causes \cup {"none"} /\ wakeRequested' \in BOOLEAN
         /\ at' \in Places /\ activityDone' \in BOOLEAN
         /\ waiter' \in {"none", "current", "stale"}
BY PhaseFields, PhaseReserved DEF TypeParts, StartDriver, Places

(* So does a wake.                                                         *)
LEMMA WakeTyped ==
  ASSUME TypeParts, NEW w \in BOOLEAN, WakeDriver(w)
  PROVE  /\ phase' \in Phases /\ abort' \in Causes \cup {"none"} /\ wakeRequested' \in BOOLEAN
         /\ at' \in Places /\ activityDone' \in BOOLEAN
         /\ waiter' \in {"none", "current", "stale"}
<1>1. CASE StartDriver(phase.turn)
  BY <1>1, StartTyped
<1>2. CASE ~StartDriver(phase.turn)
  BY <1>2 DEF WakeDriver, TypeParts
<1> QED BY <1>1, <1>2

(* Closing a turn keeps the types.                                         *)
LEMMA CloseTyped ==
  ASSUME TypeParts, NEW log \in TraceType, NEW ending \in Endings, NEW reached \in BOOLEAN,
         CloseTurn(log, ending, reached)
  PROVE  /\ phase' \in Phases /\ abort' \in Causes \cup {"none"} /\ wakeRequested' \in BOOLEAN
         /\ at' \in {"turnStart", "returned"} /\ turnEnds' = ending /\ decision' \in Decisions
         /\ trace' \in TraceType
<1>1. trace' \in TraceType
  <2>1. phase.turn \in Nat
    BY PhaseFields DEF TypeParts
  <2> QED BY <2>1, TurnEnds DEF CloseTurn
<1>2. phase' \in Phases
  <2>1. CASE phase' = phase
    BY <2>1 DEF TypeParts
  <2>2. CASE phase' = [phase EXCEPT !.step = 0]
    BY <2>2, PhaseSteps DEF TypeParts
  <2> QED BY <2>1, <2>2 DEF CloseTurn
<1> QED BY <1>1, <1>2, DecisionMoves DEF CloseTurn, FreshSignal, TypeParts

(* The callers' side keeps the types: sends, cancellation, withdrawal,     *)
(* maintenance and whenIdle.                                               *)
LEMMA CallerTyped ==
  ASSUME TypeParts,
         \/ Send \/ Cancellation \/ Withdraw \/ StartMaintenance \/ EndMaintenance
         \/ CallWhenIdle \/ ResumeWhenIdle
  PROVE  TypeParts'
<1> USE DEF inbox, locals
<1>1. CASE Send
  <2> PICK m \in Messages, to \in Targets, w \in BOOLEAN : SendInsert(m, to, w)
    BY <1>1 DEF Send, Followup, Steer, Inject, Targets
  <2>1. nextStep' \in Seq(Messages) /\ nextTurn' \in Seq(Messages)
    BY ListMoves DEF SendInsert, TypeParts
  <2>2. fate' \in [Messages -> Fates]
    BY FateMoves DEF SendInsert, TypeParts, Fates
  <2>3. sending' \in {"no", "wake", "wakeAfterAbort"}
    BY DEF SendInsert
  <2> QED BY <2>1, <2>2, <2>3 DEF SendInsert, TypeParts
<1>2. CASE Cancellation
  <2> PICK cause \in Causes, keep \in BOOLEAN : Cancel(cause, keep)
    BY <1>2 DEF Cancellation, Causes
  <2>1. nextStep' \in Seq(Messages) /\ nextTurn' \in Seq(Messages)
    BY ListMoves DEF Cancel, ClearInbox, TypeParts
  <2>2. fate' \in [Messages -> Fates]
    BY FateMoves DEF Cancel, ClearInbox, TypeParts, Fates
  <2>3. abort' \in Causes \cup {"none"} /\ wakeRequested' \in BOOLEAN
    BY DEF Cancel, TypeParts
  <2> QED BY <2>1, <2>2, <2>3 DEF Cancel, TypeParts
<1>3. CASE Withdraw
  <2> PICK m \in Messages : Remove(m)
    BY <1>3 DEF Withdraw
  <2>1. nextStep' \in Seq(Messages) /\ nextTurn' \in Seq(Messages)
    BY ListMoves DEF Remove, TypeParts
  <2>2. fate' \in [Messages -> Fates]
    BY FateMoves DEF Remove, TypeParts, Fates
  <2> QED BY <2>1, <2>2 DEF Remove, TypeParts
<1>4. CASE StartMaintenance
  <2>1. phase' \in Phases
    BY <1>4, PhaseKinds DEF StartMaintenance, TypeParts
  <2> QED BY <2>1, <1>4 DEF StartMaintenance, TypeParts, Places
<1>5. CASE EndMaintenance
  <2>1. CASE StartDriver(phase.turn)
    BY <1>5, <2>1, StartTyped DEF EndMaintenance, TypeParts
  <2>2. CASE phase' = [phase EXCEPT !.kind = "idle"] /\ ~StartDriver(phase.turn)
    <3>1. phase' \in Phases
      BY <2>2, PhaseKinds DEF TypeParts
    <3> QED BY <3>1, <2>2, <1>5 DEF EndMaintenance, TypeParts, Places
  <2> QED BY <1>5, <2>1, <2>2 DEF EndMaintenance
<1>6. CASE CallWhenIdle \/ ResumeWhenIdle
  BY <1>6 DEF CallWhenIdle, ResumeWhenIdle, TypeParts
<1> QED BY <1>1, <1>2, <1>3, <1>4, <1>5, <1>6

(* The driver's turns keep the types.                                      *)
LEMMA TurnTyped ==
  ASSUME TypeParts, Turn
  PROVE  TypeParts'
<1> USE DEF inbox, locals, Callers
<1>p. phase.turn \in Nat /\ phase.step \in Nat
  BY PhaseFields DEF TypeParts
<1>a. ASSUME NEW log \in TraceType, FailTurn(log)
      PROVE  /\ phase' \in Phases /\ abort' \in Causes \cup {"none"} /\ wakeRequested' \in BOOLEAN
             /\ at' \in Places /\ turnEnds' \in Endings /\ decision' \in Decisions
             /\ trace' \in TraceType
  <2>1. Failure \in Endings
    BY DEF Failure, Endings
  <2> QED BY <1>a, <2>1, CloseTyped DEF FailTurn, Places
<1>1. CASE OpenTurn
  <2>1. CASE Aborted
    BY <1>1, <2>1 DEF OpenTurn, TypeParts, Places
  <2>2. CASE ~Aborted
    <3>1. phase' \in Phases /\ decision' \in Decisions
      <4>1. [phase EXCEPT !.turn = @ + 1] \in Phases
        BY PhaseTurns DEF TypeParts
      <4> QED BY <1>1, <2>2, <4>1, DecisionMoves DEF OpenTurn
    <3>2. trace' \in TraceType
      <4>1. trace \in TraceType /\ phase.turn + 1 \in Nat /\ phase.step \in Nat
        BY <1>p DEF TypeParts
      <4>2. Log(trace, TurnStart(phase.turn + 1)) \in TraceType
        BY <4>1, TurnStarts
      <4> QED BY <1>1, <2>2, <4>2 DEF OpenTurn
    <3> QED BY <1>1, <2>2, <3>1, <3>2 DEF OpenTurn, TypeParts, Places, Targets, Endings
  <2> QED BY <2>1, <2>2
<1>2. CASE ClaimStep
  <2>1. CASE Aborted
    BY <1>2, <2>1, <1>a DEF ClaimStep, TypeParts
  <2>2. CASE ~Aborted
    <3>1. nextStep' \in Seq(Messages) /\ nextTurn' \in Seq(Messages) /\ prompts' \in SUBSET Messages
      BY <1>2, <2>2, ListMoves DEF ClaimStep, Prompt, TypeParts
    <3>2. fate' \in [Messages -> Fates]
      BY <1>2, <2>2, FateMoves DEF ClaimStep, TypeParts, Fates
    <3> QED BY <1>2, <2>2, <3>1, <3>2 DEF ClaimStep, TypeParts, Places
  <2> QED BY <2>1, <2>2
<1>3. CASE Assemble
  BY <1>3 DEF Assemble, TypeParts, Places
<1>4. CASE DecideStep
  <2>1. decision' \in Decisions
    <3>1. InHand \in SUBSET Messages
      BY DEF InHand
    <3> QED BY <1>4, <3>1, DecisionMoves DEF DecideStep, TypeParts
  <2> QED BY <1>4, <2>1 DEF DecideStep, TypeParts, Places
<1>5. CASE CatchPreStep
  <2>1. fate' \in [Messages -> Fates]
    BY <1>5, FateMoves DEF CatchPreStep, TypeParts, Fates
  <2> QED BY <1>5, <1>a, <2>1 DEF CatchPreStep, TypeParts
<1>6. CASE EnterStep
  <2>1. CASE \E ending \in Endings, reached \in BOOLEAN :
               CloseTurn(trace, ending, reached) /\ Becomes(InHand, "dropped")
    <3>1. fate' \in [Messages -> Fates]
      BY <2>1, FateMoves DEF TypeParts, Fates
    <3> QED BY <1>6, <2>1, <3>1, CloseTyped DEF EnterStep, TypeParts, Places
  <2>2. CASE FailTurn(trace) /\ Becomes(InHand, "dropped")
    <3>1. fate' \in [Messages -> Fates]
      BY <2>2, FateMoves DEF TypeParts, Fates
    <3> QED BY <1>6, <1>a, <2>2, <3>1 DEF EnterStep, TypeParts
  <2>3. CASE /\ trace' = Log(trace, StepStart(phase.turn, phase.step + 1))
             /\ phase' = [phase EXCEPT !.step = phase.step + 1]
             /\ fate' = [m \in Messages |->
                           IF m \notin InHand THEN fate[m]
                           ELSE IF m \in decision.messages THEN "entered" ELSE "dropped"]
             /\ decision' = Undecided
             /\ at' = "request"
             /\ UNCHANGED <<abort, wakeRequested, turnEnds>>
    <3>0. trace \in TraceType /\ phase \in Phases /\ phase.step + 1 \in Nat
      BY <1>p DEF TypeParts
    <3>1. phase' \in Phases /\ decision' \in Decisions
      BY <2>3, <3>0, PhaseSteps, DecisionMoves
    <3>3. trace' \in TraceType
      BY <2>3, <1>p, <3>0, StepStarts
    <3>2. fate' \in [Messages -> Fates]
      BY <2>3 DEF TypeParts, Fates
    <3> QED BY <1>6, <2>3, <3>1, <3>2, <3>3 DEF EnterStep, TypeParts, Places
  <2>4. {"blocked", "completed", turnEnds} \subseteq Endings
    BY DEF TypeParts, Endings
  <2> QED BY <1>6, <2>1, <2>2, <2>3, <2>4 DEF EnterStep
<1>7. CASE CloseStep
  <2> DEFINE log == Log(trace, StepEnd(phase.turn, phase.step))
  <2>1. log \in TraceType
    BY <1>p, StepCloses DEF TypeParts
  <2> HIDE DEF log
  <2>2. CASE FailTurn(log) /\ UNCHANGED target
    BY <1>7, <2>1, <2>2, <1>a DEF CloseStep, TypeParts
  <2>3. CASE at' = "turnStopping" /\ trace' = log /\ UNCHANGED <<phase, abort, wakeRequested, locals>>
    BY <1>7, <2>1, <2>3 DEF CloseStep, TypeParts, Places
  <2>4. CASE NextBoundary(log)
    BY <1>7, <2>1, <2>4 DEF CloseStep, NextBoundary, TypeParts, Places, Targets
  <2> QED BY <1>7, <2>2, <2>3, <2>4 DEF CloseStep, log
<1>8. CASE CatchStep
  <2>1. Log(trace, StepEnd(phase.turn, phase.step)) \in TraceType
    BY <1>p, StepCloses DEF TypeParts
  <2> QED BY <1>8, <2>1, <1>a DEF CatchStep, TypeParts
<1>9. CASE StopHooks
  <2>1. CASE FailTurn(trace) /\ UNCHANGED target
    BY <1>9, <2>1, <1>a DEF StopHooks, TypeParts
  <2>2. CASE CloseTurn(trace, turnEnds, TRUE) /\ UNCHANGED target
    BY <1>9, <2>2, CloseTyped DEF StopHooks, TypeParts, Places
  <2>3. CASE NextBoundary(trace)
    BY <1>9, <2>3 DEF StopHooks, NextBoundary, TypeParts, Places, Targets
  <2> QED BY <1>9, <2>1, <2>2, <2>3 DEF StopHooks
<1> QED BY <1>1, <1>2, <1>3, <1>4, <1>5, <1>6, <1>7, <1>8, <1>9 DEF Turn

(* Its steps and its convergence keep them too.                            *)
LEMMA StepTyped ==
  ASSUME TypeParts, Step \/ ToolContext \/ Converge \/ ReplayWake \/ SettleDriver \/ SendWake
  PROVE  TypeParts'
<1> USE DEF inbox, locals, Callers, StepFrame
<1>p. phase.turn \in Nat /\ phase.step \in Nat
  BY PhaseFields DEF TypeParts
<1>t. /\ Log(trace, Assistant(phase.turn, phase.step)) \in TraceType
      /\ Log(trace, RequestHeader) \in TraceType
  BY <1>p, AssistantSpeaks, RequestOpens DEF TypeParts
<1>1. CASE BuildRequest \/ CallStream \/ StreamThrows \/ StreamFails \/ StreamFinishes
  BY <1>1, <1>t
  DEF BuildRequest, CallStream, StreamThrows, StreamFails, StreamFinishes, Here, StepEnds,
      TypeParts, Places, Endings
<1>2. CASE RecoverRequest \/ RunTools
  BY <1>2 DEF RecoverRequest, RunTools, StepEnds, TypeParts, Places, Endings
<1>3. CASE ToolContext
  <2> PICK m \in Messages : AcceptContext(m)
    BY <1>3 DEF ToolContext
  <2>1. nextStep' \in Seq(Messages)
    BY ListMoves DEF AcceptContext, TypeParts
  <2>2. fate' \in [Messages -> Fates]
    BY FateMoves DEF AcceptContext, TypeParts, Fates
  <2> QED BY <2>1, <2>2 DEF AcceptContext, TypeParts
<1>4. CASE Converge
  <2>1. phase' \in Phases
    BY <1>4, PhaseConverges DEF Converge, TypeParts
  <2> QED BY <1>4, <2>1 DEF Converge, CarryWake, TypeParts, Places, Endings, Targets
<1>5. CASE ReplayWake
  <2>1. CASE WakeDriver(FALSE)
    BY <1>5, <2>1, WakeTyped DEF ReplayWake, TypeParts
  <2>2. CASE ~WakeDriver(FALSE)
    BY <1>5, <2>2 DEF ReplayWake, TypeParts
  <2> QED BY <2>1, <2>2
<1>6. CASE SettleDriver
  BY <1>6 DEF SettleDriver, TypeParts
<1>7. CASE SendWake
  <2>1. (sending = "wakeAfterAbort") \in BOOLEAN
    OBVIOUS
  <2>2. WakeDriver(sending = "wakeAfterAbort")
    BY <1>7 DEF SendWake
  <2>3. /\ phase' \in Phases /\ abort' \in Causes \cup {"none"} /\ wakeRequested' \in BOOLEAN
        /\ at' \in Places /\ activityDone' \in BOOLEAN
        /\ waiter' \in {"none", "current", "stale"}
    BY <2>1, <2>2, WakeTyped
  <2> QED BY <1>7, <2>3 DEF SendWake, TypeParts
<1> QED BY <1>1, <1>2, <1>3, <1>4, <1>5, <1>6, <1>7 DEF Step

(* Every variable keeps its type.                                          *)
LEMMA TypeStep == TypeOK /\ [Next]_vars => TypeOK'
<1> SUFFICES ASSUME TypeParts, [Next]_vars PROVE TypeParts'
  BY TypeIsParts, PTL
<1>1. CASE UNCHANGED vars
  BY <1>1 DEF vars, inbox, locals, TypeParts
<1> QED BY <1>1, CallerTyped, TurnTyped, StepTyped DEF Next, Driver

-----------------------------------------------------------------------------
TraceInv == Placed /\ TraceAt

(* Starting a driver, or waking one, keeps the log at rest.                *)
LEMMA StartTrace ==
  ASSUME TypeParts, TraceInv, StartDriver(phase.turn), UNCHANGED trace,
         phase.kind \in {"idle", "maintenance"}
  PROVE  TraceInv'
<1>1. /\ at \in Between /\ at' = "turnStart"
      /\ phase'.kind = "running" /\ phase'.turn = phase.turn /\ phase'.step = 0
  BY PhaseFields, PhaseReserved DEF StartDriver, TypeParts, TraceInv, Placed, Idle, Between
<1> QED BY <1>1 DEF TraceInv, Placed, TraceAt, Idle, Between, InTurn, InStep

(* So does waking one.                                                     *)
LEMMA WakeTrace ==
  ASSUME TypeParts, TraceInv, NEW w \in BOOLEAN, WakeDriver(w), UNCHANGED trace
  PROVE  TraceInv'
<1>1. CASE Idle /\ StartDriver(phase.turn)
  BY <1>1, StartTrace DEF Idle
<1>2. CASE UNCHANGED <<phase, at>>
  BY <1>2 DEF TraceInv, Placed, TraceAt, Idle
<1> QED BY <1>1, <1>2 DEF WakeDriver

(* Closing a turn is legal once its step is closed, and leaves nothing open.*)
LEMMA CloseTrace ==
  ASSUME TypeParts, Running, NEW log \in TraceType, NEW ending, NEW reached,
         log.legal = TRUE, log.openTurn = phase.turn, log.openStep = None,
         log.nextTurn = phase.turn, CloseTurn(log, ending, reached)
  PROVE  TraceInv'
<1>1. phase.turn \in Nat /\ phase.step \in Nat /\ phase.kind = "running"
  BY PhaseFields DEF TypeParts, Running
<1>2. /\ trace'.openTurn = None /\ trace'.openStep = None /\ trace'.legal = TRUE
      /\ trace'.nextTurn = phase.turn + 1
  BY <1>1, TurnEnds DEF CloseTurn
<1>3. /\ at' \in {"turnStart", "returned"} /\ phase'.kind = "running" /\ phase'.turn = phase.turn
      /\ at' = "turnStart" => phase'.step = 0
  <2>1. CASE at' = "turnStart" /\ phase' = [phase EXCEPT !.step = 0]
    BY <1>1, <2>1, PhaseSteps DEF TypeParts
  <2>2. CASE at' = "returned" /\ phase' = phase
    BY <1>1, <2>2
  <2> QED BY <2>1, <2>2 DEF CloseTurn
<1> QED BY <1>2, <1>3 DEF TraceInv, Placed, TraceAt, Idle, Between, InTurn, InStep

(* The log is legal at every place, and open there exactly as far as the   *)
(* place says.                                                             *)
LEMMA TraceStep == TypeParts /\ TypeParts' /\ TraceInv /\ [Next]_vars => TraceInv'
<1> SUFFICES ASSUME TypeParts, TypeParts', TraceInv, [Next]_vars PROVE TraceInv'
  OBVIOUS
<1> USE DEF None
<1>p. phase.turn \in Nat /\ phase.step \in Nat /\ trace \in TraceType
  BY PhaseFields DEF TypeParts
<1>t. at \in InTurn => /\ at \notin Between /\ trace.legal = TRUE /\ trace.openTurn = phase.turn
                       /\ trace.openStep = None /\ trace.nextTurn = phase.turn
  BY DEF InTurn, Between, TraceInv, TraceAt
<1>s. at \in InStep => /\ at \notin Between /\ trace.legal = TRUE /\ trace.openTurn = phase.turn
                       /\ trace.openStep = phase.step /\ trace.nextTurn = phase.turn
                       /\ phase.turn > 0 /\ phase.step > 0 /\ trace.nextStep = phase.step
  BY DEF InStep, Between, TraceInv, TraceAt
<1>q. ASSUME UNCHANGED <<phase, trace>>, Running,
             \/ at \in InTurn /\ at' \in InTurn
             \/ at \in InStep /\ at' \in InStep
             \/ at = "turnStart" /\ at' = "returned"
      PROVE  TraceInv'
  BY <1>q DEF InTurn, InStep, Between, TraceInv, TraceAt, Placed, Idle, Running
<1>e. ASSUME at \in InStep
      PROVE  LET log == Log(trace, StepEnd(phase.turn, phase.step))
             IN  /\ log \in TraceType /\ log.legal = TRUE /\ log.openTurn = phase.turn
                 /\ log.openStep = None /\ log.nextTurn = phase.turn
                 /\ log.nextStep = phase.step + 1
  <2> DEFINE log == Log(trace, StepEnd(phase.turn, phase.step))
  <2>1. /\ log \in TraceType /\ log.openTurn = trace.openTurn /\ log.openStep = None
        /\ log.nextTurn = trace.nextTurn /\ log.nextStep = trace.nextStep + 1
        /\ trace.legal = TRUE /\ trace.openTurn = phase.turn /\ trace.openStep = phase.step
             => log.legal = TRUE
    BY <1>p, StepCloses
  <2> HIDE DEF log
  <2>2. /\ log \in TraceType /\ log.legal = TRUE /\ log.openTurn = phase.turn
        /\ log.openStep = None /\ log.nextTurn = phase.turn /\ log.nextStep = phase.step + 1
    BY <1>e, <1>s, <2>1
  <2> QED BY <2>2 DEF log
<1>1. CASE UNCHANGED <<phase, at, trace>>
  BY <1>1 DEF TraceInv, Placed, TraceAt, Idle
<1>2. CASE StartMaintenance
  <2>1. phase'.kind = "maintenance" /\ phase'.turn = phase.turn
    BY <1>2, PhaseKinds DEF StartMaintenance, TypeParts
  <2> QED BY <1>2, <2>1
          DEF StartMaintenance, TraceInv, Placed, TraceAt, Idle, Between, InTurn, InStep
<1>3. CASE EndMaintenance
  <2>1. phase.kind = "maintenance" /\ trace' = trace
    BY <1>3 DEF EndMaintenance, TraceInv, Placed
  <2>2. CASE StartDriver(phase.turn)
    BY <2>1, <2>2, StartTrace
  <2>3. CASE phase' = [phase EXCEPT !.kind = "idle"] /\ at' = "off"
    <3>1. phase'.kind = "idle" /\ phase'.turn = phase.turn
      BY <2>3, PhaseKinds DEF TypeParts
    <3> QED BY <1>3, <2>1, <2>3, <3>1
            DEF EndMaintenance, TraceInv, Placed, TraceAt, Idle, Between, InTurn, InStep
  <2> QED BY <1>3, <2>2, <2>3 DEF EndMaintenance
<1>4. CASE SendWake \/ ReplayWake
  <2>1. ASSUME NEW w \in BOOLEAN, WakeDriver(w), UNCHANGED trace PROVE TraceInv'
    BY <2>1, WakeTrace
  <2>2. (sending = "wakeAfterAbort") \in BOOLEAN
    OBVIOUS
  <2> QED BY <1>1, <1>4, <2>1, <2>2 DEF SendWake, ReplayWake
<1>5. CASE OpenTurn
  <2>1. CASE Aborted
    BY <1>5, <2>1, <1>q DEF OpenTurn, DriverAt
  <2>2. CASE ~Aborted
    <3>1. phase'.kind = "running" /\ phase'.turn = phase.turn + 1 /\ phase'.step = phase.step
      <4>1. phase' = [phase EXCEPT !.turn = @ + 1] /\ phase.kind = "running"
        BY <1>5, <2>2 DEF OpenTurn, DriverAt, Running
      <4> QED BY <4>1, PhaseTurns DEF TypeParts
    <3>2. /\ at = "turnStart" /\ at' = "stepTop" /\ phase.step = 0
          /\ trace' = Log(trace, TurnStart(phase.turn + 1))
          /\ trace.openTurn = None /\ trace.openStep = None /\ trace.legal = TRUE
          /\ trace.nextTurn = phase.turn + 1
      BY <1>5, <2>2 DEF OpenTurn, DriverAt, TraceInv, Placed, TraceAt, Between
    <3>3. /\ trace'.legal = TRUE /\ trace'.openTurn = phase.turn + 1 /\ trace'.openStep = None
          /\ trace'.nextTurn = phase.turn + 1 /\ trace'.nextStep = 1
      <4>1. phase.turn + 1 \in Nat
        BY <1>p
      <4> QED BY <1>p, <3>2, <4>1, TurnStarts
    <3> QED BY <1>p, <3>1, <3>2, <3>3 DEF TraceInv, Placed, TraceAt, Idle, Between, InTurn, InStep
  <2> QED BY <2>1, <2>2
<1>6. CASE ClaimStep \/ CatchPreStep
  <2>1. Running /\ at \in InTurn
    BY <1>6 DEF ClaimStep, CatchPreStep, DriverAt, InTurn
  <2>2. CASE FailTurn(trace)
    BY <1>p, <1>t, <2>1, <2>2, CloseTrace DEF FailTurn
  <2>3. CASE at' = "assemble" /\ UNCHANGED <<phase, trace>>
    BY <1>q, <2>1, <2>3 DEF InTurn
  <2> QED BY <1>6, <2>2, <2>3 DEF ClaimStep, CatchPreStep
<1>7. CASE Assemble \/ DecideStep
  BY <1>7, <1>q DEF Assemble, DecideStep, DriverAt, InTurn
<1>8. CASE EnterStep
  <2>1. Running /\ at \in InTurn /\ at = "decided"
    BY <1>8 DEF EnterStep, DriverAt, InTurn
  <2>2. CASE \E ending, reached : CloseTurn(trace, ending, reached)
    BY <1>p, <1>t, <2>1, <2>2, CloseTrace
  <2>3. CASE /\ trace' = Log(trace, StepStart(phase.turn, phase.step + 1))
             /\ phase' = [phase EXCEPT !.step = phase.step + 1]
             /\ at' = "request"
    <3>1. phase'.kind = "running" /\ phase'.turn = phase.turn /\ phase'.step = phase.step + 1
      <4>1. phase.kind = "running" /\ phase.step + 1 \in Nat /\ phase \in Phases
        BY <1>p, <2>1 DEF Running, TypeParts
      <4> QED BY <2>3, <4>1, PhaseSteps
    <3>2. trace.nextStep = phase.step + 1 /\ phase.turn > 0
      BY <2>1, <1>t DEF TraceInv, TraceAt
    <3>3. /\ trace'.legal = TRUE /\ trace'.openTurn = phase.turn
          /\ trace'.openStep = phase.step + 1 /\ trace'.nextTurn = phase.turn
          /\ trace'.nextStep = phase.step + 1
      <4>1. phase.step + 1 \in Nat
        BY <1>p
      <4> QED BY <1>p, <1>t, <2>1, <2>3, <3>2, <4>1, StepStarts
    <3> QED BY <1>p, <2>3, <3>1, <3>2, <3>3
            DEF TraceInv, Placed, TraceAt, Idle, Between, InTurn, InStep
  <2> QED BY <1>8, <2>2, <2>3 DEF EnterStep, FailTurn
<1>9. CASE BuildRequest \/ CallStream \/ StreamThrows \/ StreamFails \/ StreamFinishes
  <2>1. /\ Running /\ at \in InStep /\ at' \in InStep /\ phase' = phase
        /\ \/ trace' = trace
           \/ trace' = Log(trace, RequestHeader)
           \/ trace' = Log(trace, Assistant(phase.turn, phase.step))
    BY <1>9 DEF BuildRequest, CallStream, StreamThrows, StreamFails, StreamFinishes, Here, StepEnds,
                StepFrame, DriverAt, InStep
  <2>2. /\ trace'.legal = TRUE /\ trace'.openTurn = trace.openTurn
        /\ trace'.openStep = trace.openStep /\ trace'.nextTurn = trace.nextTurn
        /\ trace'.nextStep = trace.nextStep
    <3>1. CASE trace' = Log(trace, RequestHeader)
      <4>1. trace.legal = TRUE /\ trace.openTurn # None
        BY <1>p, <1>s, <2>1
      <4> QED BY <1>p, <3>1, <4>1, RequestOpens
    <3>2. CASE trace' = Log(trace, Assistant(phase.turn, phase.step))
      BY <1>p, <1>s, <2>1, <3>2, AssistantSpeaks
    <3> QED BY <1>s, <2>1, <3>1, <3>2
  <2> QED BY <2>1, <2>2
          DEF TraceInv, Placed, TraceAt, Idle, Running, Between, InTurn, InStep
<1>10. CASE RecoverRequest \/ RunTools
  BY <1>10, <1>q DEF RecoverRequest, RunTools, StepEnds, StepFrame, DriverAt, InStep
<1>11. CASE CloseStep \/ CatchStep
  <2> DEFINE log == Log(trace, StepEnd(phase.turn, phase.step))
  <2>1. Running /\ at \in InStep
    BY <1>11 DEF CloseStep, CatchStep, DriverAt, InStep
  <2>2. /\ log \in TraceType /\ log.legal = TRUE /\ log.openTurn = phase.turn
        /\ log.openStep = None /\ log.nextTurn = phase.turn /\ log.nextStep = phase.step + 1
    BY <1>e, <2>1
  <2> HIDE DEF log
  <2>3. CASE FailTurn(log)
    BY <2>1, <2>2, <2>3, CloseTrace DEF FailTurn
  <2>4. CASE at' \in {"turnStopping", "stepTop"} /\ trace' = log /\ phase' = phase
    BY <1>p, <1>s, <2>1, <2>2, <2>4
    DEF TraceInv, Placed, TraceAt, Idle, Running, Between, InTurn, InStep
  <2> QED BY <1>11, <2>3, <2>4 DEF CloseStep, CatchStep, NextBoundary, log
<1>12. CASE StopHooks
  <2>1. Running /\ at \in InTurn
    BY <1>12 DEF StopHooks, DriverAt, InTurn
  <2>2. CASE \E ending, reached : CloseTurn(trace, ending, reached)
    BY <1>p, <1>t, <2>1, <2>2, CloseTrace
  <2>3. CASE NextBoundary(trace)
    BY <1>q, <2>1, <2>3 DEF NextBoundary, InTurn
  <2> QED BY <1>12, <2>2, <2>3 DEF StopHooks, FailTurn
<1>13. CASE Converge
  <2>1. phase'.kind = "idle" /\ phase'.turn = phase.turn
    BY <1>13, PhaseConverges DEF Converge, TypeParts
  <2> QED BY <1>13, <2>1 DEF Converge, DriverAt, TraceInv, Placed, TraceAt, Idle, Between,
                             InTurn, InStep
<1>14. CASE \/ Send \/ Cancellation \/ Withdraw \/ CallWhenIdle \/ ResumeWhenIdle
            \/ ToolContext \/ SettleDriver \/ UNCHANGED vars
  BY <1>1, <1>14 DEF Send, Followup, Steer, Inject, SendInsert, Cancellation, Cancel, Withdraw,
      Remove, CallWhenIdle, ResumeWhenIdle, ToolContext, AcceptContext, SettleDriver, vars
<1> QED BY <1>2, <1>3, <1>4, <1>5, <1>6, <1>7, <1>8, <1>9, <1>10, <1>11, <1>12, <1>13, <1>14
        DEF Next, Driver, Turn, Step

-----------------------------------------------------------------------------
(* Closing a turn keeps the latch justified: under the fresh signal it is  *)
(* gone, and otherwise nothing changed.                                    *)
LEMMA CloseWake ==
  ASSUME WakeAt, NEW log, NEW ending, NEW reached, CloseTurn(log, ending, reached),
         sending = "no", UNCHANGED sending
  PROVE  WakeAt'
<1>1. CASE wakeRequested' = FALSE
  BY <1>1 DEF WakeAt, LatchJustified
<1>2. CASE UNCHANGED <<phase, abort, wakeRequested>>
  BY <1>2 DEF WakeAt, LatchJustified, Idle, Running, Aborted
<1> QED BY <1>1, <1>2 DEF CloseTurn, FreshSignal

(* A wake is latched only behind an activity that cannot deliver it.       *)
LEMMA WakeStep == TypeParts /\ WakeAt /\ [Next]_vars => WakeAt'
<1> SUFFICES ASSUME TypeParts, WakeAt, [Next]_vars PROVE WakeAt'
  OBVIOUS
<1>k. phase.kind \in {"idle", "maintenance", "running"}
  BY PhaseFields DEF TypeParts
<1>q. ASSUME UNCHANGED <<phase, abort, wakeRequested>>, sending' = sending \/ sending' = "no"
      PROVE  WakeAt'
  BY <1>q DEF WakeAt, LatchJustified, Idle, Running, Aborted
<1>w. ASSUME NEW w \in BOOLEAN, WakeDriver(w), sending' = "no", w = TRUE => ~Idle /\ Aborted
      PROVE  WakeAt'
  <2>1. CASE StartDriver(phase.turn)
    BY <1>w, <2>1 DEF StartDriver, WakeAt, LatchJustified
  <2>2. CASE ~Idle /\ UNCHANGED <<phase, abort>>
             /\ wakeRequested' = (wakeRequested \/ (/\ abort # "disposed"
                                                    /\ phase.kind = "maintenance" \/ w))
    <3>1. CASE wakeRequested' = wakeRequested
      BY <1>w, <1>q, <2>2, <3>1
    <3>2. CASE abort # "disposed" /\ phase.kind = "maintenance"
      BY <1>w, <2>2, <3>2 DEF WakeAt, LatchJustified, Running
    <3>3. CASE abort # "disposed" /\ w = TRUE
      BY <1>w, <2>2, <3>3 DEF WakeAt, LatchJustified, Aborted, Causes, TypeParts
    <3> QED BY <1>w, <2>2, <3>1, <3>2, <3>3 DEF TypeParts
  <2> QED BY <1>w, <2>1, <2>2 DEF WakeDriver
<1>1. CASE Send
  <2> PICK m \in Messages, to \in Targets, w \in BOOLEAN : SendInsert(m, to, w)
    BY <1>1 DEF Send, Followup, Steer, Inject, Targets
  <2>1. UNCHANGED <<phase, abort, wakeRequested>>
    BY DEF SendInsert
  <2>2. sending' = "wakeAfterAbort" => ~Idle /\ Aborted
    BY DEF SendInsert
  <2> QED BY <2>1, <2>2 DEF WakeAt, LatchJustified, Idle, Running, Aborted
<1>2. CASE Cancellation
  <2>1. UNCHANGED <<phase, sending>> /\ (Aborted \/ Idle => abort' = abort)
        /\ abort' \in {abort, "user", "disposed"}
        /\ (wakeRequested' = FALSE \/ (wakeRequested' = wakeRequested /\ abort' \in {abort, "user"}))
    BY <1>2 DEF Cancellation, Cancel
  <2>2. sending' = "wakeAfterAbort" => ~Idle' /\ Aborted'
    BY <2>1 DEF WakeAt, Idle, Aborted
  <2>3. LatchJustified'
    BY <2>1, <1>k DEF WakeAt, LatchJustified, Running, Aborted
  <2> QED BY <2>2, <2>3 DEF WakeAt
<1>3. CASE StartMaintenance \/ EndMaintenance
  <2>1. wakeRequested' = FALSE /\ sending' = "no"
    BY <1>3 DEF StartMaintenance, EndMaintenance, StartDriver, Quiet
  <2> QED BY <2>1 DEF WakeAt, LatchJustified
<1>4. CASE SendWake
  <2>1. (sending = "wakeAfterAbort") \in BOOLEAN /\ sending' = "no"
        /\ WakeDriver(sending = "wakeAfterAbort")
    BY <1>4 DEF SendWake
  <2>2. sending = "wakeAfterAbort" => ~Idle /\ Aborted
    BY DEF WakeAt
  <2> QED BY <2>1, <2>2, <1>w
<1>5. CASE ReplayWake
  <2>1. sending = "no" /\ sending' = sending
    BY <1>5 DEF ReplayWake, Quiet
  <2>2. CASE WakeDriver(FALSE)
    BY <2>1, <2>2, <1>w
  <2>3. CASE ~WakeDriver(FALSE)
    BY <1>5, <1>q, <2>1, <2>3 DEF ReplayWake
  <2> QED BY <2>2, <2>3
<1>6. CASE Converge
  BY <1>6 DEF Converge, CarryWake, DriverAt, WakeAt, LatchJustified
<1>7. CASE OpenTurn
  <2>1. /\ UNCHANGED <<abort, wakeRequested, sending>> /\ sending = "no" /\ phase.kind = "running"
    BY <1>7 DEF OpenTurn, DriverAt, Callers, Running
  <2>2. phase'.kind = "running"
    <3>1. [phase EXCEPT !.turn = @ + 1].kind = "running"
      BY <2>1, PhaseTurns DEF TypeParts
    <3> QED BY <1>7, <2>1, <3>1 DEF OpenTurn
  <2> QED BY <2>1, <2>2 DEF WakeAt, LatchJustified, Running
<1>8. CASE EnterStep
  <2>1. sending = "no" /\ sending' = sending /\ phase.kind = "running"
    BY <1>8 DEF EnterStep, DriverAt, Callers, Running
  <2>2. CASE \E ending, reached : CloseTurn(trace, ending, reached)
    BY <2>1, <2>2, CloseWake
  <2>3. CASE phase' = [phase EXCEPT !.step = phase.step + 1] /\ UNCHANGED <<abort, wakeRequested>>
    <3>1. phase'.kind = "running"
      <4>1. phase.step + 1 \in Nat /\ phase \in Phases
        BY PhaseFields DEF TypeParts
      <4> QED BY <2>1, <2>3, <4>1, PhaseSteps
    <3> QED BY <2>1, <2>3, <3>1 DEF WakeAt, LatchJustified, Running
  <2> QED BY <1>8, <2>2, <2>3 DEF EnterStep, FailTurn
<1>9. CASE ClaimStep \/ CatchPreStep \/ CloseStep \/ CatchStep \/ StopHooks
  <2>1. sending = "no" /\ sending' = sending
    BY <1>9 DEF ClaimStep, CatchPreStep, CloseStep, CatchStep, StopHooks, DriverAt, Callers
  <2>2. CASE \E log, ending, reached : CloseTurn(log, ending, reached)
    BY <2>1, <2>2, CloseWake
  <2>3. CASE UNCHANGED <<phase, abort, wakeRequested>>
    BY <1>q, <2>1, <2>3
  <2> QED BY <1>9, <2>2, <2>3
          DEF ClaimStep, CatchPreStep, CloseStep, CatchStep, StopHooks, FailTurn, NextBoundary
<1>10. CASE Step \/ Assemble \/ DecideStep
  BY <1>10, <1>q DEF Step, BuildRequest, CallStream, StreamThrows, StreamFails, StreamFinishes,
     RecoverRequest, RunTools, StepFrame, Assemble, DecideStep, Callers
<1>11. CASE \/ Withdraw \/ CallWhenIdle \/ ResumeWhenIdle \/ ToolContext \/ SettleDriver
            \/ UNCHANGED vars
  BY <1>11, <1>q DEF Withdraw, Remove, CallWhenIdle, ResumeWhenIdle, ToolContext, AcceptContext,
     SettleDriver, vars, Callers
<1> QED BY <1>1, <1>2, <1>3, <1>4, <1>5, <1>6, <1>7, <1>8, <1>9, <1>10, <1>11
        DEF Next, Driver, Turn

(* The activity promise is settled only at rest.                           *)
LEMMA ActivityStep ==
  TypeParts /\ TraceInv /\ TraceInv' /\ ActivityAt /\ [Next]_vars => ActivityAt'
<1> SUFFICES ASSUME TypeParts, TraceInv, TraceInv', ActivityAt, [Next]_vars,
                    activityDone' PROVE Idle'
  BY DEF ActivityAt
<1>1. CASE activityDone' = activityDone /\ phase' = phase
  BY <1>1 DEF ActivityAt, Idle
<1>2. CASE activityDone' = activityDone /\ Running
  BY <1>2 DEF ActivityAt, Idle, Running
<1>3. CASE activityDone' = FALSE
  BY <1>3
<1>4. CASE SettleDriver
  BY <1>4 DEF SettleDriver, Idle
<1>5. CASE at' = "off"
  BY <1>5 DEF TraceInv, Placed
<1>6. CASE \/ Send \/ Cancellation \/ Withdraw \/ CallWhenIdle \/ ResumeWhenIdle
           \/ ToolContext \/ UNCHANGED vars
  BY <1>1, <1>6 DEF Send, Followup, Steer, Inject, SendInsert, Cancellation, Cancel, Withdraw,
     Remove, CallWhenIdle, ResumeWhenIdle, ToolContext, AcceptContext, Callers, vars
<1>7. CASE StartMaintenance \/ EndMaintenance
  BY <1>3, <1>5, <1>7 DEF StartMaintenance, EndMaintenance, StartDriver
<1>8. CASE SendWake \/ ReplayWake
  BY <1>1, <1>3, <1>8 DEF SendWake, ReplayWake, WakeDriver, StartDriver
<1>9. CASE Converge
  BY <1>5, <1>9 DEF Converge
<1>10. CASE Turn
  BY <1>2, <1>10 DEF Turn, OpenTurn, ClaimStep, Assemble, DecideStep, CatchPreStep, EnterStep,
     CloseStep, CatchStep, StopHooks, DriverAt, Callers
<1>11. CASE Step
  BY <1>2, <1>11 DEF Step, BuildRequest, CallStream, StreamThrows, StreamFails, StreamFinishes,
     RecoverRequest, RunTools, DriverAt, StepFrame, Callers
<1> QED BY <1>4, <1>6, <1>7, <1>8, <1>9, <1>10, <1>11 DEF Next, Driver

(* At most one prompt is claimed in a turn.                                *)
LEMMA PromptStep == TypeParts /\ PromptAt /\ [Next]_vars => PromptAt'
<1> SUFFICES ASSUME TypeParts, PromptAt, [Next]_vars PROVE PromptAt'
  OBVIOUS
<1>1. ASSUME UNCHANGED prompts, at' # "stepTop" PROVE PromptAt'
  BY <1>1 DEF PromptAt
<1>2. ASSUME UNCHANGED prompts, target' = "next-step" PROVE PromptAt'
  BY <1>2 DEF PromptAt
<1>3. ASSUME UNCHANGED <<prompts, at, target>> PROVE PromptAt'
  BY <1>3 DEF PromptAt
<1>4. CASE OpenTurn
  <2>1. CASE Aborted
    BY <1>1, <1>4, <2>1 DEF OpenTurn
  <2>2. CASE ~Aborted
    BY <1>4, <2>2 DEF OpenTurn, PromptAt
  <2> QED BY <2>1, <2>2
<1>5. CASE ClaimStep
  <2>1. CASE Aborted
    BY <1>1, <1>5, <2>1 DEF ClaimStep, FailTurn, CloseTurn
  <2>2. CASE ~Aborted
    <3>1. at = "stepTop" /\ at' = "assemble" /\ prompts' = prompts \cup Prompt
      BY <1>5, <2>2 DEF ClaimStep, DriverAt
    <3>2. CASE Prompt = {}
      BY <1>1, <3>1, <3>2
    <3>3. CASE target = "next-turn" /\ nextTurn # <<>> /\ Prompt = {Head(nextTurn)}
      <4>1. prompts = {}
        BY <3>1, <3>3 DEF PromptAt
      <4>2. Head(nextTurn) \in Messages
        BY <3>3, ListMoves DEF TypeParts
      <4> QED BY <3>1, <3>3, <4>1, <4>2 DEF PromptAt
    <3> QED BY <3>2, <3>3 DEF Prompt
  <2> QED BY <2>1, <2>2
<1>6. CASE CatchPreStep \/ EnterStep \/ CatchStep \/ Assemble \/ DecideStep
  BY <1>1, <1>6 DEF CatchPreStep, EnterStep, CatchStep, Assemble, DecideStep, FailTurn, CloseTurn
<1>7. CASE CloseStep \/ StopHooks
  <2>1. prompts' = prompts
    BY <1>7 DEF CloseStep, StopHooks
  <2>2. CASE at' \in {"turnStart", "returned", "turnStopping"}
    BY <1>1, <2>1, <2>2
  <2>3. CASE target' = "next-step"
    BY <1>2, <2>1, <2>3
  <2> QED BY <1>7, <2>2, <2>3 DEF CloseStep, StopHooks, FailTurn, CloseTurn, NextBoundary
<1>8. CASE Step
  BY <1>1, <1>8 DEF Step, BuildRequest, CallStream, StreamThrows, StreamFails, StreamFinishes,
     StepEnds, RecoverRequest, RunTools, DriverAt, StepFrame
<1>9. CASE SendWake \/ ReplayWake \/ EndMaintenance \/ StartMaintenance \/ Converge
  BY <1>1, <1>3, <1>9 DEF SendWake, ReplayWake, EndMaintenance, StartMaintenance, Converge,
     WakeDriver, StartDriver, locals
<1>10. CASE \/ Send \/ Cancellation \/ Withdraw \/ CallWhenIdle \/ ResumeWhenIdle
            \/ ToolContext \/ SettleDriver \/ UNCHANGED vars
  BY <1>3, <1>10 DEF Send, Followup, Steer, Inject, SendInsert, Cancellation, Cancel, Withdraw,
     Remove, CallWhenIdle, ResumeWhenIdle, ToolContext, AcceptContext, SettleDriver, vars, locals
<1> QED BY <1>4, <1>5, <1>6, <1>7, <1>8, <1>9, <1>10 DEF Next, Driver, Turn

-----------------------------------------------------------------------------
(* An agent starts at rest, with an empty inbox and a fresh log.           *)
LEMMA InitIInv == Init => IInv
<1> SUFFICES ASSUME Init PROVE IInv
  OBVIOUS
<1>1. TypeParts
  <2>1. phase \in Phases /\ trace \in TraceType /\ decision \in Decisions
    BY DecisionMoves DEF Init, Phases, TraceType, FreshTrace, None
  <2>2. nextStep \in Seq(Messages) /\ nextTurn \in Seq(Messages)
    BY ListMoves DEF Init
  <2> QED BY <2>1, <2>2 DEF Init, TypeParts, Places, Targets, Endings, Fates
<1>2. TraceInv
  BY DEF Init, TraceInv, Placed, TraceAt, Idle, Between, InTurn, InStep, FreshTrace, None
<1>3. WakeAt /\ ActivityAt /\ PromptAt
  BY DEF Init, WakeAt, LatchJustified, ActivityAt, PromptAt, Idle
<1> QED BY <1>1, <1>2, <1>3, TypeIsParts DEF IInv, TraceInv

(* The invariant is inductive.                                             *)
LEMMA StepIInv == IInv /\ [Next]_vars => IInv'
<1> SUFFICES ASSUME IInv, [Next]_vars PROVE IInv'
  OBVIOUS
<1>1. TypeOK'
  BY TypeStep DEF IInv
<1>2. TypeParts /\ TraceInv
  BY TypeIsParts DEF IInv, TraceInv
<1>3. TypeParts'
  BY <1>1, TypeIsParts, PTL
<1>4. TraceInv'
  BY <1>2, <1>3, TraceStep
<1>5. WakeAt'
  BY <1>2, WakeStep DEF IInv
<1>6. ActivityAt'
  BY <1>2, <1>4, ActivityStep DEF IInv
<1>7. PromptAt'
  BY <1>2, PromptStep DEF IInv
<1> QED BY <1>1, <1>4, <1>5, <1>6, <1>7 DEF IInv, TraceInv

(* The invariant holds of every behaviour of the loop, for any messages and*)
(* any bound on steps (agent.ts:80-426).                                   *)
THEOREM Invariance == Spec => []IInv
BY InitIInv, StepIInv, PTL DEF Spec

(* Every variable of the loop keeps its type: phase, inbox, signal, latch  *)
(* and the log's companion (agent.ts:38-97, inbox.ts:22-28).               *)
THEOREM TypeCorrect == Spec => []TypeOK
<1>1. IInv => TypeOK
  BY DEF IInv
<1> QED BY <1>1, Invariance, PTL

(* Whatever is cancelled, thrown or retried, and wherever, the log obeys   *)
(* the session companion, and no turn is open between activities           *)
(* (agent.ts:246-330).                                                     *)
THEOREM LogAlwaysLegal == Spec => []LogLegal
<1>1. ASSUME IInv PROVE LogLegal
  <2>1. trace.legal
    BY <1>1 DEF IInv, TraceAt
  <2>2. ASSUME ~Running PROVE trace.openTurn = None
    <3>1. phase.kind \in {"idle", "maintenance"}
      BY <1>1, <2>2, TypeIsParts, PhaseFields DEF IInv, TypeParts, Running
    <3>2. at \in Between
      BY <1>1, <3>1 DEF IInv, Placed, Idle, Between
    <3> QED BY <1>1, <3>2 DEF IInv, TraceAt
  <2> QED BY <2>1, <2>2 DEF LogLegal
<1> QED BY <1>1, Invariance, PTL

(* A follow-up is the sole prompt of its turn (runtime-types.ts:118-119).  *)
THEOREM FollowupAlwaysSole == Spec => []SoleFollowup
<1>1. ASSUME IInv PROVE SoleFollowup
  <2>1. CASE prompts = {}
    BY <2>1, FS_EmptySet DEF SoleFollowup
  <2>2. CASE \E m \in Messages : prompts = {m}
    BY <2>2, FS_Singleton DEF SoleFollowup
  <2> QED BY <1>1, <2>1, <2>2 DEF IInv, PromptAt
<1> QED BY <1>1, Invariance, PTL

(* A wake is latched only behind an aborted driver or a maintenance job,   *)
(* never behind a disposal (agent.ts:173-181 and 326-327).                 *)
THEOREM LatchAlwaysJustified == Spec => []LatchJustified
<1>1. IInv => LatchJustified
  BY DEF IInv, WakeAt
<1> QED BY <1>1, Invariance, PTL

(* An aborted driver opens no turn and no step, and starts no request, no  *)
(* stream and no stop hook (agent.ts:228-242, 251, 277, 430, 460).         *)
THEOREM NothingEverStartsAborted == Spec => NothingStartsAborted
<1>1. ASSUME IInv, [Next]_vars
      PROVE  [Aborted /\ Running =>
                /\ trace'.openTurn \in {None, trace.openTurn}
                /\ trace'.openStep \in {None, trace.openStep}
                /\ at' # at => at' \notin {"request", "stream", "turnStopping"}]_vars
  <2> SUFFICES ASSUME Aborted, Running
               PROVE  /\ trace'.openTurn \in {None, trace.openTurn}
                      /\ trace'.openStep \in {None, trace.openStep}
                      /\ at' # at => at' \notin {"request", "stream", "turnStopping"}
    OBVIOUS
  <2>p. phase.turn \in Nat /\ phase.step \in Nat /\ trace \in TraceType /\ phase.kind = "running"
    BY <1>1, PhaseFields, TypeIsParts DEF IInv, TypeParts, Running
  <2>a. ASSUME NEW log \in TraceType, NEW ending, NEW reached, CloseTurn(log, ending, reached)
        PROVE  /\ trace'.openTurn = None /\ trace'.openStep = log.openStep
               /\ at' \notin {"request", "stream", "turnStopping"}
    BY <2>p, <2>a, TurnEnds DEF CloseTurn
  <2>e. LET log == Log(trace, StepEnd(phase.turn, phase.step))
        IN  log \in TraceType /\ log.openTurn = trace.openTurn /\ log.openStep = None
    BY <2>p, StepCloses
  <2>m. LET log == Log(trace, Assistant(phase.turn, phase.step))
        IN  log.openTurn = trace.openTurn /\ log.openStep = trace.openStep
    BY <2>p, AssistantSpeaks
  <2>1. CASE trace' = trace /\ (at' = at \/ at' \notin {"request", "stream", "turnStopping"})
    BY <2>1
  <2>2. CASE \/ Send \/ Cancellation \/ Withdraw \/ CallWhenIdle \/ ResumeWhenIdle
             \/ ToolContext \/ SettleDriver \/ UNCHANGED vars
    BY <2>1, <2>2 DEF Send, Followup, Steer, Inject, SendInsert, Cancellation, Cancel, Withdraw,
       Remove, CallWhenIdle, ResumeWhenIdle, ToolContext, AcceptContext, SettleDriver, vars
  <2>3. CASE StartMaintenance \/ EndMaintenance \/ SendWake \/ ReplayWake \/ Converge
    BY <2>1, <2>3 DEF StartMaintenance, EndMaintenance, SendWake, ReplayWake, Converge,
       WakeDriver, StartDriver
  <2>4. CASE OpenTurn \/ Assemble \/ DecideStep \/ RecoverRequest \/ RunTools
    BY <2>1, <2>4 DEF OpenTurn, Assemble, DecideStep, RecoverRequest, RunTools, StepEnds
  <2>5. CASE ClaimStep \/ CatchPreStep \/ EnterStep \/ StopHooks
    <3>1. \E ending, reached : CloseTurn(trace, ending, reached)
      BY <2>5 DEF ClaimStep, CatchPreStep, EnterStep, StopHooks, FailTurn
    <3> QED BY <2>p, <2>a, <3>1
  <2>6. CASE CloseStep \/ CatchStep
    <3>1. \E ending, reached :
            CloseTurn(Log(trace, StepEnd(phase.turn, phase.step)), ending, reached)
      BY <2>6 DEF CloseStep, CatchStep, FailTurn
    <3> QED BY <2>a, <2>e, <3>1
  <2>7. CASE BuildRequest \/ CallStream \/ StreamThrows \/ StreamFails \/ StreamFinishes
    BY <2>m, <2>1, <2>7 DEF BuildRequest, CallStream, StreamThrows, StreamFails, StreamFinishes,
       Here
  <2> QED BY <1>1, <2>2, <2>3, <2>4, <2>5, <2>6, <2>7 DEF Next, Driver, Turn, Step
<1> QED BY <1>1, Invariance, PTL DEF Spec, NothingStartsAborted

(* whenIdle() resolves only at rest, with no driver, job or replay left    *)
(* (agent.ts:195-200, runtime-types.ts:86-91).                             *)
THEOREM WhenIdleAlwaysQuiescent == Spec => WhenIdleQuiescent
<1>1. ASSUME IInv, [Next]_vars
      PROVE  [waiter # "none" /\ waiter' = "none" => Idle /\ ~replay /\ at = "off"]_vars
  <2> SUFFICES ASSUME waiter # "none", waiter' = "none" PROVE Idle /\ ~replay /\ at = "off"
    OBVIOUS
  <2>1. CASE ResumeWhenIdle
    BY <1>1, <2>1 DEF ResumeWhenIdle, IInv, ActivityAt, Placed
  <2>2. CASE StartMaintenance \/ EndMaintenance \/ SendWake \/ ReplayWake
    BY <2>2 DEF StartMaintenance, EndMaintenance, SendWake, ReplayWake, WakeDriver, StartDriver
  <2>3. CASE \/ Send \/ Cancellation \/ Withdraw \/ CallWhenIdle \/ ToolContext
             \/ SettleDriver \/ Converge \/ UNCHANGED vars
    BY <2>3 DEF Send, Followup, Steer, Inject, SendInsert, Cancellation, Cancel, Withdraw,
       Remove, CallWhenIdle, ToolContext, AcceptContext, SettleDriver, Converge, Callers, vars
  <2>4. CASE Turn
    BY <2>4 DEF Turn, OpenTurn, ClaimStep, Assemble, DecideStep, CatchPreStep, EnterStep,
       CloseStep, CatchStep, StopHooks, Callers
  <2>5. CASE Step
    BY <2>5 DEF Step, BuildRequest, CallStream, StreamThrows, StreamFails, StreamFinishes,
       RecoverRequest, RunTools, StepFrame, Callers
  <2> QED BY <1>1, <2>1, <2>2, <2>3, <2>4, <2>5 DEF Next, Driver
<1> QED BY <1>1, Invariance, PTL DEF Spec, WhenIdleQuiescent

-----------------------------------------------------------------------------
(* The inbox and the delivery promise.                                     *)

Distinct(s) == \A i, j \in DOMAIN s : s[i] = s[j] => i = j

(* The two lists hold the pending messages, each in one place.             *)
Listed ==
  /\ Elements(nextStep) \cup Elements(nextTurn) = Pending
  /\ Elements(nextStep) \cap Elements(nextTurn) = {}
  /\ Distinct(nextStep) /\ Distinct(nextTurn)

(* Messages are in hand only from the claim to the decision about it.      *)
HandPlaces == {"assemble", "preStep", "preStepThrew", "decided"}
HandAt == InHand # {} => at \in HandPlaces

DeliveryInv == IInv /\ Listed /\ HandAt

(* The elements of an empty list.                                          *)
LEMMA NoElements == Elements(<<>>) = {} /\ Distinct(<<>>)
BY DEF Elements, Distinct

(* A message joins the end of a list that does not hold it.                *)
LEMMA ElementsJoin ==
  ASSUME NEW s \in Seq(Messages), NEW m \in Messages
  PROVE  /\ Elements(Append(s, m)) = Elements(s) \cup {m}
         /\ Distinct(s) /\ m \notin Elements(s) => Distinct(Append(s, m))
<1>1. /\ DOMAIN s = 1..Len(s) /\ DOMAIN Append(s, m) = 1..(Len(s) + 1) /\ Len(s) \in Nat
      /\ \A i \in 1..Len(s) : Append(s, m)[i] = s[i]
      /\ Append(s, m)[Len(s) + 1] = m
  BY AppendProperties, LenProperties
<1>2. \A i \in 1..(Len(s) + 1) : i \in 1..Len(s) \/ i = Len(s) + 1
  BY <1>1
<1>3. Len(s) + 1 \in DOMAIN Append(s, m) /\ \A i \in DOMAIN s : i \in DOMAIN Append(s, m)
  BY <1>1
<1>4. Elements(Append(s, m)) = Elements(s) \cup {m}
  BY <1>1, <1>2, <1>3, Zenon DEF Elements
<1>5. ASSUME Distinct(s), m \notin Elements(s) PROVE Distinct(Append(s, m))
  BY <1>1, <1>2, <1>5, Zenon DEF Distinct, Elements
<1> QED BY <1>4, <1>5

(* A message leaves a list from its head.                                  *)
LEMMA ElementsHead ==
  ASSUME NEW s \in Seq(Messages), s # <<>>, Distinct(s)
  PROVE  /\ Head(s) \in Elements(s) /\ Elements(Tail(s)) = Elements(s) \ {Head(s)}
         /\ Distinct(Tail(s))
<1>1. /\ Len(s) \in Nat \ {0} /\ DOMAIN s = 1..Len(s) /\ Head(s) = s[1]
      /\ DOMAIN Tail(s) = 1..(Len(s) - 1)
      /\ \A i \in 1..(Len(s) - 1) : Tail(s)[i] = s[i + 1]
  BY EmptySeq, LenProperties, HeadTailProperties
<1>2. Head(s) \in Elements(s)
  BY <1>1 DEF Elements
<1>3. ASSUME NEW m \in Elements(Tail(s)) PROVE m \in Elements(s) \ {Head(s)}
  <2> PICK i \in 1..(Len(s) - 1) : m = s[i + 1]
    BY <1>1, <1>3 DEF Elements
  <2> QED BY <1>1 DEF Elements, Distinct
<1>4. ASSUME NEW m \in Elements(s) \ {Head(s)} PROVE m \in Elements(Tail(s))
  <2> PICK i \in 1..Len(s) : m = s[i] /\ i # 1
    BY <1>1, <1>4 DEF Elements
  <2>1. i - 1 \in 1..(Len(s) - 1) /\ Tail(s)[i - 1] = m
    BY <1>1
  <2> QED BY <1>1, <2>1 DEF Elements
<1>5. Distinct(Tail(s))
  BY <1>1 DEF Distinct
<1> QED BY <1>2, <1>3, <1>4, <1>5

(* A message is spliced out of a list.                                     *)
LEMMA ElementsSplice ==
  ASSUME NEW s \in Seq(Messages), NEW k \in DOMAIN s, Distinct(s)
  PROVE  /\ s[k] \in Elements(s) /\ Elements(Without(s, k)) = Elements(s) \ {s[k]}
         /\ Distinct(Without(s, k))
<1> DEFINE l == SubSeq(s, 1, k - 1)
           r == SubSeq(s, k + 1, Len(s))
           w == Without(s, k)
<1>1. Len(s) \in Nat /\ DOMAIN s = 1..Len(s) /\ k \in 1..Len(s)
  BY LenProperties
<1>2. /\ l \in Seq(Messages) /\ Len(l) = k - 1
      /\ \A i \in 1..(k - 1) : l[i] = s[i]
  BY <1>1, SubSeqProperties, ElementOfSeq
<1>3. /\ r \in Seq(Messages) /\ Len(r) = Len(s) - k
      /\ \A i \in 1..(Len(s) - k) : r[i] = s[k + i]
  BY <1>1, SubSeqProperties, ElementOfSeq
<1>w. w = l \o r
  BY DEF Without
<1> HIDE DEF l, r, w
<1>4. /\ DOMAIN w = 1..(Len(s) - 1)
      /\ \A i \in 1..(Len(s) - 1) : w[i] = IF i < k THEN s[i] ELSE s[i + 1]
  <2>1. w \in Seq(Messages) /\ Len(w) = Len(s) - 1
    <3>1. w \in Seq(Messages) /\ Len(w) = Len(l) + Len(r)
      BY <1>2, <1>3, <1>w, ConcatProperties
    <3>2. (k - 1) + (Len(s) - k) = Len(s) - 1
      BY <1>1
    <3> QED BY <1>2, <1>3, <3>1, <3>2
  <2>2. ASSUME NEW i \in 1..(Len(s) - 1) PROVE w[i] = IF i < k THEN s[i] ELSE s[i + 1]
    <3>1. w[i] = IF i <= k - 1 THEN l[i] ELSE r[i - (k - 1)]
      BY <1>1, <1>2, <1>3, <1>w, ConcatProperties
    <3>2. CASE i < k
      BY <1>1, <1>2, <3>1, <3>2
    <3>3. CASE ~(i < k)
      <4>1. i - (k - 1) \in 1..(Len(s) - k) /\ k + (i - (k - 1)) = i + 1 /\ ~(i <= k - 1)
        BY <1>1, <3>3
      <4>2. r[i - (k - 1)] = s[i + 1]
        BY <1>3, <4>1
      <4> QED BY <3>1, <3>3, <4>1, <4>2
    <3> QED BY <3>2, <3>3
  <2> QED BY <2>1, <2>2, LenProperties
<1>5. s[k] \in Elements(s)
  BY DEF Elements
<1>6. ASSUME NEW m \in Elements(w) PROVE m \in Elements(s) \ {s[k]}
  <2> PICK i \in 1..(Len(s) - 1) : m = w[i]
    BY <1>4, <1>6 DEF Elements
  <2> QED BY <1>1, <1>4 DEF Elements, Distinct
<1>7. ASSUME NEW m \in Elements(s) \ {s[k]} PROVE m \in Elements(w)
  <2> PICK i \in 1..Len(s) : m = s[i] /\ i # k
    BY <1>1, <1>7 DEF Elements
  <2>1. CASE i < k
    <3>1. i \in 1..(Len(s) - 1) /\ w[i] = m
      BY <1>1, <1>4, <2>1
    <3> QED BY <1>4, <3>1 DEF Elements
  <2>2. CASE i > k
    <3>1. i - 1 \in 1..(Len(s) - 1) /\ w[i - 1] = m
      BY <1>1, <1>4, <2>2
    <3> QED BY <1>4, <3>1 DEF Elements
  <2> QED BY <1>1, <2>1, <2>2
<1>8. Distinct(w)
  <2> SUFFICES ASSUME NEW i \in 1..(Len(s) - 1), NEW j \in 1..(Len(s) - 1), w[i] = w[j]
               PROVE  i = j
    BY <1>4 DEF Distinct
  <2> QED BY <1>1, <1>4 DEF Distinct
<1> QED BY <1>5, <1>6, <1>7, <1>8 DEF w

(* A list without repetition is as long as it has elements.                *)
LEMMA DistinctLength ==
  ASSUME NEW s \in Seq(Messages), Distinct(s)
  PROVE  IsFiniteSet(Elements(s)) /\ Cardinality(Elements(s)) = Len(s)
<1>1. Len(s) \in Nat /\ DOMAIN s = 1..Len(s) /\ s \in [1..Len(s) -> Elements(s)]
  BY LenProperties DEF Elements
<1>2. s \in Bijection(1..Len(s), Elements(s))
  BY <1>1 DEF Bijection, Injection, Surjection, IsInjective, Elements, Distinct
<1>3. IsFiniteSet(1..Len(s)) /\ Cardinality(1..Len(s)) = Len(s)
  BY <1>1, FS_Interval
<1> QED BY <1>2, <1>3, FS_Bijection DEF ExistsBijection

(* The messages at each fate, after some have moved.                       *)
LEMMA WithMoves ==
  ASSUME fate \in [Messages -> Fates], NEW S \in SUBSET Messages, NEW what, Becomes(S, what)
  PROVE  /\ With(what)' = With(what) \cup S
         /\ \A w : w # what => {m \in Messages : fate'[m] = w} = With(w) \ S
BY DEF With, Becomes

(* The abstract view, in the driver's variables.                           *)
LEMMA ViewStays ==
  ASSUME nextStep' = nextStep, nextTurn' = nextTurn, fate' = fate,
         (trace'.openTurn # None) = (trace.openTurn # None)
  PROVE  UNCHANGED Promise!view
BY DEF Promise!view, Promise!parts, InHand, With, Elements

(* A step that leaves the messages and the turn alone changes nothing the  *)
(* promise is about.                                                       *)
LEMMA Rests ==
  ASSUME Listed, HandAt, nextStep' = nextStep, nextTurn' = nextTurn, fate' = fate,
         (trace'.openTurn # None) = (trace.openTurn # None),
         at \in HandPlaces => at' \in HandPlaces
  PROVE  Listed' /\ HandAt' /\ UNCHANGED Promise!view
BY ViewStays DEF Listed, HandAt, HandPlaces, Pending, InHand, Elements

(* A message is inserted: at the end of one list, and pending.             *)
LEMMA Inserts ==
  ASSUME DeliveryInv, NEW m \in Messages, fate[m] = "unsent", Becomes({m}, "pending"),
         \/ nextStep' = Append(nextStep, m) /\ nextTurn' = nextTurn
         \/ nextTurn' = Append(nextTurn, m) /\ nextStep' = nextStep,
         trace' = trace, at' = at
  PROVE  Listed' /\ HandAt' /\ Promise!Next
<1>1. nextStep \in Seq(Messages) /\ nextTurn \in Seq(Messages) /\ fate \in [Messages -> Fates]
  BY DEF DeliveryInv, IInv, TypeOK
<1>2. /\ m \notin Elements(nextStep) /\ m \notin Elements(nextTurn)
      /\ m \notin With("pending") \cup With("claimed") \cup With("entered")
               \cup With("dropped") \cup With("discarded")
  BY DEF DeliveryInv, Listed, Pending, With
<1>3. /\ (Elements(nextStep) \cup Elements(nextTurn))'
           = Elements(nextStep) \cup Elements(nextTurn) \cup {m}
      /\ (Elements(nextStep) \cap Elements(nextTurn))' = {}
      /\ Distinct(nextStep)' /\ Distinct(nextTurn)'
  <2>1. /\ Elements(nextStep) \cap Elements(nextTurn) = {}
        /\ Distinct(nextStep) /\ Distinct(nextTurn)
    BY DEF DeliveryInv, Listed
  <2>2. CASE nextStep' = Append(nextStep, m) /\ nextTurn' = nextTurn
    BY <1>1, <1>2, <2>1, <2>2, ElementsJoin
  <2>3. CASE nextTurn' = Append(nextTurn, m) /\ nextStep' = nextStep
    BY <1>1, <1>2, <2>1, <2>3, ElementsJoin
  <2> QED BY <2>2, <2>3
<1>4. /\ With("pending")' = With("pending") \cup {m}
      /\ With("claimed")' = With("claimed") /\ With("entered")' = With("entered")
      /\ With("dropped")' = With("dropped") /\ With("discarded")' = With("discarded")
  BY <1>1, <1>2 DEF With, Becomes
<1>5. Pending = With("pending") /\ InHand = With("claimed")
      /\ Pending' = With("pending")' /\ InHand' = With("claimed")'
  BY DEF Pending, InHand, With
<1>6. Listed' /\ HandAt'
  BY <1>3, <1>4, <1>5 DEF DeliveryInv, Listed, HandAt, HandPlaces
<1>7. Promise!Accept(m)
  BY <1>2, <1>3, <1>4, <1>5 DEF Promise!Accept, DeliveryInv, Listed
<1> QED BY <1>6, <1>7 DEF Promise!Next

(* Pending messages are removed from the lists, withdrawn or in a clear.   *)
LEMMA Withdraws ==
  ASSUME DeliveryInv, NEW S \in SUBSET Pending, Becomes(S, "discarded"),
         (Elements(nextStep) \cup Elements(nextTurn))'
           = (Elements(nextStep) \cup Elements(nextTurn)) \ S,
         (Elements(nextStep) \cap Elements(nextTurn))' = {},
         Distinct(nextStep)', Distinct(nextTurn)', trace' = trace, at' = at
  PROVE  Listed' /\ HandAt' /\ Promise!Next
<1>1. fate \in [Messages -> Fates] /\ S \in SUBSET Messages
  BY DEF DeliveryInv, IInv, TypeOK, Pending
<1>2. /\ With("pending")' = With("pending") \ S
      /\ With("claimed")' = With("claimed") /\ With("entered")' = With("entered")
      /\ With("dropped")' = With("dropped") /\ With("discarded")' = With("discarded") \cup S
  BY <1>1, WithMoves DEF With, Pending
<1>3. Pending = With("pending") /\ InHand = With("claimed")
      /\ Pending' = With("pending")' /\ InHand' = With("claimed")'
  BY DEF Pending, InHand, With
<1>4. Listed' /\ HandAt'
  BY <1>2, <1>3 DEF DeliveryInv, Listed, HandAt, HandPlaces
<1>5. Promise!Withdraw(S)
  BY <1>2, <1>3 DEF Promise!Withdraw, DeliveryInv, Listed
<1> QED BY <1>1, <1>4, <1>5 DEF Promise!Next

(* The hand is emptied while the turn stays open: some enter.              *)
LEMMA Enters ==
  ASSUME DeliveryInv, NEW S \in SUBSET InHand, trace.openTurn # None, trace'.openTurn # None,
         fate' = [m \in Messages |-> IF m \notin InHand THEN fate[m]
                                     ELSE IF m \in S THEN "entered" ELSE "dropped"],
         nextStep' = nextStep, nextTurn' = nextTurn
  PROVE  Listed' /\ HandAt' /\ Promise!Next
<1>1. /\ With("pending")' = With("pending") /\ With("claimed")' = {}
      /\ With("entered")' = With("entered") \cup S
      /\ With("dropped")' = With("dropped") \cup (InHand \ S)
      /\ With("discarded")' = With("discarded")
  BY DEF With, InHand
<1>2. Pending = With("pending") /\ InHand = With("claimed")
      /\ Pending' = With("pending")' /\ InHand' = With("claimed")'
  BY DEF Pending, InHand, With
<1>3. Listed' /\ HandAt'
  BY <1>1, <1>2 DEF DeliveryInv, Listed, HandAt, Elements
<1>4. Promise!Enter(S)
  BY <1>1, <1>2 DEF Promise!Enter, Elements
<1>5. S \in SUBSET Messages
  BY DEF InHand
<1> QED BY <1>3, <1>4, <1>5 DEF Promise!Next

(* A turn closes over what it still had in hand.                           *)
LEMMA Closes ==
  ASSUME DeliveryInv, trace.openTurn # None, trace'.openTurn = None,
         Becomes(InHand, "dropped") \/ (InHand = {} /\ fate' = fate),
         nextStep' = nextStep, nextTurn' = nextTurn
  PROVE  Listed' /\ HandAt' /\ Promise!Next
<1>1. /\ With("pending")' = With("pending") /\ With("claimed")' = {}
      /\ With("entered")' = With("entered")
      /\ With("dropped")' = With("dropped") \cup InHand
      /\ With("discarded")' = With("discarded")
  BY DEF With, InHand, Becomes
<1>2. Pending = With("pending") /\ InHand = With("claimed")
      /\ Pending' = With("pending")' /\ InHand' = With("claimed")'
  BY DEF Pending, InHand, With
<1>3. Listed' /\ HandAt'
  BY <1>1, <1>2 DEF DeliveryInv, Listed, HandAt, Elements
<1>4. Promise!CloseTurn
  BY <1>1, <1>2 DEF Promise!CloseTurn, Elements
<1> QED BY <1>3, <1>4 DEF Promise!Next

(* An open turn claims a boundary's batch: all steering input and at most  *)
(* one prompt.                                                             *)
LEMMA Takes ==
  ASSUME DeliveryInv, InHand = {}, trace.openTurn # None, trace' = trace,
         at' = "assemble", nextStep' = <<>>,
         nextTurn' = IF Prompt = {} THEN nextTurn ELSE Tail(nextTurn),
         Becomes(Elements(nextStep) \cup Prompt, "claimed")
  PROVE  Listed' /\ HandAt' /\ Promise!Next
<1> DEFINE S == Elements(nextStep) \cup Prompt
<1>1. /\ nextStep \in Seq(Messages) /\ nextTurn \in Seq(Messages) /\ fate \in [Messages -> Fates]
      /\ Distinct(nextTurn) /\ Elements(nextStep) \cap Elements(nextTurn) = {}
      /\ Elements(nextStep) \cup Elements(nextTurn) = With("pending")
  BY DEF DeliveryInv, IInv, TypeOK, Listed, Pending, With
<1>2. Prompt \subseteq Elements(nextTurn) /\ Elements(nextTurn)' = Elements(nextTurn) \ Prompt
      /\ Distinct(nextTurn)'
  BY <1>1, ElementsHead DEF Prompt
<1>3. Elements(nextStep)' = {} /\ Distinct(nextStep)'
  BY NoElements
<1>4. S \subseteq With("pending") /\ S \subseteq Messages
  BY <1>1, <1>2 DEF With
<1>5. /\ With("pending")' = With("pending") \ S
      /\ With("claimed")' = With("claimed") \cup S /\ With("entered")' = With("entered")
      /\ With("dropped")' = With("dropped") /\ With("discarded")' = With("discarded")
  BY <1>1, <1>4 DEF With, Becomes
<1>6. Pending = With("pending") /\ InHand = With("claimed")
      /\ Pending' = With("pending")' /\ InHand' = With("claimed")'
  BY DEF Pending, InHand, With
<1>7. Listed' /\ HandAt'
  BY <1>1, <1>2, <1>3, <1>5, <1>6 DEF Listed, HandAt, HandPlaces
<1>8. Promise!Take(S)
  BY <1>1, <1>2, <1>3, <1>4, <1>5, <1>6 DEF Promise!Take
<1> QED BY <1>4, <1>7, <1>8 DEF Promise!Next

(* A turn is open at every place but the resting ones.                     *)
LEMMA OpenAt == IInv => (trace.openTurn # None <=> at \notin Between)
BY DEF IInv, TraceAt, None

(* Every turn that closes drops what it still had in hand.                 *)
LEMMA ClosesTurn ==
  ASSUME DeliveryInv, NEW log, NEW ending, NEW reached, CloseTurn(log, ending, reached),
         IInv', at \notin Between,
         Becomes(InHand, "dropped") \/ (InHand = {} /\ fate' = fate), UNCHANGED inbox
  PROVE  Listed' /\ HandAt' /\ Promise!Next
<1>1. at' \in Between
  BY DEF CloseTurn, Between
<1>2. trace.openTurn # None /\ trace'.openTurn = None
  BY <1>1, OpenAt DEF DeliveryInv, IInv, TraceAt
<1> QED BY <1>2, Closes DEF inbox

(* The callers' side keeps the promise.                                    *)
LEMMA CallersDeliver ==
  ASSUME DeliveryInv, IInv',
         \/ Send \/ Cancellation \/ Withdraw \/ StartMaintenance \/ EndMaintenance
         \/ CallWhenIdle \/ ResumeWhenIdle \/ ToolContext
         \/ ReplayWake \/ SettleDriver \/ SendWake
  PROVE  Listed' /\ HandAt' /\ [Promise!Next]_Promise!view
<1> USE DEF inbox
<1>0. /\ nextStep \in Seq(Messages) /\ nextTurn \in Seq(Messages)
      /\ Elements(nextStep) \cup Elements(nextTurn) = Pending
      /\ Elements(nextStep) \cap Elements(nextTurn) = {}
      /\ Distinct(nextStep) /\ Distinct(nextTurn)
  BY DEF DeliveryInv, IInv, TypeOK, Listed
<1>1. CASE Send \/ ToolContext
  <2>1. PICK m \in Messages : /\ fate[m] = "unsent" /\ Becomes({m}, "pending")
                              /\ \/ nextStep' = Append(nextStep, m) /\ nextTurn' = nextTurn
                                 \/ nextTurn' = Append(nextTurn, m) /\ nextStep' = nextStep
                              /\ trace' = trace /\ at' = at
    BY <1>1 DEF Send, Followup, Steer, Inject, SendInsert, ToolContext, AcceptContext
  <2> QED BY <2>1, Inserts
<1>2. CASE Cancellation
  <2> PICK cause \in Causes, keep \in BOOLEAN : Cancel(cause, keep)
    BY <1>2 DEF Cancellation, Causes
  <2>1. CASE keep
    BY <2>1, Rests DEF Cancel, DeliveryInv
  <2>2. CASE ~keep
    <3>1. nextStep' = <<>> /\ nextTurn' = <<>> /\ Becomes(Pending, "discarded")
          /\ trace' = trace /\ at' = at
      BY <2>2 DEF Cancel, ClearInbox
    <3>2. /\ Elements(nextStep)' = {} /\ Elements(nextTurn)' = {}
          /\ Distinct(nextStep)' /\ Distinct(nextTurn)'
      BY <3>1, NoElements
    <3> QED BY <1>0, <3>1, <3>2, Withdraws
  <2> QED BY <2>1, <2>2
<1>3. CASE Withdraw
  <2> PICK m \in Messages : Remove(m)
    BY <1>3 DEF Withdraw
  <2>1. Becomes({m}, "discarded") /\ trace' = trace /\ at' = at
    BY DEF Remove
  <2>2. CASE \E i \in DOMAIN nextTurn : /\ nextTurn[i] = m
                                        /\ nextTurn' = Without(nextTurn, i)
                                        /\ UNCHANGED nextStep
    <3>1. m \in Elements(nextTurn) /\ Elements(nextTurn)' = Elements(nextTurn) \ {m}
          /\ Distinct(nextTurn)' /\ Elements(nextStep)' = Elements(nextStep)
          /\ Distinct(nextStep)'
      BY <1>0, <2>2, ElementsSplice
    <3> QED BY <1>0, <2>1, <3>1, Withdraws
  <2>3. CASE \E i \in DOMAIN nextStep : /\ nextStep[i] = m
                                        /\ nextStep' = Without(nextStep, i)
                                        /\ UNCHANGED nextTurn
    <3>1. m \in Elements(nextStep) /\ Elements(nextStep)' = Elements(nextStep) \ {m}
          /\ Distinct(nextStep)' /\ Elements(nextTurn)' = Elements(nextTurn)
          /\ Distinct(nextTurn)'
      BY <1>0, <2>3, ElementsSplice
    <3> QED BY <1>0, <2>1, <3>1, Withdraws
  <2> QED BY <2>2, <2>3 DEF Remove
<1>4. CASE \/ StartMaintenance \/ EndMaintenance \/ CallWhenIdle \/ ResumeWhenIdle
           \/ ReplayWake \/ SettleDriver \/ SendWake
  <2>1. nextStep' = nextStep /\ nextTurn' = nextTurn /\ fate' = fate /\ trace' = trace
    BY <1>4 DEF StartMaintenance, EndMaintenance, CallWhenIdle, ResumeWhenIdle, ReplayWake,
       SettleDriver, SendWake
  <2>2. at' = at \/ at \notin HandPlaces
    BY <1>4 DEF StartMaintenance, EndMaintenance, CallWhenIdle, ResumeWhenIdle, ReplayWake,
       SettleDriver, SendWake, WakeDriver, StartDriver, DeliveryInv, IInv, Placed, HandPlaces
  <2> QED BY <2>1, <2>2, Rests DEF DeliveryInv
<1> QED BY <1>1, <1>2, <1>3, <1>4

(* The driver's turns and steps keep it too.                               *)
LEMMA DriverDelivers ==
  ASSUME DeliveryInv, IInv', Turn \/ Step \/ Converge
  PROVE  Listed' /\ HandAt' /\ [Promise!Next]_Promise!view
<1> USE DEF inbox, locals, Callers, StepFrame, DriverAt
<1>o. (trace.openTurn # None <=> at \notin Between)
      /\ (trace'.openTurn # None <=> at' \notin Between)
  <2>1. trace.openTurn # None <=> at \notin Between
    BY OpenAt DEF DeliveryInv
  <2>2. trace'.openTurn # None <=> at' \notin Between
    BY DEF IInv, TraceAt, None
  <2> QED BY <2>1, <2>2
<1>h. at \notin HandPlaces => InHand = {}
  BY DEF DeliveryInv, HandAt
<1>c. ASSUME NEW log, NEW ending, NEW reached, CloseTurn(log, ending, reached),
             UNCHANGED inbox, at \notin Between,
             Becomes(InHand, "dropped") \/ (at \notin HandPlaces /\ UNCHANGED fate)
      PROVE  Listed' /\ HandAt' /\ Promise!Next
  BY <1>c, <1>h, ClosesTurn
<1>r. ASSUME UNCHANGED <<inbox, fate>>, at \in Between <=> at' \in Between,
             at \in HandPlaces => at' \in HandPlaces
      PROVE  Listed' /\ HandAt' /\ UNCHANGED Promise!view
  BY <1>o, <1>r, Rests DEF DeliveryInv
<1>1. CASE OpenTurn
  <2>1. CASE Aborted
    BY <1>1, <2>1, <1>r DEF OpenTurn, Between, HandPlaces
  <2>2. CASE ~Aborted
    <3>1. at = "turnStart" /\ at' = "stepTop" /\ UNCHANGED <<inbox, fate>>
      BY <1>1, <2>2 DEF OpenTurn
    <3>2. trace.openTurn = None /\ trace'.openTurn # None /\ InHand = {}
      BY <1>o, <1>h, <3>1 DEF Between, HandPlaces
    <3>3. Listed' /\ HandAt'
      BY <3>1, <3>2 DEF DeliveryInv, Listed, HandAt, Pending, InHand, Elements
    <3>4. Promise!OpenTurn
      BY <3>1, <3>2 DEF Promise!OpenTurn, Promise!parts, InHand, With, Elements
    <3> QED BY <3>3, <3>4 DEF Promise!Next
  <2> QED BY <2>1, <2>2
<1>2. CASE ClaimStep
  <2>0. at = "stepTop"
    BY <1>2 DEF ClaimStep
  <2>1. CASE Aborted
    BY <1>2, <2>0, <2>1, <1>c DEF ClaimStep, FailTurn, Between, HandPlaces
  <2>2. CASE ~Aborted
    <3>1. /\ trace' = trace /\ at' = "assemble" /\ nextStep' = <<>>
          /\ nextTurn' = IF Prompt = {} THEN nextTurn ELSE Tail(nextTurn)
          /\ Becomes(Elements(nextStep) \cup Prompt, "claimed")
      BY <1>2, <2>2 DEF ClaimStep
    <3>2. InHand = {} /\ trace.openTurn # None
      BY <1>o, <1>h, <2>0 DEF Between, HandPlaces
    <3> QED BY <3>1, <3>2, Takes
  <2> QED BY <2>1, <2>2
<1>3. CASE Assemble \/ DecideStep
  BY <1>3, <1>r DEF Assemble, DecideStep, Between, HandPlaces
<1>4. CASE CatchPreStep
  BY <1>4, <1>c DEF CatchPreStep, FailTurn, Between
<1>5. CASE EnterStep
  <2>0. at = "decided" /\ UNCHANGED inbox
    BY <1>5 DEF EnterStep
  <2>1. CASE \E ending, reached : CloseTurn(trace, ending, reached) /\ Becomes(InHand, "dropped")
    BY <2>0, <2>1, <1>c DEF Between
  <2>2. CASE /\ at' = "request"
             /\ fate' = [m \in Messages |->
                           IF m \notin InHand THEN fate[m]
                           ELSE IF m \in decision.messages THEN "entered" ELSE "dropped"]
    <3> DEFINE S == InHand \cap decision.messages
    <3>1. fate' = [m \in Messages |-> IF m \notin InHand THEN fate[m]
                                      ELSE IF m \in S THEN "entered" ELSE "dropped"]
      BY <2>2
    <3>2. trace.openTurn # None /\ trace'.openTurn # None
      BY <1>o, <2>0, <2>2 DEF Between
    <3>3. S \in SUBSET InHand
      OBVIOUS
    <3> HIDE DEF S
    <3> QED BY <2>0, <3>1, <3>2, <3>3, Enters
  <2> QED BY <1>5, <2>1, <2>2 DEF EnterStep, FailTurn
<1>6. CASE CloseStep \/ StopHooks \/ CatchStep
  <2>0. at \in {"stepDone", "stepThrew", "turnStopping"} /\ UNCHANGED <<inbox, fate>>
    BY <1>6 DEF CloseStep, StopHooks, CatchStep
  <2>1. CASE \E log, ending, reached : CloseTurn(log, ending, reached)
    BY <2>0, <2>1, <1>c DEF Between, HandPlaces
  <2>2. CASE at' \in {"turnStopping", "stepTop"}
    BY <2>0, <2>2, <1>r DEF Between, HandPlaces
  <2> QED BY <1>6, <2>1, <2>2 DEF CloseStep, StopHooks, CatchStep, FailTurn, NextBoundary
<1>7. CASE Step
  BY <1>7, <1>r DEF Step, BuildRequest, CallStream, StreamThrows, StreamFails, StreamFinishes,
     StepEnds, RecoverRequest, RunTools, Between, HandPlaces
<1>8. CASE Converge
  BY <1>8, <1>r DEF Converge, Between, HandPlaces
<1> QED BY <1>1, <1>2, <1>3, <1>4, <1>5, <1>6, <1>7, <1>8 DEF Turn

(* A step keeps the delivery invariant, and is a step of the promise or    *)
(* one it does not see.                                                    *)
LEMMA DeliveryStep ==
  DeliveryInv /\ [Next]_vars => DeliveryInv' /\ [Promise!Next]_Promise!view
<1> SUFFICES ASSUME DeliveryInv, [Next]_vars
             PROVE  DeliveryInv' /\ [Promise!Next]_Promise!view
  OBVIOUS
<1>1. IInv'
  BY StepIInv DEF DeliveryInv
<1>2. CASE UNCHANGED vars
  BY <1>1, <1>2, Rests DEF vars, inbox, DeliveryInv
<1>3. CASE Next
  BY <1>1, <1>3, CallersDeliver, DriverDelivers DEF Next, Driver, DeliveryInv
<1> QED BY <1>2, <1>3

(* It holds at the start, where the promise starts.                        *)
LEMMA DeliveryInit == Init => DeliveryInv /\ Promise!Init
<1> SUFFICES ASSUME Init PROVE DeliveryInv /\ Promise!Init
  OBVIOUS
<1>1. IInv
  BY InitIInv
<1>2. Elements(nextStep) = {} /\ Elements(nextTurn) = {} /\ Distinct(nextStep) /\ Distinct(nextTurn)
  BY NoElements DEF Init
<1>3. \A what : what # "unsent" => With(what) = {}
  BY DEF Init, With
<1>4. Pending = {} /\ InHand = {}
  BY DEF Init, Pending, InHand
<1>5. trace.openTurn = None
  BY DEF Init, FreshTrace
<1> QED BY <1>1, <1>2, <1>3, <1>4, <1>5 DEF DeliveryInv, Listed, HandAt, Promise!Init

(* The two inbox lists hold exactly the messages inserted and not yet      *)
(* claimed or discarded, each once (Inbox.mutate and claim).               *)
THEOREM InboxAlwaysExact == Spec => []InboxExact
<1>1. Init => DeliveryInv
  BY DeliveryInit
<1>2. DeliveryInv /\ [Next]_vars => DeliveryInv'
  BY DeliveryStep
<1>3. DeliveryInv => InboxExact
  <2> SUFFICES ASSUME DeliveryInv PROVE InboxExact
    OBVIOUS
  <2> DEFINE S == Elements(nextStep)
             T == Elements(nextTurn)
  <2>1. /\ IsFiniteSet(S) /\ Cardinality(S) = Len(nextStep)
        /\ IsFiniteSet(T) /\ Cardinality(T) = Len(nextTurn)
        /\ Len(nextStep) \in Nat /\ Len(nextTurn) \in Nat
    BY DistinctLength, LenProperties DEF DeliveryInv, IInv, TypeOK, Listed
  <2>2. S \cup T = Pending /\ S \cap T = {}
    BY DEF DeliveryInv, Listed
  <2> HIDE DEF S, T
  <2>3. Cardinality(S \cup T) = Cardinality(S) + Cardinality(T) - Cardinality(S \cap T)
    BY <2>1, FS_Union
  <2>4. Cardinality(S \cap T) = 0
    BY <2>2, FS_EmptySet
  <2>5. Cardinality(Pending) = Len(nextStep) + Len(nextTurn) - 0
    BY <2>1, <2>2, <2>3, <2>4, Zenon
  <2>6. Len(nextStep) + Len(nextTurn) - 0 = Len(nextStep) + Len(nextTurn)
    BY <2>1
  <2> QED BY <2>2, <2>5, <2>6 DEF InboxExact, S, T
<1> QED BY <1>1, <1>2, <1>3, PTL DEF Spec

(* Through aborts in every await, hooks that rewrite or reject the batch,  *)
(* failed steps, withdrawn input and replays, every message is delivered   *)
(* at most once, inside the turn that claimed it, and a cancelled one never*)
(* (agent.ts:113-140 and 225-330, inbox.ts:58-78): the driver implements   *)
(* the delivery promise.                                                   *)
THEOREM DeliveryAlwaysKept == Spec => DeliveryKept
<1>1. Init => DeliveryInv /\ Promise!Init
  BY DeliveryInit
<1>2. DeliveryInv /\ [Next]_vars => DeliveryInv' /\ [Promise!Next]_Promise!view
  BY DeliveryStep
<1> QED BY <1>1, <1>2, PTL DEF Spec, DeliveryKept, Promise!Spec
=============================================================================
