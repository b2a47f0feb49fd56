------------------------------ MODULE Services ------------------------------
(***************************************************************************)
(* Seven components that share no variable, checked for safety in one run: *)
(* the tool pipeline, the repair of a cut log, the publication of sessions *)
(* and agents, approvals, retry, goal rounds and schedules. A behaviour is *)
(* one of some component, while the others rest in an initial state; so    *)
(* the state space is the sum of theirs, and each component is exactly its *)
(* own module's.                                                           *)
(***************************************************************************)
EXTENDS Naturals

CONSTANTS
  MaxAttempts,                                   \* ToolExecution
  Calls, RepairLog, MaxAsk,                      \* Repair
  CreatedAgents, Resumed, Plains, Listeners, SessionLog,  \* SessionLifecycle
  Questions, Installs, AutoApprove, MaxSwitches, \* Approval
  RetryAgents, Normal, Always,                   \* LlmRetry
  MaxRetries, MaxFailures, MaxSteps, MaxLoads,
  MaxRounds, MaxOps, MaxPrompts, MaxUpsets,      \* GoalRounds
  MaxRecords, Delays, Period, MaxDelay, MaxTime, MaxTurns, MaxCalls \* Schedules

VARIABLES
  part,      \* the component whose behaviour this is
  toolSignal, toolDeadline, toolAt, toolAttempts, toolInvoked, toolPost, toolResult,
  cutLog, cutMode, cutGoal,
  reg, tx, frames, sessionLog, seen, factory, waiter,
  askLog, askPolicy, askApproved, ask,
  retryLog, retryLoop, retryOp, retryLoad, retryLifetime,
  goal, durable, exposed, held, used,
  reminders, stored, now, agent, chain, runtime, told, spent

toolVars == <<toolSignal, toolDeadline, toolAt, toolAttempts, toolInvoked, toolPost, toolResult>>
cutVars == <<cutLog, cutMode, cutGoal>>
sessionVars == <<reg, tx, frames, sessionLog, seen, factory, waiter>>
askVars == <<askLog, askPolicy, askApproved, ask>>
retryVars == <<retryLog, retryLoop, retryOp, retryLoad, retryLifetime>>
goalVars == <<goal, durable, exposed, held, used>>
scheduleVars == <<reminders, stored, now, agent, chain, runtime, told, spent>>
allVars == <<part, toolVars, cutVars, sessionVars, askVars, retryVars, goalVars, scheduleVars>>

Tool == INSTANCE ToolExecution WITH
  signal <- toolSignal, deadline <- toolDeadline, at <- toolAt, attempts <- toolAttempts,
  bodyInvoked <- toolInvoked, needsPost <- toolPost, result <- toolResult
Cut == INSTANCE Repair WITH MaxLog <- RepairLog, log <- cutLog, mode <- cutMode, goal <- cutGoal
Publication == INSTANCE SessionLifecycle WITH
  Created <- CreatedAgents, MaxLog <- SessionLog, log <- sessionLog
Question == INSTANCE Approval WITH
  Asks <- Questions, log <- askLog, policy <- askPolicy, approved <- askApproved
Retry == INSTANCE LlmRetry WITH
  Agents <- RetryAgents,
  log <- retryLog, loop <- retryLoop, op <- retryOp, load <- retryLoad,
  lifetime <- retryLifetime
Goals == INSTANCE GoalRounds WITH s <- goal
Reminders == INSTANCE Schedules WITH
  log <- reminders, safe <- stored, rt <- runtime, used <- spent

ASSUME ToolAssumption == Tool!ToolExecutionAssumption
ASSUME CutAssumption == Cut!RepairAssumption
ASSUME PublicationAssumption == Publication!LifecycleAssumption
ASSUME QuestionAssumption == Question!ApprovalAssumption
ASSUME RetryAssumption == Retry!RetryAssumption
ASSUME GoalsAssumption == Goals!GoalAssumption
ASSUME RemindersAssumption == Reminders!ScheduleAssumption

Parts == {"tool", "repair", "publication", "approval", "retry", "goals", "schedules"}

Init ==
  /\ part \in Parts
  /\ Tool!Init /\ Cut!Init /\ Publication!Init /\ Question!Init /\ Retry!Init /\ Goals!Init
  /\ Reminders!Init
  /\ part # "tool" => ~toolSignal

ToolSteps ==
  /\ part = "tool" /\ Tool!Next
  /\ UNCHANGED <<part, cutVars, sessionVars, askVars, retryVars, goalVars, scheduleVars>>
RepairSteps ==
  /\ part = "repair" /\ Cut!Next
  /\ UNCHANGED <<part, toolVars, sessionVars, askVars, retryVars, goalVars, scheduleVars>>
PublicationSteps ==
  /\ part = "publication" /\ Publication!Next
  /\ UNCHANGED <<part, toolVars, cutVars, askVars, retryVars, goalVars, scheduleVars>>
ApprovalSteps ==
  /\ part = "approval" /\ Question!Next
  /\ UNCHANGED <<part, toolVars, cutVars, sessionVars, retryVars, goalVars, scheduleVars>>
RetrySteps ==
  /\ part = "retry" /\ Retry!Next
  /\ UNCHANGED <<part, toolVars, cutVars, sessionVars, askVars, goalVars, scheduleVars>>
GoalSteps ==
  /\ part = "goals" /\ Goals!Next
  /\ UNCHANGED <<part, toolVars, cutVars, sessionVars, askVars, retryVars, scheduleVars>>
ScheduleSteps ==
  /\ part = "schedules" /\ Reminders!Next
  /\ UNCHANGED <<part, toolVars, cutVars, sessionVars, askVars, retryVars, goalVars>>

Next ==
  \/ ToolSteps \/ RepairSteps \/ PublicationSteps
  \/ ApprovalSteps \/ RetrySteps \/ GoalSteps \/ ScheduleSteps
Spec == Init /\ [][Next]_allVars

-----------------------------------------------------------------------------
(* The properties of the components, each stated with what it says in its  *)
(* own module.                                                             *)

(* Nothing reports cancellation before the body after the body ran.        *)
BeforeDispatchHonest == Tool!BeforeDispatchHonest
(* A cancelled call never ends as a success.                               *)
CancelledNeverSucceeds == Tool!CancelledNeverSucceeds
(* A repaired log is one the session's companions accept.                  *)
RepairedLegal == Cut!RepairedLegal
(* After a repair every requested tool call has exactly one result.        *)
AnsweredOnce == Cut!AnsweredOnce
(* A repair interrupted anywhere and started over reaches the same log.    *)
RepairConverges == Cut!RepairConverges
(* Listeners see an attached Session's events once each and in log order.  *)
EventsInOrder == Publication!EventsInOrder
(* What was announced to anyone is disposed to everyone, once.             *)
PairedEdges == Publication!PairedEdges
(* The two registries agree, and what is gone left nothing in them.        *)
RegistriesSound == Publication!RegistriesSound
(* The audit pair of a question records the answer that decided it.        *)
DecisionsHonest == Question!DecisionsHonest
(* Retry records are numbered without gap and within the budget.           *)
ChainExact == Retry!ChainExact
(* An aborted or disposed recovery writes nothing more.                    *)
WithdrawnWritesNothing == Retry!WithdrawnWritesNothing
(* A round the driver let through is the one the fold expects.             *)
RoundsFresh == Goals!RoundsFresh
(* After a cancel no round enters until somebody arms the goal again.      *)
CancelHolds == Goals!CancelHolds
(* A reminder is stored, active and due when it is told, and told once.     *)
RemindedOnce == Reminders!RemindedOnce
=============================================================================
