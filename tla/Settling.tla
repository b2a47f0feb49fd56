------------------------------ MODULE Settling ------------------------------
(***************************************************************************)
(* What must end, of six components that share no variable, in one run:   *)
(* cancelled drivers, calls of the persistence service, the closing of the *)
(* agent factory, the disposal of the retry plugin, armed goals and due    *)
(* reminders. A behaviour is one of some component while the others rest   *)
(* in an initial state, and only that component's own fairness is assumed. *)
(***************************************************************************)
EXTENDS Naturals

CONSTANTS
  Messages, LoopSteps,                            \* AgentLoop
  Clients, Lives, StoredLog, MaxCalls, MaxFaults, \* Coordinator
  CreatedAgents, Resumed, Plains, Listeners, SessionLog, \* SessionLifecycle
  RetryAgents, Normal, Always,                   \* LlmRetry
  MaxRetries, MaxFailures, MaxSteps, MaxLoads,
  MaxRounds, MaxOps, MaxPrompts, MaxUpsets,       \* GoalRounds
  MaxRecords, Delays, Period, MaxDelay, MaxTime, MaxTurns, ToolCalls \* Schedules

VARIABLES
  part,      \* the component whose behaviour this is
  phase, abort, wakeRequested, replay, nextStep, nextTurn, sending, at, target,
  turnEnds, decision, trace, fate, prompts, activityDone, idleWaiter,
  disk, tear, acked, state, entry, chain, call, sess, store, spent,
  reg, tx, frames, sessionLog, seen, factory, waiter,
  retryLog, retryLoop, retryOp, retryLoad, retryLifetime,
  goal, durable, exposed, held, used,
  reminders, stored, now, agent, transactions, runtime, told, outlay

loopVars == <<phase, abort, wakeRequested, replay, nextStep, nextTurn, sending, at, target,
              turnEnds, decision, trace, fate, prompts, activityDone, idleWaiter>>
storageVars == <<disk, tear, acked, state, entry, chain, call, sess, store, spent>>
sessionVars == <<reg, tx, frames, sessionLog, seen, factory, waiter>>
retryVars == <<retryLog, retryLoop, retryOp, retryLoad, retryLifetime>>
goalVars == <<goal, durable, exposed, held, used>>
scheduleVars == <<reminders, stored, now, agent, transactions, runtime, told, outlay>>
allVars == <<part, loopVars, storageVars, sessionVars, retryVars, goalVars, scheduleVars>>

Driver == INSTANCE AgentLoop WITH MaxSteps <- LoopSteps, waiter <- idleWaiter
Storage == INSTANCE Coordinator WITH
  Callers <- Clients, MaxLog <- StoredLog, MaxUpsets <- MaxFaults, used <- spent
Publication == INSTANCE SessionLifecycle WITH
  Created <- CreatedAgents, MaxLog <- SessionLog, log <- sessionLog
Retry == INSTANCE LlmRetry WITH
  Agents <- RetryAgents,
  log <- retryLog, loop <- retryLoop, op <- retryOp, load <- retryLoad,
  lifetime <- retryLifetime
Goals == INSTANCE GoalRounds WITH s <- goal
Reminders == INSTANCE Schedules WITH
  MaxCalls <- ToolCalls, log <- reminders, safe <- stored, chain <- transactions,
  rt <- runtime, used <- outlay

Parts == {"driver", "storage", "publication", "retry", "goals", "schedules"}

Init ==
  /\ part \in Parts
  /\ Driver!Init /\ Storage!Init /\ Publication!Init /\ Retry!Init /\ Goals!Init
  /\ Reminders!Init

(* A step A of component p.                                                *)
Drives(A) ==
  part = "driver" /\ A /\ UNCHANGED <<part, storageVars, sessionVars, retryVars, goalVars, scheduleVars>>
Stores(A) ==
  part = "storage" /\ A /\ UNCHANGED <<part, loopVars, sessionVars, retryVars, goalVars, scheduleVars>>
Publishes(A) ==
  part = "publication" /\ A /\ UNCHANGED <<part, loopVars, storageVars, retryVars, goalVars, scheduleVars>>
Retries(A) ==
  part = "retry" /\ A /\ UNCHANGED <<part, loopVars, storageVars, sessionVars, goalVars, scheduleVars>>
Pursues(A) ==
  part = "goals" /\ A /\ UNCHANGED <<part, loopVars, storageVars, sessionVars, retryVars, scheduleVars>>
Reminds(A) ==
  part = "schedules" /\ A /\ UNCHANGED <<part, loopVars, storageVars, sessionVars, retryVars, goalVars>>

Next ==
  \/ Drives(Driver!Next) \/ Stores(Storage!Next) \/ Publishes(Publication!Next)
  \/ Retries(Retry!Next) \/ Pursues(Goals!Next)
  \/ Reminds(Reminders!Next)

(* Exactly the fairness of each module.                                    *)
Fairness ==
  /\ WF_allVars(Drives(Driver!Driver)) /\ WF_allVars(Drives(Driver!EndMaintenance))
  /\ \A p \in Clients :
       WF_allVars(Stores(Storage!CallerSteps(p))) /\ WF_allVars(Stores(Storage!HolderSteps(p)))
  /\ WF_allVars(Stores(Storage!ChainSteps))
  /\ \A l \in 1..Lives : WF_allVars(Stores(Storage!LifeSteps(l)))
  /\ WF_allVars(Publishes(Publication!Dispatch)) /\ WF_allVars(Publishes(Publication!FactoryGone))
  /\ \A t \in CreatedAgents \cup Resumed \cup Plains : WF_allVars(Publishes(Publication!Continue(t)))
  /\ \A a \in RetryAgents : WF_allVars(Retries(Retry!Works(a)))
  /\ WF_allVars(Retries(Retry!Drained))
  /\ WF_allVars(Pursues(Goals!Progress))
  /\ WF_allVars(Reminds(Reminders!Works)) /\ WF_allVars(Reminds(Reminders!EndTurn))
  /\ WF_allVars(Reminds(Reminders!IdleResolves)) /\ WF_allVars(Reminds(Reminders!Tick))
  /\ WF_allVars(Reminds(Reminders!TimerFires))

Spec == Init /\ [][Next]_allVars /\ Fairness

-----------------------------------------------------------------------------
(* The properties of the components, each stated with what it says in its  *)
(* own module; a component at rest promises nothing.                       *)

(* A cancelled driver converges.                                           *)
CancelConverges == part = "driver" => Driver!CancelConverges
(* A latched wake is replayed.                                             *)
LatchReplayed == part = "driver" => Driver!LatchReplayed
(* Every call of the persistence service returns or holds its reservation. *)
CallsReturn == part = "storage" => Storage!CallsReturn
(* Closing the agent factory ends.                                         *)
CloseCompletes == part = "publication" => Publication!CloseCompletes
(* Disposing the retry plugin drains its recoveries.                       *)
DisposalDrains == part = "retry" => Retry!DisposalDrains
(* A due reminder is told.                                                 *)
DueReminded == part = "schedules" => Reminders!DueReminded
=============================================================================
