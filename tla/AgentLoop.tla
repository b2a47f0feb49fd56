----------------------------- MODULE AgentLoop -----------------------------
(***************************************************************************)
(* ReactLoopAgent: one agent's driver.  Callers send messages to a durable *)
(* inbox, cancel the running activity and run maintenance at any await of  *)
(* the driver; the driver opens turns, claims messages, runs steps (prompt *)
(* assembly, hooks, a model request, tools) and converges to idle.         *)
(*                                                                         *)
(* JavaScript interleaves only at awaits and at synchronous listeners, so  *)
(* `at` names the place where the driver is suspended and an action is the *)
(* code up to the next such place.                                         *)
(***************************************************************************)
EXTENDS SessionTrace, FiniteSets

CONSTANTS Messages,   \* identified user messages; each is inserted once
          MaxSteps    \* bound on steps opened because tools asked for more

ASSUME AgentLoopAssumption == MaxSteps \in Nat \ {0}

VARIABLES
  phase,       \* kind idle | maintenance | running, turn (idle: lastTurn), step
  abort,       \* cause the current activity's signal was aborted with, or none
  wakeRequested, \* the activity's wake latch
  replay,      \* kick's finally has a latched wake still to replay
  nextStep,    \* inbox: input awaiting the next step boundary
  nextTurn,    \* inbox: prompts awaiting individual turns
  sending,     \* a send between its insertion and its wake, and its class
  at,          \* where the driver (or the maintenance job) is suspended
  target,      \* turn(): the inbox boundary the next step claims
  turnEnds,    \* turn(): the ending chosen so far
  decision,    \* turn(): the pre-step decision being returned
  trace,       \* the session log, as its companion monitor sees it
  fate,        \* history: what became of each message
  prompts,     \* history: next-turn messages claimed in the current turn
  activityDone,  \* whether the promise of the latest activity is settled
  waiter       \* a whenIdle() call, and whether a newer activity began

inbox  == <<nextStep, nextTurn>>
locals == <<target, turnEnds, decision>>
vars   == <<phase, abort, wakeRequested, replay, inbox, sending, at, locals,
            trace, fate, prompts, activityDone, waiter>>

Causes  == {"user", "disposed"}
Targets == {"next-turn", "next-step"}
Endings == {"null", "completed", "max-tokens", "blocked", "aborted", "error"}
Undecided == [kind |-> "none", messages |-> {}, empty |-> TRUE]

Pending    == {m \in Messages : fate[m] = "pending"}
InHand     == {m \in Messages : fate[m] = "claimed"}
Elements(s) == {s[i] : i \in DOMAIN s}
HasPending == nextTurn # <<>> \/ nextStep # <<>>
Idle       == phase.kind = "idle"
Running    == phase.kind = "running"
Aborted    == abort # "none"

Init ==
  /\ phase = [kind |-> "idle", turn |-> 0, step |-> 0]
  /\ abort = "none" /\ wakeRequested = FALSE /\ replay = FALSE
  /\ nextStep = <<>> /\ nextTurn = <<>> /\ sending = "no"
  /\ at = "off"
  /\ target = "next-turn" /\ turnEnds = "null" /\ decision = Undecided
  /\ trace = FreshTrace(0)
  /\ fate = [m \in Messages |-> "unsent"] /\ prompts = {}
  /\ activityDone = TRUE /\ waiter = "none"

(* A message's history moves on; the messages are S.                       *)
Becomes(S, what) == fate' = [m \in Messages |-> IF m \in S THEN what ELSE fate[m]]

-----------------------------------------------------------------------------
(* wakeDriver from idle: reserve the driver.  It has not run yet: status   *)
(* listeners come first.                                                   *)
StartDriver(turn) ==
  /\ phase' = [kind |-> "running", turn |-> turn, step |-> 0]
  /\ abort' = "none"
  /\ wakeRequested' = FALSE
  /\ at' = "turnStart"
  /\ activityDone' = FALSE
  /\ waiter' = IF waiter = "none" THEN "none" ELSE "stale"

(* wakeDriver: start one driver, or latch the wake behind an activity that *)
(* cannot deliver it.                                                      *)
WakeDriver(wakeAfterAbort) ==
  \/ Idle /\ StartDriver(phase.turn)
  \/ /\ ~Idle
     /\ wakeRequested' = (\/ wakeRequested
                          \/ /\ abort # "disposed"
                             /\ phase.kind = "maintenance" \/ wakeAfterAbort)
     /\ UNCHANGED <<phase, abort, at, activityDone, waiter>>

(* Synchronous code that other code may enter only through its listeners.  *)
Quiet == sending = "no" /\ at # "stepTop"

(* send, up to the insertion: classify against the activity's signal, then *)
(* splice the message in and notify the inbox listeners.                   *)
SendInsert(m, to, wakeup) ==
  /\ Quiet /\ fate[m] = "unsent"
  /\ LET wakingAfterAbort == wakeup /\ ~Idle /\ Aborted
         resolved == IF wakingAfterAbort THEN "next-turn" ELSE to
     IN  /\ nextTurn' = IF resolved = "next-turn" THEN Append(nextTurn, m) ELSE nextTurn
         /\ nextStep' = IF resolved = "next-step" THEN Append(nextStep, m) ELSE nextStep
         /\ sending' = CASE ~wakeup -> "no"
                         [] wakingAfterAbort -> "wakeAfterAbort"
                         [] OTHER -> "wake"
  /\ Becomes({m}, "pending")
  /\ UNCHANGED <<phase, abort, wakeRequested, replay, at, locals, trace, prompts,
                 activityDone, waiter>>

(* send, after the insertion: wake with the class captured before it.      *)
SendWake ==
  /\ sending # "no"
  /\ sending' = "no"
  /\ WakeDriver(sending = "wakeAfterAbort")
  /\ UNCHANGED <<replay, inbox, locals, trace, fate, prompts>>

(* inbox.clear(): discard next-step, then next-turn.                       *)
ClearPromptsOnly ==   \* variant: one of the two lists survives
  nextTurn' = <<>> /\ UNCHANGED nextStep /\ Becomes(Pending, "discarded")
ClearInbox == nextStep' = <<>> /\ nextTurn' = <<>> /\ Becomes(Pending, "discarded")

(* cancel(cause, {keepInbox}).  A listener of a step/start append cannot   *)
(* clear a non-empty inbox: append does not re-enter.                      *)
Cancel(cause, keepInbox) ==
  /\ at = "stepTop" => keepInbox
  /\ IF keepInbox
     THEN UNCHANGED <<inbox, wakeRequested, fate>>
     ELSE ClearInbox /\ wakeRequested' = FALSE
  /\ abort' = IF Idle \/ Aborted THEN abort ELSE cause
  /\ UNCHANGED <<phase, replay, sending, at, locals, trace, prompts, activityDone, waiter>>

(* inbox.remove(id): locate a pending message and splice it out.           *)
Without(s, i) == SubSeq(s, 1, i - 1) \o SubSeq(s, i + 1, Len(s))
Remove(m) ==
  /\ Quiet
  /\ \/ \E i \in DOMAIN nextTurn : /\ nextTurn[i] = m
                                  /\ nextTurn' = Without(nextTurn, i)
                                  /\ UNCHANGED nextStep
     \/ \E i \in DOMAIN nextStep : /\ nextStep[i] = m
                                  /\ nextStep' = Without(nextStep, i)
                                  /\ UNCHANGED nextTurn
  /\ Becomes({m}, "discarded")
  /\ UNCHANGED <<phase, abort, wakeRequested, replay, sending, at, locals, trace,
                 prompts, activityDone, waiter>>

(* runMaintenance: claim the idle phase for a job, and release it.         *)
StartMaintenance ==
  /\ Quiet /\ Idle
  /\ phase' = [phase EXCEPT !.kind = "maintenance"]
  /\ abort' = "none" /\ wakeRequested' = FALSE
  /\ at' = "job"
  /\ activityDone' = FALSE
  /\ waiter' = IF waiter = "none" THEN "none" ELSE "stale"
  /\ UNCHANGED <<replay, inbox, sending, locals, trace, fate, prompts>>

EndMaintenance ==
  /\ at = "job" /\ Quiet /\ ~replay
  /\ IF wakeRequested /\ HasPending
     THEN StartDriver(phase.turn)
     ELSE /\ phase' = [phase EXCEPT !.kind = "idle"]
          /\ abort' = "none" /\ wakeRequested' = FALSE
          /\ at' = "off"
          /\ activityDone' = TRUE
          /\ UNCHANGED waiter
  /\ UNCHANGED <<replay, inbox, sending, locals, trace, fate, prompts>>

(* whenIdle: follow the latest activity until no newer one replaced it.    *)
CallWhenIdle ==
  /\ waiter = "none"
  /\ waiter' = "current"
  /\ UNCHANGED <<phase, abort, wakeRequested, replay, inbox, sending, at, locals,
                 trace, fate, prompts, activityDone>>

ResumeWhenIdleOnce ==   \* variant: a newer activity is not followed
  /\ waiter # "none" /\ (activityDone \/ waiter = "stale")
  /\ waiter' = "none"
  /\ UNCHANGED <<phase, abort, wakeRequested, replay, inbox, sending, at, locals,
                 trace, fate, prompts, activityDone>>

ResumeWhenIdle ==
  /\ Quiet /\ ~replay
  /\ \/ waiter = "current" /\ activityDone /\ waiter' = "none"
     \/ waiter = "stale" /\ waiter' = "current"
  /\ UNCHANGED <<phase, abort, wakeRequested, replay, inbox, sending, at, locals,
                 trace, fate, prompts, activityDone>>

-----------------------------------------------------------------------------
(* The driver.  Every driver action starts where the driver is suspended.  *)
(* While a replay is due only a listener's driver runs, to its first await.*)
DriverAt(place) == /\ at = place /\ Running /\ sending = "no"
                   /\ replay => place \in {"turnStart", "stepTop"}

(* What a driver action leaves alone unless it says otherwise.             *)
Callers == <<replay, sending, activityDone, waiter>>

(* The live driver continues under a fresh signal, which makes a latch set *)
(* on the old one stale.                                                   *)
FreshSignal == abort' = "none" /\ wakeRequested' = FALSE

(* turn()'s finally and the decision after it.  `reached` says whether the *)
(* loop broke out normally: only then is the queue looked at again.        *)
CloseTurn(log, ending, reached) ==
  /\ trace' = Log(log, TurnEnd(phase.turn))
  /\ turnEnds' = ending
  /\ decision' = Undecided
  /\ IF reached /\ HasPending
     THEN /\ at' = "turnStart"
          /\ phase' = [phase EXCEPT !.step = 0]
          /\ FreshSignal
     ELSE at' = "returned" /\ UNCHANGED <<phase, abort, wakeRequested>>

(* turn()'s catch: the ending names the abort, or the failure.             *)
Failure == IF Aborted THEN "aborted" ELSE "error"
FailTurn(log) == CloseTurn(log, Failure, FALSE)

(* turn(): open a turn, unless the signal was aborted before it could.     *)
OpenTurn ==
  /\ DriverAt("turnStart")
  /\ IF Aborted
     THEN at' = "returned" /\ UNCHANGED <<phase, trace, locals, prompts>>
     ELSE /\ trace' = Log(trace, TurnStart(phase.turn + 1))
          /\ phase' = [phase EXCEPT !.turn = @ + 1]
          /\ turnEnds' = "null" /\ target' = "next-turn" /\ decision' = Undecided
          /\ prompts' = {}
          /\ at' = "stepTop"
  /\ UNCHANGED <<abort, wakeRequested, inbox, fate, Callers>>

(* claim(): a turn's first boundary also takes one prompt.                 *)
Prompt == IF target = "next-turn" /\ nextTurn # <<>> THEN {Head(nextTurn)} ELSE {}

(* preStep, first half: claim the boundary's batch, then await assembly.   *)
ClaimStep ==
  /\ DriverAt("stepTop")
  /\ IF Aborted
     THEN FailTurn(trace) /\ UNCHANGED <<inbox, fate, prompts>>
     ELSE /\ nextStep' = <<>>
          /\ nextTurn' = IF Prompt = {} THEN nextTurn ELSE Tail(nextTurn)
          /\ Becomes(Elements(nextStep) \cup Prompt, "claimed")
          /\ prompts' = prompts \cup Prompt
          /\ at' = "assemble"
          /\ UNCHANGED <<phase, abort, wakeRequested, trace, turnEnds, decision>>
  /\ UNCHANGED <<target, Callers>>

AssembleUnraced ==   \* variant: assembly is not raced against the signal
  /\ DriverAt("assemble") /\ ~Aborted
  /\ at' = "preStep"
  /\ UNCHANGED <<phase, abort, wakeRequested, inbox, locals, trace, fate, prompts, Callers>>

Assemble ==
  /\ DriverAt("assemble")
  /\ \/ ~Aborted /\ at' = "preStep"
     \/ at' = "preStepThrew"
  /\ UNCHANGED <<phase, abort, wakeRequested, inbox, locals, trace, fate, prompts, Callers>>

(* preStep, second half: the agent/pre-step waterfall decides.  A listener *)
(* may rewrite the batch: omit claimed messages, or add its own and so keep*)
(* it from being empty.                                                    *)
DecideStep ==
  /\ DriverAt("preStep")
  /\ \/ /\ ~Aborted
        /\ \/ decision' = [Undecided EXCEPT !.kind = "reject"]
           \/ \E S \in SUBSET InHand, empty \in BOOLEAN :
                /\ empty => S = {}
                /\ decision' = [kind |-> "enter", messages |-> S, empty |-> empty]
        /\ at' = "decided"
     \/ at' = "preStepThrew" /\ UNCHANGED decision
  /\ UNCHANGED <<phase, abort, wakeRequested, inbox, target, turnEnds, trace, fate,
                 prompts, Callers>>

(* A rejected preStep reaches turn()'s catch; claimed messages stay removed.*)
CatchPreStep ==
  /\ DriverAt("preStepThrew")
  /\ FailTurn(trace)
  /\ Becomes(InHand, "dropped")
  /\ UNCHANGED <<inbox, target, prompts, Callers>>

(* turn(), with the decision in hand: no step for a rejection, nor for an  *)
(* empty batch that ends the turn or would open it; otherwise step/start   *)
(* and one user/message per entered message.                               *)
EnterStep ==
  /\ DriverAt("decided")
  /\ LET entering == decision.kind = "enter"
         opens == phase.step + 1
         Close(ending, reached) ==
           CloseTurn(trace, ending, reached) /\ Becomes(InHand, "dropped")
         Open ==
           /\ trace' = Log(trace, StepStart(phase.turn, opens))
           /\ phase' = [phase EXCEPT !.step = opens]
           /\ fate' = [m \in Messages |->
                         IF m \notin InHand THEN fate[m]
                         ELSE IF m \in decision.messages THEN "entered" ELSE "dropped"]
           /\ decision' = Undecided
           /\ at' = "request"
           /\ UNCHANGED <<abort, wakeRequested, turnEnds>>
         endsTurn  == entering /\ decision.empty /\ turnEnds # "null"
         skipsTurn == entering /\ decision.empty /\ turnEnds = "null" /\ phase.step = 0
     IN  \/ ~entering /\ Close("blocked", FALSE)
         \/ endsTurn  /\ Close(turnEnds, TRUE)
         \/ skipsTurn /\ Close("completed", FALSE)
         \/ /\ entering /\ ~endsTurn /\ ~skipsTurn
            /\ IF Aborted THEN FailTurn(trace) /\ Becomes(InHand, "dropped") ELSE Open
  /\ UNCHANGED <<inbox, target, prompts, Callers>>

-----------------------------------------------------------------------------
(* step(): the model request and its tools.  A failure anywhere reaches    *)
(* turn()'s inner finally through one more await.                          *)
Here == trace' = Log(trace, Assistant(phase.turn, phase.step))
StepFrame == <<phase, abort, wakeRequested, inbox, target, decision, fate, prompts, Callers>>

BuildRequest ==
  /\ DriverAt("request")
  /\ \/ ~Aborted /\ at' = "built" /\ trace' = Log(trace, RequestHeader)
     \/ at' = "stepThrew" /\ UNCHANGED trace
  /\ UNCHANGED <<turnEnds, StepFrame>>

(* One promise reaction later the stream is called, which may throw, and   *)
(* the signal is looked at again before the stream is iterated.            *)
CallStreamUnchecked ==   \* variant: the signal is not checked once more
  /\ DriverAt("built") /\ at' = "stream"
  /\ UNCHANGED <<trace, turnEnds, StepFrame>>

CallStream ==
  /\ DriverAt("built")
  /\ \/ ~Aborted /\ at' = "stream"
     \/ at' = "stepThrew"
  /\ UNCHANGED <<trace, turnEnds, StepFrame>>

(* The stream ends: interrupted (its partial content is kept), thrown, in  *)
(* a provider failure, or with a message and a finish reason.              *)
StreamThrows ==
  /\ DriverAt("stream")
  /\ at' = "stepThrew"
  /\ Here
  /\ UNCHANGED <<turnEnds, StepFrame>>

StreamFails ==
  /\ DriverAt("stream") /\ ~Aborted
  /\ at' = "requestError"
  /\ Here
  /\ UNCHANGED <<turnEnds, StepFrame>>

(* turn() keeps a max-tokens ending that a later step would downgrade.     *)
StepEnds(ending) ==
  /\ turnEnds' = IF turnEnds = "max-tokens" THEN turnEnds ELSE ending
  /\ at' = "stepDone"

StreamFinishes ==
  /\ DriverAt("stream") /\ ~Aborted
  /\ Here
  /\ \/ StepEnds("max-tokens")
     \/ StepEnds("completed")
     \/ at' = "tools" /\ UNCHANGED turnEnds
  /\ UNCHANGED StepFrame

(* The agent/request-error waterfall: retry the request, or give up.       *)
RecoverRequest ==
  /\ DriverAt("requestError")
  /\ \/ ~Aborted /\ at' = "request"
     \/ at' = "stepThrew"
  /\ UNCHANGED <<trace, turnEnds, StepFrame>>

(* executeToolCalls: results may carry context for the next step; then the *)
(* batch ends - concluded, asking for another step, or broken.  An aborted *)
(* batch also returns: the turn looks at the signal itself.                *)
AcceptContext(m) ==
  /\ DriverAt("tools") /\ fate[m] = "unsent"
  /\ nextStep' = Append(nextStep, m)
  /\ Becomes({m}, "pending")
  /\ UNCHANGED <<phase, abort, wakeRequested, nextTurn, at, locals, trace, prompts, Callers>>

RunTools ==
  /\ DriverAt("tools")
  /\ \/ StepEnds("completed")
     \/ (phase.step < MaxSteps \/ Aborted) /\ StepEnds("null")
     \/ at' = "stepThrew" /\ UNCHANGED turnEnds
  /\ UNCHANGED <<trace, StepFrame>>

-----------------------------------------------------------------------------
(* After a step: close it, let the stop hooks run once nothing is left to  *)
(* do, and go on with the next boundary or close the turn.                 *)
NextBoundary(log) ==
  /\ target' = "next-step"
  /\ at' = "stepTop"
  /\ trace' = log
  /\ UNCHANGED <<phase, abort, wakeRequested, turnEnds, decision>>

CloseStep ==
  /\ DriverAt("stepDone")
  /\ LET log == Log(trace, StepEnd(phase.turn, phase.step))
     IN  \/ Aborted /\ FailTurn(log) /\ UNCHANGED target
         \/ /\ ~Aborted /\ turnEnds # "null" /\ nextStep = <<>>
            /\ at' = "turnStopping"
            /\ trace' = log
            /\ UNCHANGED <<phase, abort, wakeRequested, locals>>
         \/ ~Aborted /\ ~(turnEnds # "null" /\ nextStep = <<>>) /\ NextBoundary(log)
  /\ UNCHANGED <<inbox, fate, prompts, Callers>>

CatchStepUnclosed ==   \* variant: a failed step is left open
  /\ DriverAt("stepThrew")
  /\ FailTurn(trace)
  /\ UNCHANGED <<inbox, target, fate, prompts, Callers>>

CatchStep ==
  /\ DriverAt("stepThrew")
  /\ FailTurn(Log(trace, StepEnd(phase.turn, phase.step)))
  /\ UNCHANGED <<inbox, target, fate, prompts, Callers>>

(* The agent/turn-stopping hooks return or throw; input they (or anybody   *)
(* else) staged meanwhile keeps the turn open.                             *)
StopHooks ==
  /\ DriverAt("turnStopping")
  /\ \/ FailTurn(trace) /\ UNCHANGED target
     \/ ~Aborted /\ nextStep = <<>> /\ CloseTurn(trace, turnEnds, TRUE) /\ UNCHANGED target
     \/ ~Aborted /\ nextStep # <<>> /\ NextBoundary(trace)
  /\ UNCHANGED <<inbox, fate, prompts, Callers>>

(* kick's finally: converge to idle and notify the status listeners.       *)
ForgetWake ==   \* variant: convergence drops the latch
  replay' = FALSE /\ wakeRequested' = FALSE
CarryWake  == replay' = wakeRequested /\ wakeRequested' = FALSE

Converge ==
  /\ DriverAt("returned")
  /\ phase' = [phase EXCEPT !.kind = "idle", !.step = 0]
  /\ abort' = "none"
  /\ CarryWake
  /\ at' = "off"
  /\ turnEnds' = "null" /\ target' = "next-turn" /\ UNCHANGED decision
  /\ UNCHANGED <<inbox, sending, trace, fate, prompts, activityDone, waiter>>

(* The rest of that finally: replay the latched wake if the queue still    *)
(* holds work.  A listener may have started an activity meanwhile.         *)
ReplayWake ==
  /\ replay /\ Quiet
  /\ replay' = FALSE
  /\ IF HasPending THEN WakeDriver(FALSE)
     ELSE UNCHANGED <<phase, abort, wakeRequested, at, activityDone, waiter>>
  /\ UNCHANGED <<inbox, sending, locals, trace, fate, prompts>>

(* kick()'s promise resolves the activity that whenIdle() callers await.   *)
SettleDriver ==
  /\ Idle /\ ~replay /\ ~activityDone
  /\ activityDone' = TRUE
  /\ UNCHANGED <<phase, abort, wakeRequested, replay, inbox, sending, at, locals,
                 trace, fate, prompts, waiter>>

-----------------------------------------------------------------------------
Followup(m) == SendInsert(m, "next-turn", TRUE)
Steer(m)    == SendInsert(m, "next-step", TRUE)
Inject(m)   == SendInsert(m, "next-step", FALSE)
Send == \E m \in Messages : Followup(m) \/ Steer(m) \/ Inject(m)
(* The lifecycle owner disposes with the default options.                  *)
Cancellation == Cancel("disposed", FALSE) \/ \E keep \in BOOLEAN : Cancel("user", keep)
Withdraw == \E m \in Messages : Remove(m)
ToolContext == \E m \in Messages : AcceptContext(m)

Step == \/ BuildRequest \/ CallStream \/ StreamThrows \/ StreamFails \/ StreamFinishes
        \/ RecoverRequest \/ RunTools
Turn == \/ OpenTurn \/ ClaimStep \/ Assemble \/ DecideStep \/ CatchPreStep
        \/ EnterStep \/ CloseStep \/ CatchStep \/ StopHooks
Driver == Turn \/ Step \/ Converge \/ ReplayWake \/ SettleDriver \/ SendWake

Next == \/ Send \/ Cancellation \/ Withdraw \/ StartMaintenance \/ EndMaintenance
        \/ CallWhenIdle \/ ResumeWhenIdle \/ ToolContext \/ Driver

Spec == Init /\ [][Next]_vars

(* Hooks, providers, tools and maintenance jobs settle, so the driver never*)
(* stays suspended.  Which way they settle is not constrained.             *)
FairSpec == Spec /\ WF_vars(Driver) /\ WF_vars(EndMaintenance)

-----------------------------------------------------------------------------
Places == {"off", "job", "turnStart", "stepTop", "assemble", "preStep", "preStepThrew",
           "decided", "request", "built", "stream", "requestError", "tools", "stepDone",
           "stepThrew", "turnStopping", "returned"}
Fates == {"unsent", "pending", "claimed", "entered", "dropped", "discarded"}

TypeOK ==
  /\ phase \in [kind : {"idle", "maintenance", "running"}, turn : Nat, step : Nat]
  /\ abort \in Causes \cup {"none"}
  /\ wakeRequested \in BOOLEAN /\ replay \in BOOLEAN
  /\ nextStep \in Seq(Messages) /\ nextTurn \in Seq(Messages)
  /\ sending \in {"no", "wake", "wakeAfterAbort"}
  /\ at \in Places
  /\ target \in Targets /\ turnEnds \in Endings
  /\ decision \in [kind : {"none", "reject", "enter"}, messages : SUBSET Messages,
                   empty : BOOLEAN]
  /\ trace \in TraceType
  /\ fate \in [Messages -> Fates] /\ prompts \in SUBSET Messages
  /\ activityDone \in BOOLEAN /\ waiter \in {"none", "current", "stale"}

(* Whatever is cancelled, thrown or retried, and wherever: the log the loop*)
(* appends obeys the session companion, and no turn is open between        *)
(* activities (turn()'s two finally blocks, agent.ts:246-330).             *)
LogLegal == trace.legal /\ (~Running => trace.openTurn = None)

(* The two inbox lists hold exactly the messages inserted and not yet      *)
(* claimed or discarded, each once (Inbox.mutate and claim).               *)
InboxExact ==
  /\ Elements(nextStep) \cup Elements(nextTurn) = Pending
  /\ Len(nextStep) + Len(nextTurn) = Cardinality(Pending)

(* followup(): "The item becomes the sole ordinary message of its own      *)
(* turn" (runtime-types.ts:118-119), also when steering, retries and later *)
(* steps claim from the same inbox.                                        *)
SoleFollowup == Cardinality(prompts) <= 1

(* A wake is latched only behind an activity that cannot deliver it, never *)
(* behind a live driver (whose replay would open a turn nobody asked for)  *)
(* nor behind a disposal (agent.ts:173-181 and 326-327).                   *)
LatchJustified == wakeRequested => /\ abort # "disposed"
                                   /\ Running => abort = "user"

(* Once the signal is aborted the driver starts nothing: no turn, step or  *)
(* model request is begun under it, and no stream is iterated, not even    *)
(* one whose call an abort in the reaction before it could not prevent     *)
(* (agent.ts:346-347).                                                     *)
NothingStartsAborted ==
  [][Aborted /\ Running =>
       /\ trace'.openTurn \in {None, trace.openTurn}
       /\ trace'.openStep \in {None, trace.openStep}
       /\ at' # at => at' \notin {"request", "stream", "turnStopping"}]_vars

(* whenIdle() resolves only when no driver, no maintenance task and no     *)
(* replay is left (runtime-types.ts:86-91).                                *)
WhenIdleQuiescent ==
  [][waiter # "none" /\ waiter' = "none" => Idle /\ ~replay /\ at = "off"]_vars

(* A cancelled driver converges.                                           *)
CancelConverges == (Running /\ Aborted) ~> ~(Running /\ Aborted)

(* A wake latched behind an aborted or maintenance activity is replayed:   *)
(* a live driver runs, unless the queue was emptied or the replay was      *)
(* cancelled in its turn.                                                  *)
LatchReplayed == wakeRequested ~> (~HasPending \/ (Running /\ ~Aborted))

-----------------------------------------------------------------------------
(* Three statements of the repository's own text about this code.          *)

(* "agent/request-error runs after a failed model step closes and before   *)
(* its turn closes" (docs/subsystems/core.md:228).                         *)
RecoveryBetweenSteps == at = "requestError" => trace.openStep = None

(* "Live drivers claim queued work themselves" (agent.ts:175-176): a turn  *)
(* that ends normally, uncancelled, does not leave a prompt queued behind  *)
(* an idle agent.  Blocked and failed turns do park it, and are not meant. *)
LiveDriverClaims ==
  [][at = "returned" /\ turnEnds = "completed" /\ ~Aborted /\ at' = "off"
       => nextTurn = <<>>]_vars

(* "a disposed cancel leaves it parked" (runtime-types.ts:104-107): input  *)
(* sent to a disposed agent opens no further turn.                         *)
DisposedStaysParked ==
  [][abort = "disposed" /\ at # "turnStart" => at' # "turnStart"]_vars
=============================================================================
