----------------------------- MODULE GoalRounds -----------------------------
(***************************************************************************)
(* The goal-round driver of one agent, with what it drives: the goal       *)
(* service's compare-and-set transitions and strict fold, the agent's      *)
(* next-turn queue and the pre-step part of its turns. People change the   *)
(* goal, prompt and cancel at any moment; checkpoints may fail.            *)
(*                                                                         *)
(* Handlers call each other synchronously, so what one of them does is a   *)
(* function of the whole state s, composed as the code composes it. A      *)
(* run's continuations are microtasks: nothing from outside comes between. *)
(* `rev` stands for the goal's identity and revision together: no two      *)
(* states of any goal share one.                                           *)
(***************************************************************************)
EXTENDS Naturals, Sequences, Functions, FiniteSetsExt

CONSTANTS MaxRounds,    \* the goal's maxGoalRounds, when created
          MaxOps,       \* bound: changes of the goal by people and tools
          MaxPrompts,   \* bound: prompts
          MaxUpsets     \* bound: cancels, failed checkpoints, unloads

GoalAssumption == {MaxRounds, MaxOps, MaxPrompts, MaxUpsets} \subseteq Nat

VARIABLES
  s,        \* goal fold, DriverState and its runs, inbox, turn
  durable,  \* the newest revision a completed checkpoint began at
  exposed,  \* the goal changed while a listener outside the driver's awaited
  held,     \* a turn was cancelled and nobody has armed the goal since
  used      \* the bounds' counters

vars == <<s, durable, exposed, held, used>>

None == [kind |-> "none"]
Human == [kind |-> "human"]
Round(rev, round) == [kind |-> "round", rev |-> rev, round |-> round]
RunIds == 1..3

(* runs: each run of the driver rests, awaits a checkpoint of a revision,   *)
(* or is between two passes. current: the one state.run names.              *)
Rest == [at |-> "rest", rev |-> 0]
Between == [at |-> "between", rev |-> 0]

Init ==
  /\ s = [goal |-> [phase |-> "none", armed |-> FALSE, rev |-> 0, rounds |-> 0, max |-> MaxRounds],
          needsCheckpoint |-> FALSE, requested |-> FALSE, competing |-> FALSE,
          life |-> "active", current |-> 0, runs |-> [r \in RunIds |-> Rest],
          attempt |-> None, inbox |-> <<>>,
          loop |-> [at |-> "idle", batch |-> None, aborted |-> FALSE, wake |-> FALSE]]
  /\ durable = 0 /\ exposed = FALSE /\ held = FALSE
  /\ used = [ops |-> 0, prompts |-> 0, upsets |-> 0]

Live(t) == t.goal.phase = "active" /\ t.goal.armed
IsAttempt(t, m) == m.kind = "round" /\ t.attempt # None /\ t.attempt.round = m
Disarm(t) == [t EXCEPT !.goal.armed = FALSE]

-----------------------------------------------------------------------------
(* wakeDriver on an idle agent: turn opens and claims the first prompt.     *)
Claimed(t) ==
  LET head == IF t.inbox = <<>> THEN None ELSE Head(t.inbox) IN
  [t EXCEPT !.loop = [at |-> "claimed", batch |-> head, aborted |-> FALSE, wake |-> FALSE],
            !.inbox = IF t.inbox = <<>> THEN @ ELSE Tail(@),
            !.attempt = IF IsAttempt(t, head) THEN [@ EXCEPT !.phase = "claimed"] ELSE @]

ReadyToDrive(t) == t.life = "active" /\ t.loop.at = "idle" /\ ~t.competing

ReadyAfterCheckpoint(t) == ReadyToDrive(t) /\ ~t.needsCheckpoint

(* A pass that starts while a checkpoint is owed: it awaits the checkpoint. *)
Checkpointing(t, r) == [t EXCEPT !.needsCheckpoint = FALSE,
                                 !.runs[r] = [at |-> "flushing", rev |-> t.goal.rev]]

(* requestDrive. state.run is assigned once the first pass has given way,   *)
(* so a request made inside that pass starts a run of its own.              *)
NewRun(t) == Min({r \in RunIds : t.runs[r] = Rest})

(* The request that every goal/changed makes.                               *)
Noted(t) == [t EXCEPT !.needsCheckpoint = TRUE, !.requested = TRUE]
RequestChanged(t) ==
  LET u == Noted(t)
      r == NewRun(u)
      p == [u EXCEPT !.requested = FALSE, !.current = r]
  IN IF u.life # "active" THEN [u EXCEPT !.requested = t.requested]
     ELSE IF u.current # 0 THEN u
     ELSE IF ReadyToDrive(u) THEN Checkpointing(p, r) ELSE [p EXCEPT !.runs[r] = Between]

(* One transition of the goal and its notification.                         *)
Change(t, phase, armed) ==
  RequestChanged([t EXCEPT !.goal.phase = phase, !.goal.armed = armed, !.goal.rev = @ + 1])

(* drive below its checkpoint: the finished attempt, or at most one round.  *)
Reserve(t) ==
  LET round == Round(t.goal.rev, t.goal.rounds + 1) IN
  Claimed([t EXCEPT !.inbox = Append(@, round),
                    !.attempt = [kind |-> "reserved", round |-> round, phase |-> "queued",
                                 cancelled |-> FALSE, stale |-> FALSE]])

Proceed(t) ==
  CASE t.attempt # None -> [t EXCEPT !.attempt = None, !.needsCheckpoint = TRUE, !.requested = TRUE]
    [] t.attempt = None /\ ~Live(t) -> t
    [] t.attempt = None /\ Live(t) /\ t.goal.rounds >= t.goal.max -> Change(t, "blocked", FALSE)
    [] OTHER -> Reserve(t)

(* One turn of runRequested's loop in run r, up to its await.               *)
Pass(t, r) ==
  LET u == [t EXCEPT !.requested = FALSE, !.runs[r] = Between] IN
  IF ~ReadyToDrive(u) THEN u
  ELSE IF u.needsCheckpoint THEN Checkpointing(u, r) ELSE Proceed(u)


Request(t) ==
  LET u == [t EXCEPT !.requested = TRUE]
      r == NewRun(u)
  IN IF u.life # "active" THEN t
     ELSE IF u.current # 0 THEN u ELSE [Pass(u, r) EXCEPT !.current = r]

(* Between two passes: the next one, or the run retires.                    *)
Continue(r) ==
  LET retired == [s EXCEPT !.current = 0, !.runs[r] = Rest] IN
  /\ s.runs[r] = Between
  /\ s' = IF s.requested /\ s.life = "active" THEN Pass(s, r) ELSE retired
  /\ UNCHANGED <<durable, exposed, held, used>>

Settled == \A r \in RunIds : s.runs[r] # Between

Flushed(r) ==
  LET t == [s EXCEPT !.runs[r] = Between] IN
  /\ Settled /\ s.runs[r].at = "flushing"
  /\ durable' = Max({durable, s.runs[r].rev})
  /\ s' = IF ReadyAfterCheckpoint(t) THEN Proceed(t) ELSE t
  /\ UNCHANGED <<exposed, held, used>>

FlushFails(r) ==
  /\ Settled /\ s.runs[r].at = "flushing" /\ used.upsets < MaxUpsets
  /\ s' = Disarm([s EXCEPT !.runs[r] = Between])
  /\ used' = [used EXCEPT !.upsets = @ + 1]
  /\ UNCHANGED <<durable, exposed, held>>

-----------------------------------------------------------------------------
(* GoalService, called by people and tools.                                 *)
GoalOp(op) ==
  CASE op = "create" -> Change([s EXCEPT !.goal.rounds = 0, !.goal.max = MaxRounds], "active", TRUE)
    [] op = "raise" -> Change([s EXCEPT !.goal.max = @ + 1], s.goal.phase, s.goal.armed)
    [] op = "lower" -> Change([s EXCEPT !.goal.max = @ - 1], s.goal.phase, s.goal.armed)
    [] op = "pause" -> Change(s, "paused", FALSE)
    [] op = "resume" -> Change(s, "active", TRUE)
    [] op = "complete" -> Change(s, "complete", FALSE)
    [] op = "clear" -> Change([s EXCEPT !.goal.rounds = 0], "none", FALSE)

Permitted(op) ==
  CASE op = "create" -> s.goal.phase \in {"none", "complete"}
    [] op \in {"raise", "clear"} -> s.goal.phase \notin {"none", "unreadable"}
    [] op = "lower" -> s.goal.phase \notin {"none", "unreadable"} /\ s.goal.max > 1
    [] op = "pause" -> s.goal.phase = "active"
    [] op = "resume" -> /\ s.goal.phase \in {"active", "paused", "blocked"}
                        /\ ~Live(s) /\ s.goal.rounds < s.goal.max
    [] op = "complete" -> s.goal.phase \in {"active", "paused", "blocked"}

ChangeGoal(op) ==
  /\ Settled /\ used.ops < MaxOps /\ Permitted(op)
  /\ s' = GoalOp(op)
  /\ exposed' = (exposed \/ s.loop.at = "entering")
  /\ held' = (held /\ op \notin {"create", "resume"})
  /\ used' = [used EXCEPT !.ops = @ + 1]
  /\ UNCHANGED durable

-----------------------------------------------------------------------------
(* The agent. A prompt marks the queue as contended; it wakes an idle       *)
(* agent, and an aborted one replays it once it converges.                  *)
Prompt ==
  LET t == [s EXCEPT !.inbox = Append(@, Human),
              !.competing = @ \/ s.life # "closed",
              !.attempt = IF s.attempt # None /\ s.attempt.phase = "queued"
                          THEN [@ EXCEPT !.stale = TRUE] ELSE @,
              !.loop.wake = @ \/ s.loop.aborted]
  IN
  /\ Settled /\ used.prompts < MaxPrompts
  /\ used' = [used EXCEPT !.prompts = @ + 1]
  /\ s' = IF s.loop.at = "idle" THEN Claimed(t) ELSE t
  /\ UNCHANGED <<durable, exposed, held>>

(* cancel, and its effect on a round still queued.                          *)
Cancelled(t, keepInbox) ==
  [t EXCEPT !.inbox = IF keepInbox THEN @ ELSE <<>>,
     !.attempt = IF ~keepInbox /\ \E i \in DOMAIN t.inbox : IsAttempt(t, t.inbox[i])
                 THEN [@ EXCEPT !.cancelled = TRUE] ELSE @,
     !.loop.aborted = TRUE, !.loop.wake = @ /\ keepInbox]

Cancel(keepInbox) ==
  /\ Settled /\ used.upsets < MaxUpsets /\ s.loop.at # "idle"
  /\ used' = [used EXCEPT !.upsets = @ + 1]
  /\ s' = Cancelled(s, keepInbox) /\ held' = (held \/ s.loop.at # "opening")
  /\ UNCHANGED <<durable, exposed>>

(* turn/end: an abort that hit no claimed round, and an error or a token    *)
(* limit, disarm the goal.                                                  *)
TurnEnded(t, reason) ==
  LET entered == t.attempt # None /\ t.attempt.phase \in {"claimed", "admitted"} IN
  CASE reason = "aborted" /\ entered -> [t EXCEPT !.attempt.cancelled = TRUE]
    [] reason = "aborted" /\ ~entered -> Disarm(t)
    [] reason \in {"error", "max-tokens"} -> Disarm(t)
    [] OTHER -> t

(* variant: a cancelled round that had entered is not paused for.           *)
UnenteredOnly(t) == t.attempt # None /\ t.attempt.phase \in {"queued", "claimed"}
PausedAtIdle(t) ==
  t.attempt # None /\ (t.attempt.phase \in {"queued", "claimed"} \/ t.attempt.cancelled)

(* agent/status idle.                                                       *)
AtIdle(t) ==
  LET u == [t EXCEPT !.competing = FALSE] IN
  Request(IF PausedAtIdle(u) /\ Live(u)
          THEN Change([u EXCEPT !.attempt = None], "paused", FALSE) ELSE u)

(* kick converges: idle, and then the latched wake. Once disposed, the      *)
(* driver hears nothing of it.                                              *)
Resting(t, at) == [t EXCEPT !.loop = [at |-> at, batch |-> None, aborted |-> FALSE, wake |-> FALSE]]

Converged(t) ==
  LET idle == Resting(t, "idle")
      v == IF t.life # "closed" THEN AtIdle(idle) ELSE idle
  IN IF t.loop.wake /\ v.inbox # <<>> /\ v.loop.at = "idle" THEN Claimed(v) ELSE v

(* turn ends: another turn is to open while the queue holds work.           *)
Ended(t, reason) ==
  LET u == IF t.life # "closed" THEN TurnEnded(t, reason) ELSE t
  IN IF reason \in {"completed", "max-tokens"} /\ u.inbox # <<>> THEN Resting(u, "opening")
     ELSE Converged(u)

(* The fold's rule for a round (applyGoalEvent); a log it refuses can no    *)
(* longer be read by the service.                                           *)
FoldAccepts(t, m) ==
  /\ t.goal.phase = "active" /\ m.rev = t.goal.rev
  /\ m.round = t.goal.rounds + 1 /\ m.round <= t.goal.max

(* step/start and user/message: the round is admitted.                      *)
Admitted(t, m) ==
  LET u == [t EXCEPT !.loop.at = "stepping",
              !.attempt = IF IsAttempt(t, m) THEN [@ EXCEPT !.phase = "admitted"] ELSE @]
  IN IF m.kind # "round" THEN u
     ELSE IF FoldAccepts(t, m) THEN [u EXCEPT !.goal.rounds = m.round]
     ELSE [u EXCEPT !.goal.phase = "unreadable"]

Moves(t) == Settled /\ s' = t /\ UNCHANGED <<durable, exposed, held, used>>

(* The next turn opens one reaction later, with a signal of its own: an     *)
(* abort in between ends no turn, so no turn/end tells of it.               *)
OpenTurn ==
  /\ s.loop.at = "opening"
  /\ Moves(IF s.loop.aborted THEN Converged(s) ELSE Claimed(s))

(* An abort ends the turn at the next check of the signal.                  *)
AbortedExit ==
  /\ s.loop.aborted /\ s.loop.at \in {"claimed", "entering", "stepping"}
  /\ Moves(Ended(s, "aborted"))

(* The driver's listener passes by a batch without a round.                 *)
PassesBy ==
  /\ s.loop.at = "claimed" /\ ~s.loop.aborted
  /\ s.loop.batch.kind # "round" \/ s.life = "closed"
  /\ Moves(IF s.loop.batch = None THEN Ended(s, "completed") ELSE Admitted(s, s.loop.batch))

(* variant: validReservation trusts the claimed reservation.                *)
ClaimedIsValid(m) == IsAttempt(s, m) /\ s.attempt.phase = "claimed"
Valid(m) ==
  /\ s.life = "active" /\ IsAttempt(s, m) /\ s.attempt.phase = "claimed" /\ ~s.attempt.stale
  /\ Live(s) /\ s.goal.rev = m.rev /\ m.round = s.goal.rounds + 1

Refused == IF s.loop.aborted THEN "aborted" ELSE "blocked"

Check ==
  /\ s.loop.at = "claimed" /\ s.loop.batch.kind = "round" /\ s.life # "closed"
  /\ Moves(IF Valid(s.loop.batch) THEN [s EXCEPT !.loop.at = "downstream"]
           ELSE Ended(Request([s EXCEPT !.attempt = IF IsAttempt(s, s.loop.batch) THEN None ELSE @]),
                      Refused))

(* The downstream listeners settle; an abort wins over what they decided.   *)
DownstreamRejects ==
  /\ s.loop.at = "downstream" /\ ~s.loop.aborted
  /\ LET t == [s EXCEPT !.attempt = None] IN
     Moves(Ended(IF Live(t) /\ t.goal.rev = t.loop.batch.rev THEN Change(t, "blocked", FALSE) ELSE t,
                 "blocked"))

DownstreamThrows ==
  /\ s.loop.at = "downstream" /\ ~s.loop.aborted
  /\ Moves(Ended(Request([s EXCEPT !.attempt = None]), "error"))

DownstreamAborted ==
  /\ s.loop.at = "downstream" /\ s.loop.aborted
  /\ Moves(Ended(s, "aborted"))

DownstreamEnters ==
  /\ s.loop.at = "downstream" /\ ~s.loop.aborted
  /\ Moves(IF Valid(s.loop.batch) THEN [s EXCEPT !.loop.at = "entering"]
           ELSE Ended(Request([s EXCEPT !.attempt = None]), "blocked"))

(* A listener outside the driver's settles after its own awaits, then the   *)
(* loop enters the step.                                                    *)
Enter ==
  /\ s.loop.at = "entering" /\ ~s.loop.aborted
  /\ Moves(Admitted(s, s.loop.batch))

StepEnds(reason) ==
  /\ s.loop.at = "stepping" /\ ~s.loop.aborted
  /\ Moves(Ended(s, reason))

-----------------------------------------------------------------------------
(* Disposal: the fence stays until the driver's run and the turn it cancels *)
(* have settled.                                                            *)
Unload ==
  LET t == Disarm([s EXCEPT !.life = "stopping",
                    !.attempt = IF @ = None THEN @ ELSE [@ EXCEPT !.stale = TRUE]])
  IN
  /\ Settled /\ s.life = "active" /\ used.upsets < MaxUpsets
  /\ used' = [used EXCEPT !.upsets = @ + 1]
  /\ s' = IF t.attempt # None /\ t.loop.at # "idle" THEN Cancelled(t, FALSE) ELSE t
  /\ UNCHANGED <<durable, exposed, held>>

Close ==
  /\ s.life = "stopping" /\ s.current = 0 /\ ~s.loop.aborted
  /\ Moves([s EXCEPT !.life = "closed", !.attempt = None])

Ops == {"create", "raise", "lower", "pause", "resume", "complete", "clear"}
Progress ==
  \/ \E r \in RunIds : Continue(r) \/ Flushed(r)
  \/ OpenTurn \/ AbortedExit \/ PassesBy \/ Check \/ DownstreamAborted \/ DownstreamEnters \/ Enter
  \/ StepEnds("completed") \/ Close
Upset ==
  \/ \E r \in RunIds : FlushFails(r)
  \/ DownstreamRejects \/ DownstreamThrows \/ StepEnds("error") \/ StepEnds("max-tokens")
  \/ Prompt \/ Unload \/ \E keepInbox \in BOOLEAN : Cancel(keepInbox)
  \/ \E op \in Ops : ChangeGoal(op)
Next == Progress \/ Upset

Spec == Init /\ [][Next]_vars
(* Checkpoints, listeners and model steps settle; microtasks run.           *)
LiveSpec == Spec /\ WF_vars(Progress)

-----------------------------------------------------------------------------
(* A round the driver let through is the one the fold expects: the log stays*)
(* readable through edits, pauses, clears, prompts, cancels and failed      *)
(* checkpoints at every await, except when the goal changed while a listener*)
(* outside the driver's own was still awaiting, or after an unload left a   *)
(* round in the queue (goal-round-driver/src/index.ts:334-413,              *)
(* goal/src/fold.ts, applyGoalEvent).                                       *)
RoundsFresh == s.goal.phase = "unreadable" => exposed \/ s.life = "closed"

(* What the driver's own text says without those exceptions: it fails       *)
(* closed unless the prompt owns the exact live revision, checked before    *)
(* and after the other listeners (goal-round-driver/README.md:24,           *)
(* src/index.ts:333).                                                       *)
ReplayAccepts == s.goal.phase # "unreadable"

RoundAdmitted ==
  /\ s.attempt # None /\ s'.attempt # None
  /\ s.attempt.phase # "admitted" /\ s'.attempt.phase = "admitted"

(* A person who cancels a turn has stopped the goal: until somebody creates *)
(* or resumes one, no further round enters a step, whatever was queued,     *)
(* claimed or checkpointing then (src/index.ts:259-277 and 317-327). Of a   *)
(* cancel between two turns, see CancelStops.                               *)
CancelHolds == [][RoundAdmitted => ~held]_vars

(* What the driver's documentation says of a cancellation: at the idle      *)
(* checkpoint behind it a goal with a reserved or admitted attempt is       *)
(* paused, so that it cannot restart by itself                              *)
(* (goal-round-driver/README.md:40). It fails when the cancel falls between *)
(* two turns, where no turn/end tells the driver of it.                     *)
CancelStops ==
  [][s.loop.aborted /\ ~s'.loop.aborted /\ s.attempt # None /\ s.life = "active"
       => ~Live(s')]_vars

(* A round is queued only after a checkpoint begun at its goal's revision:  *)
(* a change made while a checkpoint settles gets its own before anything is *)
(* reserved (src/index.ts:151-153). It fails once a request made inside a   *)
(* run's first pass has started a second run, the first clears state.run    *)
(* and two checkpoints overlap.                                             *)
CheckpointedFirst == [][(s.attempt = None /\ s'.attempt # None) => durable' = s.goal.rev]_vars

=============================================================================
