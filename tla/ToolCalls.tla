----------------------------- MODULE ToolCalls -----------------------------
(***************************************************************************)
(* executeToolCalls: the scheduler of one assistant step's tool calls.     *)
(* Calls are numbered in model order.  Calls that are parallel when they   *)
(* start share a bounded rolling pool; an exclusive call runs alone.       *)
(* Bodies overlap, while policy (`prepare`), results and the log follow    *)
(* model order.  Cancellation and registry changes arrive at any await,    *)
(* and a dispatch may settle or break at any time.                         *)
(***************************************************************************)
EXTENDS Naturals, Sequences, FiniteSets

CONSTANTS Calls,        \* number of tool calls in the batch
          MaxParallel   \* maxParallelToolCalls

ASSUME ToolCallsAssumption == Calls \in Nat \ {0} /\ MaxParallel \in Nat \ {0}

VARIABLES
  mode,       \* live classification of each call by the tool registry
  signal,     \* the step's abort signal
  at,         \* where the scheduler is suspended
  groupMode,  \* mode the current group was opened with
  started,    \* calls started, absolute (nextToStart and the outer cursor)
  committed,  \* results committed, absolute
  aborted,    \* runGroup's own view of the signal
  failure,    \* schedulerFailure is set
  inFlight,   \* dispatches not yet taken by Promise.race
  stage,      \* what became of each call
  startedAs,  \* history: the mode a call was started under
  log         \* history: tool/call and tool/result events

vars  == <<mode, signal, at, groupMode, started, committed, aborted, failure,
           inFlight, stage, startedAs, log>>

Batch == 1..Calls
Modes == {"parallel", "exclusive"}
At(what) == {c \in Batch : stage[c] = what}

Call(c)   == [kind |-> "tool/call", call |-> c]
Result(c) == [kind |-> "tool/result", call |-> c]

Init ==
  /\ mode \in [Batch -> Modes]
  /\ signal = FALSE /\ at = "classify"
  /\ groupMode = "exclusive"
  /\ started = 0 /\ committed = 0
  /\ aborted = FALSE /\ failure = FALSE /\ inFlight = {}
  /\ stage = [c \in Batch |-> "waiting"]
  /\ startedAs = [c \in Batch |-> "none"]
  /\ log = <<>>

-----------------------------------------------------------------------------
(* The world outside the scheduler.                                        *)
Cancel ==
  /\ ~signal
  /\ signal' = TRUE
  /\ UNCHANGED <<mode, at, groupMode, started, committed, aborted, failure, inFlight,
                 stage, startedAs, log>>

Reclassify(c) ==
  /\ stage[c] = "waiting"
  /\ mode' = [mode EXCEPT ![c] = IF @ = "parallel" THEN "exclusive" ELSE "parallel"]
  /\ UNCHANGED <<signal, at, groupMode, started, committed, aborted, failure, inFlight,
                 stage, startedAs, log>>

(* A dispatched call yields its result, or breaks the scheduler.           *)
Settle(c) ==
  /\ stage[c] = "running"
  /\ \/ stage' = [stage EXCEPT ![c] = "settled"] /\ UNCHANGED failure
     \/ stage' = [stage EXCEPT ![c] = "broken"] /\ failure' = TRUE
  /\ UNCHANGED <<mode, signal, at, groupMode, started, committed, aborted, inFlight,
                 startedAs, log>>

-----------------------------------------------------------------------------
(* startCall, up to its await of prepare: record the call.                 *)
Start ==
  /\ started' = started + 1
  /\ log' = Append(log, Call(started + 1))
  /\ stage' = [stage EXCEPT ![started + 1] = "preparing"]
  /\ startedAs' = [startedAs EXCEPT ![started + 1] = mode[started + 1]]
  /\ at' = "preparing"

(* An aborted batch records a call and a synthetic result for every call   *)
(* that was never started, in order, and returns.                          *)
SkippedPairs(from) ==
  [k \in 1..(2 * (Calls - from)) |->
     IF k % 2 = 1 THEN Call(from + (k + 1) \div 2) ELSE Result(from + k \div 2)]

SkipSilently ==   \* variant: the remaining calls are forgotten
  /\ at' = "returned"
  /\ UNCHANGED <<log, stage, started, startedAs>>

SkipRest ==
  /\ log' = log \o SkippedPairs(started)
  /\ stage' = [c \in Batch |-> IF c > started THEN "skipped" ELSE stage[c]]
  /\ at' = "returned"
  /\ UNCHANGED <<started, startedAs>>

(* executeToolCalls' loop: classify the first remaining call live and open *)
(* its group.  The group samples the signal before it starts anything.     *)
OpenGroup ==
  /\ at = "classify"
  /\ \/ /\ started = Calls
        /\ at' = "returned"
        /\ UNCHANGED <<groupMode, started, stage, startedAs, log, aborted>>
     \/ /\ started < Calls
        /\ groupMode' = mode[started + 1]
        /\ aborted' = signal
        /\ IF signal THEN SkipRest ELSE Start
  /\ UNCHANGED <<mode, signal, committed, failure, inFlight>>

(* prepare settled: launch the body, or park a result decided without one. *)
(* A failure that arrived meanwhile stops the launch; prepare itself may   *)
(* break too.                                                              *)
Prepared ==
  /\ at = "preparing"
  /\ \/ /\ ~failure
        /\ \/ stage' = [stage EXCEPT ![started] = "running"]
              /\ inFlight' = inFlight \cup {started}
           \/ stage' = [stage EXCEPT ![started] = "settled"] /\ UNCHANGED inFlight
        /\ at' = "committing"
        /\ UNCHANGED failure
     \/ /\ failure' = TRUE
        /\ stage' = [stage EXCEPT ![started] = "cut"]
        /\ at' = "draining"
        /\ UNCHANGED inFlight
  /\ UNCHANGED <<mode, signal, groupMode, started, committed, aborted, startedAs, log>>

(* commitReady: finalize the next result in model order and append it, or  *)
(* stop at the first call without a result.  Finalizing awaits; appending  *)
(* or accepting a context may throw.                                       *)
ReadyAnywhere ==   \* variant: results commit as they settle
  {c \in Batch : c <= started /\ stage[c] = "settled"}
ReadyToCommit == {c \in Batch : c = committed + 1 /\ stage[c] = "settled"}

Commit ==
  /\ at = "committing"
  /\ \/ \E c \in ReadyToCommit :
          /\ log' = Append(log, Result(c))
          /\ stage' = [stage EXCEPT ![c] = "committed"]
          /\ committed' = committed + 1
          /\ UNCHANGED <<at, failure>>
     \/ /\ ReadyToCommit # {}
        /\ failure' = TRUE /\ at' = "draining"
        /\ log' \in {log, Append(log, Result(committed + 1))}
        /\ UNCHANGED <<stage, committed>>
     \/ /\ ReadyToCommit = {}
        /\ at' = "resuming"
        /\ UNCHANGED <<log, stage, committed, failure>>
  /\ UNCHANGED <<mode, signal, groupMode, started, aborted, inFlight, startedAs>>

(* fillPool's condition for one more start, with the live mode of the call.*)
RoomAnyMode(stopped) ==   \* variant: the mode read when the group opened
  /\ ~stopped /\ groupMode = "parallel"
  /\ started < Calls /\ Cardinality(inFlight) < MaxParallel
Room(stopped) ==
  /\ ~stopped /\ groupMode = "parallel"
  /\ started < Calls /\ Cardinality(inFlight) < MaxParallel
  /\ mode[started + 1] = "parallel"

(* The code behind both awaits of commitReady: surface a failure, look at  *)
(* the signal, and fill the pool again - or wait for a dispatch.           *)
Observed == aborted \/ signal

Resume ==
  /\ at = "resuming"
  /\ \/ failure /\ at' = "draining" /\ UNCHANGED <<aborted, started, stage, startedAs, log>>
     \/ /\ ~failure
        /\ aborted' = Observed
        /\ IF Room(Observed) THEN Start
           ELSE at' = "racing" /\ UNCHANGED <<started, stage, startedAs, log>>
  /\ UNCHANGED <<mode, signal, groupMode, committed, failure, inFlight>>

(* Promise.race: take one settled dispatch out of the pool.                *)
Untaken(c) == inFlight   \* variant: a settled dispatch stays in the pool
Taken(c) == inFlight \ {c}

Race ==
  /\ at = "racing"
  /\ \E c \in inFlight :
       /\ stage[c] # "running"
       /\ inFlight' = Taken(c)
  /\ at' = IF failure THEN "draining" ELSE "committing"
  /\ UNCHANGED <<mode, signal, groupMode, started, committed, aborted, failure, stage,
                 startedAs, log>>

(* The pool is empty: the group is over.                                   *)
CloseGroup ==
  /\ at = "racing" /\ inFlight = {}
  /\ IF aborted THEN SkipRest
     ELSE at' = "classify" /\ UNCHANGED <<started, stage, startedAs, log>>
  /\ UNCHANGED <<mode, signal, groupMode, committed, aborted, failure, inFlight>>

(* The catch: every dispatch settles before the first failure surfaces.    *)
DrainNothing == at = "draining"   \* variant: the failure surfaces at once
Drained == at = "draining" /\ \A c \in inFlight : stage[c] # "running"
Surface ==
  /\ Drained
  /\ at' = "threw"
  /\ UNCHANGED <<mode, signal, groupMode, started, committed, aborted, failure, inFlight,
                 stage, startedAs, log>>

Scheduler == \/ OpenGroup \/ Prepared \/ Commit \/ Resume \/ Race \/ CloseGroup \/ Surface
Body == \E c \in Batch : Settle(c)
Next == Scheduler \/ Body \/ Cancel \/ \E c \in Batch : Reclassify(c)

Spec == Init /\ [][Next]_vars

(* Policy, bodies and finalizers settle.                                   *)
FairSpec == Spec /\ WF_vars(Scheduler) /\ \A c \in Batch : WF_vars(Settle(c))

-----------------------------------------------------------------------------
Stages == {"waiting", "preparing", "running", "settled", "broken", "cut", "committed",
           "skipped"}

TypeOK ==
  /\ mode \in [Batch -> Modes] /\ signal \in BOOLEAN
  /\ at \in {"classify", "preparing", "committing", "resuming", "racing", "draining",
             "returned", "threw"}
  /\ groupMode \in Modes
  /\ started \in 0..Calls /\ committed \in 0..Calls
  /\ aborted \in BOOLEAN /\ failure \in BOOLEAN
  /\ inFlight \in SUBSET Batch
  /\ stage \in [Batch -> Stages]
  /\ startedAs \in [Batch -> Modes \cup {"none"}]
  /\ log \in Seq([kind : {"tool/call", "tool/result"}, call : Batch])

Logged(e) == \E k \in DOMAIN log : log[k] = e

(* However bodies overlap, settle or are cancelled, calls and results are  *)
(* each logged once and in model order, a result after its call            *)
(* (tool-calls.ts:145-160 and 249-259).                                    *)
ModelOrder ==
  /\ \A i, j \in DOMAIN log :
       i < j /\ log[i].kind = log[j].kind => log[i].call < log[j].call
  /\ \A j \in DOMAIN log : log[j].kind = "tool/result" =>
       \E i \in DOMAIN log : i < j /\ log[i] = Call(log[j].call)

(* A call that started as exclusive is a barrier: no other call's policy or*)
(* body runs beside it, even when the registry changes modes meanwhile     *)
(* (tool-calls.ts:85-92 and 199-205).                                      *)
Busy == At("preparing") \cup At("running")
ExclusiveAlone == \A c \in Busy : startedAs[c] = "exclusive" => Busy = {c}

(* A batch that returns - completed or cancelled at any await - leaves one *)
(* result for every call the model asked for (tool-calls.ts:95-98, 237).   *)
ReturnAnswersAll ==
  at = "returned" => At("running") = {} /\ \A c \in Batch : Logged(Result(c))

(* A scheduler failure surfaces only when every started body has settled,  *)
(* and no result is made up for the calls it cut off (tool-calls.ts:231).  *)
FailureDrains ==
  at = "threw" => /\ At("running") = {}
                  /\ \A c \in Batch : Logged(Result(c)) => stage[c] \in {"settled", "committed"}

(* The assertion behind a drained pool, marked unreachable in the source:  *)
(* every started call is committed (tool-calls.ts:243-244).                *)
PoolCommitted == at = "racing" /\ inFlight = {} => committed = started

(* Whoever settles when, at most MaxParallel bodies overlap.               *)
PoolBounded == Cardinality(At("running")) <= MaxParallel

(* Once the signal is aborted or a dispatch has failed, nothing new starts;*)
(* after a failure nothing already prepared is launched either.            *)
NothingStartsLate ==
  [][/\ signal \/ failure => started' = started
     /\ failure => {c \in Batch : stage'[c] = "running"} \subseteq At("running")]_vars

(* Every batch ends.                                                       *)
BatchEnds == <>(at \in {"returned", "threw"})
=============================================================================
