------------------------------ MODULE LlmRetry ------------------------------
(***************************************************************************)
(* The llm-retry plugin: recovery of failed model requests of several      *)
(* agents, its durable retry records, and its disposal and reload while    *)
(* recoveries are under way. The loop side of a request is ReactLoopAgent. *)
(***************************************************************************)
EXTENDS Naturals, Sequences, FiniteSets, FiniteSetsExt

CONSTANTS Agents,
          Normal,      \* provider/policy keys in normal mode
          Always,      \* those in always mode
          MaxRetries,  \* the normal policies' maxRetries
          MaxFailures, \* bound: failed requests of one agent
          MaxSteps,    \* bound: steps of one agent
          MaxLoads     \* bound: instances of the plugin

RetryAssumption ==
  Normal \cap Always = {} /\ {MaxRetries, MaxFailures, MaxSteps, MaxLoads} \subseteq Nat

Keys == Normal \cup Always
None == "none"

VARIABLES
  log,       \* each session: requests, llm/retry and llm/retry-started
  loop,      \* each agent: its open step, its signal, whether a request runs
  op,        \* each agent: the recovery of its failed request
  load,      \* the plugin's instance; the earlier ones are disposed
  lifetime   \* of that instance: live, aborted, drained

vars == <<log, loop, op, load, lifetime>>

Record(kind, a, k, n) == [kind |-> kind, step |-> loop[a].step, key |-> k, n |-> n]
Idle == [at |-> "none", key |-> None, eligible |-> FALSE, by |-> 0, action |-> None]

Init ==
  /\ log = [a \in Agents |-> <<>>]
  /\ loop = [a \in Agents |-> [step |-> 0, aborted |-> FALSE, at |-> "idle", failures |-> 0]]
  /\ op = [a \in Agents |-> Idle]
  /\ load = 1 /\ lifetime = "live"

-----------------------------------------------------------------------------
(* The loop: a step sends its request; a failed one asks the waterfall.    *)
OpenStep(a) ==
  /\ loop[a].at = "idle" /\ loop[a].step < MaxSteps
  /\ loop' = [loop EXCEPT ![a].step = @ + 1, ![a].aborted = FALSE, ![a].at = "sending"]
  /\ UNCHANGED <<log, op, load, lifetime>>

Send(a) ==
  /\ loop[a].at = "sending"
  /\ IF loop[a].aborted
     THEN loop' = [loop EXCEPT ![a].at = "idle"] /\ UNCHANGED log
     ELSE /\ loop' = [loop EXCEPT ![a].at = "streaming"]
          /\ log' = [log EXCEPT ![a] = Append(@, Record("request", a, None, 0))]
  /\ UNCHANGED <<op, load, lifetime>>

Succeed(a) ==
  /\ loop[a].at = "streaming"
  /\ loop' = [loop EXCEPT ![a].at = "idle"]
  /\ UNCHANGED <<log, op, load, lifetime>>

(* The waterfall holds this listener unless it is disposed; an earlier     *)
(* listener may await before it calls it.                                  *)
Fail(a, k, eligible) ==
  /\ loop[a].at = "streaming" /\ ~loop[a].aborted /\ loop[a].failures < MaxFailures
  /\ loop' = [loop EXCEPT ![a].at = "recovering", ![a].failures = @ + 1]
  /\ op' = [op EXCEPT ![a] =
       IF lifetime = "live"
       THEN [Idle EXCEPT !.at = "captured", !.key = k, !.eligible = eligible, !.by = load]
       ELSE [Idle EXCEPT !.at = "delegated"]]
  /\ UNCHANGED <<log, load, lifetime>>

(* step resumes: an abort wins, then only a retry sends again, in the same  *)
(* step.                                                                    *)
Resume(a) ==
  /\ op[a].at = "settled"
  /\ loop' = [loop EXCEPT ![a].at =
       IF op[a].action = "retry" /\ ~loop[a].aborted THEN "sending" ELSE "idle"]
  /\ op' = [op EXCEPT ![a] = Idle]
  /\ UNCHANGED <<log, load, lifetime>>

Abort(a) ==
  /\ loop[a].at # "idle" /\ ~loop[a].aborted
  /\ loop' = [loop EXCEPT ![a].aborted = TRUE]
  /\ UNCHANGED <<log, op, load, lifetime>>

-----------------------------------------------------------------------------
(* The recovery. `Disposed`: the lifetime signal of the instance at work.   *)
Disposed(a) == op[a].by # load \/ lifetime # "live"

(* variant: the wait watches the agent's signal only.                       *)
SignalOnly(a) == loop[a].aborted
Fused(a) == loop[a].aborted \/ Disposed(a)

Settled(a, action) == [op EXCEPT ![a].at = "settled", ![a].action = action]

(* variant: the last retry of the step, whatever its policy.                *)
PriorOfStep(a, k) ==
  Max({0} \cup {log[a][i].n : i \in {j \in DOMAIN log[a] :
    log[a][j].kind = "retry" /\ log[a][j].step = loop[a].step}})
Prior(a, k) ==
  Max({0} \cup {log[a][i].n : i \in {j \in DOMAIN log[a] :
    log[a][j].kind = "retry" /\ log[a][j].step = loop[a].step /\ log[a][j].key = k}})

Exhausted(a) == op[a].key \in Normal /\ Prior(a, op[a].key) >= MaxRetries

(* The last part of recover, and backoff up to its wait.                    *)
Backoff(a) ==
  IF Exhausted(a) THEN op' = [op EXCEPT ![a].at = "delegated"] /\ UNCHANGED log
  ELSE IF Fused(a) THEN op' = Settled(a, None) /\ UNCHANGED log
  ELSE /\ log' = [log EXCEPT ![a] =
            Append(@, Record("retry", a, op[a].key, Prior(a, op[a].key) + 1))]
       /\ op' = [op EXCEPT ![a].at = "waiting"]

Recover(a) ==
  /\ op[a].at = "captured"
  /\ CASE Disposed(a) -> op' = Settled(a, None) /\ UNCHANGED log
       [] ~Disposed(a) /\ op[a].key \in Always ->
            /\ op' = IF Fused(a) THEN Settled(a, None) ELSE [op EXCEPT ![a].at = "deferred"]
            /\ UNCHANGED log
       [] ~Disposed(a) /\ op[a].key \in Normal /\ ~op[a].eligible ->
            op' = [op EXCEPT ![a].at = "delegated"] /\ UNCHANGED log
       [] OTHER -> Backoff(a)
  /\ UNCHANGED <<loop, load, lifetime>>

(* next() settles: always mode falls back to its own delay unless the       *)
(* downstream policy retries.                                               *)
Downstream(a, result) ==
  /\ \/ /\ op[a].at = "delegated"
        /\ op' = Settled(a, IF result = "retry" THEN "retry" ELSE None)
        /\ UNCHANGED log
     \/ /\ op[a].at = "deferred"
        /\ IF Fused(a) THEN op' = Settled(a, None) /\ UNCHANGED log
           ELSE IF result = "retry" THEN op' = Settled(a, "retry") /\ UNCHANGED log
           ELSE Backoff(a)
  /\ UNCHANGED <<loop, load, lifetime>>

TimerFires(a) ==
  /\ op[a].at = "waiting" /\ ~Fused(a)
  /\ log' = [log EXCEPT ![a] = Append(@, Record("started", a, op[a].key, Prior(a, op[a].key)))]
  /\ op' = Settled(a, "retry")
  /\ UNCHANGED <<loop, load, lifetime>>

(* variant: only the agent's abort ends the wait early.                     *)
AbortEndsWait(a) ==
  /\ op[a].at = "waiting" /\ loop[a].aborted
  /\ op' = Settled(a, None)
  /\ UNCHANGED <<log, loop, load, lifetime>>

EndWait(a) ==
  /\ op[a].at = "waiting" /\ Fused(a)
  /\ op' = Settled(a, None)
  /\ UNCHANGED <<log, loop, load, lifetime>>

-----------------------------------------------------------------------------
(* Disposal aborts the lifetime and drains the recoveries under way; a      *)
(* callback that was captured and not yet called is not among them.         *)
Active(a) == op[a].by = load /\ op[a].at \in {"delegated", "deferred", "waiting"}

Dispose ==
  /\ lifetime = "live" /\ lifetime' = "aborted"
  /\ UNCHANGED <<log, loop, op, load>>

Drained ==
  /\ lifetime = "aborted" /\ \A a \in Agents : ~Active(a)
  /\ lifetime' = "drained"
  /\ UNCHANGED <<log, loop, op, load>>

Reload ==
  /\ lifetime = "drained" /\ load < MaxLoads
  /\ load' = load + 1 /\ lifetime' = "live"
  /\ UNCHANGED <<log, loop, op>>

Results == {"retry", None, "throw"}
Works(a) ==
  \/ Send(a) \/ Resume(a) \/ Recover(a) \/ TimerFires(a) \/ EndWait(a)
  \/ \E result \in Results : Downstream(a, result)
Next ==
  \/ \E a \in Agents :
       \/ Works(a) \/ OpenStep(a) \/ Succeed(a) \/ Abort(a)
       \/ \E k \in Keys, eligible \in BOOLEAN : Fail(a, k, eligible)
  \/ Dispose \/ Drained \/ Reload

Spec == Init /\ [][Next]_vars
(* Timers fire, promises resume, and downstream policies settle.            *)
LiveSpec == Spec /\ (\A a \in Agents : WF_vars(Works(a))) /\ WF_vars(Drained)

-----------------------------------------------------------------------------
RetryAt(a, i) == log[a][i].kind = "retry"
SameChain(a, i, j) ==
  log[a][i].step = log[a][j].step /\ log[a][i].key = log[a][j].key

(* What the companion demands of the records (validateRetry,                *)
(* validateStarted), over reloads and switches of policy within a step:     *)
(* the retries of a chain are numbered without gap, a normal chain stays    *)
(* within its budget, and a started record follows its own retry with no    *)
(* other record of the agent between them.                                  *)
ChainExact ==
  \A a \in Agents : \A i \in DOMAIN log[a] :
    /\ RetryAt(a, i) =>
         /\ log[a][i].n = 1 + Cardinality({j \in 1..(i - 1) : RetryAt(a, j) /\ SameChain(a, i, j)})
         /\ log[a][i].key \in Normal => log[a][i].n <= MaxRetries
    /\ log[a][i].kind = "started" =>
         i > 1 /\ RetryAt(a, i - 1) /\ SameChain(a, i, i - 1) /\ log[a][i - 1].n = log[a][i].n

(* No retry record is written by a recovery whose agent is aborted or whose *)
(* plugin instance is disposed, whatever it was waiting for (recover,       *)
(* backoff, and a callback captured before the disposal).                   *)
WithdrawnWritesNothing ==
  [][\A a \in Agents :
       (log'[a] # log[a] /\ log'[a][Len(log'[a])].kind # "request")
         => ~loop[a].aborted /\ ~Disposed(a)]_vars

(* A disposal under way drains: no recovery it waits for is left behind.    *)
DisposalDrains == (lifetime = "aborted") ~> (lifetime = "drained")

(* What the package's README says: a retry opens a fresh numbered turn, so   *)
(* never sends again in the step that failed. (The loop does.)              *)
RetryOpensTurn ==
  \A a \in Agents : \A i \in DOMAIN log[a] :
    (log[a][i].kind = "started" /\ i < Len(log[a])) => log[a][i + 1].step # log[a][i].step
=============================================================================
