-------------------------- MODULE ToolCallsProofs --------------------------
(***************************************************************************)
(* Proofs about the tool-call scheduler, for any batch and any pool: model *)
(* order, exclusive barriers, the bound on overlapping bodies, and what a  *)
(* batch leaves behind when it returns, is cancelled or fails.             *)
(***************************************************************************)
EXTENDS ToolCalls, FiniteSetTheorems, SequenceTheorems, TLAPS

Live == {"preparing", "committing", "resuming", "racing"}
Ended == {"draining", "threw"}

(* The stages partition the batch along the two cursors.                   *)
Cursors ==
  /\ committed <= started
  /\ \A c \in Batch : c <= committed <=> stage[c] = "committed"
  /\ \A c \in Batch : c > started <=> stage[c] \in {"waiting", "skipped"}
  /\ \A c \in Batch : stage[c] = "skipped" => at = "returned"
  /\ \A c \in Batch : stage[c] = "cut" => at \in Ended
  /\ \A c \in Batch : stage[c] = "preparing" <=> at = "preparing" /\ c = started
  /\ at \in Live => started > 0

(* What is in the pool: every running body, and every broken one that the  *)
(* race has not reached.  An unreported failure has one there.             *)
Pool ==
  /\ \A c \in inFlight : stage[c] \in {"running", "settled", "broken", "committed"}
  /\ At("running") \subseteq inFlight
  /\ At("broken") # {} => failure
  /\ at \notin Ended => At("broken") \subseteq inFlight
  /\ at \notin Ended /\ failure => \E c \in inFlight : stage[c] = "broken"
  /\ at \in Ended => failure
  /\ at = "threw" => At("running") = {}

(* The pool keeps to its limit, and a start is only prepared below it.     *)
Limit ==
  /\ Cardinality(inFlight) <= MaxParallel
  /\ at = "preparing" => Cardinality(inFlight) < MaxParallel

(* The next result to commit is still in the pool while the pool is        *)
(* awaited, so that an empty pool is a committed one.                      *)
NextPooled ==
  at \in {"resuming", "racing"} /\ committed < started => committed + 1 \in inFlight

(* Between groups everything is settled.                                   *)
BetweenGroups == at \in {"classify", "returned"} => inFlight = {} /\ committed = started

(* An exclusive group holds one call; a parallel one only parallel calls.  *)
Grouped ==
  /\ groupMode = "exclusive" => Busy \subseteq {started}
  /\ groupMode = "parallel" => \A c \in Busy : startedAs[c] = "parallel"

Control == Cursors /\ Pool /\ Limit /\ NextPooled /\ BetweenGroups /\ Grouped

(* The log holds a call for every started call and a result for every      *)
(* committed one; a failed commit may leave one result more.               *)
LogExact ==
  /\ \A c \in Batch : c <= started => Logged(Call(c))
  /\ \A c \in Batch : c <= committed => Logged(Result(c))
  /\ at # "returned" => \A k \in DOMAIN log : log[k].call <= started
  /\ at # "returned" => \A k \in DOMAIN log :
       log[k].kind = "tool/result" => stage[log[k].call] \in {"settled", "committed"}
  /\ at \notin Ended \cup {"returned"} => \A k \in DOMAIN log :
       log[k].kind = "tool/result" => log[k].call <= committed

History == LogExact /\ ModelOrder /\ ReturnAnswersAll

IInv == TypeOK /\ Control /\ History

-----------------------------------------------------------------------------
Events == [kind : {"tool/call", "tool/result"}, call : Batch]

(* The pool is finite, and adding or taking a call changes its size by at  *)
(* most one.                                                               *)
LEMMA PoolSize ==
  /\ Cardinality({}) = 0
  /\ \A S \in SUBSET Batch :
       /\ Cardinality(S) \in Nat
       /\ \A T \in SUBSET S : Cardinality(T) <= Cardinality(S)
       /\ \A c \in Batch : Cardinality(S \cup {c}) <= Cardinality(S) + 1
<1>1. IsFiniteSet(Batch)
  BY FS_Interval, ToolCallsAssumption DEF Batch
<1> SUFFICES ASSUME NEW S \in SUBSET Batch
             PROVE  /\ Cardinality(S) \in Nat
                    /\ \A T \in SUBSET S : Cardinality(T) <= Cardinality(S)
                    /\ \A c \in Batch : Cardinality(S \cup {c}) <= Cardinality(S) + 1
  BY FS_EmptySet
<1>2. IsFiniteSet(S)
  BY <1>1, FS_Subset
<1>3. Cardinality(S) \in Nat
  BY <1>2, FS_CardinalityType
<1>4. ASSUME NEW T \in SUBSET S PROVE Cardinality(T) <= Cardinality(S)
  BY <1>2, FS_Subset
<1>5. ASSUME NEW c \in Batch PROVE Cardinality(S \cup {c}) <= Cardinality(S) + 1
  <2>1. CASE c \in S
    <3>1. S \cup {c} = S
      BY <2>1
    <3>2. Cardinality(S \cup {c}) = Cardinality(S)
      BY <3>1, Zenon
    <3> QED BY <3>2, <1>3
  <2>2. CASE c \notin S
    <3>1. Cardinality(S \cup {c}) = Cardinality(S) + 1
      BY <2>2, <1>2, FS_AddElement, Zenon
    <3> QED BY <3>1, <1>3
  <2> QED BY <2>1, <2>2
<1> QED BY <1>3, <1>4, <1>5

(* The fields of the two kinds of events.                                  *)
LEMMA EventFields ==
  \A c \in Batch :
    /\ Call(c) \in Events /\ Call(c).kind = "tool/call" /\ Call(c).call = c
    /\ Result(c) \in Events /\ Result(c).kind = "tool/result" /\ Result(c).call = c
    /\ Call(c) # Result(c)
BY DEF Call, Result, Events

(* What an aborted batch appends: for each call that was never started its *)
(* call and its result, in model order.                                    *)
LEMMA SkippedOrder ==
  ASSUME NEW from \in 0..Calls
  PROVE  LET S == SkippedPairs(from) IN
         /\ S \in Seq(Events) /\ Len(S) = 2 * (Calls - from)
         /\ \A k \in 1..Len(S) : S[k].call > from
         /\ \A j, k \in 1..Len(S) : j < k /\ S[j].kind = S[k].kind => S[j].call < S[k].call
         /\ \A k \in 1..Len(S) : S[k].kind = "tool/result" =>
              k - 1 \in 1..Len(S) /\ S[k - 1] = Call(S[k].call)
         /\ \A c \in Batch : c > from =>
              2 * (c - from) \in 1..Len(S) /\ S[2 * (c - from)] = Result(c)
<1> DEFINE N == 2 * (Calls - from)
<1> DEFINE S == SkippedPairs(from)
<1>1. N \in Nat /\ Calls \in Nat
  BY ToolCallsAssumption
<1>2. ASSUME NEW k \in 1..N
      PROVE  /\ k % 2 = 1 => S[k] = Call(from + (k + 1) \div 2) /\ from + (k + 1) \div 2 \in Batch
                             /\ from + (k + 1) \div 2 > from
             /\ k % 2 # 1 => S[k] = Result(from + k \div 2) /\ from + k \div 2 \in Batch
                             /\ from + k \div 2 > from
  BY <1>1, <1>2 DEF SkippedPairs, Batch
<1>s. S \in Seq(Events) /\ Len(S) = N
  <2>1. \A k \in 1..N : S[k] \in Events
    BY <1>2, EventFields
  <2> QED BY <1>1, <2>1 DEF SkippedPairs
<1> HIDE DEF S, N
<1>e. ASSUME NEW k \in 1..N
      PROVE  /\ S[k].call > from
             /\ S[k].kind = "tool/call" => k % 2 = 1 /\ S[k].call = from + (k + 1) \div 2
             /\ S[k].kind = "tool/result" => k % 2 # 1 /\ S[k].call = from + k \div 2
             /\ S[k].kind \in {"tool/call", "tool/result"}
  <2>1. CASE k % 2 = 1
    BY <2>1, <1>2, EventFields
  <2>2. CASE k % 2 # 1
    BY <2>2, <1>2, EventFields
  <2> QED BY <2>1, <2>2
<1>6. ASSUME NEW j \in 1..N, NEW k \in 1..N, j < k, S[j].kind = S[k].kind
      PROVE  S[j].call < S[k].call
  <2>1. CASE S[j].kind = "tool/call"
    <3>1. S[j].call = from + (j + 1) \div 2 /\ S[k].call = from + (k + 1) \div 2
          /\ j % 2 = 1 /\ k % 2 = 1
      BY <2>1, <1>e, <1>6
    <3> QED BY <3>1, <1>1, <1>6 DEF N
  <2>2. CASE S[j].kind = "tool/result"
    <3>1. S[j].call = from + j \div 2 /\ S[k].call = from + k \div 2
          /\ j % 2 # 1 /\ k % 2 # 1
      BY <2>2, <1>e, <1>6
    <3> QED BY <3>1, <1>1, <1>6 DEF N
  <2> QED BY <2>1, <2>2, <1>e
<1>7. ASSUME NEW k \in 1..N, S[k].kind = "tool/result"
      PROVE  k - 1 \in 1..N /\ S[k - 1] = Call(S[k].call)
  <2>1. k % 2 # 1 /\ S[k].call = from + k \div 2
    BY <1>e, <1>7
  <2>2. k - 1 \in 1..N /\ (k - 1) % 2 = 1 /\ k \div 2 = ((k - 1) + 1) \div 2
    BY <2>1, <1>1 DEF N
  <2> QED BY <2>1, <2>2, <1>2
<1>8. ASSUME NEW c \in Batch, c > from
      PROVE  2 * (c - from) \in 1..N /\ S[2 * (c - from)] = Result(c)
  <2>1. 2 * (c - from) \in 1..N /\ (2 * (c - from)) % 2 # 1
        /\ from + (2 * (c - from)) \div 2 = c
    BY <1>1, <1>8 DEF Batch, N
  <2> QED BY <2>1, <1>2
<1> QED BY <1>s, <1>e, <1>6, <1>7, <1>8 DEF S, N

-----------------------------------------------------------------------------
(* Every variable keeps its type.                                          *)
LEMMA TypeStep == TypeOK /\ Cursors /\ [Next]_vars => TypeOK'
<1> SUFFICES ASSUME TypeOK, Cursors, [Next]_vars PROVE TypeOK'
  OBVIOUS
<1>a. log \in Seq(Events)
  BY DEF TypeOK, Events
<1>c. ASSUME NEW e \in Events PROVE Append(log, e) \in Seq(Events)
  BY <1>a
<1>b. ASSUME Start, started < Calls
      PROVE  /\ started' \in 0..Calls /\ log' \in Seq(Events) /\ stage' \in [Batch -> Stages]
             /\ startedAs' \in [Batch -> Modes \cup {"none"}] /\ at' = "preparing"
  <2>1. started + 1 \in Batch
    BY <1>b, ToolCallsAssumption DEF TypeOK, Batch
  <2>2. mode[started + 1] \in Modes
    BY <2>1 DEF TypeOK
  <2>3. log' \in Seq(Events)
    BY <2>1, <1>b, <1>c, EventFields DEF Start
  <2>4. started' \in 0..Calls
    BY <2>1, <1>b DEF Start, Batch
  <2>5. stage' \in [Batch -> Stages] /\ startedAs' \in [Batch -> Modes \cup {"none"}]
    BY <2>1, <2>2, <1>b DEF Start, TypeOK, Stages
  <2> QED BY <2>3, <2>4, <2>5, <1>b DEF Start
<1>d. ASSUME SkipRest
      PROVE  /\ started' \in 0..Calls /\ log' \in Seq(Events) /\ stage' \in [Batch -> Stages]
             /\ startedAs' \in [Batch -> Modes \cup {"none"}] /\ at' = "returned"
  <2>1. SkippedPairs(started) \in Seq(Events)
    BY SkippedOrder DEF TypeOK
  <2>2. log' \in Seq(Events)
    BY <2>1, <1>a, <1>d, ConcatProperties DEF SkipRest
  <2> QED BY <2>2, <1>d DEF SkipRest, TypeOK, Stages
<1>1. CASE Cancel
  BY <1>1 DEF Cancel, TypeOK
<1>2. CASE \E c \in Batch : Reclassify(c)
  BY <1>2 DEF Reclassify, TypeOK, Modes
<1>3. CASE Body
  BY <1>3 DEF Body, Settle, TypeOK, Stages
<1>4. CASE OpenGroup
  <2>1. CASE started = Calls /\ at' = "returned" /\ UNCHANGED <<groupMode, started, stage, startedAs, log, aborted>>
    BY <1>4, <2>1 DEF OpenGroup, TypeOK
  <2>2. CASE /\ started < Calls /\ groupMode' = mode[started + 1] /\ aborted' = signal
             /\ IF signal THEN SkipRest ELSE Start
    <3>1. groupMode' \in Modes
      BY <2>2, ToolCallsAssumption DEF TypeOK, Batch
    <3>2. CASE SkipRest
      BY <3>1, <3>2, <2>2, <1>4, <1>d DEF OpenGroup, TypeOK, Events
    <3>3. CASE Start
      <4>1. /\ started' \in 0..Calls /\ log' \in Seq(Events) /\ stage' \in [Batch -> Stages]
            /\ startedAs' \in [Batch -> Modes \cup {"none"}] /\ at' = "preparing"
        BY <1>b, <2>2, <3>3
      <4> QED BY <4>1, <3>1, <2>2, <1>4 DEF OpenGroup, TypeOK, Events
    <3> QED BY <3>2, <3>3, <2>2
  <2> QED BY <2>1, <2>2, <1>4 DEF OpenGroup
<1>5. CASE Prepared
  <2>1. stage' \in [Batch -> Stages] /\ at' \in {"committing", "draining"} /\ failure' \in BOOLEAN
    BY <1>5 DEF Prepared, TypeOK, Stages
  <2>2. started \in Batch
    BY <1>5 DEF Prepared, Cursors, Live, Batch, TypeOK
  <2>3. inFlight' \in SUBSET Batch
    BY <2>2, <1>5 DEF Prepared, TypeOK
  <2> QED BY <2>1, <2>3, <1>5 DEF Prepared, TypeOK
<1>6. CASE Commit
  <2>0. failure' \in BOOLEAN /\ at' \in {"committing", "draining", "resuming"}
    BY <1>6 DEF Commit, TypeOK
  <2>1. CASE \E c \in ReadyToCommit : /\ log' = Append(log, Result(c))
                                       /\ stage' = [stage EXCEPT ![c] = "committed"]
                                       /\ committed' = committed + 1
                                       /\ UNCHANGED <<at, failure>>
    <3>1. PICK c \in ReadyToCommit : /\ log' = Append(log, Result(c))
                                     /\ stage' = [stage EXCEPT ![c] = "committed"]
                                     /\ committed' = committed + 1
      BY <2>1
    <3>2. c \in Batch /\ c = committed + 1
      BY DEF ReadyToCommit
    <3>3. log' \in Seq(Events)
      BY <3>1, <3>2, <1>c, EventFields
    <3>4. committed' \in 0..Calls
      BY <3>1, <3>2 DEF Batch
    <3>5. stage' \in [Batch -> Stages]
      BY <3>1, <3>2 DEF TypeOK, Stages
    <3> QED BY <2>0, <3>3, <3>4, <3>5, <1>6 DEF Commit, TypeOK, Events
  <2>2. CASE /\ ReadyToCommit # {} /\ log' \in {log, Append(log, Result(committed + 1))}
             /\ UNCHANGED <<stage, committed>>
    <3>1. committed + 1 \in Batch
      BY <2>2 DEF ReadyToCommit
    <3>2. log' \in Seq(Events)
      BY <2>2, <3>1, <1>a, <1>c, EventFields
    <3> QED BY <2>0, <2>2, <3>2, <1>6 DEF Commit, TypeOK, Events
  <2>3. CASE UNCHANGED <<log, stage, committed>>
    BY <2>0, <2>3, <1>6 DEF Commit, TypeOK
  <2> QED BY <2>1, <2>2, <2>3, <1>6 DEF Commit
<1>7. CASE Resume
  <2>1. aborted' \in BOOLEAN
    BY <1>7 DEF Resume, Observed, TypeOK
  <2>2. CASE at' \in {"draining", "racing"} /\ UNCHANGED <<started, stage, startedAs, log>>
    BY <2>1, <2>2, <1>7 DEF Resume, TypeOK
  <2>3. CASE Room(Observed) /\ Start
    <3>1. started < Calls
      BY <2>3 DEF Room
    <3> QED BY <2>1, <2>3, <3>1, <1>b, <1>7 DEF Resume, TypeOK, Events
  <2> QED BY <2>2, <2>3, <1>7 DEF Resume
<1>8. CASE Race
  BY <1>8 DEF Race, Taken, TypeOK
<1>9. CASE CloseGroup
  <2>1. CASE SkipRest
    BY <2>1, <1>d, <1>9 DEF CloseGroup, TypeOK, Events
  <2>2. CASE at' = "classify" /\ UNCHANGED <<started, stage, startedAs, log>>
    BY <2>2, <1>9 DEF CloseGroup, TypeOK
  <2> QED BY <2>1, <2>2, <1>9 DEF CloseGroup
<1>10. CASE Surface
  BY <1>10 DEF Surface, TypeOK
<1>11. CASE UNCHANGED vars
  BY <1>11 DEF vars, TypeOK
<1> QED BY <1>1, <1>2, <1>3, <1>4, <1>5, <1>6, <1>7, <1>8, <1>9, <1>10, <1>11
        DEF Next, Scheduler

-----------------------------------------------------------------------------
(* Starting the next call keeps the control invariant: the pool has room,  *)
(* and the group it joins is empty or parallel like the call.              *)
LEMMA StartControl ==
  ASSUME TypeOK, Control, Start, started < Calls, at \in {"classify", "resuming"},
         Cardinality(inFlight) < MaxParallel, UNCHANGED <<committed, failure, inFlight>>,
         groupMode' \in Modes,
         groupMode' = "exclusive" => Busy = {},
         groupMode' = "parallel" => /\ mode[started + 1] = "parallel"
                                    /\ \A c \in Busy : startedAs[c] = "parallel"
  PROVE  Control'
<1>1. /\ started \in Nat /\ committed \in Nat /\ started + 1 \in Batch /\ committed <= started
      /\ started' = started + 1 /\ at' = "preparing"
  BY ToolCallsAssumption DEF TypeOK, Batch, Control, Cursors, Start
<1>2. /\ stage' = [stage EXCEPT ![started + 1] = "preparing"] /\ stage[started + 1] = "waiting"
      /\ stage \in [Batch -> Stages]
  BY <1>1 DEF Start, TypeOK, Control, Cursors
<1>3. Cursors'
  BY <1>1, <1>2 DEF Control, Cursors, Live, Ended, Batch
<1>4. Pool'
  <2>1. At("running")' = At("running") /\ At("broken")' = At("broken")
    BY <1>2 DEF At
  <2>2. \A c \in inFlight : stage'[c] \in {"running", "settled", "broken", "committed"}
    BY <1>2 DEF Control, Pool, TypeOK
  <2>3. at' \notin Ended /\ at \notin Ended /\ at' # "threw"
    BY <1>1 DEF Ended
  <2>4. failure => \E c \in inFlight : stage'[c] = "broken"
    BY <1>2, <2>3 DEF Control, Pool, TypeOK
  <2> QED BY <2>1, <2>2, <2>3, <2>4 DEF Control, Pool
<1>5. Limit'
  <2>1. Cardinality(inFlight) \in Nat /\ inFlight' = inFlight
    BY PoolSize DEF TypeOK
  <2> QED BY <2>1, ToolCallsAssumption DEF Limit
<1>6. NextPooled' /\ BetweenGroups'
  BY <1>1 DEF NextPooled, BetweenGroups
<1>7. Grouped'
  <2>1. Busy' = Busy \cup {started'}
    BY <1>1, <1>2 DEF Busy, At
  <2>2. CASE groupMode' = "exclusive"
    BY <2>1, <2>2 DEF Grouped
  <2>3. CASE groupMode' = "parallel"
    BY <1>1, <2>1, <2>3 DEF Start, Grouped, TypeOK
  <2> QED BY <2>2, <2>3 DEF Modes
<1> QED BY <1>3, <1>4, <1>5, <1>6, <1>7 DEF Control

(* The control invariant is inductive.                                     *)
LEMMA ControlStep == TypeOK /\ TypeOK' /\ Control /\ [Next]_vars => Control'
<1> SUFFICES ASSUME TypeOK, TypeOK', Control, [Next]_vars PROVE Control'
  OBVIOUS
<1>a. ASSUME inFlight' \in SUBSET inFlight, at' # "preparing" PROVE Limit'
  <2>1. Cardinality(inFlight') <= Cardinality(inFlight) /\ Cardinality(inFlight) \in Nat
        /\ Cardinality(inFlight') \in Nat
    BY <1>a, PoolSize DEF TypeOK
  <2> QED BY <1>a, <2>1, ToolCallsAssumption DEF Control, Limit
<1>b. ASSUME Busy' \subseteq Busy, UNCHANGED <<groupMode, started, startedAs>> PROVE Grouped'
  BY <1>b DEF Control, Grouped
<1>1. CASE Cancel \/ (\E c \in Batch : Reclassify(c)) \/ UNCHANGED vars
  BY <1>1 DEF Cancel, Reclassify, vars, Control, Cursors, Pool, Limit, NextPooled,
              BetweenGroups, Grouped, Busy, At
<1>2. CASE Body
  <2> PICK c \in Batch : Settle(c)
    BY <1>2 DEF Body
  <2>1. UNCHANGED <<at, groupMode, started, committed, inFlight, startedAs>>
    BY DEF Settle
  <2>2. Cursors'
    BY <2>1 DEF Settle, Control, Cursors, TypeOK
  <2>3. Pool'
    BY <2>1 DEF Settle, Control, Pool, At, TypeOK
  <2>4. Limit' /\ NextPooled' /\ BetweenGroups'
    BY <2>1 DEF Control, Limit, NextPooled, BetweenGroups
  <2>5. Busy' \subseteq Busy
    BY DEF Settle, Busy, At, TypeOK
  <2> QED BY <1>b, <2>1, <2>2, <2>3, <2>4, <2>5 DEF Control
<1>3. CASE OpenGroup
  <2>1. /\ inFlight = {} /\ committed = started /\ at = "classify" /\ ~failure
        /\ UNCHANGED <<committed, failure, inFlight>>
    BY <1>3 DEF OpenGroup, Control, BetweenGroups, Pool, Ended
  <2>2. Busy = {}
    BY <2>1 DEF Control, Pool, Cursors, Busy, At
  <2>3. CASE started < Calls /\ groupMode' = mode[started + 1] /\ Start
    <3>1. Cardinality(inFlight) < MaxParallel
      <4>1. Cardinality(inFlight) = 0
        BY <2>1, PoolSize, Zenon
      <4> QED BY <4>1, ToolCallsAssumption
    <3>2. groupMode' \in Modes
      BY DEF TypeOK
    <3>3. /\ groupMode' = "exclusive" => Busy = {}
          /\ groupMode' = "parallel" => /\ mode[started + 1] = "parallel"
                                        /\ \A c \in Busy : startedAs[c] = "parallel"
      BY <2>2, <2>3
    <3>4. at \in {"classify", "resuming"} /\ started < Calls /\ Start
      BY <2>1, <2>3
    <3> QED BY <2>1, <3>1, <3>2, <3>3, <3>4, StartControl
  <2>4. CASE at' = "returned" /\ started' = started /\ startedAs' = startedAs
             /\ \A c \in Batch : stage'[c] = stage[c] \/ (c > started /\ stage'[c] = "skipped")
    <3>1. Cursors'
      BY <2>1, <2>4, ToolCallsAssumption DEF Control, Cursors, Live, Ended, TypeOK, Batch
    <3>2. Pool'
      BY <2>1, <2>4 DEF Control, Pool, At, Ended
    <3>3. Limit' /\ NextPooled' /\ BetweenGroups'
      BY <1>a, <2>1, <2>4 DEF NextPooled, BetweenGroups
    <3>4. Busy' = {}
      BY <2>2, <2>4 DEF Busy, At
    <3>5. Grouped'
      BY <3>4 DEF Grouped
    <3> QED BY <3>1, <3>2, <3>3, <3>5 DEF Control
  <2> QED BY <1>3, <2>3, <2>4 DEF OpenGroup, SkipRest, TypeOK
<1>4. CASE Prepared
  <2>1. /\ at = "preparing" /\ at' \in {"committing", "draining"}
        /\ started \in Batch /\ stage[started] = "preparing" /\ committed < started
        /\ UNCHANGED <<groupMode, started, committed, startedAs>>
    BY <1>4 DEF Prepared, Control, Cursors, Live, Batch, TypeOK
  <2>2. Cursors'
    BY <1>4, <2>1 DEF Prepared, Control, Cursors, Live, Ended, TypeOK
  <2>3. Pool'
    BY <1>4, <2>1 DEF Prepared, Control, Pool, At, Ended, TypeOK
  <2>4. Limit'
    <3>1. CASE inFlight' = inFlight
      BY <3>1, <1>a, <2>1
    <3>2. CASE inFlight' = inFlight \cup {started}
      <4>1. Cardinality(inFlight) \in Nat /\ Cardinality(inFlight') <= Cardinality(inFlight) + 1
            /\ Cardinality(inFlight') \in Nat
        BY <2>1, <3>2, PoolSize DEF TypeOK
      <4>2. Cardinality(inFlight) < MaxParallel
        BY <2>1 DEF Control, Limit
      <4> QED BY <2>1, <4>1, <4>2, ToolCallsAssumption DEF Limit
    <3> QED BY <3>1, <3>2, <1>4 DEF Prepared
  <2>5. NextPooled' /\ BetweenGroups'
    BY <2>1 DEF NextPooled, BetweenGroups
  <2>6. Busy' \subseteq Busy
    BY <1>4, <2>1 DEF Prepared, Busy, At, TypeOK
  <2> QED BY <1>b, <2>1, <2>2, <2>3, <2>4, <2>5, <2>6 DEF Control
<1>5. CASE Commit
  <2>1. /\ at = "committing" /\ UNCHANGED <<groupMode, started, inFlight, startedAs>>
        /\ at' \in {"committing", "resuming", "draining"}
    BY <1>5 DEF Commit
  <2>2. Cursors'
    BY <1>5, <2>1, ToolCallsAssumption
    DEF Commit, ReadyToCommit, Control, Cursors, Live, Ended, TypeOK, Batch
  <2>3. Pool'
    <3>1. At("running")' = At("running") /\ At("broken")' = At("broken")
      BY <1>5 DEF Commit, ReadyToCommit, At, TypeOK
    <3>2. \A c \in inFlight : stage'[c] \in {"running", "settled", "broken", "committed"}
      BY <1>5 DEF Commit, ReadyToCommit, Control, Pool, TypeOK
    <3>3. \/ at' = "draining" /\ failure' = TRUE
          \/ at' \in {"committing", "resuming"} /\ failure' = failure
      BY <1>5, <2>1 DEF Commit
    <3>4. \A c \in inFlight : stage[c] = "broken" => stage'[c] = "broken"
      BY <3>1 DEF At, TypeOK
    <3> QED BY <2>1, <3>1, <3>2, <3>3, <3>4 DEF Control, Pool, Ended
  <2>4. NextPooled'
    <3>1. CASE at' = "resuming" /\ ReadyToCommit = {} /\ UNCHANGED <<stage, committed>>
      <4>1. SUFFICES ASSUME committed < started
                     PROVE  committed + 1 \in inFlight
        BY <2>1, <3>1 DEF NextPooled
      <4>2. committed + 1 \in Batch /\ committed + 1 <= started /\ ~(committed + 1 <= committed)
        BY <4>1, ToolCallsAssumption DEF TypeOK, Batch
      <4>3. stage[committed + 1] # "settled"
        BY <3>1, <4>2 DEF ReadyToCommit
      <4>4. stage[committed + 1] \in {"running", "broken"}
        BY <2>1, <4>2, <4>3 DEF Control, Cursors, Ended, TypeOK, Stages
      <4> QED BY <2>1, <4>2, <4>4 DEF Control, Pool, At, Ended
    <3>2. CASE at' \in {"committing", "draining"}
      BY <3>2 DEF NextPooled
    <3> QED BY <3>1, <3>2, <1>5 DEF Commit
  <2>5. Limit' /\ BetweenGroups'
    BY <1>a, <2>1 DEF BetweenGroups
  <2>6. Busy' \subseteq Busy
    BY <1>5 DEF Commit, ReadyToCommit, Busy, At, TypeOK
  <2> QED BY <1>b, <2>1, <2>2, <2>3, <2>4, <2>5, <2>6 DEF Control
<1>6. CASE Resume
  <2>1. at = "resuming" /\ UNCHANGED <<groupMode, committed, failure, inFlight>>
    BY <1>6 DEF Resume
  <2>2. CASE Room(Observed) /\ Start
    <3>1. started < Calls /\ Cardinality(inFlight) < MaxParallel
          /\ groupMode' = "parallel" /\ mode[started + 1] = "parallel"
      BY <2>1, <2>2 DEF Room
    <3>2. \A c \in Busy : startedAs[c] = "parallel"
      BY <2>1, <3>1 DEF Control, Grouped
    <3> QED BY <2>1, <2>2, <3>1, <3>2, StartControl DEF Modes
  <2>3. CASE /\ UNCHANGED <<started, stage, startedAs>>
             /\ at' = "racing" \/ (at' = "draining" /\ failure)
    <3>1. Cursors'
      BY <2>1, <2>3 DEF Control, Cursors, Live, Ended
    <3>2. Pool'
      BY <2>1, <2>3 DEF Control, Pool, At, Ended
    <3>3. Limit' /\ NextPooled' /\ BetweenGroups'
      BY <1>a, <2>1, <2>3 DEF Control, NextPooled, BetweenGroups
    <3>4. Busy' \subseteq Busy
      BY <2>3 DEF Busy, At
    <3> QED BY <1>b, <2>1, <2>3, <3>1, <3>2, <3>3, <3>4 DEF Control
  <2> QED BY <1>6, <2>2, <2>3 DEF Resume
<1>7. CASE Race
  <2>1. /\ at = "racing" /\ at' = IF failure THEN "draining" ELSE "committing"
        /\ UNCHANGED <<groupMode, started, committed, failure, stage, startedAs>>
        /\ inFlight' \in SUBSET inFlight
    BY <1>7 DEF Race, Taken
  <2>2. Cursors'
    BY <2>1 DEF Control, Cursors, Live, Ended
  <2>3. Pool'
    <3>1. At("running") \subseteq inFlight'
      BY <1>7 DEF Race, Taken, Control, Pool, At
    <3> QED BY <2>1, <3>1 DEF Control, Pool, At, Ended
  <2>4. Limit' /\ NextPooled' /\ BetweenGroups'
    BY <1>a, <2>1 DEF NextPooled, BetweenGroups
  <2>5. Busy' \subseteq Busy
    BY <2>1 DEF Busy, At
  <2> QED BY <1>b, <2>1, <2>2, <2>3, <2>4, <2>5 DEF Control
<1>8. CASE CloseGroup
  <2>1. /\ at = "racing" /\ inFlight = {} /\ at' \in {"classify", "returned"}
        /\ UNCHANGED <<groupMode, started, committed, failure, inFlight, startedAs>>
    BY <1>8 DEF CloseGroup, SkipRest
  <2>2. committed = started /\ ~failure
    BY <2>1, ToolCallsAssumption DEF Control, Cursors, NextPooled, Pool, Ended, TypeOK
  <2>3. \A c \in Batch : \/ stage'[c] = stage[c]
                         \/ c > started /\ stage'[c] = "skipped" /\ at' = "returned"
    BY <1>8 DEF CloseGroup, SkipRest, TypeOK
  <2>4. Cursors'
    BY <2>1, <2>2, <2>3, ToolCallsAssumption DEF Control, Cursors, Live, Ended, TypeOK, Batch
  <2>5. Pool'
    BY <2>1, <2>2, <2>3 DEF Control, Pool, At, Ended
  <2>6. Limit' /\ NextPooled' /\ BetweenGroups'
    BY <1>a, <2>1, <2>2 DEF NextPooled, BetweenGroups
  <2>7. Busy' \subseteq Busy
    BY <2>3 DEF Busy, At
  <2> QED BY <1>b, <2>1, <2>4, <2>5, <2>6, <2>7 DEF Control
<1>9. CASE Surface
  <2>1. /\ at = "draining" /\ at' = "threw" /\ At("running") = {}
        /\ UNCHANGED <<groupMode, started, committed, failure, inFlight, stage, startedAs>>
    BY <1>9 DEF Surface, Drained, Control, Pool, At
  <2>2. Cursors' /\ Pool'
    BY <2>1 DEF Control, Cursors, Pool, At, Live, Ended
  <2>3. Limit' /\ NextPooled' /\ BetweenGroups'
    BY <1>a, <2>1 DEF NextPooled, BetweenGroups
  <2>4. Busy' \subseteq Busy
    BY <2>1 DEF Busy, At
  <2> QED BY <1>b, <2>1, <2>2, <2>3, <2>4 DEF Control
<1> QED BY <1>1, <1>2, <1>3, <1>4, <1>5, <1>6, <1>7, <1>8, <1>9 DEF Next, Scheduler

-----------------------------------------------------------------------------
(* The positions of an extended log.                                       *)
LEMMA LogAppend ==
  \A s \in Seq(Events), e \in Events :
    /\ Len(s) \in Nat /\ DOMAIN s = 1..Len(s) /\ DOMAIN Append(s, e) = 1..(Len(s) + 1)
    /\ \A k \in 1..Len(s) : Append(s, e)[k] = s[k] /\ s[k] \in Events
    /\ Append(s, e)[Len(s) + 1] = e
OBVIOUS

(* The positions of two logs put together.                                *)
LEMMA LogConcat ==
  \A s, t \in Seq(Events) :
    /\ Len(s) \in Nat /\ Len(t) \in Nat /\ DOMAIN s = 1..Len(s) /\ DOMAIN t = 1..Len(t)
    /\ DOMAIN (s \o t) = 1..(Len(s) + Len(t))
    /\ \A k \in 1..Len(s) : (s \o t)[k] = s[k] /\ s[k] \in Events
    /\ \A k \in 1..Len(t) : (s \o t)[Len(s) + k] = t[k] /\ t[k] \in Events
OBVIOUS

(* Recording the start of the next call keeps the log exact and ordered.   *)
LEMMA StartHistory ==
  ASSUME TypeOK, History, at # "returned", started < Calls, Start,
         at \notin Ended, UNCHANGED committed, stage[started + 1] = "waiting"
  PROVE  History'
<1>1. started \in Nat /\ committed \in Nat /\ started + 1 \in Batch /\ Calls \in Nat
  BY ToolCallsAssumption DEF TypeOK, Batch
<1>2. log \in Seq(Events)
  BY DEF TypeOK, Events
<1> DEFINE N == Len(log)
<1>3. /\ N \in Nat /\ DOMAIN log = 1..N /\ DOMAIN log' = 1..(N + 1)
      /\ \A k \in 1..N : log'[k] = log[k] /\ log[k] \in Events
      /\ log'[N + 1] = Call(started + 1)
  BY <1>1, <1>2, EventFields, LogAppend DEF Start
<1> HIDE DEF N
<1>4. /\ log'[N + 1].kind = "tool/call" /\ log'[N + 1].call = started + 1
      /\ started' = started + 1 /\ at' = "preparing"
  BY <1>1, <1>3, EventFields DEF Start
<1>5. \A k \in 1..N : log[k].call <= started /\ log[k].call \in Batch
  BY <1>3 DEF History, LogExact, Events
<1>6. \A k \in 1..N : log[k].kind = "tool/result" =>
        /\ log[k].call <= committed
        /\ stage[log[k].call] \in {"settled", "committed"}
  BY <1>3 DEF History, LogExact
<1>7. \A e : Logged(e) => Logged(e)'
  BY <1>3 DEF Logged
<1>8. LogExact'
  <2>1. \A c \in Batch : c <= started' => Logged(Call(c))'
    <3> SUFFICES ASSUME NEW c \in Batch, c <= started + 1 PROVE Logged(Call(c))'
      BY <1>4
    <3>1. CASE c <= started
      BY <3>1, <1>7 DEF History, LogExact
    <3>2. CASE c = started + 1
      BY <3>2, <1>3 DEF Logged
    <3> QED BY <3>1, <3>2, <1>1 DEF Batch
  <2>2. \A c \in Batch : c <= committed' => Logged(Result(c))'
    BY <1>7 DEF History, LogExact
  <2>3. \A k \in DOMAIN log' : log'[k].call <= started'
    BY <1>1, <1>3, <1>4, <1>5 DEF Batch
  <2>4. \A k \in DOMAIN log' : log'[k].kind = "tool/result" =>
          log'[k].call <= committed' /\ stage'[log'[k].call] \in {"settled", "committed"}
    <3> SUFFICES ASSUME NEW k \in 1..N, log[k].kind = "tool/result"
                 PROVE  log[k].call <= committed /\ stage'[log[k].call] = stage[log[k].call]
      BY <1>3, <1>4, <1>6
    <3>1. log[k].call \in Batch /\ log[k].call # started + 1
      BY <1>1, <1>5 DEF Batch
    <3> QED BY <3>1, <1>6 DEF Start, TypeOK
  <2> QED BY <2>1, <2>2, <2>3, <2>4 DEF LogExact
<1>9. ModelOrder'
  <2>1. ASSUME NEW j \in DOMAIN log', NEW k \in DOMAIN log', j < k, log'[j].kind = log'[k].kind
        PROVE  log'[j].call < log'[k].call
    <3>1. j \in 1..N
      BY <1>3, <2>1
    <3>2. CASE k \in 1..N
      BY <3>1, <3>2, <2>1, <1>3 DEF History, ModelOrder
    <3>3. CASE k = N + 1
      BY <3>1, <3>3, <1>1, <1>3, <1>4, <1>5 DEF Batch
    <3> QED BY <3>2, <3>3, <1>3
  <2>2. ASSUME NEW k \in DOMAIN log', log'[k].kind = "tool/result"
        PROVE  \E j \in DOMAIN log' : j < k /\ log'[j] = Call(log'[k].call)
    <3>1. k \in 1..N /\ log'[k] = log[k]
      BY <1>3, <1>4, <2>2
    <3>2. PICK j \in 1..N : j < k /\ log[j] = Call(log[k].call)
      BY <3>1, <2>2, <1>3 DEF History, ModelOrder
    <3> QED BY <3>1, <3>2, <1>3
  <2> QED BY <2>1, <2>2 DEF ModelOrder
<1> QED BY <1>4, <1>8, <1>9 DEF History, ReturnAnswersAll

(* Recording the next result keeps it too, also when finishing that commit *)
(* fails after the append.                                                 *)
LEMMA ResultHistory ==
  ASSUME TypeOK, History, at = "committing", NEW c \in Batch,
         c = committed + 1, c <= started, stage[c] = "settled",
         log' = Append(log, Result(c)), UNCHANGED started,
         \/ committed' = c /\ UNCHANGED at /\ stage' = [stage EXCEPT ![c] = "committed"]
         \/ at' = "draining" /\ UNCHANGED <<stage, committed>>
  PROVE  History'
<1>1. started \in Nat /\ committed \in Nat /\ c \in Nat
  BY ToolCallsAssumption DEF TypeOK, Batch
<1>2. log \in Seq(Events)
  BY DEF TypeOK, Events
<1> DEFINE N == Len(log)
<1>3. /\ N \in Nat /\ DOMAIN log = 1..N /\ DOMAIN log' = 1..(N + 1)
      /\ \A k \in 1..N : log'[k] = log[k] /\ log[k] \in Events
      /\ log'[N + 1] = Result(c)
  BY <1>2, EventFields, LogAppend
<1> HIDE DEF N
<1>4. /\ log'[N + 1].kind = "tool/result" /\ log'[N + 1].call = c
      /\ Result(c).kind # "tool/call"
  BY <1>3, EventFields
<1>5. \A k \in 1..N : log[k].call <= started /\ log[k].call \in Batch
  BY <1>3 DEF History, LogExact, Events
<1>6. \A k \in 1..N : log[k].kind = "tool/result" =>
        /\ log[k].call <= committed
        /\ stage[log[k].call] \in {"settled", "committed"}
  BY <1>3 DEF History, LogExact, Ended
<1>7. \A e : Logged(e) => Logged(e)'
  BY <1>3 DEF Logged
<1>8. Logged(Call(c)) /\ Logged(Result(c))'
  BY <1>3 DEF History, LogExact, Logged
<1>9. \A b \in Batch : stage[b] \in {"settled", "committed"} => stage'[b] \in {"settled", "committed"}
  BY DEF TypeOK
<1>10. LogExact'
  <2>1. \A b \in Batch : b <= started' => Logged(Call(b))'
    BY <1>7 DEF History, LogExact
  <2>2. \A b \in Batch : b <= committed' => Logged(Result(b))'
    <3> SUFFICES ASSUME NEW b \in Batch, b <= committed' PROVE Logged(Result(b))'
      OBVIOUS
    <3>1. CASE b <= committed
      BY <3>1, <1>7 DEF History, LogExact
    <3>2. CASE b = c
      BY <3>2, <1>8
    <3> QED BY <3>1, <3>2, <1>1 DEF Batch
  <2>3. \A k \in DOMAIN log' : log'[k].call <= started'
    BY <1>1, <1>3, <1>4, <1>5
  <2>4. \A k \in DOMAIN log' : log'[k].kind = "tool/result" =>
          stage'[log'[k].call] \in {"settled", "committed"}
    <3> SUFFICES ASSUME NEW k \in DOMAIN log', log'[k].kind = "tool/result"
                 PROVE  stage'[log'[k].call] \in {"settled", "committed"}
      OBVIOUS
    <3>1. CASE k \in 1..N
      <4>1. log'[k] = log[k]
        BY <3>1, <1>3
      <4> QED BY <3>1, <4>1, <1>5, <1>6, <1>9
    <3>2. CASE k = N + 1
      BY <3>2, <1>4, <1>9
    <3> QED BY <3>1, <3>2, <1>3
  <2>5. at' \notin Ended \cup {"returned"} => \A k \in DOMAIN log' :
          log'[k].kind = "tool/result" => log'[k].call <= committed'
    BY <1>1, <1>3, <1>4, <1>5, <1>6 DEF Ended, Batch
  <2> QED BY <2>1, <2>2, <2>3, <2>4, <2>5 DEF LogExact
<1>11. ModelOrder'
  <2>1. ASSUME NEW j \in DOMAIN log', NEW k \in DOMAIN log', j < k, log'[j].kind = log'[k].kind
        PROVE  log'[j].call < log'[k].call
    <3>1. j \in 1..N
      BY <1>3, <2>1
    <3>2. CASE k \in 1..N
      BY <3>1, <3>2, <2>1, <1>3 DEF History, ModelOrder
    <3>3. CASE k = N + 1
      BY <3>1, <3>3, <2>1, <1>1, <1>3, <1>4, <1>5, <1>6 DEF Batch
    <3> QED BY <3>2, <3>3, <1>3
  <2>2. ASSUME NEW k \in DOMAIN log', log'[k].kind = "tool/result"
        PROVE  \E j \in DOMAIN log' : j < k /\ log'[j] = Call(log'[k].call)
    <3>1. CASE k \in 1..N
      <4>1. PICK j \in 1..N : j < k /\ log[j] = Call(log[k].call)
        BY <3>1, <2>2, <1>3 DEF History, ModelOrder
      <4> QED BY <3>1, <4>1, <1>3
    <3>2. CASE k = N + 1
      <4>1. PICK j \in 1..N : log[j] = Call(c)
        BY <1>3, <1>8 DEF Logged
      <4> QED BY <3>2, <4>1, <1>3, <1>4
    <3> QED BY <3>1, <3>2, <1>3
  <2> QED BY <2>1, <2>2 DEF ModelOrder
<1> QED BY <1>10, <1>11 DEF History, ReturnAnswersAll

(* Answering the calls an abort skipped completes the log: every call of   *)
(* the batch has its result, still in model order.                         *)
LEMMA SkipHistory ==
  ASSUME TypeOK, History, at \notin Ended \cup {"returned"}, committed = started,
         At("running")' = {}, SkipRest, UNCHANGED committed
  PROVE  History'
<1>1. started \in 0..Calls /\ started \in Nat /\ Calls \in Nat
  BY ToolCallsAssumption DEF TypeOK
<1>2. log \in Seq(Events)
  BY DEF TypeOK, Events
<1> DEFINE N == Len(log)
<1> DEFINE S == SkippedPairs(started)
<1> DEFINE M == Len(S)
<1>3. /\ S \in Seq(Events)
      /\ \A k \in 1..M : S[k].call > started
      /\ \A j, k \in 1..M : j < k /\ S[j].kind = S[k].kind => S[j].call < S[k].call
      /\ \A k \in 1..M : S[k].kind = "tool/result" =>
           k - 1 \in 1..M /\ S[k - 1] = Call(S[k].call)
      /\ \A c \in Batch : c > started =>
           2 * (c - started) \in 1..M /\ S[2 * (c - started)] = Result(c)
  BY <1>1, SkippedOrder
<1>4. /\ N \in Nat /\ M \in Nat /\ DOMAIN log = 1..N /\ DOMAIN log' = 1..(N + M)
      /\ \A k \in 1..N : log'[k] = log[k] /\ log[k] \in Events
      /\ \A k \in 1..M : log'[N + k] = S[k] /\ S[k] \in Events
  BY <1>2, <1>3, LogConcat DEF SkipRest
<1> HIDE DEF N, S, M
<1>5. \A k \in 1..N : log[k].call <= started /\ log[k].call \in Batch
  BY <1>4 DEF History, LogExact, Events
<1>6. \A e : Logged(e) => Logged(e)'
  BY <1>4 DEF Logged
<1>7. \A k \in (N + 1)..(N + M) : k - N \in 1..M /\ log'[k] = S[k - N]
                                 /\ S[k - N].call \in Batch
  BY <1>4 DEF Events
<1>8. at' = "returned" /\ started' = started /\ committed' = committed
  BY DEF SkipRest
<1>9. ASSUME NEW c \in Batch PROVE Logged(Result(c))'
  <2>1. CASE c <= started
    BY <2>1, <1>6 DEF History, LogExact
  <2>2. CASE c > started
    <3>1. 2 * (c - started) \in 1..M /\ S[2 * (c - started)] = Result(c)
      BY <2>2, <1>3
    <3>2. N + 2 * (c - started) \in DOMAIN log' /\ log'[N + 2 * (c - started)] = Result(c)
      BY <3>1, <1>4
    <3> QED BY <3>2 DEF Logged
  <2> QED BY <2>1, <2>2, <1>1 DEF Batch
<1>10. LogExact'
  BY <1>6, <1>8, <1>9 DEF History, LogExact
<1>11. ModelOrder'
  <2>1. ASSUME NEW j \in DOMAIN log', NEW k \in DOMAIN log', j < k, log'[j].kind = log'[k].kind
        PROVE  log'[j].call < log'[k].call
    <3>1. CASE k \in 1..N
      <4>1. j \in 1..N
        BY <3>1, <2>1, <1>4
      <4> QED BY <3>1, <4>1, <2>1, <1>4 DEF History, ModelOrder
    <3>2. CASE k \notin 1..N /\ j \in 1..N
      <4>1. k \in (N + 1)..(N + M)
        BY <3>2, <1>4
      <4>2. log'[k].call > started /\ log'[k].call \in Batch
        BY <4>1, <1>3, <1>7
      <4>3. log'[j].call <= started /\ log'[j].call \in Batch
        BY <3>2, <1>4, <1>5
      <4> QED BY <4>2, <4>3, <1>1 DEF Batch
    <3>3. CASE k \notin 1..N /\ j \notin 1..N
      <4>1. k \in (N + 1)..(N + M) /\ j \in (N + 1)..(N + M) /\ j - N < k - N
        BY <3>3, <2>1, <1>4
      <4> QED BY <4>1, <2>1, <1>3, <1>7
    <3> QED BY <3>1, <3>2, <3>3
  <2>2. ASSUME NEW k \in DOMAIN log', log'[k].kind = "tool/result"
        PROVE  \E j \in DOMAIN log' : j < k /\ log'[j] = Call(log'[k].call)
    <3>1. CASE k \in 1..N
      <4>1. PICK j \in 1..N : j < k /\ log[j] = Call(log[k].call)
        BY <3>1, <2>2, <1>4 DEF History, ModelOrder
      <4> QED BY <3>1, <4>1, <1>4
    <3>2. CASE k \notin 1..N
      <4>1. k \in (N + 1)..(N + M) /\ k - N \in 1..M /\ log'[k] = S[k - N]
        BY <3>2, <1>4, <1>7
      <4>2. k - N - 1 \in 1..M /\ S[k - N - 1] = Call(log'[k].call)
        BY <4>1, <2>2, <1>3
      <4>3. N + (k - N - 1) = k - 1 /\ k - 1 \in 1..(N + M) /\ k - 1 < k
        <5>1. N \in Nat /\ M \in Nat
          BY <1>4
        <5> QED BY <5>1, <4>1, <4>2
      <4>4. log'[k - 1] = Call(log'[k].call)
        BY <4>2, <4>3, <1>4
      <4> QED BY <4>3, <4>4, <1>4
    <3> QED BY <3>1, <3>2
  <2> QED BY <2>1, <2>2 DEF ModelOrder
<1> QED BY <1>9, <1>10, <1>11 DEF History, ReturnAnswersAll

(* Any other step leaves the log, the cursors and every recorded result's  *)
(* stage alone.                                                            *)
LEMMA QuietHistory ==
  ASSUME TypeOK, History, UNCHANGED <<log, started, committed>>,
         \A c \in Batch : stage[c] \in {"settled", "committed"} => stage'[c] = stage[c],
         at = "returned" => at' = "returned",
         at \in Ended => at' \in Ended,
         at' = "returned" => At("running")' = {} /\ (at = "returned" \/ committed = Calls)
  PROVE  History'
<1>1. \A e : Logged(e) <=> Logged(e)'
  BY DEF Logged
<1>2. ModelOrder'
  BY DEF History, ModelOrder
<1>3. \A k \in DOMAIN log : log[k].call \in Batch
  <2>1. log \in Seq(Events)
    BY DEF TypeOK, Events
  <2>2. \A k \in DOMAIN log : log[k] \in Events
    BY <2>1
  <2> QED BY <2>2 DEF Events
<1>4. LogExact'
  BY <1>1, <1>3 DEF History, LogExact
<1>5. ReturnAnswersAll'
  <2> SUFFICES ASSUME at' = "returned", NEW c \in Batch PROVE Logged(Result(c))
    BY <1>1 DEF ReturnAnswersAll
  <2>1. CASE at = "returned"
    BY <2>1 DEF History, ReturnAnswersAll
  <2>2. CASE committed = Calls
    BY <2>2 DEF History, LogExact, Batch
  <2> QED BY <2>1, <2>2
<1> QED BY <1>2, <1>4, <1>5 DEF History

(* The log invariant is inductive, given the control invariant.            *)
LEMMA HistoryStep ==
  TypeOK /\ TypeOK' /\ Control /\ Control' /\ History /\ [Next]_vars => History'
<1> SUFFICES ASSUME TypeOK, TypeOK', Control, Control', History, [Next]_vars PROVE History'
  OBVIOUS
<1>a. at' = "returned" => At("running")' = {} /\ committed' = started'
  BY DEF Control, Pool, BetweenGroups
<1>b. at \in Live \cup {"classify"} => at \notin Ended \cup {"returned"}
  BY DEF Live, Ended
<1>1. CASE Cancel \/ UNCHANGED vars
  BY <1>1, <1>a, QuietHistory DEF Cancel, vars, Ended, History
<1>2. CASE \E c \in Batch : Reclassify(c)
  BY <1>2, <1>a, QuietHistory DEF Reclassify, Ended
<1>3. CASE Body
  <2>1. UNCHANGED <<log, started, committed, at>>
    BY <1>3 DEF Body, Settle
  <2>2. \A c \in Batch : stage[c] \in {"settled", "committed"} => stage'[c] = stage[c]
    BY <1>3 DEF Body, Settle, TypeOK
  <2> QED BY <2>1, <2>2, <1>a, QuietHistory
<1>4. CASE OpenGroup
  <2>1. CASE started = Calls /\ UNCHANGED <<log, started, stage>>
    <3>1. committed = Calls /\ committed' = committed /\ at = "classify"
      BY <2>1, <1>4 DEF OpenGroup, Control, BetweenGroups
    <3> QED BY <2>1, <3>1, <1>a, <1>b, QuietHistory
  <2>2. CASE started < Calls /\ Start
    <3>1. stage[started + 1] = "waiting" /\ at = "classify" /\ committed' = committed
      <4>1. started + 1 \in Batch /\ started + 1 > started
        BY <2>2, ToolCallsAssumption DEF TypeOK, Batch
      <4> QED BY <4>1, <1>4 DEF OpenGroup, Control, Cursors
    <3> QED BY <2>2, <3>1, <1>b, StartHistory
  <2>3. CASE SkipRest
    <3>1. at = "classify" /\ committed = started /\ committed' = committed /\ at' = "returned"
      BY <2>3, <1>4 DEF OpenGroup, SkipRest, Control, BetweenGroups
    <3> QED BY <2>3, <3>1, <1>a, <1>b, SkipHistory
  <2> QED BY <2>1, <2>2, <2>3, <1>4 DEF OpenGroup
<1>5. CASE Prepared
  <2>1. /\ UNCHANGED <<log, started, committed>> /\ at = "preparing"
        /\ at' \in {"committing", "draining"}
    BY <1>5 DEF Prepared
  <2>2. \A c \in Batch : stage[c] \in {"settled", "committed"} => stage'[c] = stage[c]
    <3>1. started \in Batch /\ stage[started] = "preparing"
      BY <2>1 DEF Control, Cursors, Live, Batch, TypeOK
    <3> QED BY <3>1, <1>5 DEF Prepared, TypeOK
  <2> QED BY <2>1, <2>2, QuietHistory DEF Ended
<1>6. CASE Commit
  <2>1. CASE \E c \in ReadyToCommit : /\ log' = Append(log, Result(c))
                                      /\ stage' = [stage EXCEPT ![c] = "committed"]
                                      /\ committed' = committed + 1
                                      /\ UNCHANGED <<at, failure>>
    <3>1. PICK c \in ReadyToCommit : /\ log' = Append(log, Result(c))
                                     /\ stage' = [stage EXCEPT ![c] = "committed"]
                                     /\ committed' = committed + 1
                                     /\ UNCHANGED at
      BY <2>1
    <3>2. /\ c \in Batch /\ c = committed + 1 /\ stage[c] = "settled"
          /\ at = "committing" /\ started' = started
      BY <1>6 DEF ReadyToCommit, Commit
    <3>3. c <= started
      BY <3>2, ToolCallsAssumption DEF Control, Cursors, TypeOK, Batch
    <3> QED BY <3>1, <3>2, <3>3, ResultHistory
  <2>2. CASE /\ ReadyToCommit # {} /\ at' = "draining"
             /\ log' \in {log, Append(log, Result(committed + 1))}
             /\ UNCHANGED <<stage, committed>>
    <3>1. at = "committing" /\ started' = started
      BY <1>6 DEF Commit
    <3>2. CASE log' = log
      BY <2>2, <3>1, <3>2, QuietHistory DEF Ended
    <3>3. CASE log' = Append(log, Result(committed + 1))
      <4>1. PICK c \in Batch : c = committed + 1 /\ stage[c] = "settled"
        BY <2>2 DEF ReadyToCommit
      <4>2. c <= started
        BY <4>1, ToolCallsAssumption DEF Control, Cursors, TypeOK, Batch
      <4> QED BY <2>2, <3>1, <3>3, <4>1, <4>2, ResultHistory
    <3> QED BY <2>2, <3>2, <3>3
  <2>3. CASE at' = "resuming" /\ UNCHANGED <<log, stage, committed>>
    <3>1. at = "committing" /\ started' = started
      BY <1>6 DEF Commit
    <3> QED BY <2>3, <3>1, QuietHistory DEF Ended
  <2> QED BY <2>1, <2>2, <2>3, <1>6 DEF Commit
<1>7. CASE Resume
  <2>1. at = "resuming" /\ committed' = committed
    BY <1>7 DEF Resume
  <2>2. CASE at' \in {"draining", "racing"} /\ UNCHANGED <<started, stage, log>>
    BY <2>1, <2>2, QuietHistory DEF Ended
  <2>3. CASE Room(Observed) /\ Start
    <3>1. started < Calls
      BY <2>3 DEF Room
    <3>2. stage[started + 1] = "waiting"
      <4>1. started + 1 \in Batch /\ started + 1 > started
        BY <3>1, ToolCallsAssumption DEF TypeOK, Batch
      <4> QED BY <4>1, <2>1 DEF Control, Cursors
    <3> QED BY <2>1, <2>3, <3>1, <3>2, StartHistory DEF Ended
  <2> QED BY <2>2, <2>3, <1>7 DEF Resume
<1>8. CASE Race
  BY <1>8, QuietHistory DEF Race, Ended
<1>9. CASE CloseGroup
  <2>1. committed = started /\ at = "racing" /\ committed' = committed
    BY <1>9, ToolCallsAssumption DEF CloseGroup, Control, NextPooled, Cursors, TypeOK
  <2>2. CASE SkipRest
    <3>1. at' = "returned"
      BY <2>2 DEF SkipRest
    <3> QED BY <2>1, <2>2, <3>1, <1>a, <1>b, SkipHistory DEF Live
  <2>3. CASE at' = "classify" /\ UNCHANGED <<started, stage, log>>
    BY <2>1, <2>3, QuietHistory DEF Ended
  <2> QED BY <2>2, <2>3, <1>9 DEF CloseGroup
<1>10. CASE Surface
  BY <1>10, QuietHistory DEF Surface, Drained, Ended
<1> QED BY <1>1, <1>2, <1>3, <1>4, <1>5, <1>6, <1>7, <1>8, <1>9, <1>10
        DEF Next, Scheduler

-----------------------------------------------------------------------------
(* A batch starts with nothing started, logged or in flight.               *)
LEMMA InitIInv == Init => IInv
<1> SUFFICES ASSUME Init PROVE IInv
  OBVIOUS
<1>1. TypeOK
  <2>1. <<>> \in Seq(Events)
    OBVIOUS
  <2>2. log \in Seq([kind : {"tool/call", "tool/result"}, call : Batch])
    BY <2>1 DEF Init, Events
  <2>3. stage \in [Batch -> Stages] /\ startedAs \in [Batch -> Modes \cup {"none"}]
    BY DEF Init, Stages
  <2>4. started \in 0..Calls /\ committed \in 0..Calls
    BY ToolCallsAssumption DEF Init
  <2> QED BY <2>2, <2>3, <2>4 DEF Init, TypeOK, Modes
<1>2. Control
  <2>1. Cardinality(inFlight) = 0
    BY PoolSize DEF Init
  <2> QED BY <2>1, ToolCallsAssumption
          DEF Init, Control, Cursors, Pool, Limit, NextPooled, BetweenGroups, Grouped, Batch,
              At, Busy, Live, Ended
<1>3. History
  BY ToolCallsAssumption DEF Init, History, LogExact, ModelOrder, ReturnAnswersAll, Batch
<1> QED BY <1>1, <1>2, <1>3 DEF IInv

(* The whole invariant is inductive.                                       *)
LEMMA StepIInv == IInv /\ [Next]_vars => IInv'
<1> SUFFICES ASSUME IInv, [Next]_vars PROVE IInv'
  OBVIOUS
<1>1. TypeOK'
  BY TypeStep DEF IInv, Control
<1>2. Control'
  BY <1>1, ControlStep DEF IInv
<1>3. History'
  BY <1>1, <1>2, HistoryStep DEF IInv
<1> QED BY <1>1, <1>2, <1>3 DEF IInv

(* The invariant holds of every state of every batch, however long and     *)
(* however wide its pool (tool-calls.ts:75-292).                           *)
THEOREM Invariance == Spec => []IInv
BY InitIInv, StepIInv, PTL DEF Spec

(* The scheduler's variables keep their types: its cursors stay within the *)
(* batch (tool-calls.ts:82-99).                                            *)
THEOREM TypeCorrect == Spec => []TypeOK
<1>1. IInv => TypeOK
  BY DEF IInv
<1> QED BY <1>1, Invariance, PTL

(* Calls and results are logged once each, in model order, a result after  *)
(* its call, however the bodies overlap (tool-calls.ts:145-160).           *)
THEOREM ModelOrderAlways == Spec => []ModelOrder
<1>1. IInv => ModelOrder
  BY DEF IInv, History
<1> QED BY <1>1, Invariance, PTL

(* An exclusive call never overlaps another call's policy or body          *)
(* (tool-calls.ts:85-92 and 199-205).                                      *)
THEOREM ExclusiveAlwaysAlone == Spec => []ExclusiveAlone
<1>1. ASSUME IInv PROVE ExclusiveAlone
  <2> SUFFICES ASSUME NEW c \in Busy, startedAs[c] = "exclusive" PROVE Busy = {c}
    BY DEF ExclusiveAlone
  <2>1. groupMode = "exclusive"
    BY <1>1 DEF IInv, TypeOK, Modes, Control, Grouped
  <2> QED BY <2>1, <1>1 DEF IInv, Control, Grouped
<1> QED BY <1>1, Invariance, PTL

(* A batch that returns has answered every call (tool-calls.ts:95, 237).   *)
THEOREM ReturnsAnswered == Spec => []ReturnAnswersAll
<1>1. IInv => ReturnAnswersAll
  BY DEF IInv, History
<1> QED BY <1>1, Invariance, PTL

(* A scheduler failure surfaces only over settled bodies, and no result is *)
(* made up for the calls it cut off (tool-calls.ts:231-235).               *)
THEOREM FailureAlwaysDrains == Spec => []FailureDrains
<1>1. ASSUME IInv PROVE FailureDrains
  <2> SUFFICES ASSUME at = "threw"
               PROVE  /\ At("running") = {}
                      /\ \A c \in Batch : Logged(Result(c)) => stage[c] \in {"settled", "committed"}
    BY DEF FailureDrains
  <2>1. At("running") = {}
    BY <1>1 DEF IInv, Control, Pool
  <2>2. ASSUME NEW c \in Batch, Logged(Result(c)) PROVE stage[c] \in {"settled", "committed"}
    <3>1. PICK k \in DOMAIN log : log[k] = Result(c)
      BY <2>2 DEF Logged
    <3>2. log[k].kind = "tool/result" /\ log[k].call = c
      BY <3>1, EventFields
    <3> QED BY <3>2, <1>1 DEF IInv, History, LogExact
  <2> QED BY <2>1, <2>2
<1> QED BY <1>1, Invariance, PTL

(* A drained pool is a committed one: the source's unreachable assertion   *)
(* (tool-calls.ts:243-244).                                                *)
THEOREM PoolAlwaysCommitted == Spec => []PoolCommitted
<1>1. IInv => PoolCommitted
  BY ToolCallsAssumption DEF IInv, TypeOK, Control, NextPooled, Cursors, PoolCommitted
<1> QED BY <1>1, Invariance, PTL

(* At most MaxParallel bodies overlap (tool-calls.ts:199-204).             *)
THEOREM PoolAlwaysBounded == Spec => []PoolBounded
<1>1. ASSUME IInv PROVE PoolBounded
  <2>1. At("running") \in SUBSET inFlight /\ inFlight \in SUBSET Batch
    BY <1>1 DEF IInv, Control, Pool, TypeOK
  <2>2. Cardinality(inFlight) <= MaxParallel
    BY <1>1 DEF IInv, Control, Limit
  <2>3. At("running") \in SUBSET Batch
    BY <2>1
  <2>4. Cardinality(At("running")) <= Cardinality(inFlight) /\ Cardinality(inFlight) \in Nat
        /\ Cardinality(At("running")) \in Nat
    BY <2>1, <2>3, PoolSize
  <2> QED BY <2>2, <2>4, ToolCallsAssumption DEF PoolBounded
<1> QED BY <1>1, Invariance, PTL

(* After a cancellation or a failure no call starts, and after a failure   *)
(* nothing already prepared is launched (tool-calls.ts:169-212).           *)
THEOREM NothingEverStartsLate == Spec => NothingStartsLate
<1>1. ASSUME IInv, [Next]_vars
      PROVE  [/\ signal \/ failure => started' = started
              /\ failure => {c \in Batch : stage'[c] = "running"} \subseteq At("running")]_vars
  <2>1. signal \/ failure => started' = started
    <3>1. at = "classify" => ~failure
      BY <1>1 DEF IInv, Control, Pool, BetweenGroups, Ended
    <3> QED BY <1>1, <3>1
            DEF Next, Scheduler, Body, Cancel, Reclassify, Settle, OpenGroup, Prepared, Commit,
                Resume, Observed, Room, Race, CloseGroup, SkipRest, Surface, vars
  <2>2. ASSUME failure, NEW c \in Batch, stage'[c] = "running" PROVE stage[c] = "running"
    <3>1. stage \in [Batch -> Stages]
      BY <1>1 DEF IInv, TypeOK
    <3> QED BY <1>1, <2>2, <3>1
            DEF Next, Scheduler, Body, Cancel, Reclassify, Settle, OpenGroup, Prepared, Commit,
                Resume, Start, Race, CloseGroup, SkipRest, Surface, vars
  <2> QED BY <2>1, <2>2 DEF At
<1> QED BY <1>1, Invariance, PTL DEF Spec, NothingStartsLate
=============================================================================
