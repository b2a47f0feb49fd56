--------------------------- MODULE ServicesProofs ---------------------------
(***************************************************************************)
(* Proofs about components of Services, for any number of calls, questions,*)
(* policy switches, agents, failures and reloads: what a cancelled tool    *)
(* call may report, what the audit trail of the approvals says, how the    *)
(* retries of a request are numbered and withdrawn, and which rounds a     *)
(* goal admits: none that makes its log unreadable, and none of a          *)
(* cancelled goal until it is armed again.  The repair of a cut log, which *)
(* is a fold of its events: what it writes is legal, answers each call     *)
(* once and is the same however often it is cut.  The reminders, whose log *)
(* is a fold of its own: it can always be read, and no occurrence is told  *)
(* twice unless a restart has lost its dispatch.                           *)
(***************************************************************************)
EXTENDS Services, Sequences, SequenceTheorems, FiniteSetTheorems, TLAPS

-----------------------------------------------------------------------------
(* The tool pipeline.                                                      *)

(* Before the wrappers call next() the body has not run; and a result that *)
(* needs no post-execute policy is not a success.                          *)
ToolUntouched ==
  /\ toolAt \in {"entry", "preExecute", "asking", "wrapper"} =>
       ~toolInvoked /\ toolResult = "none"
  /\ toolAt = "parked" /\ ~toolPost => toolResult # "success"

(* One call of next(): it has been made once a result is returning.        *)
ToolOnce ==
  /\ toolAttempts \in Nat
  /\ toolAt \in {"body", "returning"} => toolAttempts # 0
  /\ toolResult = "ABORTED_BEFORE_DISPATCH" => ~toolInvoked

(* The actions of the pipeline, down to what they assign.                  *)
LEMMA ToolUntouchedStep ==
  ToolUntouched /\ [Next]_allVars => ToolUntouched'
<1> SUFFICES ASSUME ToolUntouched, [Next]_allVars PROVE ToolUntouched'
  OBVIOUS
<1>1. CASE ToolSteps
  BY <1>1 DEF ToolSteps, ToolUntouched, Tool!Next, Tool!Pipeline, Tool!Wrapper, Tool!Cancel,
     Tool!Expire, Tool!Enter, Tool!PreExecute, Tool!Ask, Tool!Allow, Tool!Park,
     Tool!ArmDeadline, Tool!CallNext, Tool!Invoke, Tool!BodySettles, Tool!WrapperReturns,
     Tool!WrapperThrows, Tool!StartPostExecute, Tool!FinishFinal, Tool!PostExecute, Tool!Finish
<1>2. CASE UNCHANGED toolVars
  BY <1>2 DEF toolVars, ToolUntouched
<1> QED BY <1>1, <1>2 DEF Next, RepairSteps, PublicationSteps, ApprovalSteps, RetrySteps,
     GoalSteps, ScheduleSteps, allVars

(* No step runs a body after the one call of next() was refused.           *)
LEMMA ToolOnceStep ==
  ASSUME MaxAttempts = 1, ToolUntouched, ToolOnce, [Next]_allVars
  PROVE  ToolOnce'
<1>1. CASE ToolSteps
  <2>1. CASE Tool!CallNext
    <3>0. toolAttempts = 0 /\ toolAttempts' = 1
      BY <2>1 DEF Tool!CallNext, ToolOnce
    <3>1. toolAt = "wrapper" /\ ~toolInvoked
      BY <2>1, <3>0 DEF Tool!CallNext, ToolOnce, ToolUntouched
    <3>2. toolAttempts' \in Nat /\ toolAttempts' # 0
      BY <3>0
    <3>3. toolResult' = "ABORTED_BEFORE_DISPATCH" => ~toolInvoked'
      BY <2>1, <3>1 DEF Tool!CallNext, Tool!Invoke, ToolUntouched
    <3> QED BY <3>2, <3>3 DEF ToolOnce
  <2>2. CASE Tool!WrapperReturns
    BY <2>2 DEF Tool!WrapperReturns, Tool!Park, Tool!Supersede, Tool!Cancellation,
       ToolOnce, ToolUntouched
  <2>3. CASE Tool!PostExecute
    BY <2>3 DEF Tool!PostExecute, Tool!Finish, Tool!Supersede, Tool!Cancellation, ToolOnce
  <2>4. CASE \/ Tool!Cancel \/ Tool!Expire \/ Tool!Enter \/ Tool!PreExecute \/ Tool!Ask
             \/ Tool!ArmDeadline \/ Tool!BodySettles \/ Tool!WrapperThrows
             \/ Tool!StartPostExecute \/ Tool!FinishFinal
    BY <2>4 DEF ToolOnce, ToolUntouched, Tool!Cancel, Tool!Expire, Tool!Enter,
       Tool!PreExecute, Tool!Ask, Tool!Allow, Tool!Park, Tool!ArmDeadline, Tool!BodySettles,
       Tool!WrapperThrows, Tool!StartPostExecute, Tool!FinishFinal, Tool!Finish
  <2> QED BY <1>1, <2>1, <2>2, <2>3, <2>4 DEF ToolSteps, Tool!Next, Tool!Pipeline, Tool!Wrapper
<1>2. CASE UNCHANGED toolVars
  BY <1>2 DEF toolVars, ToolOnce
<1> QED BY <1>1, <1>2 DEF Next, RepairSteps, PublicationSteps, ApprovalSteps, RetrySteps,
     GoalSteps, ScheduleSteps, allVars

(* A cancelled call never ends as a success, wherever the cancellation     *)
(* arrived and whatever the wrappers returned (tools/src/index.ts, the     *)
(* execute and finalize stages).                                           *)
THEOREM CancelledCallsNeverSucceed == Spec => CancelledNeverSucceeds
<1>1. Init => ToolUntouched
  BY DEF Init, Tool!Init, ToolUntouched
<1>2. ToolUntouched /\ [Next]_allVars
        => [toolAt # "done" /\ toolAt' = "done" /\ toolSignal => toolResult' # "success"]_toolVars
  <2> SUFFICES ASSUME ToolUntouched, [Next]_allVars, toolAt # "done", toolAt' = "done", toolSignal
               PROVE  toolResult' # "success"
    OBVIOUS
  <2>1. ToolSteps
    BY DEF Next, RepairSteps, PublicationSteps, ApprovalSteps, RetrySteps, GoalSteps,
       ScheduleSteps, allVars, toolVars
  <2> QED BY <2>1 DEF ToolSteps, ToolUntouched, Tool!Next, Tool!Pipeline, Tool!Wrapper,
     Tool!Cancel, Tool!Expire, Tool!Enter, Tool!PreExecute, Tool!Ask, Tool!Allow, Tool!Park,
     Tool!ArmDeadline, Tool!CallNext, Tool!Invoke, Tool!BodySettles,
     Tool!WrapperReturns, Tool!Supersede, Tool!Cancellation, Tool!WrapperThrows,
     Tool!StartPostExecute, Tool!FinishFinal, Tool!PostExecute, Tool!Finish
<1> QED BY <1>1, <1>2, ToolUntouchedStep, PTL
        DEF Spec, CancelledNeverSucceeds, Tool!CancelledNeverSucceeds, Tool!vars, toolVars

(* Where wrappers call next() at most once, as all of the repository's do, *)
(* a call reported as aborted before dispatch never ran its body.          *)
THEOREM BeforeDispatchAlwaysHonest ==
  ASSUME MaxAttempts = 1
  PROVE  Spec => []BeforeDispatchHonest
<1>1. Init => ToolUntouched /\ ToolOnce
  BY DEF Init, Tool!Init, ToolUntouched, ToolOnce
<1>2. (ToolUntouched /\ ToolOnce) /\ [Next]_allVars => (ToolUntouched /\ ToolOnce)'
  BY ToolUntouchedStep, ToolOnceStep
<1>3. ToolOnce => BeforeDispatchHonest
  BY DEF ToolOnce, BeforeDispatchHonest, Tool!BeforeDispatchHonest
<1> QED BY <1>1, <1>2, <1>3, PTL DEF Spec

-----------------------------------------------------------------------------
(* The approvals.                                                          *)

AskOutcomes == {"allowed-once", "rejected", "cancelled", "unavailable", "none"}
AskValues == {"ask", "never"} \cup AskOutcomes
AskRecords == [kind : {"asked", "decided"}, ask : Questions, value : AskValues]
              \cup [kind : {"policy"}, ask : {"none"}, value : AskValues]
AskStates == [at : {"idle", "waiting", "settled", "returned"},
              aborted : {"no", "unanswered", "answered"}, dispatched : BOOLEAN,
              answer : AskOutcomes, outcome : AskOutcomes]

AskTypes ==
  /\ askLog \in Seq(AskRecords) /\ askPolicy \in {"ask", "never"} /\ askApproved \in BOOLEAN
  /\ ask \in [Questions -> AskStates]

AskedFor(log, a)   == \E j \in DOMAIN log : log[j].kind = "asked" /\ log[j].ask = a
AskedUnder(log, a) == \E j \in DOMAIN log : log[j] = Question!Record("asked", a, "ask")
DecidedFor(log, a) == \E j \in DOMAIN log : log[j].kind = "decided" /\ log[j].ask = a
Installed(log) == \E j \in DOMAIN log : /\ log[j].kind = "decided" /\ log[j].ask \in Installs
                                        /\ log[j].value = "allowed-once"

(* What a question's progress says of the log and of its answer.           *)
Progress(log, a, q) ==
  /\ q.at # "idle" => AskedFor(log, a)
  /\ DecidedFor(log, a) => q.at = "returned"
  /\ q.at = "idle" => q.dispatched = FALSE
  /\ q.at = "waiting" => q.aborted = "no"
  /\ q.dispatched = TRUE => AskedUnder(log, a)
  /\ q.answer # "none" => q.dispatched = TRUE
  /\ q.at = "settled" /\ q.outcome = "allowed-once" =>
       q.answer = "allowed-once" /\ q.aborted # "unanswered"

AskInv ==
  /\ AskTypes /\ Question!DecisionsHonest
  /\ askApproved = TRUE => Installed(askLog)
  /\ \A a \in Questions : Progress(askLog, a, ask[a])

(* A log after records were added at its end.                              *)
Grown(old, new) ==
  /\ Len(old) \in Nat /\ Len(new) \in Nat /\ Len(old) <= Len(new)
  /\ DOMAIN old = 1..Len(old) /\ DOMAIN new = 1..Len(new)
  /\ \A j \in 1..Len(old) : new[j] = old[j]

(* One record more.                                                        *)
LEMMA GrowsByOne ==
  ASSUME NEW l \in Seq(AskRecords), NEW r \in AskRecords
  PROVE  /\ Append(l, r) \in Seq(AskRecords) /\ Grown(l, Append(l, r))
         /\ Len(Append(l, r)) = Len(l) + 1 /\ Append(l, r)[Len(l) + 1] = r
<1>1. /\ Append(l, r) \in Seq(AskRecords) /\ Len(Append(l, r)) = Len(l) + 1
      /\ \A j \in 1..Len(l) : Append(l, r)[j] = l[j]
      /\ Append(l, r)[Len(l) + 1] = r
  BY AppendProperties
<1>2. Len(l) \in Nat /\ DOMAIN l = 1..Len(l) /\ DOMAIN Append(l, r) = 1..Len(Append(l, r))
  BY <1>1, LenProperties
<1> QED BY <1>1, <1>2 DEF Grown

(* Two records more.                                                       *)
LEMMA GrowsByTwo ==
  ASSUME NEW l \in Seq(AskRecords), NEW r \in AskRecords, NEW t \in AskRecords
  PROVE  LET m == l \o <<r, t>>
         IN  /\ m \in Seq(AskRecords) /\ Grown(l, m) /\ Len(m) = Len(l) + 2
             /\ m[Len(l) + 1] = r /\ m[Len(l) + 2] = t
<1>1. <<r, t>> \in Seq(AskRecords) /\ Len(<<r, t>>) = 2 /\ <<r, t>>[1] = r /\ <<r, t>>[2] = t
  OBVIOUS
<1> DEFINE p == <<r, t>>
           m == l \o p
<1> HIDE DEF p
<1>2. /\ m \in Seq(AskRecords) /\ Len(m) = Len(l) + Len(p)
      /\ \A j \in 1..(Len(l) + Len(p)) : m[j] = IF j <= Len(l) THEN l[j] ELSE p[j - Len(l)]
  BY <1>1, ConcatProperties DEF p
<1>3. Len(l) \in Nat /\ DOMAIN l = 1..Len(l) /\ DOMAIN m = 1..Len(m) /\ Len(p) = 2
      /\ p[1] = r /\ p[2] = t
  BY <1>1, <1>2, LenProperties DEF p
<1> HIDE DEF m
<1>4. Grown(l, m) /\ Len(m) = Len(l) + 2
  BY <1>2, <1>3 DEF Grown
<1>5. m[Len(l) + 1] = r /\ m[Len(l) + 2] = t
  <2>1. Len(l) + 1 \in 1..(Len(l) + Len(p)) /\ Len(l) + 2 \in 1..(Len(l) + Len(p))
        /\ ~(Len(l) + 1 <= Len(l)) /\ ~(Len(l) + 2 <= Len(l))
        /\ Len(l) + 1 - Len(l) = 1 /\ Len(l) + 2 - Len(l) = 2
    BY <1>3
  <2> QED BY <1>2, <1>3, <2>1
<1> QED BY <1>2, <1>4, <1>5 DEF m, p

(* What a log says, a longer one says too.                                 *)
LEMMA GrownSays ==
  ASSUME NEW old, NEW new, Grown(old, new)
  PROVE  /\ \A a : AskedFor(old, a) => AskedFor(new, a)
         /\ \A a : AskedUnder(old, a) => AskedUnder(new, a)
         /\ Installed(old) => Installed(new)
<1>1. \A j \in DOMAIN old : j \in DOMAIN new /\ new[j] = old[j]
  BY DEF Grown
<1> QED BY <1>1, Zenon DEF AskedFor, AskedUnder, Installed

(* The audit trail stays honest where no decision is added, and where one  *)
(* is added at the end that is honest itself.                              *)
LEMMA HonestGrows ==
  ASSUME AskTypes, AskTypes', Question!DecisionsHonest, Grown(askLog, askLog'),
         \A a \in Questions : Question!Answered(a) => Question!Answered(a)',
         \A i \in DOMAIN askLog' : i \notin DOMAIN askLog /\ askLog'[i].kind = "decided" =>
           /\ i = Len(askLog')
           /\ \E j \in 1..(i - 1) : askLog'[j].kind = "asked" /\ askLog'[j].ask = askLog'[i].ask
           /\ ~DecidedFor(askLog, askLog'[i].ask)
           /\ (Question!GrantAt(i) => Question!StandingAt(i)
                 \/ (Question!PutUnderAsk(i) /\ Question!Answered(askLog[i].ask)))'
  PROVE  Question!DecisionsHonest'
<1> SUFFICES ASSUME NEW i \in DOMAIN askLog', askLog'[i].kind = "decided"
             PROVE  /\ \E j \in 1..(i - 1) : askLog'[j].kind = "asked"
                                             /\ askLog'[j].ask = askLog'[i].ask
                    /\ \A j \in DOMAIN askLog' :
                         askLog'[j].kind = "decided" /\ askLog'[j].ask = askLog'[i].ask => j = i
                    /\ (Question!GrantAt(i) => Question!StandingAt(i)
                          \/ (Question!PutUnderAsk(i) /\ Question!Answered(askLog[i].ask)))'
  BY DEF Question!DecisionsHonest, Question!DecidedAt
<1>g. /\ DOMAIN askLog = 1..Len(askLog) /\ DOMAIN askLog' = 1..Len(askLog')
      /\ Len(askLog) \in Nat /\ Len(askLog') \in Nat /\ Len(askLog) <= Len(askLog')
      /\ \A j \in 1..Len(askLog) : askLog'[j] = askLog[j]
  BY DEF Grown
<1>1. CASE i \in DOMAIN askLog
  <2>1. askLog[i].kind = "decided" /\ askLog'[i] = askLog[i]
    BY <1>1, <1>g
  <2>2. /\ \E j \in 1..(i - 1) : askLog[j].kind = "asked" /\ askLog[j].ask = askLog[i].ask
        /\ \A j \in DOMAIN askLog : askLog[j].kind = "decided" /\ askLog[j].ask = askLog[i].ask
                                      => j = i
        /\ Question!GrantAt(i) => Question!StandingAt(i)
             \/ (Question!PutUnderAsk(i) /\ Question!Answered(askLog[i].ask))
    BY <1>1, <2>1 DEF Question!DecisionsHonest, Question!DecidedAt
  <2>3. \A j \in 1..(i - 1) : j \in 1..Len(askLog) /\ askLog'[j] = askLog[j]
    BY <1>1, <1>g
  <2>4. \A j \in DOMAIN askLog' :
          askLog'[j].kind = "decided" /\ askLog'[j].ask = askLog'[i].ask => j \in DOMAIN askLog
    BY <1>1, <2>1 DEF DecidedFor
  <2>5. (Question!GrantAt(i) => Question!StandingAt(i)
           \/ (Question!PutUnderAsk(i) /\ Question!Answered(askLog[i].ask)))'
    <3> SUFFICES ASSUME Question!GrantAt(i)'
                 PROVE  Question!StandingAt(i)'
                        \/ (Question!PutUnderAsk(i)' /\ Question!Answered(askLog[i].ask)')
      OBVIOUS
    <3>1. Question!GrantAt(i)
      BY <2>1 DEF Question!GrantAt, Question!DecidedAt
    <3>2. CASE Question!StandingAt(i)
      BY <3>2, <2>1, <2>3 DEF Question!StandingAt, Question!GrantAt, Question!DecidedAt
    <3>3. CASE Question!PutUnderAsk(i) /\ Question!Answered(askLog[i].ask)
      <4>1. Question!PutUnderAsk(i)'
        BY <3>3, <2>1, <2>3 DEF Question!PutUnderAsk, Question!Record
      <4>2. askLog[i].ask \in Questions
        <5>1. askLog[i] \in AskRecords
          BY <1>1, <1>g, ElementOfSeq DEF AskTypes
        <5> QED BY <5>1, <2>1 DEF AskRecords
      <4>3. Question!Answered(askLog[i].ask)'
        <5> PICK a \in Questions : a = askLog[i].ask
          BY <4>2
        <5>1. Question!Answered(a)
          BY <3>3
        <5>2. Question!Answered(a)'
          BY <5>1
        <5>3. a = askLog'[i].ask
          BY <2>1
        <5> QED BY <5>2, <5>3 DEF Question!Answered
      <4> QED BY <4>1, <4>3
    <3> QED BY <2>2, <3>1, <3>2, <3>3
  <2>6. \E j \in 1..(i - 1) : askLog'[j].kind = "asked" /\ askLog'[j].ask = askLog'[i].ask
    BY <2>1, <2>2, <2>3
  <2>7. \A j \in DOMAIN askLog' :
          askLog'[j].kind = "decided" /\ askLog'[j].ask = askLog'[i].ask => j = i
    BY <1>g, <2>1, <2>2, <2>4
  <2> QED BY <2>5, <2>6, <2>7
<1>2. CASE i \notin DOMAIN askLog
  <2>1. \A j \in DOMAIN askLog' :
          askLog'[j].kind = "decided" /\ askLog'[j].ask = askLog'[i].ask => j = i
    <3> SUFFICES ASSUME NEW j \in DOMAIN askLog', askLog'[j].kind = "decided",
                        askLog'[j].ask = askLog'[i].ask
                 PROVE  j = i
      OBVIOUS
    <3>1. CASE j \in DOMAIN askLog
      BY <1>2, <1>g, <3>1 DEF DecidedFor
    <3>2. CASE j \notin DOMAIN askLog
      BY <1>2, <3>2
    <3> QED BY <3>1, <3>2
  <2> QED BY <1>2, <2>1
<1> QED BY <1>1, <1>2

(* Progress, where the log grows without a decision about the question.    *)
LEMMA ProgressGrows ==
  ASSUME NEW old, NEW new, NEW a, NEW q, Grown(old, new), Progress(old, a, q),
         DecidedFor(new, a) => DecidedFor(old, a)
  PROVE  Progress(new, a, q)
BY GrownSays DEF Progress

(* A step of one question over an unchanged log.                           *)
LEMMA AskMoves ==
  ASSUME AskInv, NEW c \in Questions, NEW q \in AskStates, ask' = [ask EXCEPT ![c] = q],
         UNCHANGED <<askLog, askPolicy, askApproved>>, Progress(askLog, c, q),
         Question!Answered(c) => q.answer = "allowed-once" /\ q.aborted # "unanswered"
  PROVE  AskInv'
<1>1. AskTypes'
  BY DEF AskInv, AskTypes
<1>2. \A a \in Questions : Question!Answered(a) => Question!Answered(a)'
  BY DEF AskInv, AskTypes, Question!Answered
<1>3. Grown(askLog, askLog')
  <2>1. Len(askLog) \in Nat /\ DOMAIN askLog = 1..Len(askLog)
    BY LenProperties DEF AskInv, AskTypes
  <2> QED BY <2>1 DEF Grown
<1>4. Question!DecisionsHonest'
  BY <1>1, <1>2, <1>3, HonestGrows DEF AskInv
<1>5. ASSUME NEW a \in Questions PROVE Progress(askLog, a, ask[a])'
  <2>1. ask'[a] = IF a = c THEN q ELSE ask[a]
    BY DEF AskInv, AskTypes
  <2>2. Progress(askLog, a, ask'[a])
    BY <2>1 DEF AskInv
  <2> QED BY <2>2 DEF Progress, AskedFor, AskedUnder, DecidedFor
<1> QED BY <1>1, <1>4, <1>5 DEF AskInv, Installed

(* The answerers, the race and the withdrawals.                            *)
LEMMA RacersKeep ==
  ASSUME AskInv, NEW c \in Questions,
         \/ Question!AnswerObserved(c) \/ Question!Abort(c)
         \/ \E v \in Question!Outcomes \cup {"rogue"} : Question!Answer(c, v)
  PROVE  AskInv'
<1>0. ask[c] \in AskStates /\ Progress(askLog, c, ask[c])
  BY DEF AskInv, AskTypes
<1>1. CASE \E v \in Question!Outcomes \cup {"rogue"} : Question!Answer(c, v)
  <2> PICK v \in Question!Outcomes \cup {"rogue"} : Question!Answer(c, v)
    BY <1>1
  <2> DEFINE q == [ask[c] EXCEPT !.answer = Question!Normalized(v)]
  <2>1. Question!Normalized(v) \in AskOutcomes
    BY DEF Question!Normalized, Question!Outcomes, AskOutcomes
  <2>2. ask' = [ask EXCEPT ![c] = q] /\ ask[c].dispatched = TRUE /\ ask[c].answer = "none"
    BY <1>0 DEF Question!Answer, AskInv, AskTypes, AskStates, Question!None
  <2>3. q \in AskStates
    BY <1>0, <2>1 DEF AskStates
  <2>4. Progress(askLog, c, q)
    BY <1>0, <2>2 DEF Progress, AskStates
  <2>5. ~Question!Answered(c)
    BY <2>2 DEF Question!Answered
  <2> QED BY <2>2, <2>3, <2>4, <2>5, AskMoves DEF Question!Answer
<1>2. CASE Question!AnswerObserved(c)
  <2> DEFINE q == [ask[c] EXCEPT !.at = "settled", !.outcome = ask[c].answer]
  <2>1. ask' = [ask EXCEPT ![c] = q] /\ ask[c].at = "waiting"
    BY <1>2, <1>0 DEF Question!AnswerObserved, Question!Unsettled, AskInv, AskTypes
  <2>2. q \in AskStates
    BY <1>0 DEF AskStates
  <2>3. Progress(askLog, c, q)
    BY <1>0, <2>1 DEF Progress, AskStates
  <2>4. Question!Answered(c) => q.answer = "allowed-once" /\ q.aborted # "unanswered"
    BY <1>0 DEF AskStates, Question!Answered
  <2> QED BY <1>2, <2>1, <2>2, <2>3, <2>4, AskMoves DEF Question!AnswerObserved
<1>3. CASE Question!Abort(c)
  <2> DEFINE q == [ask[c] EXCEPT
         !.aborted = IF ask[c].answer = "none" THEN "unanswered" ELSE "answered",
         !.at = IF ask[c].at = "waiting" THEN "settled" ELSE ask[c].at,
         !.outcome = IF ask[c].at = "waiting" THEN "cancelled" ELSE ask[c].outcome]
  <2>1. ask' = [ask EXCEPT ![c] = q] /\ ask[c].aborted = "no" /\ ask[c].at # "returned"
    BY <1>3, <1>0 DEF Question!Abort, Question!Unsettled, Question!None, AskInv, AskTypes
  <2>2. q \in AskStates
    BY <1>0 DEF AskStates, AskOutcomes
  <2>3. Progress(askLog, c, q)
    BY <1>0, <2>1 DEF Progress, AskStates
  <2>4. Question!Answered(c) => q.answer = "allowed-once" /\ q.aborted # "unanswered"
    BY <1>0 DEF AskStates, Question!Answered
  <2> QED BY <1>3, <2>1, <2>2, <2>3, <2>4, AskMoves DEF Question!Abort
<1> QED BY <1>1, <1>2, <1>3

(* The records a step may write.                                           *)
LEMMA AskRecordTypes ==
  /\ \A a \in Questions, v \in AskValues :
       /\ Question!Record("asked", a, v) \in AskRecords
       /\ Question!Record("decided", a, v) \in AskRecords
  /\ \A v \in AskValues : Question!Record("policy", "none", v) \in AskRecords
BY DEF Question!Record, AskRecords

(* A record that decides nothing joins the log.                            *)
LEMMA RecordJoins ==
  ASSUME AskInv, AskTypes', NEW r \in AskRecords, r.kind # "decided",
         askLog' = Append(askLog, r), UNCHANGED askApproved,
         \A a \in Questions : ask'[a] = ask[a] \/ Progress(askLog', a, ask'[a]),
         \A a \in Questions : Question!Answered(a) => Question!Answered(a)'
  PROVE  AskInv'
<1>1. /\ Grown(askLog, askLog') /\ Len(askLog') = Len(askLog) + 1 /\ askLog'[Len(askLog')] = r
  BY GrowsByOne DEF AskInv, AskTypes
<1>2. \A i \in DOMAIN askLog' : i \notin DOMAIN askLog => i = Len(askLog')
  BY <1>1 DEF Grown
<1>3. \A i \in DOMAIN askLog' :
        askLog'[i].kind = "decided" => i \in DOMAIN askLog /\ askLog'[i] = askLog[i]
  BY <1>1, <1>2 DEF Grown
<1>4. Question!DecisionsHonest'
  BY <1>1, <1>3, HonestGrows DEF AskInv
<1>5. ASSUME NEW a \in Questions PROVE Progress(askLog, a, ask[a])'
  <2>1. DecidedFor(askLog', a) => DecidedFor(askLog, a)
    BY <1>3 DEF DecidedFor
  <2>2. Progress(askLog', a, ask'[a])
    BY <1>1, <2>1, ProgressGrows DEF AskInv
  <2> QED BY <2>2 DEF Progress, AskedFor, AskedUnder, DecidedFor
<1>6. askApproved' = TRUE => Installed(askLog')
  BY <1>1, GrownSays DEF AskInv
<1> QED BY <1>4, <1>5, <1>6 DEF AskInv, Installed

(* The policy is switched.                                                 *)
LEMMA PolicySwitches ==
  ASSUME AskInv, NEW p \in {"ask", "never"}, Question!SetPolicy(p)
  PROVE  AskInv'
<1> DEFINE r == Question!Record("policy", "none", p)
<1>1. r \in AskRecords /\ r.kind # "decided"
  BY AskRecordTypes DEF AskValues, Question!Record
<1>2. /\ askLog' = Append(askLog, r) /\ askPolicy' = p
      /\ UNCHANGED <<askApproved, ask>>
  BY DEF Question!SetPolicy, Question!None
<1> HIDE DEF r
<1>3. AskTypes'
  BY <1>1, <1>2, GrowsByOne DEF AskInv, AskTypes
<1> QED BY <1>1, <1>2, <1>3, RecordJoins DEF Question!Answered

(* A question is asked: it is recorded, and decided at once only by the    *)
(* standing approval.                                                      *)
LEMMA RequestKeeps ==
  ASSUME AskInv, NEW c \in Questions, Question!Request(c)
  PROVE  AskInv'
<1> DEFINE r == Question!Record("asked", c, askPolicy)
           d == Question!Record("decided", c, "allowed-once")
<1>0. /\ ask[c] \in AskStates /\ Progress(askLog, c, ask[c]) /\ ask[c].at = "idle"
      /\ r \in AskRecords /\ d \in AskRecords /\ r.kind = "asked" /\ r.ask = c
      /\ UNCHANGED <<askPolicy, askApproved>>
  BY AskRecordTypes DEF AskInv, AskTypes, AskValues, AskOutcomes, Question!Request, Question!Record
<1>1. CASE ~Question!Standing(c)
  <2> DEFINE q == Question!Decide(c)
  <2>1. askLog' = Append(askLog, r) /\ ask' = [ask EXCEPT ![c] = q]
    BY <1>1 DEF Question!Request
  <2>2. /\ q \in AskStates /\ q.aborted = ask[c].aborted /\ q.answer = ask[c].answer
        /\ q.at = "waiting" \/ q.outcome # "allowed-once"
        /\ q.at # "returned" /\ q.at # "idle"
        /\ q.at = "waiting" => q.aborted = "no"
        /\ q.dispatched = TRUE => askPolicy = "ask"
    BY <1>0 DEF Question!Decide, AskStates, AskOutcomes, Progress, AskInv, AskTypes
  <2> HIDE DEF q
  <2>3. Grown(askLog, askLog') /\ Len(askLog') = Len(askLog) + 1 /\ askLog'[Len(askLog')] = r
        /\ askLog' \in Seq(AskRecords)
    BY <1>0, <2>1, GrowsByOne DEF AskInv, AskTypes
  <2>4. AskTypes'
    BY <1>0, <2>1, <2>2, <2>3 DEF AskInv, AskTypes
  <2>5. ~DecidedFor(askLog', c)
    <3>1. ~DecidedFor(askLog, c)
      BY <1>0 DEF Progress
    <3> QED BY <1>0, <2>3, <3>1 DEF DecidedFor, Grown
  <2>6. AskedFor(askLog', c) /\ (askPolicy = "ask" => AskedUnder(askLog', c))
    <3>1. Len(askLog') \in DOMAIN askLog'
      BY <2>3 DEF Grown
    <3> QED BY <1>0, <2>3, <3>1 DEF AskedFor, AskedUnder
  <2>7. Progress(askLog', c, q)
    BY <1>0, <2>2, <2>5, <2>6 DEF Progress
  <2>8. \A a \in Questions : ask'[a] = IF a = c THEN q ELSE ask[a]
    BY <2>1 DEF AskInv, AskTypes
  <2>9. \A a \in Questions : Question!Answered(a) => Question!Answered(a)'
    BY <2>2, <2>8 DEF Question!Answered
  <2> QED BY <1>0, <2>1, <2>4, <2>7, <2>8, <2>9, RecordJoins
<1>2. CASE Question!Standing(c)
  <2> DEFINE q == [ask[c] EXCEPT !.at = "returned", !.outcome = "allowed-once"]
  <2>1. askLog' = askLog \o <<r, d>> /\ ask' = [ask EXCEPT ![c] = q]
    BY <1>2, <1>0 DEF Question!Request, AskInv, AskTypes
  <2>2. Grown(askLog, askLog') /\ Len(askLog') = Len(askLog) + 2
        /\ askLog'[Len(askLog) + 1] = r /\ askLog'[Len(askLog) + 2] = d
        /\ askLog' \in Seq(AskRecords)
    BY <1>0, <2>1, GrowsByTwo DEF AskInv, AskTypes
  <2>3. q \in AskStates /\ q.at = "returned" /\ q.aborted = ask[c].aborted
        /\ q.answer = ask[c].answer /\ q.dispatched = ask[c].dispatched
    BY <1>0 DEF AskStates, AskOutcomes
  <2> HIDE DEF q, r, d
  <2>4. AskTypes'
    BY <1>0, <2>1, <2>2, <2>3 DEF AskInv, AskTypes
  <2>5. \A a \in Questions : ask'[a] = IF a = c THEN q ELSE ask[a]
    BY <2>1 DEF AskInv, AskTypes
  <2>6. \A a \in Questions : Question!Answered(a) => Question!Answered(a)'
    BY <2>3, <2>5 DEF Question!Answered
  <2>g. /\ Len(askLog) \in Nat /\ DOMAIN askLog = 1..Len(askLog)
        /\ DOMAIN askLog' = 1..(Len(askLog) + 2)
        /\ \A j \in 1..Len(askLog) : askLog'[j] = askLog[j]
    BY <2>2 DEF Grown
  <2>d. d.kind = "decided" /\ d.ask = c /\ d.value = "allowed-once"
    BY DEF d, Question!Record
  <2>7. \A i \in DOMAIN askLog' : i \notin DOMAIN askLog /\ askLog'[i].kind = "decided"
          => i = Len(askLog') /\ askLog'[i] = d
    <3>1. \A i \in DOMAIN askLog' : i \notin DOMAIN askLog
            => i = Len(askLog) + 1 \/ i = Len(askLog) + 2
      BY <2>g
    <3> QED BY <1>0, <2>2, <3>1
  <2>8. ~DecidedFor(askLog, c)
    BY <1>0 DEF Progress
  <2>9. ASSUME NEW i, i = Len(askLog') PROVE Question!StandingAt(i)'
    <3>1. AutoApprove /\ c \in Installs /\ Installed(askLog)
      BY <1>2 DEF Question!Standing, AskInv, AskTypes
    <3>2. PICK j \in DOMAIN askLog : /\ askLog[j].kind = "decided" /\ askLog[j].ask \in Installs
                                     /\ askLog[j].value = "allowed-once"
      BY <3>1 DEF Installed
    <3>3. j \in 1..(i - 1) /\ askLog'[j] = askLog[j]
      BY <2>2, <2>g, <2>9
    <3>4. askLog'[i] = d
      BY <2>2, <2>9
    <3> QED BY <3>1, <3>2, <3>3, <3>4, <2>d
            DEF Question!StandingAt, Question!GrantAt, Question!DecidedAt
  <2>10. Question!DecisionsHonest'
    <3>1. \E j \in 1..(Len(askLog') - 1) : askLog'[j].kind = "asked" /\ askLog'[j].ask = c
      <4>1. Len(askLog) + 1 \in 1..(Len(askLog') - 1)
        BY <2>2, <2>g
      <4> QED BY <1>0, <2>2, <4>1
    <3>2. ASSUME NEW i \in DOMAIN askLog', i \notin DOMAIN askLog, askLog'[i].kind = "decided"
          PROVE  /\ i = Len(askLog')
                 /\ \E j \in 1..(i - 1) : askLog'[j].kind = "asked"
                                          /\ askLog'[j].ask = askLog'[i].ask
                 /\ ~DecidedFor(askLog, askLog'[i].ask)
                 /\ Question!StandingAt(i)'
      BY <2>7, <2>8, <2>9, <2>d, <3>1, <3>2
    <3> QED BY <2>2, <2>4, <2>6, <3>2, HonestGrows DEF AskInv
  <2>11. ASSUME NEW a \in Questions PROVE Progress(askLog, a, ask[a])'
    <3>1. CASE a = c
      <4>1. AskedFor(askLog', c)
        <5>1. Len(askLog) + 1 \in DOMAIN askLog'
          BY <2>g
        <5> QED BY <1>0, <2>2, <5>1 DEF AskedFor
      <4>2. Progress(askLog', c, q)
        BY <1>0, <2>2, <2>3, <4>1, GrownSays DEF Progress
      <4>3. ask'[a] = q
        BY <2>5, <3>1
      <4> QED BY <3>1, <4>2, <4>3 DEF Progress, AskedFor, AskedUnder, DecidedFor
    <3>2. CASE a # c
      <4>1. DecidedFor(askLog', a) => DecidedFor(askLog, a)
        BY <2>7, <2>g, <2>d, <3>2 DEF DecidedFor
      <4>2. Progress(askLog', a, ask[a])
        BY <2>2, <4>1, ProgressGrows DEF AskInv
      <4>3. ask'[a] = ask[a]
        BY <2>5, <3>2
      <4> QED BY <4>2, <4>3 DEF Progress, AskedFor, AskedUnder, DecidedFor
    <3> QED BY <3>1, <3>2
  <2>12. askApproved' = TRUE => Installed(askLog')
    BY <1>0, <2>2, GrownSays DEF AskInv
  <2> QED BY <2>4, <2>10, <2>11, <2>12 DEF AskInv, Installed
<1> QED BY <1>1, <1>2

(* A question that is settled is recorded as decided.                      *)
LEMMA DecidedKeeps ==
  ASSUME AskInv, NEW c \in Questions, Question!Decided(c)
  PROVE  AskInv'
<1> DEFINE d == Question!Record("decided", c, ask[c].outcome)
           q == [ask[c] EXCEPT !.at = "returned"]
<1>0. /\ ask[c] \in AskStates /\ Progress(askLog, c, ask[c]) /\ ask[c].at = "settled"
      /\ askLog \in Seq(AskRecords)
  BY DEF AskInv, AskTypes, Question!Decided
<1>1. /\ d \in AskRecords /\ d.kind = "decided" /\ d.ask = c /\ d.value = ask[c].outcome
  <2>1. ask[c].outcome \in AskValues
    BY <1>0 DEF AskStates, AskValues
  <2> QED BY <2>1, AskRecordTypes DEF Question!Record
<1>2. /\ askLog' = Append(askLog, d) /\ ask' = [ask EXCEPT ![c] = q]
      /\ askApproved' = (askApproved \/ (c \in Installs /\ ask[c].outcome = "allowed-once"))
      /\ UNCHANGED askPolicy
  BY <1>0 DEF Question!Decided, AskInv, AskTypes
<1>3. /\ q \in AskStates /\ q.at = "returned" /\ q.aborted = ask[c].aborted
      /\ q.answer = ask[c].answer /\ q.dispatched = ask[c].dispatched
  BY <1>0 DEF AskStates
<1> HIDE DEF q, d
<1>4. /\ Grown(askLog, askLog') /\ Len(askLog') = Len(askLog) + 1
      /\ askLog'[Len(askLog) + 1] = d /\ askLog' \in Seq(AskRecords)
  BY <1>0, <1>1, <1>2, GrowsByOne
<1>g. /\ Len(askLog) \in Nat /\ DOMAIN askLog = 1..Len(askLog)
      /\ DOMAIN askLog' = 1..(Len(askLog) + 1)
      /\ \A j \in 1..Len(askLog) : askLog'[j] = askLog[j]
  BY <1>4 DEF Grown
<1>5. AskTypes'
  <2>1. askApproved' \in BOOLEAN /\ ask' \in [Questions -> AskStates]
    BY <1>2, <1>3 DEF AskInv, AskTypes
  <2> QED BY <1>2, <1>4, <2>1 DEF AskInv, AskTypes
<1>6. \A a \in Questions : ask'[a] = IF a = c THEN q ELSE ask[a]
  BY <1>2 DEF AskInv, AskTypes
<1>7. \A a \in Questions : Question!Answered(a) => Question!Answered(a)'
  BY <1>3, <1>6 DEF Question!Answered
<1>8. \A i \in DOMAIN askLog' : i \notin DOMAIN askLog => i = Len(askLog') /\ askLog'[i] = d
  BY <1>4, <1>g
<1>9. ~DecidedFor(askLog, c) /\ AskedFor(askLog, c)
  BY <1>0 DEF Progress
<1>10. ASSUME NEW i, i = Len(askLog'), Question!GrantAt(i)'
       PROVE  Question!PutUnderAsk(i)' /\ Question!Answered(askLog[i].ask)'
  <2>1. askLog'[i] = d
    BY <1>4, <1>10
  <2>2. ask[c].outcome = "allowed-once"
    BY <2>1, <1>1, <1>10 DEF Question!GrantAt
  <2>3. /\ ask[c].answer = "allowed-once" /\ ask[c].aborted # "unanswered"
        /\ AskedUnder(askLog, c)
    BY <1>0, <2>2 DEF Progress
  <2>4. PICK j \in DOMAIN askLog : askLog[j] = Question!Record("asked", c, "ask")
    BY <2>3 DEF AskedUnder
  <2>5. j \in 1..(i - 1) /\ askLog'[j] = Question!Record("asked", c, "ask")
    BY <1>4, <1>g, <1>10, <2>4
  <2>6. Question!PutUnderAsk(i)'
    BY <1>1, <2>1, <2>5 DEF Question!PutUnderAsk, Question!Record
  <2>7. Question!Answered(c)'
    BY <1>7, <2>3 DEF Question!Answered
  <2>8. c = askLog'[i].ask
    BY <1>1, <2>1
  <2> QED BY <2>6, <2>7, <2>8 DEF Question!Answered
<1>11. Question!DecisionsHonest'
  <2>1. ASSUME NEW i \in DOMAIN askLog', i \notin DOMAIN askLog, askLog'[i].kind = "decided"
        PROVE  /\ i = Len(askLog')
               /\ \E j \in 1..(i - 1) : askLog'[j].kind = "asked"
                                        /\ askLog'[j].ask = askLog'[i].ask
               /\ ~DecidedFor(askLog, askLog'[i].ask)
               /\ (Question!GrantAt(i) => Question!StandingAt(i)
                     \/ (Question!PutUnderAsk(i) /\ Question!Answered(askLog[i].ask)))'
    <3>1. i = Len(askLog') /\ askLog'[i] = d /\ i = Len(askLog) + 1
      BY <1>4, <1>8, <2>1
    <3>2. PICK j \in DOMAIN askLog : askLog[j].kind = "asked" /\ askLog[j].ask = c
      BY <1>9 DEF AskedFor
    <3>3. j \in 1..(i - 1) /\ askLog'[j].kind = "asked" /\ askLog'[j].ask = askLog'[i].ask
      BY <1>1, <1>g, <3>1, <3>2
    <3>4. ~DecidedFor(askLog, askLog'[i].ask)
      BY <1>1, <1>9, <3>1
    <3>5. (Question!GrantAt(i) => Question!StandingAt(i)
             \/ (Question!PutUnderAsk(i) /\ Question!Answered(askLog[i].ask)))'
      BY <1>10, <3>1
    <3> QED BY <3>1, <3>3, <3>4, <3>5
  <2> QED BY <1>4, <1>5, <1>7, <2>1, HonestGrows DEF AskInv
<1>12. ASSUME NEW a \in Questions PROVE Progress(askLog, a, ask[a])'
  <2>1. CASE a = c
    <3>1. Progress(askLog', c, q)
      BY <1>0, <1>3, <1>4, GrownSays DEF Progress
    <3>2. ask'[a] = q
      BY <1>6, <2>1
    <3> QED BY <2>1, <3>1, <3>2 DEF Progress, AskedFor, AskedUnder, DecidedFor
  <2>2. CASE a # c
    <3>1. DecidedFor(askLog', a) => DecidedFor(askLog, a)
      BY <1>8, <1>g, <1>1, <2>2 DEF DecidedFor
    <3>2. Progress(askLog', a, ask[a])
      BY <1>4, <3>1, ProgressGrows DEF AskInv
    <3>3. ask'[a] = ask[a]
      BY <1>6, <2>2
    <3> QED BY <3>2, <3>3 DEF Progress, AskedFor, AskedUnder, DecidedFor
  <2> QED BY <2>1, <2>2
<1>13. askApproved' = TRUE => Installed(askLog')
  <2>1. CASE askApproved = TRUE
    BY <1>4, <2>1, GrownSays DEF AskInv
  <2>2. CASE c \in Installs /\ ask[c].outcome = "allowed-once"
    <3>1. Len(askLog) + 1 \in DOMAIN askLog'
      BY <1>g
    <3> QED BY <1>1, <1>4, <2>2, <3>1 DEF Installed
  <2> QED BY <1>2, <2>1, <2>2 DEF AskInv, AskTypes
<1> QED BY <1>5, <1>11, <1>12, <1>13 DEF AskInv, Installed

(* Every step keeps the invariant.                                         *)
LEMMA AskStep == AskInv /\ [Next]_allVars => AskInv'
<1> SUFFICES ASSUME AskInv, [Next]_allVars PROVE AskInv'
  OBVIOUS
<1>1. CASE ApprovalSteps
  <2>1. ASSUME NEW c \in Questions,
               \/ Question!Request(c) \/ Question!AnswerObserved(c) \/ Question!Abort(c)
               \/ Question!Decided(c)
               \/ \E v \in Question!Outcomes \cup {"rogue"} : Question!Answer(c, v)
        PROVE  AskInv'
    BY <2>1, RacersKeep, RequestKeeps, DecidedKeeps
  <2>2. ASSUME NEW p \in {"ask", "never"}, Question!SetPolicy(p) PROVE AskInv'
    BY <2>2, PolicySwitches
  <2> QED BY <1>1, <2>1, <2>2 DEF ApprovalSteps, Question!Next
<1>2. CASE UNCHANGED askVars
  BY <1>2 DEF askVars, AskInv, AskTypes, Installed, Progress, AskedFor, AskedUnder, DecidedFor,
     Question!DecisionsHonest, Question!DecidedAt, Question!GrantAt, Question!StandingAt,
     Question!PutUnderAsk, Question!Answered
<1> QED BY <1>1, <1>2 DEF Next, ToolSteps, RepairSteps, PublicationSteps, RetrySteps,
     GoalSteps, ScheduleSteps, allVars

(* Of every decision in the audit trail: it follows its question and is    *)
(* the only one, and a grant was given by an answerer to a question put    *)
(* under policy "ask" and not withdrawn before the answer, or rests on an  *)
(* earlier grant of an install (ApprovalService.request and decide).       *)
THEOREM DecisionsAlwaysHonest == Spec => []DecisionsHonest
<1>1. Init => AskInv
  <2> SUFFICES ASSUME Init PROVE AskInv
    OBVIOUS
  <2>1. /\ askLog = <<>> /\ askPolicy = "ask" /\ askApproved = FALSE
        /\ ask = [a \in Questions |-> [at |-> "idle", aborted |-> "no", dispatched |-> FALSE,
                                       answer |-> "none", outcome |-> "none"]]
    BY DEF Init, Question!Init, Question!None
  <2>2. DOMAIN askLog = {} /\ askLog \in Seq(AskRecords)
    BY <2>1
  <2>3. AskTypes
    BY <2>1, <2>2 DEF AskTypes, AskStates, AskOutcomes
  <2>4. \A a \in Questions : Progress(askLog, a, ask[a])
    BY <2>1, <2>2 DEF Progress, AskedFor, DecidedFor
  <2> QED BY <2>1, <2>2, <2>3, <2>4 DEF AskInv, Question!DecisionsHonest
<1>2. AskInv => DecisionsHonest
  BY DEF AskInv, DecisionsHonest
<1> QED BY <1>1, <1>2, AskStep, PTL DEF Spec

-----------------------------------------------------------------------------
(* The retry plugin.                                                       *)

RetryKeys == Normal \cup Always \cup {"none"}
RetryRecords ==
  [kind : {"request", "retry", "started"}, step : Nat, key : RetryKeys, n : Nat]
RetryLoops ==
  [step : Nat, aborted : BOOLEAN, at : {"idle", "sending", "streaming", "recovering"},
   failures : Nat]
RetryOps ==
  [at : {"none", "captured", "delegated", "deferred", "waiting", "settled"},
   key : RetryKeys, eligible : BOOLEAN, by : Nat, action : {"retry", "none"}]

RetryTypes ==
  /\ retryLog \in [RetryAgents -> Seq(RetryRecords)]
  /\ retryLoop \in [RetryAgents -> RetryLoops]
  /\ retryOp \in [RetryAgents -> RetryOps]
  /\ retryLoad \in Nat
  /\ retryLifetime \in {"live", "aborted", "drained"}

(* The retries of one step under one key, and those of them before i.      *)
ChainOf(l, s, k) ==
  {j \in 1..Len(l) : l[j].kind = "retry" /\ l[j].step = s /\ l[j].key = k}
Before(l, i) ==
  {j \in 1..(i - 1) : l[j].kind = "retry" /\ l[i].step = l[j].step /\ l[i].key = l[j].key}

(* What ChainExact says of one log.                                        *)
ExactAt(l, i) ==
  /\ l[i].kind = "retry" =>
       /\ l[i].n = 1 + Cardinality(Before(l, i))
       /\ l[i].key \in Normal => l[i].n <= MaxRetries
  /\ l[i].kind = "started" =>
       /\ i > 1 /\ l[i - 1].kind = "retry" /\ l[i - 1].n = l[i].n
       /\ l[i - 1].step = l[i].step /\ l[i - 1].key = l[i].key
Exact(l) == \A i \in DOMAIN l : ExactAt(l, i)

(* The highest number of a chain is its length: what Prior finds is the    *)
(* number of retries already made.                                         *)
Peak(l, s, k) ==
  /\ \A i \in ChainOf(l, s, k) : l[i].n <= Cardinality(ChainOf(l, s, k))
  /\ Cardinality(ChainOf(l, s, k)) # 0 =>
       \E i \in ChainOf(l, s, k) : l[i].n = Cardinality(ChainOf(l, s, k))
Peaked(l) == \A s \in Nat, k \in RetryKeys : Peak(l, s, k)

(* A recovery that waits wrote the last record of its agent's log.         *)
Awaited(l, p, o) ==
  /\ Len(l) # 0 /\ l[Len(l)].kind = "retry"
  /\ l[Len(l)].step = p.step /\ l[Len(l)].key = o.key
  /\ l[Len(l)].n = Cardinality(ChainOf(l, p.step, o.key))

Sound(l, p, o) ==
  /\ Exact(l) /\ Peaked(l)
  /\ o.at # "none" => p.at = "recovering"
  /\ o.at = "waiting" => Awaited(l, p, o)

RetryInv ==
  /\ RetryTypes
  /\ \A a \in RetryAgents : Sound(retryLog[a], retryLoop[a], retryOp[a])

(* The instance counts as the proofs do.                                   *)
LEMMA SameCardinality ==
  ASSUME NEW S
  PROVE  Retry!Cardinality(S) = Cardinality(S)
BY DEF Cardinality, Retry!Cardinality

(* ChainExact is Exact of every log.                                       *)
LEMMA ExactIsChainExact ==
  ASSUME \A a \in RetryAgents : Exact(retryLog[a])
  PROVE  ChainExact
<1> SUFFICES ASSUME NEW a \in RetryAgents, NEW i \in DOMAIN retryLog[a]
             PROVE  /\ Retry!RetryAt(a, i) =>
                        /\ retryLog[a][i].n = 1 + Cardinality({j \in 1..(i - 1) :
                             Retry!RetryAt(a, j) /\ Retry!SameChain(a, i, j)})
                        /\ retryLog[a][i].key \in Normal => retryLog[a][i].n <= MaxRetries
                    /\ retryLog[a][i].kind = "started" =>
                        /\ i > 1 /\ Retry!RetryAt(a, i - 1) /\ Retry!SameChain(a, i, i - 1)
                        /\ retryLog[a][i - 1].n = retryLog[a][i].n
  BY SameCardinality DEF ChainExact, Retry!ChainExact
<1>1. {j \in 1..(i - 1) : Retry!RetryAt(a, j) /\ Retry!SameChain(a, i, j)}
        = Before(retryLog[a], i)
  BY DEF Before, Retry!RetryAt, Retry!SameChain
<1> QED BY <1>1 DEF Exact, ExactAt, Retry!RetryAt, Retry!SameChain

(* The numbers of the records of a log.                                    *)
LEMMA NumberTypes ==
  ASSUME NEW l \in Seq(RetryRecords), NEW i \in 1..Len(l)
  PROVE  l[i].n \in Nat
<1>1. l[i] \in RetryRecords
  OBVIOUS
<1> QED BY <1>1 DEF RetryRecords

(* The records of a chain are finitely many.                               *)
LEMMA ChainFinite ==
  ASSUME NEW l \in Seq(RetryRecords), NEW s, NEW k
  PROVE  IsFiniteSet(ChainOf(l, s, k)) /\ Cardinality(ChainOf(l, s, k)) \in Nat
<1>1. IsFiniteSet(1..Len(l))
  BY FS_Interval
<1>2. ChainOf(l, s, k) \subseteq 1..Len(l)
  BY DEF ChainOf
<1> QED BY <1>1, <1>2, FS_Subset, FS_CardinalityType

(* What Prior finds is the number of retries already made.                 *)
LEMMA PriorCounts ==
  ASSUME RetryTypes, NEW a \in RetryAgents, Peaked(retryLog[a]), NEW k \in RetryKeys
  PROVE  Retry!Prior(a, k) = Cardinality(ChainOf(retryLog[a], retryLoop[a].step, k))
<1> DEFINE l == retryLog[a]
           s == retryLoop[a].step
           C == ChainOf(l, s, k)
           c == Cardinality(C)
           S == {0} \cup {l[i].n : i \in C}
<1>1. l \in Seq(RetryRecords) /\ s \in Nat
  BY DEF RetryTypes, RetryLoops
<1>2. c \in Nat
  BY <1>1, ChainFinite
<1>3. Peak(l, s, k)
  BY <1>1 DEF Peaked
<1>4. c \in S
  BY <1>3 DEF Peak
<1>5. \A x \in S : x \in Nat /\ x <= c
  <2>1. \A i \in C : l[i].n \in Nat
    BY <1>1, NumberTypes DEF ChainOf
  <2> QED BY <1>2, <1>3, <2>1 DEF Peak
<1>6. \A x \in S : (\A y \in S : x >= y) <=> x = c
  BY <1>2, <1>4, <1>5
<1>7. Retry!Max(S) = c
  BY <1>4, <1>6 DEF Retry!Max
<1>8. {j \in DOMAIN l : l[j].kind = "retry" /\ l[j].step = s /\ l[j].key = k} = C
  BY <1>1 DEF ChainOf
<1> QED BY <1>7, <1>8 DEF Retry!Prior

(* A record that is no retry leaves the chains alone.                      *)
LEMMA OtherAppends ==
  ASSUME NEW l \in Seq(RetryRecords), NEW r \in RetryRecords, r.kind # "retry",
         Exact(l), Peaked(l),
         r.kind = "started" =>
           /\ Len(l) # 0 /\ l[Len(l)].kind = "retry" /\ l[Len(l)].n = r.n
           /\ l[Len(l)].step = r.step /\ l[Len(l)].key = r.key
  PROVE  Exact(Append(l, r)) /\ Peaked(Append(l, r))
<1> DEFINE m == Append(l, r)
<1>1. /\ Len(l) \in Nat /\ Len(m) = Len(l) + 1 /\ m[Len(l) + 1] = r
      /\ DOMAIN m = 1..(Len(l) + 1) /\ DOMAIN l = 1..Len(l)
      /\ \A i \in 1..Len(l) : m[i] = l[i]
  OBVIOUS
<1> HIDE DEF m
<1>2. \A s, k : ChainOf(m, s, k) = ChainOf(l, s, k)
  BY <1>1 DEF ChainOf
<1>3. Peaked(m)
  <2> SUFFICES ASSUME NEW s \in Nat, NEW k \in RetryKeys PROVE Peak(m, s, k)
    BY DEF Peaked
  <2>1. \A i \in ChainOf(l, s, k) : m[i] = l[i]
    BY <1>1 DEF ChainOf
  <2> QED BY <1>2, <2>1 DEF Peaked, Peak
<1>4. ASSUME NEW i \in 1..Len(l) PROVE ExactAt(m, i)
  <2>1. Before(m, i) = Before(l, i)
    BY <1>1 DEF Before
  <2>2. ExactAt(l, i) /\ m[i] = l[i]
    BY <1>1 DEF Exact
  <2>3. i > 1 => m[i - 1] = l[i - 1]
    BY <1>1
  <2> QED BY <2>1, <2>2, <2>3 DEF ExactAt
<1>5. ExactAt(m, Len(l) + 1)
  <2>1. CASE r.kind = "started"
    <3>1. Len(l) + 1 > 1 /\ (Len(l) + 1) - 1 = Len(l) /\ m[Len(l)] = l[Len(l)]
      BY <1>1, <2>1
    <3> QED BY <1>1, <2>1, <3>1 DEF ExactAt
  <2> QED BY <1>1, <2>1 DEF ExactAt
<1> QED BY <1>1, <1>3, <1>4, <1>5 DEF Exact, m

(* The next retry of a chain, numbered past what Prior found.              *)
LEMMA RetryAppends ==
  ASSUME NEW l \in Seq(RetryRecords), NEW r \in RetryRecords, r.kind = "retry",
         Exact(l), Peaked(l),
         r.n = Cardinality(ChainOf(l, r.step, r.key)) + 1,
         r.key \in Normal => r.n <= MaxRetries
  PROVE  /\ Exact(Append(l, r)) /\ Peaked(Append(l, r))
         /\ Cardinality(ChainOf(Append(l, r), r.step, r.key)) = r.n
<1> DEFINE m == Append(l, r)
           C == ChainOf(l, r.step, r.key)
<1>1. /\ Len(l) \in Nat /\ Len(m) = Len(l) + 1 /\ m[Len(l) + 1] = r
      /\ DOMAIN m = 1..(Len(l) + 1) /\ DOMAIN l = 1..Len(l)
      /\ \A i \in 1..Len(l) : m[i] = l[i]
  OBVIOUS
<1> HIDE DEF m
<1>2. ChainOf(m, r.step, r.key) = C \cup {Len(l) + 1}
  BY <1>1 DEF ChainOf
<1>3. \A s, k : s # r.step \/ k # r.key => ChainOf(m, s, k) = ChainOf(l, s, k)
  BY <1>1 DEF ChainOf
<1>4. Cardinality(C) \in Nat /\ Cardinality(ChainOf(m, r.step, r.key)) = r.n
  <2>1. IsFiniteSet(C) /\ Cardinality(C) \in Nat
    BY ChainFinite
  <2>2. Len(l) + 1 \notin C
    BY <1>1 DEF ChainOf
  <2> QED BY <1>2, <2>1, <2>2, FS_AddElement
<1>5. Peaked(m)
  <2> SUFFICES ASSUME NEW s \in Nat, NEW k \in RetryKeys PROVE Peak(m, s, k)
    BY DEF Peaked
  <2>0. \A i \in ChainOf(l, s, k) : m[i] = l[i] /\ l[i].n \in Nat
    BY <1>1, NumberTypes DEF ChainOf
  <2>1. Peak(l, s, k)
    BY DEF Peaked
  <2>2. CASE s = r.step /\ k = r.key
    <3>1. \A i \in ChainOf(l, s, k) : l[i].n <= r.n
      BY <1>4, <2>0, <2>1, <2>2 DEF Peak
    <3>2. \A i \in ChainOf(m, s, k) : m[i].n <= r.n
      BY <1>1, <1>2, <1>4, <2>0, <2>2, <3>1 DEF RetryRecords
    <3>3. Len(l) + 1 \in ChainOf(m, s, k) /\ m[Len(l) + 1].n = r.n
      BY <1>1, <1>2, <2>2
    <3>4. Cardinality(ChainOf(m, s, k)) = r.n
      BY <1>4, <2>2
    <3> QED BY <3>2, <3>3, <3>4 DEF Peak
  <2>3. CASE ~(s = r.step /\ k = r.key)
    BY <1>3, <2>0, <2>1, <2>3 DEF Peak
  <2> QED BY <2>2, <2>3
<1>6. ASSUME NEW i \in 1..Len(l) PROVE ExactAt(m, i)
  <2>1. Before(m, i) = Before(l, i)
    BY <1>1 DEF Before
  <2>2. ExactAt(l, i) /\ m[i] = l[i]
    BY <1>1 DEF Exact
  <2>3. i > 1 => m[i - 1] = l[i - 1]
    BY <1>1
  <2> QED BY <2>1, <2>2, <2>3 DEF ExactAt
<1>7. ExactAt(m, Len(l) + 1)
  <2>1. Before(m, Len(l) + 1) = C
    BY <1>1 DEF Before, ChainOf
  <2>2. r.n = 1 + Cardinality(C)
    BY <1>4
  <2> QED BY <1>1, <2>1, <2>2 DEF ExactAt
<1> QED BY <1>1, <1>4, <1>5, <1>6, <1>7 DEF Exact, m

(* One agent's log, loop and recovery change together.                     *)
LEMMA AgentMoves ==
  ASSUME RetryInv, NEW a \in RetryAgents,
         NEW l \in Seq(RetryRecords), NEW p \in RetryLoops, NEW o \in RetryOps,
         Sound(l, p, o),
         retryLog' = [retryLog EXCEPT ![a] = l],
         retryLoop' = [retryLoop EXCEPT ![a] = p],
         retryOp' = [retryOp EXCEPT ![a] = o],
         UNCHANGED <<retryLoad, retryLifetime>>
  PROVE  RetryInv'
<1>1. RetryTypes'
  BY DEF RetryInv, RetryTypes
<1>2. ASSUME NEW b \in RetryAgents PROVE Sound(retryLog'[b], retryLoop'[b], retryOp'[b])
  <2>1. CASE b = a
    BY <2>1 DEF RetryInv, RetryTypes
  <2>2. CASE b # a
    <3>1. retryLog'[b] = retryLog[b] /\ retryLoop'[b] = retryLoop[b] /\ retryOp'[b] = retryOp[b]
      BY <2>2 DEF RetryInv, RetryTypes
    <3> QED BY <3>1 DEF RetryInv
  <2> QED BY <2>1, <2>2
<1> QED BY <1>1, <1>2 DEF RetryInv

(* What the invariant says of one agent.                                   *)
LEMMA AgentFacts ==
  ASSUME RetryInv, NEW a \in RetryAgents
  PROVE  /\ retryLog[a] \in Seq(RetryRecords)
         /\ retryLoop[a] \in RetryLoops /\ retryOp[a] \in RetryOps
         /\ retryLog = [retryLog EXCEPT ![a] = retryLog[a]]
         /\ retryLoop = [retryLoop EXCEPT ![a] = retryLoop[a]]
         /\ retryOp = [retryOp EXCEPT ![a] = retryOp[a]]
         /\ Sound(retryLog[a], retryLoop[a], retryOp[a])
BY DEF RetryInv, RetryTypes

(* The records the plugin and the loop write.                              *)
LEMMA RecordMade ==
  ASSUME RetryInv, NEW a \in RetryAgents, NEW kind \in {"request", "retry", "started"},
         NEW k \in RetryKeys, NEW n \in Nat
  PROVE  /\ Retry!Record(kind, a, k, n) \in RetryRecords
         /\ Retry!Record(kind, a, k, n).kind = kind
         /\ Retry!Record(kind, a, k, n).step = retryLoop[a].step
         /\ Retry!Record(kind, a, k, n).key = k
         /\ Retry!Record(kind, a, k, n).n = n
BY AgentFacts DEF Retry!Record, RetryRecords, RetryLoops

(* The loop changes its state alone.                                       *)
LEMMA LoopChanges ==
  ASSUME RetryInv, NEW a \in RetryAgents, NEW p \in RetryLoops,
         Sound(retryLog[a], p, retryOp[a]), retryLoop' = [retryLoop EXCEPT ![a] = p],
         UNCHANGED <<retryLog, retryOp, retryLoad, retryLifetime>>
  PROVE  RetryInv'
<1>1. /\ retryLog' = [retryLog EXCEPT ![a] = retryLog[a]] /\ retryLog[a] \in Seq(RetryRecords)
      /\ retryOp' = [retryOp EXCEPT ![a] = retryOp[a]] /\ retryOp[a] \in RetryOps
  BY AgentFacts
<1> QED BY <1>1, AgentMoves

(* The loop's own steps.                                                   *)
LEMMA LoopMoves ==
  ASSUME RetryInv, NEW a \in RetryAgents,
         Retry!OpenStep(a) \/ Retry!Succeed(a) \/ Retry!Abort(a)
  PROVE  RetryInv'
<1> USE AgentFacts
<1>1. CASE Retry!OpenStep(a)
  <2> DEFINE p == [retryLoop[a] EXCEPT !.step = @ + 1, !.aborted = FALSE, !.at = "sending"]
  <2>0. retryLoop[a].step \in Nat /\ retryLoop[a].step + 1 \in Nat
    BY DEF RetryLoops
  <2>1. p \in RetryLoops /\ retryLoop' = [retryLoop EXCEPT ![a] = p]
    <3>1. p \in RetryLoops
      BY <2>0 DEF RetryLoops
    <3>2. retryLoop' = [retryLoop EXCEPT ![a] = p]
      BY <1>1 DEF Retry!OpenStep, RetryInv, RetryTypes
    <3> QED BY <3>1, <3>2
  <2>2. Sound(retryLog[a], p, retryOp[a])
    BY <1>1 DEF Retry!OpenStep, Sound
  <2> HIDE DEF p
  <2> QED BY <1>1, <2>1, <2>2, LoopChanges DEF Retry!OpenStep
<1>2. CASE Retry!Succeed(a)
  <2> DEFINE p == [retryLoop[a] EXCEPT !.at = "idle"]
  <2>1. p \in RetryLoops /\ retryLoop' = [retryLoop EXCEPT ![a] = p]
    BY <1>2 DEF Retry!Succeed, RetryLoops
  <2>2. Sound(retryLog[a], p, retryOp[a])
    BY <1>2 DEF Retry!Succeed, Sound
  <2> HIDE DEF p
  <2> QED BY <1>2, <2>1, <2>2, LoopChanges DEF Retry!Succeed
<1>3. CASE Retry!Abort(a)
  <2> DEFINE p == [retryLoop[a] EXCEPT !.aborted = TRUE]
  <2>1. p \in RetryLoops /\ retryLoop' = [retryLoop EXCEPT ![a] = p]
    BY <1>3 DEF Retry!Abort, RetryLoops
  <2>2. p.at = retryLoop[a].at /\ p.step = retryLoop[a].step
    BY DEF RetryLoops
  <2> HIDE DEF p
  <2>3. Sound(retryLog[a], p, retryOp[a])
    BY <2>2 DEF Sound, Awaited
  <2> QED BY <1>3, <2>1, <2>3, LoopChanges DEF Retry!Abort
<1> QED BY <1>1, <1>2, <1>3

(* A request is sent: no recovery of the agent is under way.               *)
LEMMA SendKeeps ==
  ASSUME RetryInv, NEW a \in RetryAgents, Retry!Send(a)
  PROVE  RetryInv'
<1> USE AgentFacts
<1>1. retryOp[a].at = "none"
  BY DEF Retry!Send, Sound, RetryOps
<1>2. CASE retryLoop[a].aborted
  <2> DEFINE p == [retryLoop[a] EXCEPT !.at = "idle"]
  <2>1. p \in RetryLoops /\ retryLoop' = [retryLoop EXCEPT ![a] = p]
    BY <1>2 DEF Retry!Send, RetryLoops
  <2>2. Sound(retryLog[a], p, retryOp[a])
    BY <1>1 DEF Sound
  <2> HIDE DEF p
  <2> QED BY <1>2, <2>1, <2>2, LoopChanges DEF Retry!Send
<1>3. CASE ~retryLoop[a].aborted
  <2> DEFINE p == [retryLoop[a] EXCEPT !.at = "streaming"]
             r == Retry!Record("request", a, "none", 0)
             l == Append(retryLog[a], r)
  <2>1. p \in RetryLoops /\ retryLoop' = [retryLoop EXCEPT ![a] = p]
    BY <1>3 DEF Retry!Send, RetryLoops
  <2>2. r \in RetryRecords /\ r.kind = "request"
    <3>1. "none" \in RetryKeys /\ 0 \in Nat
      BY DEF RetryKeys
    <3> QED BY <3>1, RecordMade
  <2>3. retryLog' = [retryLog EXCEPT ![a] = l]
    BY <1>3 DEF Retry!Send, Retry!None
  <2> HIDE DEF p, r
  <2>4. Exact(l) /\ Peaked(l) /\ l \in Seq(RetryRecords)
    BY <2>2, OtherAppends DEF Sound
  <2>5. Sound(l, p, retryOp[a])
    BY <1>1, <2>4 DEF Sound
  <2> QED BY <2>1, <2>3, <2>4, <2>5, AgentMoves DEF Retry!Send
<1> QED BY <1>2, <1>3

(* A failed request: the waterfall holds this listener, or is past it.     *)
LEMMA FailKeeps ==
  ASSUME RetryInv, NEW a \in RetryAgents, NEW k \in Normal \cup Always,
         NEW eligible \in BOOLEAN, Retry!Fail(a, k, eligible)
  PROVE  RetryInv'
<1> USE AgentFacts
<1> DEFINE p == [retryLoop[a] EXCEPT !.at = "recovering", !.failures = @ + 1]
           o == IF retryLifetime = "live"
                THEN [Retry!Idle EXCEPT !.at = "captured", !.key = k, !.eligible = eligible,
                                        !.by = retryLoad]
                ELSE [Retry!Idle EXCEPT !.at = "delegated"]
<1>1. p \in RetryLoops /\ p.at = "recovering" /\ retryLoop' = [retryLoop EXCEPT ![a] = p]
  <2>1. retryLoop[a].failures \in Nat /\ retryLoop[a].failures + 1 \in Nat
    BY DEF RetryLoops
  <2>2. p \in RetryLoops /\ p.at = "recovering"
    BY <2>1 DEF RetryLoops
  <2>3. retryLoop' = [retryLoop EXCEPT ![a] = p]
    BY DEF Retry!Fail, RetryInv, RetryTypes
  <2> QED BY <2>2, <2>3
<1>2. o \in RetryOps /\ o.at \in {"captured", "delegated"} /\ retryOp' = [retryOp EXCEPT ![a] = o]
  BY DEF Retry!Fail, Retry!Idle, Retry!None, RetryOps, RetryKeys, RetryInv, RetryTypes
<1> HIDE DEF p, o
<1>3. Sound(retryLog[a], p, o)
  BY <1>1, <1>2 DEF Sound
<1>4. retryLog' = [retryLog EXCEPT ![a] = retryLog[a]]
      /\ UNCHANGED <<retryLoad, retryLifetime>>
  BY DEF Retry!Fail
<1>5. retryLog[a] \in Seq(RetryRecords)
  OBVIOUS
<1> QED BY <1>1, <1>2, <1>3, <1>4, <1>5, AgentMoves

(* The loop resumes with the recovery's answer.                            *)
LEMMA ResumeKeeps ==
  ASSUME RetryInv, NEW a \in RetryAgents, Retry!Resume(a)
  PROVE  RetryInv'
<1> USE AgentFacts
<1> DEFINE p == [retryLoop[a] EXCEPT !.at =
             IF retryOp[a].action = "retry" /\ ~retryLoop[a].aborted THEN "sending" ELSE "idle"]
<1>1. p \in RetryLoops /\ retryLoop' = [retryLoop EXCEPT ![a] = p]
  BY DEF Retry!Resume, RetryLoops
<1>2. Retry!Idle \in RetryOps /\ Retry!Idle.at = "none"
  BY DEF Retry!Idle, Retry!None, RetryOps, RetryKeys
<1> HIDE DEF p
<1>3. Sound(retryLog[a], p, Retry!Idle)
  BY <1>2 DEF Sound
<1> QED BY <1>1, <1>2, <1>3, AgentMoves DEF Retry!Resume

(* A recovery changes hands or settles without writing.                    *)
LEMMA OpMoves ==
  ASSUME RetryInv, NEW a \in RetryAgents, retryOp[a].at # "none",
         NEW o \in RetryOps, o.at # "waiting",
         retryOp' = [retryOp EXCEPT ![a] = o],
         UNCHANGED <<retryLog, retryLoop, retryLoad, retryLifetime>>
  PROVE  RetryInv'
<1>1. Sound(retryLog[a], retryLoop[a], o)
  BY AgentFacts DEF Sound
<1> QED BY <1>1, AgentFacts, AgentMoves

(* A recovery that settles.                                                *)
LEMMA SettledMoves ==
  ASSUME RetryInv, NEW a \in RetryAgents, retryOp[a].at # "none",
         NEW action \in {"retry", "none"}, retryOp' = Retry!Settled(a, action),
         UNCHANGED <<retryLog, retryLoop, retryLoad, retryLifetime>>
  PROVE  RetryInv'
<1> DEFINE o == [retryOp[a] EXCEPT !.at = "settled", !.action = action]
<1>1. o \in RetryOps /\ o.at = "settled" /\ retryOp' = [retryOp EXCEPT ![a] = o]
  BY AgentFacts DEF RetryOps, Retry!Settled
<1> HIDE DEF o
<1> QED BY <1>1, OpMoves

(* A recovery that waits for its turn elsewhere.                           *)
LEMMA HandedMoves ==
  ASSUME RetryInv, NEW a \in RetryAgents, retryOp[a].at # "none",
         NEW at \in {"delegated", "deferred"}, retryOp' = [retryOp EXCEPT ![a].at = at],
         UNCHANGED <<retryLog, retryLoop, retryLoad, retryLifetime>>
  PROVE  RetryInv'
<1> DEFINE o == [retryOp[a] EXCEPT !.at = at]
<1>1. o \in RetryOps /\ o.at = at /\ retryOp' = [retryOp EXCEPT ![a] = o]
  BY AgentFacts DEF RetryOps
<1> HIDE DEF o
<1> QED BY <1>1, OpMoves

(* Backoff writes the next retry of its chain, within the budget, unless   *)
(* the policy is exhausted or the recovery withdrawn.                      *)
LEMMA BackoffKeeps ==
  ASSUME RetryInv, NEW a \in RetryAgents, retryOp[a].at # "none", Retry!Backoff(a),
         UNCHANGED <<retryLoop, retryLoad, retryLifetime>>
  PROVE  RetryInv'
<1> USE AgentFacts
<1> DEFINE k == retryOp[a].key
           c == Cardinality(ChainOf(retryLog[a], retryLoop[a].step, k))
<1>1. CASE Retry!Exhausted(a)
  BY <1>1, HandedMoves DEF Retry!Backoff
<1>2. CASE ~Retry!Exhausted(a) /\ Retry!Fused(a)
  BY <1>2, SettledMoves DEF Retry!Backoff, Retry!None
<1>3. CASE ~Retry!Exhausted(a) /\ ~Retry!Fused(a)
  <2> DEFINE r == Retry!Record("retry", a, k, c + 1)
             l == Append(retryLog[a], r)
             o == [retryOp[a] EXCEPT !.at = "waiting"]
  <2>1. k \in RetryKeys /\ c \in Nat
    BY ChainFinite DEF RetryOps
  <2>2. Retry!Prior(a, k) = c
    BY <2>1, PriorCounts DEF RetryInv, Sound
  <2> HIDE DEF k, c
  <2>3. /\ r \in RetryRecords /\ r.kind = "retry" /\ r.step = retryLoop[a].step
        /\ r.key = k /\ r.n = c + 1
    BY <2>1, RecordMade
  <2>4. retryLog' = [retryLog EXCEPT ![a] = l] /\ retryOp' = [retryOp EXCEPT ![a] = o]
    BY <1>3, <2>2 DEF Retry!Backoff, k
  <2>5. r.key \in Normal => r.n <= MaxRetries
    <3>1. MaxRetries \in Nat
      BY RetryAssumption DEF Retry!RetryAssumption
    <3>2. k \in Normal => ~(c >= MaxRetries)
      BY <1>3, <2>2 DEF Retry!Exhausted, k
    <3> QED BY <2>1, <2>3, <3>1, <3>2
  <2>6. o \in RetryOps /\ o.at = "waiting" /\ o.key = k
    BY DEF RetryOps, k
  <2> HIDE DEF r, o
  <2>7. /\ Exact(l) /\ Peaked(l) /\ l \in Seq(RetryRecords)
        /\ Cardinality(ChainOf(l, r.step, r.key)) = r.n
    BY <2>3, <2>5, RetryAppends DEF Sound, c
  <2>8. Len(l) # 0 /\ l[Len(l)] = r
    BY <2>3
  <2> HIDE DEF l
  <2>9. Awaited(l, retryLoop[a], o)
    BY <2>3, <2>6, <2>7, <2>8 DEF Awaited
  <2>10. Sound(l, retryLoop[a], o)
    BY <2>7, <2>9 DEF Sound
  <2> QED BY <2>4, <2>6, <2>7, <2>10, AgentMoves
<1> QED BY <1>1, <1>2, <1>3

(* The started record follows the retry the recovery waited for.           *)
LEMMA TimerKeeps ==
  ASSUME RetryInv, NEW a \in RetryAgents, Retry!TimerFires(a)
  PROVE  RetryInv'
<1> USE AgentFacts
<1> DEFINE k == retryOp[a].key
           c == Cardinality(ChainOf(retryLog[a], retryLoop[a].step, k))
           r == Retry!Record("started", a, k, c)
           l == Append(retryLog[a], r)
           o == [retryOp[a] EXCEPT !.at = "settled", !.action = "retry"]
<1>1. k \in RetryKeys /\ c \in Nat
  BY ChainFinite DEF RetryOps
<1>2. Retry!Prior(a, k) = c
  BY <1>1, PriorCounts DEF RetryInv, Sound
<1>3. Awaited(retryLog[a], retryLoop[a], retryOp[a])
  BY DEF Retry!TimerFires, Sound
<1>4. o \in RetryOps /\ o.at = "settled" /\ retryOp' = [retryOp EXCEPT ![a] = o]
  BY DEF RetryOps, Retry!TimerFires, Retry!Settled
<1>5. retryLog' = [retryLog EXCEPT ![a] = l]
  BY <1>2 DEF Retry!TimerFires
<1> HIDE DEF c, o
<1>6. /\ r \in RetryRecords /\ r.kind = "started" /\ r.step = retryLoop[a].step
      /\ r.key = k /\ r.n = c
  BY <1>1, RecordMade
<1> HIDE DEF r
<1>7. Exact(l) /\ Peaked(l) /\ l \in Seq(RetryRecords)
  BY <1>3, <1>6, OtherAppends DEF Sound, Awaited, c
<1> HIDE DEF l
<1>8. retryLoop[a].at = "recovering"
  BY DEF Retry!TimerFires, Sound
<1>9. Sound(l, retryLoop[a], o)
  BY <1>4, <1>7, <1>8 DEF Sound
<1> QED BY <1>4, <1>5, <1>7, <1>9, AgentMoves DEF Retry!TimerFires

(* The recovery's other steps.                                             *)
LEMMA RecoveryKeeps ==
  ASSUME RetryInv, NEW a \in RetryAgents,
         \/ Retry!Recover(a) \/ Retry!EndWait(a)
         \/ \E result \in Retry!Results : Retry!Downstream(a, result)
  PROVE  RetryInv'
<1>1. CASE Retry!Recover(a)
  <2>0. retryOp[a].at # "none" /\ UNCHANGED <<retryLoop, retryLoad, retryLifetime>>
    BY <1>1 DEF Retry!Recover
  <2>1. \/ retryOp' = Retry!Settled(a, "none") /\ UNCHANGED retryLog
        \/ retryOp' = [retryOp EXCEPT ![a].at = "deferred"] /\ UNCHANGED retryLog
        \/ retryOp' = [retryOp EXCEPT ![a].at = "delegated"] /\ UNCHANGED retryLog
        \/ Retry!Backoff(a)
    BY <1>1 DEF Retry!Recover, Retry!None
  <2> QED BY <2>0, <2>1, SettledMoves, HandedMoves, BackoffKeeps
<1>2. CASE Retry!EndWait(a)
  BY <1>2, SettledMoves DEF Retry!EndWait, Retry!None
<1>3. ASSUME NEW result \in Retry!Results, Retry!Downstream(a, result) PROVE RetryInv'
  <2>0. retryOp[a].at # "none" /\ UNCHANGED <<retryLoop, retryLoad, retryLifetime>>
    BY <1>3 DEF Retry!Downstream
  <2>1. \/ retryOp' = Retry!Settled(a, "none") /\ UNCHANGED retryLog
        \/ retryOp' = Retry!Settled(a, "retry") /\ UNCHANGED retryLog
        \/ Retry!Backoff(a)
    BY <1>3 DEF Retry!Downstream, Retry!None
  <2> QED BY <2>0, <2>1, SettledMoves, BackoffKeeps
<1> QED BY <1>1, <1>2, <1>3

(* Every step keeps the invariant.                                         *)
LEMMA RetryStep == RetryInv /\ [Next]_allVars => RetryInv'
<1> SUFFICES ASSUME RetryInv, [Next]_allVars PROVE RetryInv'
  OBVIOUS
<1>1. CASE RetrySteps
  <2>1. ASSUME NEW a \in RetryAgents, Retry!Works(a) PROVE RetryInv'
    BY <2>1, SendKeeps, ResumeKeeps, RecoveryKeeps, TimerKeeps DEF Retry!Works
  <2>2. ASSUME NEW a \in RetryAgents,
               Retry!OpenStep(a) \/ Retry!Succeed(a) \/ Retry!Abort(a)
        PROVE  RetryInv'
    BY <2>2, LoopMoves
  <2>3. ASSUME NEW a \in RetryAgents, NEW k \in Retry!Keys, NEW eligible \in BOOLEAN,
               Retry!Fail(a, k, eligible)
        PROVE  RetryInv'
    BY <2>3, FailKeeps DEF Retry!Keys
  <2>4. CASE Retry!Dispose \/ Retry!Drained \/ Retry!Reload
    BY <2>4 DEF Retry!Dispose, Retry!Drained, Retry!Reload, RetryInv, RetryTypes
  <2> QED BY <1>1, <2>1, <2>2, <2>3, <2>4 DEF RetrySteps, Retry!Next
<1>2. CASE UNCHANGED retryVars
  BY <1>2 DEF retryVars, RetryInv, RetryTypes
<1> QED BY <1>1, <1>2 DEF Next, ToolSteps, RepairSteps, PublicationSteps, ApprovalSteps,
     GoalSteps, ScheduleSteps, allVars

(* The invariant holds of every reachable state.                           *)
LEMMA RetryAlways == Spec => []RetryInv
<1>1. Init => RetryInv
  <2> SUFFICES ASSUME Init PROVE RetryInv
    OBVIOUS
  <2>1. /\ retryLog = [a \in RetryAgents |-> <<>>]
        /\ retryLoop = [a \in RetryAgents |->
             [step |-> 0, aborted |-> FALSE, at |-> "idle", failures |-> 0]]
        /\ retryOp = [a \in RetryAgents |->
             [at |-> "none", key |-> "none", eligible |-> FALSE, by |-> 0, action |-> "none"]]
        /\ retryLoad = 1 /\ retryLifetime = "live"
    BY DEF Init, Retry!Init, Retry!Idle, Retry!None
  <2>2. RetryTypes
    BY <2>1 DEF RetryTypes, RetryLoops, RetryOps, RetryKeys
  <2>3. \A s, k : ChainOf(<<>>, s, k) = {}
    BY DEF ChainOf
  <2>4. Exact(<<>>)
    BY DEF Exact
  <2>5. Peaked(<<>>)
    BY <2>3, FS_EmptySet DEF Peaked, Peak
  <2>6. ASSUME NEW a \in RetryAgents PROVE Sound(retryLog[a], retryLoop[a], retryOp[a])
    BY <2>1, <2>4, <2>5 DEF Sound
  <2> QED BY <2>2, <2>6 DEF RetryInv
<1> QED BY <1>1, RetryStep, PTL DEF Spec

(* Of every agent's log: the retries of a step under one provider and      *)
(* policy are numbered without gap, a bounded policy stays within its      *)
(* budget, and a started record follows its own retry directly, whatever   *)
(* was disposed and loaded again in between (recover, backoff).            *)
THEOREM ChainsAlwaysExact == Spec => []ChainExact
<1>1. RetryInv => ChainExact
  BY ExactIsChainExact DEF RetryInv, Sound
<1> QED BY <1>1, RetryAlways, PTL

(* A recovery writes nothing once its agent is aborted or its instance of  *)
(* the plugin disposed: not the retry it was about to schedule, not the    *)
(* started record of one it waited for (recover, backoff).                 *)
THEOREM WithdrawnAlwaysSilent == Spec => WithdrawnWritesNothing
<1>1. RetryInv /\ [Next]_allVars =>
        [\A a \in RetryAgents :
           (retryLog'[a] # retryLog[a] /\ retryLog'[a][Len(retryLog'[a])].kind # "request")
             => ~retryLoop[a].aborted /\ ~Retry!Disposed(a)]_retryVars
  <2> SUFFICES ASSUME RetryInv, [Next]_allVars, NEW a \in RetryAgents,
                      retryLog'[a] # retryLog[a],
                      retryLog'[a][Len(retryLog'[a])].kind # "request"
               PROVE  ~Retry!Fused(a)
    BY DEF Retry!Fused
  <2>1. RetrySteps
    BY DEF Next, ToolSteps, RepairSteps, PublicationSteps, ApprovalSteps, GoalSteps,
       ScheduleSteps, allVars, retryVars
  <2>2. PICK b \in RetryAgents :
          \/ Retry!Send(b) \/ Retry!Recover(b) \/ Retry!TimerFires(b)
          \/ \E result \in Retry!Results : Retry!Downstream(b, result)
    BY <2>1 DEF RetrySteps, Retry!Next, Retry!Works, Retry!OpenStep, Retry!Succeed, Retry!Abort,
       Retry!Fail, Retry!Resume, Retry!EndWait, Retry!Dispose, Retry!Drained, Retry!Reload
  <2>3. CASE Retry!Send(b)
    <3>1. retryLog' = [retryLog EXCEPT ![b] = Append(retryLog[b], Retry!Record("request", b, "none", 0))]
      BY <2>3 DEF Retry!Send, Retry!None
    <3>2. b = a
      BY <3>1 DEF RetryInv, RetryTypes
    <3> DEFINE r == Retry!Record("request", a, "none", 0)
    <3>3. retryLog'[a] = Append(retryLog[a], r) /\ retryLog[a] \in Seq(RetryRecords)
      BY <3>1, <3>2 DEF RetryInv, RetryTypes
    <3>4. r.kind = "request"
      BY DEF Retry!Record
    <3> HIDE DEF r
    <3>5. Append(retryLog[a], r)[Len(Append(retryLog[a], r))] = r
      BY <3>3
    <3> QED BY <3>3, <3>4, <3>5
  <2>4. CASE Retry!TimerFires(b)
    <3>1. b = a
      BY <2>4 DEF Retry!TimerFires, RetryInv, RetryTypes
    <3> QED BY <2>4, <3>1 DEF Retry!TimerFires
  <2>5. ASSUME Retry!Backoff(b) PROVE ~Retry!Fused(a)
    <3>1. b = a /\ ~Retry!Exhausted(b)
      BY <2>5 DEF Retry!Backoff, RetryInv, RetryTypes
    <3> QED BY <2>5, <3>1 DEF Retry!Backoff
  <2>6. CASE Retry!Recover(b)
    BY <2>5, <2>6 DEF Retry!Recover
  <2>7. CASE \E result \in Retry!Results : Retry!Downstream(b, result)
    BY <2>5, <2>7 DEF Retry!Downstream
  <2> QED BY <2>2, <2>3, <2>4, <2>6, <2>7
<1> QED BY <1>1, RetryAlways, PTL
        DEF Spec, WithdrawnWritesNothing, Retry!WithdrawnWritesNothing, Retry!vars, retryVars

-----------------------------------------------------------------------------
(* The goal rounds.  The driver's handlers are functions of its whole      *)
(* state, so a lemma says of each of them what it keeps, in the order in   *)
(* which they call.                                                        *)

Nothing == [kind |-> "none"]
Phases == {"none", "active", "paused", "blocked", "complete", "unreadable"}
GoalStates == [phase : Phases, armed : BOOLEAN, rev : Nat, rounds : Nat, max : Nat]
Rounds == [kind : {"round"}, rev : Nat, round : Nat]
Attempts ==
  [kind : {"reserved"}, round : Rounds, phase : {"queued", "claimed", "admitted"},
   cancelled : BOOLEAN, stale : BOOLEAN]

(* A state of the driver; what is queued, and the runs, are not told apart.*)
Shape(t) ==
  /\ DOMAIN t = {"goal", "needsCheckpoint", "requested", "competing", "life", "current", "runs",
                 "attempt", "inbox", "loop"}
  /\ DOMAIN t.loop = {"at", "batch", "aborted", "wake"}
  /\ t.goal \in GoalStates
  /\ t.attempt = Nothing \/ t.attempt \in Attempts

(* A reservation was made within the budget its revision still has.        *)
Bounded(t) ==
  t.attempt # Nothing =>
    /\ t.attempt.round.rev <= t.goal.rev
    /\ t.attempt.round.rev = t.goal.rev => t.attempt.round.round <= t.goal.max

Entered(t) == t.attempt # Nothing /\ t.attempt.phase = "admitted"

(* What no handler of the driver does by itself: arm a goal, make its log  *)
(* unreadable, admit a round, or reserve one when it is not active.        *)
Kept(t, u) ==
  /\ Shape(u) /\ Bounded(u) /\ u.life = t.life
  /\ Goals!Live(u) => Goals!Live(t)
  /\ u.goal.phase = "unreadable" => t.goal.phase = "unreadable"
  /\ Entered(u) => Entered(t)
  /\ u.attempt # Nothing => t.attempt # Nothing \/ t.life = "active"

(* And what a request for a pass does besides: it touches the turn and the *)
(* goal only when the agent is idle.                                       *)
Driven(t, u) ==
  /\ Kept(t, u)
  /\ t.loop.at # "idle" => u.loop = t.loop /\ u.goal = t.goal
  /\ u.loop = t.loop \/ (u.loop.at = "claimed" /\ u.loop.aborted = FALSE)

(* A turn that ended: the agent is idle, has claimed its next prompt, or is *)
(* to open its next turn.                                                  *)
Free(u) == u.loop.at \in {"idle", "opening", "claimed"} /\ u.loop.aborted = FALSE

(* The record fields a handler leaves alone.                               *)
SameTurn(t, u) ==
  /\ Shape(u) /\ u.life = t.life /\ u.loop = t.loop /\ u.attempt = t.attempt

(* What handlers keep, a chain of them keeps.                              *)
LEMMA KeptChains ==
  ASSUME NEW t, NEW u, NEW v, Kept(t, u), Kept(u, v)
  PROVE  Kept(t, v)
BY DEF Kept

(* The wake of an idle agent claims a prompt and leaves the goal alone.    *)
LEMMA ClaimedKeeps ==
  ASSUME NEW t, Shape(t), Bounded(t)
  PROVE  /\ Kept(t, Goals!Claimed(t))
         /\ Goals!Claimed(t).loop.at = "claimed" /\ Goals!Claimed(t).loop.aborted = FALSE
         /\ Goals!Claimed(t).goal = t.goal
<1> DEFINE u == Goals!Claimed(t)
<1>1. /\ DOMAIN u = DOMAIN t /\ u.goal = t.goal /\ u.life = t.life
      /\ u.loop.at = "claimed" /\ u.loop.aborted = FALSE
      /\ DOMAIN u.loop = {"at", "batch", "aborted", "wake"}
  BY DEF Goals!Claimed, Shape
<1>2. u.attempt = t.attempt \/ (t.attempt # Nothing /\ u.attempt = [t.attempt EXCEPT !.phase = "claimed"])
  BY DEF Goals!Claimed, Goals!IsAttempt, Shape, Goals!None, Nothing
<1> HIDE DEF u
<1>3. u.attempt # Nothing => t.attempt # Nothing /\ u.attempt.round = t.attempt.round
  BY <1>2 DEF Shape, Attempts, Nothing
<1>4. u.attempt = Nothing \/ u.attempt \in Attempts
  BY <1>2 DEF Shape, Attempts, Nothing
<1>5. Entered(u) => Entered(t)
  BY <1>2 DEF Shape, Attempts, Nothing, Entered
<1>6. Shape(u) /\ Bounded(u)
  BY <1>1, <1>3, <1>4 DEF Shape, Bounded
<1>7. Goals!Live(u) => Goals!Live(t)
  BY <1>1 DEF Goals!Live
<1> QED BY <1>1, <1>3, <1>5, <1>6, <1>7 DEF Kept, u

(* Every goal/changed asks for a checkpoint and a pass.                    *)
LEMMA RequestChangedKeeps ==
  ASSUME NEW t, Shape(t)
  PROVE  SameTurn(t, Goals!RequestChanged(t)) /\ Goals!RequestChanged(t).goal = t.goal
BY DEF Goals!RequestChanged, Goals!Noted, Goals!Checkpointing, Shape, SameTurn

(* One transition of the goal.                                             *)
LEMMA ChangeMoves ==
  ASSUME NEW t, Shape(t), NEW phase \in Phases, NEW armed \in BOOLEAN
  PROVE  /\ SameTurn(t, Goals!Change(t, phase, armed))
         /\ Goals!Change(t, phase, armed).goal
              = [t.goal EXCEPT !.phase = phase, !.armed = armed, !.rev = t.goal.rev + 1]
<1> DEFINE w == [t EXCEPT !.goal.phase = phase, !.goal.armed = armed, !.goal.rev = @ + 1]
<1>1. w.goal = [t.goal EXCEPT !.phase = phase, !.armed = armed, !.rev = t.goal.rev + 1]
  BY DEF Shape
<1>2. w.goal \in GoalStates
  <2>1. t.goal.rev + 1 \in Nat
    BY DEF Shape, GoalStates
  <2> QED BY <1>1, <2>1 DEF Shape, GoalStates
<1>3. SameTurn(t, w)
  BY <1>2 DEF Shape, SameTurn
<1>4. Goals!Change(t, phase, armed) = Goals!RequestChanged(w)
  BY DEF Goals!Change
<1> HIDE DEF w
<1> QED BY <1>1, <1>3, <1>4, RequestChangedKeeps DEF SameTurn

(* A transition that does not arm the goal.                                *)
LEMMA DisarmingKeeps ==
  ASSUME NEW t, Shape(t), Bounded(t), NEW phase \in Phases \ {"unreadable"}
  PROVE  /\ Kept(t, Goals!Change(t, phase, FALSE))
         /\ Goals!Change(t, phase, FALSE).loop = t.loop
         /\ ~Goals!Live(Goals!Change(t, phase, FALSE))
<1> DEFINE u == Goals!Change(t, phase, FALSE)
<1>1. SameTurn(t, u) /\ u.goal = [t.goal EXCEPT !.phase = phase, !.armed = FALSE, !.rev = t.goal.rev + 1]
  BY ChangeMoves
<1> HIDE DEF u
<1>2. u.goal.armed = FALSE /\ u.goal.phase = phase /\ u.goal.rev = t.goal.rev + 1 /\ t.goal.rev \in Nat
  BY <1>1 DEF Shape, GoalStates
<1>3. Bounded(u)
  <2>1. t.attempt # Nothing => t.attempt.round.rev \in Nat
    BY DEF Shape, Attempts, Rounds
  <2> QED BY <1>1, <1>2, <2>1 DEF Bounded, SameTurn
<1>4. ~Goals!Live(u)
  BY <1>2 DEF Goals!Live
<1> QED BY <1>1, <1>2, <1>3, <1>4 DEF Kept, SameTurn, Entered, u

(* A reservation within the budget.                                        *)
LEMMA ReserveKeeps ==
  ASSUME NEW t, Shape(t), t.attempt = Nothing, t.life = "active", t.goal.rounds < t.goal.max
  PROVE  /\ Kept(t, Goals!Reserve(t))
         /\ Goals!Reserve(t).loop.at = "claimed" /\ Goals!Reserve(t).loop.aborted = FALSE
<1> DEFINE round == Goals!Round(t.goal.rev, t.goal.rounds + 1)
           w == [t EXCEPT !.inbox = Goals!Append(@, round),
                          !.attempt = [kind |-> "reserved", round |-> round, phase |-> "queued",
                                       cancelled |-> FALSE, stale |-> FALSE]]
<1>0. t.goal.rev \in Nat /\ t.goal.rounds + 1 \in Nat /\ t.goal.rounds + 1 <= t.goal.max
  BY DEF Shape, GoalStates
<1>1. round \in Rounds /\ round.rev = t.goal.rev /\ round.round = t.goal.rounds + 1
  BY <1>0 DEF Goals!Round, Rounds
<1> HIDE DEF round
<1>2. /\ w.attempt \in Attempts /\ w.attempt.round = round /\ w.attempt.phase = "queued"
      /\ w.goal = t.goal /\ w.life = t.life
  BY <1>1 DEF Shape, Attempts
<1>3. Shape(w)
  BY <1>2 DEF Shape
<1>4. Goals!Reserve(t) = Goals!Claimed(w)
  BY DEF Goals!Reserve, round
<1> HIDE DEF w
<1>5. Bounded(w)
  BY <1>0, <1>1, <1>2 DEF Bounded
<1>6. Kept(t, w)
  BY <1>2, <1>3, <1>5 DEF Kept, Entered, Goals!Live
<1> QED BY <1>3, <1>4, <1>5, <1>6, ClaimedKeeps, KeptChains

(* A pass below its checkpoint, on an idle agent.                          *)
LEMMA ProceedKeeps ==
  ASSUME NEW t, Shape(t), Bounded(t), t.life = "active", t.loop.at = "idle"
  PROVE  Driven(t, Goals!Proceed(t))
<1>1. CASE t.attempt # Nothing
  <2> DEFINE u == [t EXCEPT !.attempt = Goals!None, !.needsCheckpoint = TRUE, !.requested = TRUE]
  <2>1. Goals!Proceed(t) = u
    BY <1>1 DEF Goals!Proceed, Goals!None, Nothing
  <2>2. u.attempt = Nothing /\ u.goal = t.goal /\ u.life = t.life /\ u.loop = t.loop /\ Shape(u)
    BY DEF Shape, Goals!None, Nothing
  <2> HIDE DEF u
  <2> QED BY <2>1, <2>2 DEF Driven, Kept, Bounded, Entered, Goals!Live
<1>2. CASE t.attempt = Nothing /\ ~Goals!Live(t)
  <2>1. Goals!Proceed(t) = t
    BY <1>2 DEF Goals!Proceed, Goals!None, Nothing
  <2> QED BY <2>1 DEF Driven, Kept
<1>3. CASE t.attempt = Nothing /\ Goals!Live(t) /\ t.goal.rounds >= t.goal.max
  <2>1. Goals!Proceed(t) = Goals!Change(t, "blocked", FALSE)
    BY <1>3 DEF Goals!Proceed, Goals!None, Nothing
  <2>2. "blocked" \in Phases \ {"unreadable"}
    BY DEF Phases
  <2> QED BY <2>1, <2>2, DisarmingKeeps DEF Driven
<1>4. CASE t.attempt = Nothing /\ Goals!Live(t) /\ ~(t.goal.rounds >= t.goal.max)
  <2>1. Goals!Proceed(t) = Goals!Reserve(t)
    BY <1>4 DEF Goals!Proceed, Goals!None, Nothing
  <2>2. t.goal.rounds < t.goal.max
    BY <1>4 DEF Shape, GoalStates
  <2> QED BY <1>4, <2>1, <2>2, ReserveKeeps DEF Driven
<1> QED BY <1>1, <1>2, <1>3, <1>4

(* Bookkeeping of the runs.                                                *)
LEMMA SameKeeps ==
  ASSUME NEW t, NEW u, Shape(t), Bounded(t), SameTurn(t, u), u.goal = t.goal
  PROVE  Driven(t, u) /\ Shape(u) /\ Bounded(u)
BY DEF SameTurn, Driven, Kept, Bounded, Entered, Goals!Live

(* So it is for handlers that may also reserve a round.                    *)
LEMMA DrivenChains ==
  ASSUME NEW t, NEW u, NEW v, SameTurn(t, u), u.goal = t.goal, Shape(t), Bounded(t), Driven(u, v)
  PROVE  Driven(t, v)
BY SameKeeps, KeptChains DEF Driven, SameTurn

(* One turn of runRequested's loop.                                        *)
LEMMA PassKeeps ==
  ASSUME NEW t, NEW r, Shape(t), Bounded(t)
  PROVE  Driven(t, Goals!Pass(t, r))
<1> DEFINE u == [t EXCEPT !.requested = FALSE, !.runs[r] = Goals!Between]
<1>1. SameTurn(t, u) /\ u.goal = t.goal
  BY DEF Shape, SameTurn
<1>2. Goals!Pass(t, r) = IF ~Goals!ReadyToDrive(u) THEN u
        ELSE IF u.needsCheckpoint THEN Goals!Checkpointing(u, r) ELSE Goals!Proceed(u)
  BY DEF Goals!Pass
<1> HIDE DEF u
<1>3. Shape(u) /\ Bounded(u) /\ Driven(t, u)
  BY <1>1, SameKeeps
<1>4. CASE ~Goals!ReadyToDrive(u)
  BY <1>2, <1>3, <1>4
<1>5. CASE Goals!ReadyToDrive(u) /\ u.needsCheckpoint
  <2>1. SameTurn(u, Goals!Checkpointing(u, r)) /\ Goals!Checkpointing(u, r).goal = u.goal
    BY <1>3 DEF Goals!Checkpointing, Shape, SameTurn
  <2> QED BY <1>1, <1>2, <1>3, <1>5, <2>1, SameKeeps, DrivenChains
<1>6. CASE Goals!ReadyToDrive(u) /\ ~u.needsCheckpoint
  <2>1. Driven(u, Goals!Proceed(u))
    BY <1>3, <1>6, ProceedKeeps DEF Goals!ReadyToDrive
  <2> QED BY <1>1, <1>2, <1>6, <2>1, DrivenChains
<1> QED BY <1>4, <1>5, <1>6

(* A request for a pass.                                                   *)
LEMMA GoalRequestKeeps ==
  ASSUME NEW t, Shape(t), Bounded(t)
  PROVE  Driven(t, Goals!Request(t))
<1> DEFINE u == [t EXCEPT !.requested = TRUE]
           r == Goals!NewRun(u)
           v == [Goals!Pass(u, r) EXCEPT !.current = r]
<1>1. SameTurn(t, u) /\ u.goal = t.goal
  BY DEF Shape, SameTurn
<1>2. Goals!Request(t) = IF u.life # "active" THEN t ELSE IF u.current # 0 THEN u ELSE v
  BY DEF Goals!Request
<1> HIDE DEF u
<1>3. Shape(u) /\ Bounded(u) /\ Driven(t, u)
  BY <1>1, SameKeeps
<1>4. Driven(u, v)
  <2>1. Driven(u, Goals!Pass(u, r))
    BY <1>3, PassKeeps
  <2> DEFINE w == Goals!Pass(u, r)
  <2>2. SameTurn(w, v) /\ v.goal = w.goal
    BY <2>1 DEF Driven, Kept, Shape, SameTurn
  <2> HIDE DEF v, w
  <2>3. Driven(u, w) /\ Shape(w) /\ Bounded(w)
    BY <2>1 DEF Driven, Kept, w
  <2>4. Kept(w, v)
    BY <2>2, <2>3, SameKeeps DEF Driven
  <2> QED BY <2>2, <2>3, <2>4, KeptChains DEF Driven, SameTurn
<1>5. Driven(t, v)
  BY <1>1, <1>4, DrivenChains
<1>6. Driven(t, t)
  BY DEF Driven, Kept
<1> QED BY <1>2, <1>3, <1>5, <1>6

(* turn/end: an abort leaves a round that had entered marked as cancelled, *)
(* or disarms the goal.                                                    *)
LEMMA TurnEndedKeeps ==
  ASSUME NEW t, Shape(t), Bounded(t), NEW reason
  PROVE  /\ Kept(t, Goals!TurnEnded(t, reason))
         /\ reason = "aborted" =>
              \/ ~Goals!Live(Goals!TurnEnded(t, reason))
              \/ /\ Goals!TurnEnded(t, reason).attempt # Nothing
                 /\ Goals!TurnEnded(t, reason).attempt.cancelled = TRUE
<1> DEFINE c == [t EXCEPT !.attempt.cancelled = TRUE]
           d == Goals!Disarm(t)
<1>1. /\ Kept(t, d) /\ ~Goals!Live(d)
  <2>1. d.goal = [t.goal EXCEPT !.armed = FALSE] /\ d.attempt = t.attempt /\ d.life = t.life
    BY DEF Goals!Disarm, Shape
  <2>2. d.goal \in GoalStates /\ d.goal.armed = FALSE /\ d.goal.phase = t.goal.phase
        /\ d.goal.rev = t.goal.rev /\ d.goal.max = t.goal.max
    BY <2>1 DEF Shape, GoalStates
  <2>3. Shape(d)
    BY <2>1, <2>2 DEF Goals!Disarm, Shape
  <2> HIDE DEF d
  <2> QED BY <2>1, <2>2, <2>3 DEF Kept, Bounded, Entered, Goals!Live
<1>2. t.attempt # Nothing => Kept(t, c) /\ c.attempt # Nothing /\ c.attempt.cancelled = TRUE
  <2> SUFFICES ASSUME t.attempt # Nothing
               PROVE  Kept(t, c) /\ c.attempt # Nothing /\ c.attempt.cancelled = TRUE
    OBVIOUS
  <2>1. c.attempt = [t.attempt EXCEPT !.cancelled = TRUE] /\ c.goal = t.goal /\ c.life = t.life
    BY DEF Shape
  <2>2. /\ c.attempt \in Attempts /\ c.attempt.round = t.attempt.round
        /\ c.attempt.phase = t.attempt.phase /\ c.attempt.cancelled = TRUE
        /\ c.attempt # Nothing
    BY <2>1 DEF Shape, Attempts, Nothing
  <2>3. Shape(c)
    BY <2>1, <2>2 DEF Shape
  <2> HIDE DEF c
  <2> QED BY <2>1, <2>2, <2>3 DEF Kept, Bounded, Entered, Goals!Live
<1>3. Kept(t, t)
  BY DEF Kept
<1>4. /\ Goals!TurnEnded(t, reason) \in {t, c, d}
      /\ Goals!TurnEnded(t, reason) = c => t.attempt # Nothing \/ c \in {t, d}
      /\ reason = "aborted" =>
           \/ Goals!TurnEnded(t, reason) = d
           \/ Goals!TurnEnded(t, reason) = c /\ t.attempt # Nothing
  BY DEF Goals!TurnEnded, Goals!None, Nothing
<1> HIDE DEF c, d
<1> QED BY <1>1, <1>2, <1>3, <1>4

(* agent/status idle: a goal whose round was cut off or cancelled is       *)
(* paused, then the driver looks for work.                                 *)
LEMMA AtIdleKeeps ==
  ASSUME NEW t, Shape(t), Bounded(t), t.loop.at = "idle", t.loop.aborted = FALSE
  PROVE  /\ Kept(t, Goals!AtIdle(t)) /\ Free(Goals!AtIdle(t))
         /\ (t.attempt # Nothing /\ t.attempt.cancelled = TRUE) => ~Goals!Live(Goals!AtIdle(t))
<1> DEFINE u == [t EXCEPT !.competing = FALSE]
           w == [u EXCEPT !.attempt = Goals!None]
           p == Goals!Change(w, "paused", FALSE)
           v == IF Goals!PausedAtIdle(u) /\ Goals!Live(u) THEN p ELSE u
<1>1. SameTurn(t, u) /\ u.goal = t.goal
  BY DEF Shape, SameTurn
<1>2. Shape(u) /\ Bounded(u) /\ Kept(t, u)
  BY <1>1, SameKeeps DEF Driven
<1>3. Shape(w) /\ w.attempt = Nothing /\ w.goal = u.goal /\ w.life = u.life /\ w.loop = u.loop
  BY <1>2 DEF Shape, Goals!None, Nothing
<1>4. Goals!AtIdle(t) = Goals!Request(v)
  BY DEF Goals!AtIdle
<1> HIDE DEF u, w
<1>5. Bounded(w) /\ Kept(u, w)
  BY <1>3 DEF Bounded, Kept, Entered, Goals!Live
<1>6. Kept(w, p) /\ p.loop = w.loop /\ ~Goals!Live(p)
  <2>1. "paused" \in Phases \ {"unreadable"}
    BY DEF Phases
  <2> QED BY <1>3, <1>5, <2>1, DisarmingKeeps
<1> HIDE DEF p
<1>7. Kept(t, v) /\ v.loop = t.loop
  BY <1>1, <1>2, <1>3, <1>5, <1>6, KeptChains DEF SameTurn
<1>8. (t.attempt # Nothing /\ t.attempt.cancelled = TRUE) => ~Goals!Live(v)
  BY <1>1, <1>6 DEF Goals!PausedAtIdle, Goals!None, Nothing, SameTurn
<1> HIDE DEF v
<1>9. Driven(v, Goals!Request(v))
  BY <1>7, GoalRequestKeeps DEF Kept
<1> QED BY <1>4, <1>7, <1>8, <1>9, KeptChains DEF Driven, Free, Kept

(* The loop at rest between two turns.                                     *)
LEMMA RestingKeeps ==
  ASSUME NEW t, Shape(t), Bounded(t), NEW at
  PROVE  /\ Kept(t, Goals!Resting(t, at)) /\ Goals!Resting(t, at).goal = t.goal
         /\ Goals!Resting(t, at).attempt = t.attempt /\ Goals!Resting(t, at).life = t.life
         /\ Goals!Resting(t, at).loop.at = at /\ Goals!Resting(t, at).loop.aborted = FALSE
<1> DEFINE u == Goals!Resting(t, at)
<1>1. /\ Shape(u) /\ u.goal = t.goal /\ u.life = t.life /\ u.attempt = t.attempt
      /\ u.loop.at = at /\ u.loop.aborted = FALSE
  BY DEF Goals!Resting, Shape
<1> HIDE DEF u
<1>2. Kept(t, u)
  BY <1>1 DEF Kept, Bounded, Entered, Goals!Live
<1> QED BY <1>1, <1>2 DEF u

(* Before its next turn opens, too, the turn is over.                      *)
LEMMA OpeningKeeps ==
  ASSUME NEW t, Shape(t), Bounded(t)
  PROVE  Kept(t, Goals!Resting(t, "opening")) /\ Free(Goals!Resting(t, "opening"))
BY RestingKeeps DEF Free

(* The kick converges; a goal whose round was cancelled is live no longer  *)
(* if the driver hears of it.                                              *)
LEMMA ConvergedKeeps ==
  ASSUME NEW t, Shape(t), Bounded(t)
  PROVE  /\ Kept(t, Goals!Converged(t)) /\ Free(Goals!Converged(t))
         /\ (t.life # "closed" /\ t.attempt # Nothing /\ t.attempt.cancelled = TRUE)
              => ~Goals!Live(Goals!Converged(t))
<1> DEFINE idle == Goals!Resting(t, "idle")
           v == IF t.life # "closed" THEN Goals!AtIdle(idle) ELSE idle
<1>1. Goals!Converged(t) =
        IF t.loop.wake /\ v.inbox # <<>> /\ v.loop.at = "idle" THEN Goals!Claimed(v) ELSE v
  BY DEF Goals!Converged
<1>2. /\ Kept(t, idle) /\ idle.attempt = t.attempt
      /\ idle.loop.at = "idle" /\ idle.loop.aborted = FALSE
  BY RestingKeeps
<1> HIDE DEF idle
<1>3. /\ Kept(idle, v) /\ Free(v)
      /\ (t.life # "closed" /\ t.attempt # Nothing /\ t.attempt.cancelled = TRUE)
           => ~Goals!Live(v)
  <2>1. Shape(idle) /\ Bounded(idle) /\ Kept(idle, idle) /\ Free(idle)
    BY <1>2 DEF Kept, Free
  <2> QED BY <1>2, <2>1, AtIdleKeeps
<1> HIDE DEF v
<1>4. Kept(t, v)
  BY <1>2, <1>3, KeptChains
<1>5. Kept(t, Goals!Claimed(v)) /\ Free(Goals!Claimed(v)) /\ Goals!Claimed(v).goal = v.goal
  <2>1. Shape(v) /\ Bounded(v)
    BY <1>4 DEF Kept
  <2> QED BY <1>4, <2>1, ClaimedKeeps, KeptChains DEF Free
<1> QED BY <1>1, <1>3, <1>4, <1>5 DEF Goals!Live

(* A turn ends; if it was aborted and the driver hears of it, the goal is  *)
(* live no longer.                                                         *)
LEMMA EndedKeeps ==
  ASSUME NEW t, Shape(t), Bounded(t), NEW reason
  PROVE  /\ Kept(t, Goals!Ended(t, reason)) /\ Free(Goals!Ended(t, reason))
         /\ (reason = "aborted" /\ t.life # "closed") => ~Goals!Live(Goals!Ended(t, reason))
<1> DEFINE u == IF t.life # "closed" THEN Goals!TurnEnded(t, reason) ELSE t
<1>1. Goals!Ended(t, reason) =
        IF reason \in {"completed", "max-tokens"} /\ u.inbox # <<>>
        THEN Goals!Resting(u, "opening") ELSE Goals!Converged(u)
  BY DEF Goals!Ended
<1>2. Kept(t, u) /\ (reason = "aborted" /\ t.life # "closed" =>
                       ~Goals!Live(u) \/ (u.attempt # Nothing /\ u.attempt.cancelled = TRUE))
  <2>1. Kept(t, t)
    BY DEF Kept
  <2> QED BY <2>1, TurnEndedKeeps
<1> HIDE DEF u
<1>3. Shape(u) /\ Bounded(u) /\ u.life = t.life
  BY <1>2 DEF Kept
<1>4. /\ Kept(u, Goals!Converged(u)) /\ Free(Goals!Converged(u))
      /\ (u.life # "closed" /\ u.attempt # Nothing /\ u.attempt.cancelled = TRUE)
           => ~Goals!Live(Goals!Converged(u))
  BY <1>3, ConvergedKeeps
<1>5. Kept(u, Goals!Resting(u, "opening")) /\ Free(Goals!Resting(u, "opening"))
  BY <1>3, OpeningKeeps
<1>6. (reason = "aborted" /\ t.life # "closed") => ~Goals!Live(Goals!Converged(u))
  BY <1>2, <1>3, <1>4 DEF Kept
<1> QED BY <1>1, <1>2, <1>4, <1>5, <1>6, KeptChains

-----------------------------------------------------------------------------
(* The invariant.                                                          *)

(* A round about to enter, with the goal unchanged since the driver let it *)
(* through, is the one the fold expects.                                   *)
EnteringFresh ==
  (goal.loop.at = "entering" /\ exposed = FALSE) => Goals!FoldAccepts(goal, goal.loop.batch)

(* After a cancel of a turn it is aborted or the goal is not live, while   *)
(* the driver hears of it; and what enters then is not a round.            *)
Stopped ==
  /\ held = TRUE => \/ goal.loop.aborted = TRUE /\ goal.loop.at # "opening"
                    \/ ~Goals!Live(goal) \/ goal.life = "closed"
  /\ (goal.loop.at = "entering" /\ goal.loop.aborted = FALSE) => held = FALSE

GoalInv ==
  /\ Shape(goal) /\ Bounded(goal)
  /\ exposed \in BOOLEAN /\ held \in BOOLEAN /\ goal.loop.aborted \in BOOLEAN
  /\ goal.goal.phase = "unreadable" => exposed = TRUE \/ goal.life = "closed"
  /\ EnteringFresh
  /\ Stopped
  /\ goal.life = "closed" => goal.attempt = Nothing
  /\ goal.loop.at = "idle" => goal.loop.aborted = FALSE

(* The turn ends in this step.                                             *)
LEMMA FreedKeeps ==
  ASSUME GoalInv, NEW u, Kept(goal, u), Free(u), goal' = u,
         held = TRUE => ~Goals!Live(u) \/ goal.life = "closed",
         UNCHANGED <<exposed, held>>
  PROVE  GoalInv' /\ ~Goals!RoundAdmitted
<1>1. goal'.loop.at # "entering" /\ goal'.loop.aborted = FALSE
  BY DEF Free
<1>2. EnteringFresh'
  BY <1>1 DEF EnteringFresh
<1>3. Stopped'
  BY <1>1 DEF Stopped, Kept, Goals!Live
<1>4. ~Goals!RoundAdmitted
  BY DEF Goals!RoundAdmitted, Goals!None, Nothing, Kept, Entered
<1>5. Shape(goal') /\ Bounded(goal') /\ goal'.life = goal.life
  BY DEF Kept
<1>6. goal'.goal.phase = "unreadable" => goal.goal.phase = "unreadable"
  BY DEF Kept
<1>7. goal'.life = "closed" => goal'.attempt = Nothing
  BY DEF Kept, GoalInv
<1> QED BY <1>1, <1>2, <1>3, <1>4, <1>5, <1>6, <1>7 DEF GoalInv, Shape, Bounded

(* The driver's run moves, or the queue grows.                             *)
LEMMA DrivenMoves ==
  ASSUME GoalInv, NEW u, Driven(goal, u), goal' = u, UNCHANGED <<exposed, held>>
  PROVE  GoalInv' /\ ~Goals!RoundAdmitted
<1>1. CASE goal.loop.at = "idle"
  <2>1. Free(u) /\ (held = TRUE => ~Goals!Live(u) \/ goal.life = "closed")
    BY <1>1 DEF GoalInv, Stopped, Driven, Kept, Free
  <2> QED BY <2>1, FreedKeeps DEF Driven
<1>2. CASE goal.loop.at # "idle"
  <2>1. goal'.loop = goal.loop /\ goal'.goal = goal.goal /\ goal'.life = goal.life
    BY <1>2 DEF Driven, Kept
  <2>2. EnteringFresh' /\ Stopped'
    BY <2>1 DEF EnteringFresh, Stopped, GoalInv, Goals!FoldAccepts, Goals!Live
  <2>3. Shape(goal') /\ Bounded(goal')
    BY DEF Driven, Kept
  <2>4. ~Goals!RoundAdmitted
    BY DEF Goals!RoundAdmitted, Goals!None, Nothing, Kept, Driven, Entered
  <2>5. goal'.life = "closed" => goal'.attempt = Nothing
    BY DEF Driven, Kept, GoalInv
  <2> QED BY <1>2, <2>1, <2>2, <2>3, <2>4, <2>5 DEF GoalInv, Shape, Bounded
<1> QED BY <1>1, <1>2

(* The turn goes on: the goal is as it was, or disarmed.                   *)
LEMMA TurnStays ==
  ASSUME GoalInv, NEW u, Kept(goal, u), goal' = u,
         u.loop.at = goal.loop.at, u.loop.batch = goal.loop.batch,
         u.loop.aborted = goal.loop.aborted,
         u.goal = goal.goal \/ u.goal = [goal.goal EXCEPT !.armed = FALSE],
         UNCHANGED <<exposed, held>>
  PROVE  GoalInv' /\ ~Goals!RoundAdmitted
<1>1. /\ goal'.goal.phase = goal.goal.phase /\ goal'.goal.rev = goal.goal.rev
      /\ goal'.goal.rounds = goal.goal.rounds /\ goal'.goal.max = goal.goal.max
  BY DEF GoalInv, Shape, GoalStates
<1>2. EnteringFresh'
  BY <1>1 DEF EnteringFresh, GoalInv, Goals!FoldAccepts
<1>3. Stopped'
  BY DEF Stopped, GoalInv, Kept
<1>4. Shape(goal') /\ Bounded(goal') /\ goal'.life = goal.life
  BY DEF Kept
<1>5. ~Goals!RoundAdmitted
  BY DEF Goals!RoundAdmitted, Goals!None, Nothing, Kept, Entered
<1>6. goal'.life = "closed" => goal'.attempt = Nothing
  BY DEF Kept, GoalInv
<1> QED BY <1>1, <1>2, <1>3, <1>4, <1>5, <1>6 DEF GoalInv, Shape, Bounded

(* A turn ends: by an abort, or not aborted.                               *)
LEMMA EndingMoves ==
  ASSUME GoalInv, NEW t, Kept(goal, t), NEW reason,
         goal.loop.aborted = FALSE \/ reason = "aborted",
         goal' = Goals!Ended(t, reason), UNCHANGED <<exposed, held>>
  PROVE  GoalInv' /\ ~Goals!RoundAdmitted
<1> DEFINE u == Goals!Ended(t, reason)
<1>1. /\ Kept(t, u) /\ Free(u)
      /\ (reason = "aborted" /\ t.life # "closed") => ~Goals!Live(u)
  BY EndedKeeps DEF Kept
<1>2. goal' = u
  OBVIOUS
<1> HIDE DEF u
<1>3. Kept(goal, u)
  BY <1>1, KeptChains
<1>4. held = TRUE => ~Goals!Live(u) \/ goal.life = "closed"
  BY <1>1, <1>3 DEF GoalInv, Stopped, Kept
<1> QED BY <1>1, <1>2, <1>3, <1>4, FreedKeeps

(* The states the handlers end a turn from.                                *)
LEMMA DroppedKeeps ==
  ASSUME GoalInv
  PROVE  /\ Kept(goal, goal)
         /\ Kept(goal, [goal EXCEPT !.attempt = Goals!None])
         /\ Kept(goal, Goals!Request([goal EXCEPT !.attempt = Goals!None]))
         /\ Kept(goal, Goals!Request(goal))
<1> DEFINE w == [goal EXCEPT !.attempt = Goals!None]
<1>1. Shape(w) /\ w.attempt = Nothing /\ w.goal = goal.goal /\ w.life = goal.life
  BY DEF GoalInv, Shape, Goals!None, Nothing
<1> HIDE DEF w
<1>2. Kept(goal, w) /\ Bounded(w) /\ Kept(goal, goal)
  BY <1>1 DEF Kept, Bounded, Entered, Goals!Live, GoalInv
<1>3. Kept(w, Goals!Request(w)) /\ Kept(goal, Goals!Request(goal))
  BY <1>1, <1>2, GoalRequestKeeps DEF Driven, GoalInv
<1> QED BY <1>2, <1>3, KeptChains DEF w

(* The driver's runs.                                                      *)
LEMMA RunsMove ==
  ASSUME GoalInv, NEW r, Goals!Continue(r) \/ Goals!Flushed(r) \/ Goals!FlushFails(r)
  PROVE  GoalInv' /\ ~Goals!RoundAdmitted
<1> DEFINE t == [goal EXCEPT !.runs[r] = Goals!Between]
           retired == [goal EXCEPT !.current = 0, !.runs[r] = Goals!Rest]
<1>1. Shape(goal) /\ Bounded(goal) /\ UNCHANGED <<exposed, held>>
  BY DEF GoalInv, Goals!Continue, Goals!Flushed, Goals!FlushFails
<1>2. SameTurn(goal, t) /\ t.goal = goal.goal /\ SameTurn(goal, retired) /\ retired.goal = goal.goal
  BY <1>1 DEF Shape, SameTurn
<1>3. CASE Goals!Continue(r)
  <2>1. goal' = Goals!Pass(goal, r) \/ goal' = retired
    BY <1>3 DEF Goals!Continue
  <2> HIDE DEF retired
  <2>2. Driven(goal, Goals!Pass(goal, r)) /\ Driven(goal, retired)
    BY <1>1, <1>2, PassKeeps, SameKeeps
  <2> QED BY <1>1, <2>1, <2>2, DrivenMoves
<1>4. CASE Goals!Flushed(r)
  <2>1. goal' = IF Goals!ReadyAfterCheckpoint(t) THEN Goals!Proceed(t) ELSE t
    BY <1>4 DEF Goals!Flushed
  <2> HIDE DEF t
  <2>2. Shape(t) /\ Bounded(t) /\ Driven(goal, t)
    BY <1>1, <1>2, SameKeeps
  <2>3. Goals!ReadyAfterCheckpoint(t) => Driven(goal, Goals!Proceed(t))
    BY <1>1, <1>2, <2>2, ProceedKeeps, DrivenChains
       DEF Goals!ReadyAfterCheckpoint, Goals!ReadyToDrive
  <2> QED BY <1>1, <2>1, <2>2, <2>3, DrivenMoves
<1>5. CASE Goals!FlushFails(r)
  <2> DEFINE d == Goals!Disarm(t)
  <2>1. goal' = d
    BY <1>5 DEF Goals!FlushFails
  <2>2. /\ DOMAIN d = DOMAIN t /\ d.goal = [t.goal EXCEPT !.armed = FALSE]
        /\ d.attempt = t.attempt /\ d.life = t.life /\ d.loop = t.loop
    BY <1>2 DEF Goals!Disarm, Shape, SameTurn
  <2> HIDE DEF d, t
  <2>3. d.goal \in GoalStates /\ d.goal.armed = FALSE /\ d.goal.phase = goal.goal.phase
        /\ d.goal.rev = goal.goal.rev /\ d.goal.max = goal.goal.max
    BY <1>1, <1>2, <2>2 DEF Shape, GoalStates
  <2>4. Shape(d) /\ Bounded(d)
    BY <1>1, <1>2, <2>2, <2>3 DEF Shape, Bounded, SameTurn
  <2>5. Kept(goal, d)
    BY <1>2, <2>2, <2>3, <2>4 DEF Kept, Entered, Goals!Live, SameTurn
  <2> QED BY <1>1, <1>2, <2>1, <2>2, <2>5, TurnStays DEF SameTurn
<1> QED BY <1>3, <1>4, <1>5

(* A prompt: it claims an idle agent's turn.                               *)
LEMMA PromptMoves ==
  ASSUME GoalInv, Goals!Prompt
  PROVE  GoalInv' /\ ~Goals!RoundAdmitted
<1> DEFINE t == [goal EXCEPT !.inbox = Goals!Append(@, Goals!Human),
                   !.competing = @ \/ goal.life # "closed",
                   !.attempt = IF goal.attempt # Goals!None /\ goal.attempt.phase = "queued"
                               THEN [@ EXCEPT !.stale = TRUE] ELSE @,
                   !.loop.wake = @ \/ goal.loop.aborted]
<1>1. Shape(goal) /\ Bounded(goal) /\ UNCHANGED <<exposed, held>>
  BY DEF GoalInv, Goals!Prompt
<1>2. goal' = IF goal.loop.at = "idle" THEN Goals!Claimed(t) ELSE t
  BY DEF Goals!Prompt
<1>3. /\ t.goal = goal.goal /\ t.life = goal.life /\ t.loop.at = goal.loop.at
      /\ t.loop.batch = goal.loop.batch /\ t.loop.aborted = goal.loop.aborted
      /\ DOMAIN t = DOMAIN goal /\ DOMAIN t.loop = DOMAIN goal.loop
  BY <1>1 DEF Shape
<1>4. \/ t.attempt = goal.attempt
      \/ goal.attempt # Nothing /\ t.attempt = [goal.attempt EXCEPT !.stale = TRUE]
  BY <1>1 DEF Shape, Goals!None, Nothing
<1> HIDE DEF t
<1>5. /\ t.attempt = Nothing \/ t.attempt \in Attempts
      /\ t.attempt # Nothing => goal.attempt # Nothing /\ t.attempt.round = goal.attempt.round
      /\ Entered(t) => Entered(goal)
  BY <1>1, <1>4 DEF Shape, Attempts, Nothing, Entered
<1>6. Kept(goal, t)
  BY <1>1, <1>3, <1>5 DEF Kept, Shape, Bounded, Goals!Live
<1>7. CASE goal.loop.at = "idle"
  <2>1. Kept(t, Goals!Claimed(t)) /\ Free(Goals!Claimed(t)) /\ Goals!Claimed(t).goal = t.goal
    BY <1>6, ClaimedKeeps DEF Kept, Free
  <2>2. Kept(goal, Goals!Claimed(t))
    BY <1>6, <2>1, KeptChains
  <2>3. held = TRUE => ~Goals!Live(Goals!Claimed(t)) \/ goal.life = "closed"
    BY <1>7, <2>2 DEF GoalInv, Stopped, Kept
  <2> QED BY <1>1, <1>2, <1>7, <2>1, <2>2, <2>3, FreedKeeps
<1>8. CASE goal.loop.at # "idle"
  BY <1>1, <1>2, <1>3, <1>6, <1>8, TurnStays
<1> QED BY <1>7, <1>8

(* What cancel does to the turn and to a round still queued.               *)
LEMMA CancelledKeeps ==
  ASSUME NEW t, Shape(t), Bounded(t), NEW keepInbox \in BOOLEAN
  PROVE  /\ Kept(t, Goals!Cancelled(t, keepInbox))
         /\ Goals!Cancelled(t, keepInbox).goal = t.goal
         /\ Goals!Cancelled(t, keepInbox).loop.at = t.loop.at
         /\ Goals!Cancelled(t, keepInbox).loop.batch = t.loop.batch
         /\ Goals!Cancelled(t, keepInbox).loop.aborted = TRUE
<1> DEFINE u == Goals!Cancelled(t, keepInbox)
<1>1. /\ DOMAIN u = DOMAIN t /\ u.goal = t.goal /\ u.life = t.life
      /\ DOMAIN u.loop = DOMAIN t.loop /\ u.loop.at = t.loop.at
      /\ u.loop.batch = t.loop.batch /\ u.loop.aborted = TRUE
  BY DEF Goals!Cancelled, Shape
<1>2. \/ u.attempt = t.attempt
      \/ t.attempt # Nothing /\ u.attempt = [t.attempt EXCEPT !.cancelled = TRUE]
  BY DEF Goals!Cancelled, Goals!IsAttempt, Shape, Goals!None, Nothing
<1> HIDE DEF u
<1>3. /\ u.attempt = Nothing \/ u.attempt \in Attempts
      /\ u.attempt # Nothing => t.attempt # Nothing /\ u.attempt.round = t.attempt.round
      /\ Entered(u) => Entered(t)
  BY <1>2 DEF Shape, Attempts, Nothing, Entered
<1>4. Kept(t, u)
  BY <1>1, <1>3 DEF Kept, Shape, Bounded, Goals!Live
<1> QED BY <1>1, <1>4 DEF u

(* A person cancels the turn.                                              *)
LEMMA CancelMoves ==
  ASSUME GoalInv, NEW keepInbox \in BOOLEAN, Goals!Cancel(keepInbox)
  PROVE  GoalInv' /\ ~Goals!RoundAdmitted
<1>1. /\ Kept(goal, goal') /\ goal'.goal = goal.goal
      /\ goal'.loop.at = goal.loop.at /\ goal'.loop.batch = goal.loop.batch
      /\ goal'.loop.aborted = TRUE
  BY CancelledKeeps DEF GoalInv, Goals!Cancel
<1>2. /\ goal.loop.at # "idle" /\ exposed' = exposed
      /\ held' = (held \/ goal.loop.at # "opening")
  BY DEF Goals!Cancel
<1>3. EnteringFresh'
  BY <1>1, <1>2 DEF EnteringFresh, GoalInv, Goals!FoldAccepts
<1>4. Stopped' /\ held' \in BOOLEAN
  <2>1. CASE goal.loop.at = "opening"
    BY <1>1, <1>2, <2>1 DEF Stopped, GoalInv, Kept
  <2>2. CASE goal.loop.at # "opening"
    BY <1>1, <1>2, <2>2 DEF Stopped
  <2> QED BY <2>1, <2>2
<1>5. ~Goals!RoundAdmitted
  BY <1>1 DEF Goals!RoundAdmitted, Goals!None, Nothing, Kept, Entered
<1>6. goal'.life = "closed" => goal'.attempt = Nothing
  BY <1>1 DEF Kept, GoalInv
<1> QED BY <1>1, <1>2, <1>3, <1>4, <1>5, <1>6 DEF GoalInv, Kept, Shape, Bounded

(* The driver is unloaded: the goal is disarmed and a turn that drives a   *)
(* round is cancelled.                                                     *)
LEMMA UnloadMoves ==
  ASSUME GoalInv, Goals!Unload
  PROVE  GoalInv' /\ ~Goals!RoundAdmitted
<1> DEFINE w == [goal EXCEPT !.life = "stopping",
                    !.attempt = IF @ = Goals!None THEN @ ELSE [@ EXCEPT !.stale = TRUE]]
           t == Goals!Disarm(w)
<1>1. Shape(goal) /\ Bounded(goal) /\ UNCHANGED <<exposed, held>> /\ goal.life = "active"
  BY DEF GoalInv, Goals!Unload
<1>2. goal' = IF t.attempt # Nothing /\ t.loop.at # "idle" THEN Goals!Cancelled(t, FALSE) ELSE t
  BY DEF Goals!Unload, Goals!None, Nothing
<1>3. /\ DOMAIN t = DOMAIN goal /\ t.life = "stopping" /\ t.loop = goal.loop
      /\ t.goal = [goal.goal EXCEPT !.armed = FALSE]
  BY <1>1 DEF Goals!Disarm, Shape
<1>4. \/ t.attempt = goal.attempt
      \/ goal.attempt # Nothing /\ t.attempt = [goal.attempt EXCEPT !.stale = TRUE]
  BY <1>1 DEF Goals!Disarm, Shape, Goals!None, Nothing
<1> HIDE DEF t
<1>5. /\ t.attempt = Nothing \/ t.attempt \in Attempts
      /\ t.attempt # Nothing => goal.attempt # Nothing /\ t.attempt.round = goal.attempt.round
      /\ Entered(t) => Entered(goal)
  BY <1>1, <1>4 DEF Shape, Attempts, Nothing, Entered
<1>6. /\ t.goal \in GoalStates /\ t.goal.armed = FALSE /\ t.goal.phase = goal.goal.phase
      /\ t.goal.rev = goal.goal.rev /\ t.goal.rounds = goal.goal.rounds
      /\ t.goal.max = goal.goal.max
  BY <1>1, <1>3 DEF Shape, GoalStates
<1>7. Shape(t) /\ Bounded(t)
  BY <1>1, <1>3, <1>5, <1>6 DEF Shape, Bounded
<1>8. /\ Kept(t, goal') /\ goal'.goal = t.goal /\ goal'.loop.at = t.loop.at
      /\ goal'.loop.batch = t.loop.batch
      /\ goal'.loop.aborted = goal.loop.aborted \/ (goal'.loop.aborted = TRUE /\ goal.loop.at # "idle")
  <2>1. Kept(t, t)
    BY <1>7 DEF Kept
  <2> QED BY <1>2, <1>3, <1>7, <2>1, CancelledKeeps
<1>9. EnteringFresh'
  BY <1>1, <1>3, <1>6, <1>8 DEF EnteringFresh, GoalInv, Goals!FoldAccepts
<1>10. Stopped'
  BY <1>1, <1>3, <1>6, <1>8 DEF Stopped, GoalInv, Goals!Live
<1>11. ~Goals!RoundAdmitted
  BY <1>5, <1>8 DEF Goals!RoundAdmitted, Goals!None, Nothing, Kept, Entered
<1>12. goal'.life = "stopping" /\ Shape(goal') /\ Bounded(goal')
  BY <1>3, <1>8 DEF Kept
<1>13. goal'.loop.aborted \in BOOLEAN /\ (goal'.loop.at = "idle" => goal'.loop.aborted = FALSE)
  BY <1>3, <1>8 DEF GoalInv
<1>14. goal'.goal.phase = "unreadable" => exposed' = TRUE
  BY <1>1, <1>6, <1>8 DEF GoalInv
<1> QED BY <1>1, <1>9, <1>10, <1>11, <1>12, <1>13, <1>14 DEF GoalInv, Shape, Bounded

(* The unloaded driver is done: it gives up the attempt.                   *)
LEMMA CloseMoves ==
  ASSUME GoalInv, Goals!Close
  PROVE  GoalInv' /\ ~Goals!RoundAdmitted
<1>1. goal' = [goal EXCEPT !.life = "closed", !.attempt = Goals!None]
      /\ UNCHANGED <<exposed, held>>
  BY DEF Goals!Close, Goals!Moves
<1>2. /\ DOMAIN goal' = DOMAIN goal /\ goal'.goal = goal.goal /\ goal'.loop = goal.loop
      /\ goal'.life = "closed" /\ goal'.attempt = Nothing
  BY <1>1 DEF GoalInv, Shape, Goals!None, Nothing
<1>3. Shape(goal') /\ Bounded(goal')
  BY <1>2 DEF GoalInv, Shape, Bounded
<1>4. EnteringFresh' /\ Stopped'
  BY <1>1, <1>2 DEF EnteringFresh, Stopped, GoalInv, Goals!FoldAccepts
<1>5. ~Goals!RoundAdmitted
  BY <1>2 DEF Goals!RoundAdmitted, Goals!None, Nothing
<1> QED BY <1>1, <1>2, <1>3, <1>4, <1>5 DEF GoalInv, Shape, Bounded

(* A change of the goal raises its revision, so no reservation fits it.    *)
LEMMA ChangedMoves ==
  ASSUME GoalInv, NEW w, SameTurn(goal, w), w.goal.rev = goal.goal.rev,
         NEW phase \in Phases \ {"unreadable"}, NEW armed \in BOOLEAN,
         goal' = Goals!Change(w, phase, armed),
         armed = FALSE \/ held' = FALSE
           \/ (phase = goal.goal.phase /\ armed = goal.goal.armed),
         held' = FALSE \/ held' = held,
         exposed' \in BOOLEAN, exposed = TRUE => exposed' = TRUE,
         goal.loop.at = "entering" => exposed' = TRUE
  PROVE  GoalInv' /\ ~Goals!RoundAdmitted
<1>1. /\ SameTurn(w, goal')
      /\ goal'.goal = [w.goal EXCEPT !.phase = phase, !.armed = armed, !.rev = w.goal.rev + 1]
  <2> DEFINE u == Goals!Change(w, phase, armed)
  <2>1. /\ SameTurn(w, u)
        /\ u.goal = [w.goal EXCEPT !.phase = phase, !.armed = armed, !.rev = w.goal.rev + 1]
    BY ChangeMoves DEF SameTurn
  <2>2. goal' = u
    OBVIOUS
  <2> HIDE DEF u
  <2> QED BY <2>1, <2>2
<1>2. /\ goal'.goal.phase = phase /\ goal'.goal.armed = armed
      /\ goal'.goal.rev = goal.goal.rev + 1 /\ goal.goal.rev \in Nat
  BY <1>1 DEF SameTurn, Shape, GoalStates
<1>3. /\ Shape(goal') /\ goal'.life = goal.life /\ goal'.loop = goal.loop
      /\ goal'.attempt = goal.attempt
  BY <1>1 DEF SameTurn
<1>4. Bounded(goal')
  <2>1. goal.attempt # Nothing => goal.attempt.round.rev \in Nat
    BY DEF GoalInv, Shape, Attempts, Rounds
  <2> QED BY <1>2, <1>3, <2>1 DEF Bounded, GoalInv
<1>5. EnteringFresh'
  BY <1>3 DEF EnteringFresh
<1>6. Stopped'
  BY <1>2, <1>3 DEF Stopped, GoalInv, Goals!Live
<1>7. ~Goals!RoundAdmitted
  BY <1>3 DEF Goals!RoundAdmitted
<1> QED BY <1>2, <1>3, <1>4, <1>5, <1>6, <1>7 DEF GoalInv, Shape, Bounded

(* People and tools change the goal.                                       *)
LEMMA GoalChangeMoves ==
  ASSUME GoalInv, NEW op \in Goals!Ops, Goals!ChangeGoal(op)
  PROVE  GoalInv' /\ ~Goals!RoundAdmitted
<1> DEFINE cr == [goal EXCEPT !.goal.rounds = 0, !.goal.max = MaxRounds]
           ra == [goal EXCEPT !.goal.max = @ + 1]
           lo == [goal EXCEPT !.goal.max = @ - 1]
           cl == [goal EXCEPT !.goal.rounds = 0]
<1>0. /\ exposed' = (exposed \/ goal.loop.at = "entering")
      /\ held' = (held /\ op \notin {"create", "resume"})
      /\ Goals!Permitted(op) /\ goal' = Goals!GoalOp(op)
  BY DEF Goals!ChangeGoal
<1>1. /\ exposed' \in BOOLEAN /\ (exposed = TRUE => exposed' = TRUE)
      /\ (goal.loop.at = "entering" => exposed' = TRUE)
  BY <1>0 DEF GoalInv
<1>2. /\ held' = FALSE \/ held' = held
      /\ op \in {"create", "resume"} => held' = FALSE
  BY <1>0 DEF GoalInv
<1>3. Shape(goal) /\ goal.goal.phase \in Phases /\ goal.goal.armed \in BOOLEAN
  BY DEF GoalInv, Shape, GoalStates
<1>4. SameTurn(goal, cr) /\ cr.goal.rev = goal.goal.rev
  <2>1. MaxRounds \in Nat
    BY GoalsAssumption DEF Goals!GoalAssumption
  <2>2. cr.goal = [goal.goal EXCEPT !.rounds = 0, !.max = MaxRounds]
    BY <1>3 DEF Shape
  <2>3. cr.goal \in GoalStates /\ cr.goal.rev = goal.goal.rev
    BY <1>3, <2>1, <2>2 DEF Shape, GoalStates
  <2> QED BY <1>3, <2>3 DEF Shape, SameTurn
<1>5. SameTurn(goal, ra) /\ ra.goal.rev = goal.goal.rev
  <2>1. goal.goal.max + 1 \in Nat
    BY <1>3 DEF Shape, GoalStates
  <2>2. ra.goal = [goal.goal EXCEPT !.max = goal.goal.max + 1]
    BY <1>3 DEF Shape
  <2>3. ra.goal \in GoalStates /\ ra.goal.rev = goal.goal.rev
    BY <1>3, <2>1, <2>2 DEF Shape, GoalStates
  <2> QED BY <1>3, <2>3 DEF Shape, SameTurn
<1>6. SameTurn(goal, cl) /\ cl.goal.rev = goal.goal.rev
  <2>1. cl.goal = [goal.goal EXCEPT !.rounds = 0]
    BY <1>3 DEF Shape
  <2>2. cl.goal \in GoalStates /\ cl.goal.rev = goal.goal.rev
    BY <1>3, <2>1 DEF Shape, GoalStates
  <2> QED BY <1>3, <2>2 DEF Shape, SameTurn
<1>7. SameTurn(goal, goal)
  BY <1>3 DEF SameTurn
<1>8. {"none", "active", "paused", "blocked", "complete"} \subseteq Phases \ {"unreadable"}
  BY DEF Phases
<1>9. CASE op = "create"
  <2>1. goal' = Goals!Change(cr, "active", TRUE)
    BY <1>0, <1>9 DEF Goals!GoalOp
  <2> HIDE DEF cr
  <2> QED BY <1>1, <1>2, <1>4, <1>8, <1>9, <2>1, ChangedMoves
<1>10. CASE op = "raise"
  <2>1. goal' = Goals!Change(ra, goal.goal.phase, goal.goal.armed)
    BY <1>0, <1>10 DEF Goals!GoalOp
  <2>2. goal.goal.phase \in Phases \ {"unreadable"}
    BY <1>0, <1>3, <1>10 DEF Goals!Permitted
  <2> HIDE DEF ra
  <2> QED BY <1>1, <1>2, <1>3, <1>5, <2>1, <2>2, ChangedMoves
<1>11. CASE op = "lower"
  <2>1. goal' = Goals!Change(lo, goal.goal.phase, goal.goal.armed)
    BY <1>0, <1>11 DEF Goals!GoalOp
  <2>2. goal.goal.phase \in Phases \ {"unreadable"} /\ goal.goal.max > 1
    BY <1>0, <1>3, <1>11 DEF Goals!Permitted
  <2>3. SameTurn(goal, lo) /\ lo.goal.rev = goal.goal.rev
    <3>1. goal.goal.max - 1 \in Nat
      BY <1>3, <2>2 DEF Shape, GoalStates
    <3>2. lo.goal = [goal.goal EXCEPT !.max = goal.goal.max - 1]
      BY <1>3 DEF Shape
    <3>3. lo.goal \in GoalStates /\ lo.goal.rev = goal.goal.rev
      BY <1>3, <3>1, <3>2 DEF Shape, GoalStates
    <3> QED BY <1>3, <3>3 DEF Shape, SameTurn
  <2> HIDE DEF lo
  <2> QED BY <1>1, <1>2, <1>3, <2>1, <2>2, <2>3, ChangedMoves
<1>12. CASE op = "pause"
  <2>1. goal' = Goals!Change(goal, "paused", FALSE)
    BY <1>0, <1>12 DEF Goals!GoalOp
  <2> QED BY <1>1, <1>2, <1>7, <1>8, <2>1, ChangedMoves
<1>13. CASE op = "resume"
  <2>1. goal' = Goals!Change(goal, "active", TRUE)
    BY <1>0, <1>13 DEF Goals!GoalOp
  <2> QED BY <1>1, <1>2, <1>7, <1>8, <1>13, <2>1, ChangedMoves
<1>14. CASE op = "complete"
  <2>1. goal' = Goals!Change(goal, "complete", FALSE)
    BY <1>0, <1>14 DEF Goals!GoalOp
  <2> QED BY <1>1, <1>2, <1>7, <1>8, <2>1, ChangedMoves
<1>15. CASE op = "clear"
  <2>1. goal' = Goals!Change(cl, "none", FALSE)
    BY <1>0, <1>15 DEF Goals!GoalOp
  <2> HIDE DEF cl
  <2> QED BY <1>1, <1>2, <1>6, <1>8, <2>1, ChangedMoves
<1> QED BY <1>9, <1>10, <1>11, <1>12, <1>13, <1>14, <1>15 DEF Goals!Ops

(* A step is entered: with the round the fold expects, or one it may       *)
(* refuse because the goal changed under another listener's await, or the  *)
(* driver is gone.                                                         *)
LEMMA AdmittingMoves ==
  ASSUME GoalInv, NEW m, goal' = Goals!Admitted(goal, m), goal.loop.aborted = FALSE,
         m.kind = "round" =>
           Goals!FoldAccepts(goal, m) \/ exposed = TRUE \/ goal.life = "closed",
         UNCHANGED <<exposed, held>>
  PROVE  GoalInv' /\ (goal'.attempt = goal.attempt \/ Goals!IsAttempt(goal, m))
<1> DEFINE u == [goal EXCEPT !.loop.at = "stepping",
              !.attempt = IF Goals!IsAttempt(goal, m) THEN [@ EXCEPT !.phase = "admitted"] ELSE @]
<1>1. Shape(goal) /\ Bounded(goal)
  BY DEF GoalInv
<1>2. /\ DOMAIN u = DOMAIN goal /\ u.goal = goal.goal /\ u.life = goal.life
      /\ DOMAIN u.loop = DOMAIN goal.loop /\ u.loop.at = "stepping"
      /\ u.loop.aborted = FALSE
  BY <1>1 DEF Shape
<1>3. \/ u.attempt = goal.attempt
      \/ /\ Goals!IsAttempt(goal, m) /\ goal.attempt # Nothing
         /\ u.attempt = [goal.attempt EXCEPT !.phase = "admitted"]
  BY <1>1 DEF Shape, Goals!IsAttempt, Goals!None, Nothing
<1>4. \/ goal' = u
      \/ /\ m.kind = "round" /\ Goals!FoldAccepts(goal, m)
         /\ goal' = [u EXCEPT !.goal.rounds = m.round]
      \/ /\ m.kind = "round" /\ ~Goals!FoldAccepts(goal, m)
         /\ goal' = [u EXCEPT !.goal.phase = "unreadable"]
  BY DEF Goals!Admitted
<1> HIDE DEF u
<1>5. /\ u.attempt = Nothing \/ u.attempt \in Attempts
      /\ u.attempt # Nothing => goal.attempt # Nothing /\ u.attempt.round = goal.attempt.round
  BY <1>1, <1>3 DEF Shape, Attempts, Nothing
<1>6. /\ DOMAIN goal' = DOMAIN u /\ goal'.life = goal.life /\ goal'.loop = u.loop
      /\ goal'.attempt = u.attempt /\ goal'.goal \in GoalStates
      /\ goal'.goal.rev = goal.goal.rev /\ goal'.goal.max = goal.goal.max
      /\ goal'.goal.armed = goal.goal.armed
      /\ \/ goal'.goal.phase = goal.goal.phase
         \/ goal'.goal.phase = "unreadable" /\ (exposed = TRUE \/ goal.life = "closed")
  <2>1. CASE goal' = u
    BY <1>1, <1>2, <2>1 DEF Shape
  <2>2. CASE /\ m.kind = "round" /\ Goals!FoldAccepts(goal, m)
             /\ goal' = [u EXCEPT !.goal.rounds = m.round]
    <3>1. m.round = goal.goal.rounds + 1 /\ goal.goal.rounds \in Nat
      BY <1>1, <2>2 DEF Goals!FoldAccepts, Shape, GoalStates
    <3>2. m.round \in Nat
      BY <3>1
    <3>3. goal'.goal = [goal.goal EXCEPT !.rounds = m.round]
      BY <1>1, <1>2, <2>2 DEF Shape
    <3> QED BY <1>1, <1>2, <2>2, <3>2, <3>3 DEF Shape, GoalStates
  <2>3. CASE /\ m.kind = "round" /\ ~Goals!FoldAccepts(goal, m)
             /\ goal' = [u EXCEPT !.goal.phase = "unreadable"]
    <3>1. goal'.goal = [goal.goal EXCEPT !.phase = "unreadable"]
      BY <1>1, <1>2, <2>3 DEF Shape
    <3> QED BY <1>1, <1>2, <2>3, <3>1 DEF Shape, GoalStates, Phases
  <2> QED BY <1>4, <2>1, <2>2, <2>3
<1>7. Shape(goal') /\ Bounded(goal')
  BY <1>1, <1>2, <1>5, <1>6 DEF Shape, Bounded
<1>8. EnteringFresh' /\ Stopped'
  BY <1>2, <1>6 DEF EnteringFresh, Stopped, GoalInv, Goals!Live
<1>9. goal'.life = "closed" => goal'.attempt = Nothing
  BY <1>5, <1>6 DEF GoalInv
<1> QED BY <1>2, <1>3, <1>6, <1>7, <1>8, <1>9 DEF GoalInv, Shape, Bounded

(* A turn whose batch holds no round, or that the driver no longer hears.  *)
LEMMA PassesByMoves ==
  ASSUME GoalInv, Goals!PassesBy
  PROVE  GoalInv' /\ ~Goals!RoundAdmitted
<1> DEFINE m == goal.loop.batch
<1>1. /\ goal.loop.aborted = FALSE /\ (m.kind # "round" \/ goal.life = "closed")
      /\ UNCHANGED <<exposed, held>>
  BY DEF GoalInv, Goals!PassesBy, Goals!Moves
<1>2. CASE m = Goals!None
  <2>1. goal' = Goals!Ended(goal, "completed")
    BY <1>2 DEF Goals!PassesBy, Goals!Moves
  <2> QED BY <1>1, <2>1, DroppedKeeps, EndingMoves
<1>3. CASE m # Goals!None
  <2>1. goal' = Goals!Admitted(goal, m)
    BY <1>3 DEF Goals!PassesBy, Goals!Moves
  <2>2. ~Goals!IsAttempt(goal, m)
    BY <1>1 DEF GoalInv, Goals!IsAttempt, Goals!None, Nothing
  <2> HIDE DEF m
  <2>3. GoalInv' /\ goal'.attempt = goal.attempt
    BY <1>1, <2>1, <2>2, AdmittingMoves
  <2> QED BY <2>3 DEF Goals!RoundAdmitted
<1> QED BY <1>2, <1>3

(* The driver's listener looks at the claimed round.                       *)
LEMMA CheckMoves ==
  ASSUME GoalInv, Goals!Check
  PROVE  GoalInv' /\ ~Goals!RoundAdmitted
<1> DEFINE w == IF Goals!IsAttempt(goal, goal.loop.batch) THEN Goals!None ELSE goal.attempt
           t == Goals!Request([goal EXCEPT !.attempt = w])
           d == [goal EXCEPT !.loop.at = "downstream"]
<1>1. /\ UNCHANGED <<exposed, held>> /\ goal.loop.at = "claimed"
      /\ goal' = IF Goals!Valid(goal.loop.batch) THEN d ELSE Goals!Ended(t, Goals!Refused)
  BY DEF Goals!Check, Goals!Moves
<1>2. CASE Goals!Valid(goal.loop.batch)
  <2>1. /\ DOMAIN d = DOMAIN goal /\ d.goal = goal.goal /\ d.life = goal.life
        /\ d.attempt = goal.attempt /\ DOMAIN d.loop = DOMAIN goal.loop
        /\ d.loop.at = "downstream" /\ d.loop.aborted = goal.loop.aborted
    BY DEF GoalInv, Shape
  <2>2. goal' = d
    BY <1>1, <1>2
  <2> HIDE DEF d
  <2>3. Shape(goal') /\ Bounded(goal')
    BY <2>1, <2>2 DEF GoalInv, Shape, Bounded
  <2>4. EnteringFresh' /\ Stopped'
    BY <1>1, <2>1, <2>2 DEF EnteringFresh, Stopped, GoalInv, Goals!Live
  <2>5. ~Goals!RoundAdmitted
    BY <2>1, <2>2 DEF Goals!RoundAdmitted
  <2> QED BY <1>1, <2>1, <2>2, <2>3, <2>4, <2>5 DEF GoalInv, Shape, Bounded
<1>3. CASE ~Goals!Valid(goal.loop.batch)
  <2>1. /\ goal.loop.aborted = FALSE \/ Goals!Refused = "aborted"
        /\ goal' = Goals!Ended(t, Goals!Refused)
    BY <1>1, <1>3 DEF Goals!Refused, GoalInv
  <2>2. [goal EXCEPT !.attempt = w] = [goal EXCEPT !.attempt = Goals!None] \/ w = goal.attempt
    OBVIOUS
  <2>3. Kept(goal, t)
    <3>1. CASE w = goal.attempt
      <4> DEFINE v == [goal EXCEPT !.attempt = goal.attempt]
      <4>1. SameTurn(goal, v) /\ v.goal = goal.goal
        BY DEF GoalInv, Shape, SameTurn
      <4>2. t = Goals!Request(v)
        BY <3>1
      <4> HIDE DEF v, t
      <4>3. Shape(v) /\ Bounded(v) /\ Kept(goal, v)
        BY <4>1, SameKeeps DEF GoalInv, Driven
      <4> QED BY <4>2, <4>3, GoalRequestKeeps, KeptChains DEF Driven
    <3>2. CASE [goal EXCEPT !.attempt = w] = [goal EXCEPT !.attempt = Goals!None]
      BY <3>2, DroppedKeeps
    <3> QED BY <2>2, <3>1, <3>2
  <2> HIDE DEF t
  <2> QED BY <1>1, <2>1, <2>3, EndingMoves
<1> QED BY <1>2, <1>3

(* The listeners below the driver's refuse, throw or are aborted.          *)
LEMMA DownstreamEndsMoves ==
  ASSUME GoalInv, Goals!DownstreamRejects \/ Goals!DownstreamThrows \/ Goals!DownstreamAborted
  PROVE  GoalInv' /\ ~Goals!RoundAdmitted
<1> DEFINE w == [goal EXCEPT !.attempt = Goals!None]
<1>1. Kept(goal, w) /\ Shape(w) /\ Bounded(w)
  BY DroppedKeeps DEF Kept
<1>2. CASE Goals!DownstreamRejects
  <2> DEFINE t == IF Goals!Live(w) /\ w.goal.rev = w.loop.batch.rev
                  THEN Goals!Change(w, "blocked", FALSE) ELSE w
  <2>1. /\ goal.loop.aborted = FALSE /\ UNCHANGED <<exposed, held>>
        /\ goal' = Goals!Ended(t, "blocked")
    BY <1>2 DEF Goals!DownstreamRejects, Goals!Moves, GoalInv
  <2> HIDE DEF w
  <2>2. "blocked" \in Phases \ {"unreadable"}
    BY DEF Phases
  <2>3. Kept(goal, t)
    BY <1>1, <2>2, DisarmingKeeps, KeptChains
  <2> HIDE DEF t
  <2> QED BY <2>1, <2>3, EndingMoves
<1>3. CASE Goals!DownstreamThrows
  <2>1. /\ goal.loop.aborted = FALSE /\ UNCHANGED <<exposed, held>>
        /\ goal' = Goals!Ended(Goals!Request(w), "error")
    BY <1>3 DEF Goals!DownstreamThrows, Goals!Moves, GoalInv
  <2>2. Kept(goal, Goals!Request(w))
    BY DroppedKeeps
  <2> QED BY <2>1, <2>2, EndingMoves
<1>4. CASE Goals!DownstreamAborted
  <2>1. UNCHANGED <<exposed, held>> /\ goal' = Goals!Ended(goal, "aborted")
    BY <1>4 DEF Goals!DownstreamAborted, Goals!Moves
  <2> QED BY <2>1, DroppedKeeps, EndingMoves
<1> QED BY <1>2, <1>3, <1>4

(* They let the round through, and the driver looks at it once more.       *)
LEMMA DownstreamEntersMoves ==
  ASSUME GoalInv, Goals!DownstreamEnters
  PROVE  GoalInv' /\ ~Goals!RoundAdmitted
<1> DEFINE w == [goal EXCEPT !.attempt = Goals!None]
           d == [goal EXCEPT !.loop.at = "entering"]
           m == goal.loop.batch
<1>1. /\ UNCHANGED <<exposed, held>> /\ goal.loop.aborted = FALSE
      /\ goal' = IF Goals!Valid(m) THEN d ELSE Goals!Ended(Goals!Request(w), "blocked")
  BY DEF Goals!DownstreamEnters, Goals!Moves, GoalInv
<1>2. CASE Goals!Valid(m)
  <2>1. /\ DOMAIN d = DOMAIN goal /\ d.goal = goal.goal /\ d.life = goal.life
        /\ d.attempt = goal.attempt /\ DOMAIN d.loop = DOMAIN goal.loop
        /\ d.loop.at = "entering" /\ d.loop.aborted = FALSE /\ d.loop.batch = m
    BY <1>1 DEF GoalInv, Shape
  <2>2. goal' = d
    BY <1>1, <1>2
  <2>3. /\ goal.attempt # Nothing /\ goal.attempt.round = m /\ m.rev = goal.goal.rev
        /\ m.round = goal.goal.rounds + 1 /\ Goals!Live(goal) /\ goal.life = "active"
    BY <1>2 DEF Goals!Valid, Goals!IsAttempt, Goals!None, Nothing
  <2> HIDE DEF d, m
  <2>4. m.round <= goal.goal.max
    BY <2>3 DEF GoalInv, Bounded
  <2>5. EnteringFresh'
    BY <1>1, <2>1, <2>2, <2>3, <2>4 DEF EnteringFresh, Goals!FoldAccepts, Goals!Live
  <2>6. held = FALSE
    BY <1>1, <2>3 DEF GoalInv, Stopped
  <2>7. Stopped'
    BY <1>1, <2>6 DEF Stopped
  <2>8. Shape(goal') /\ Bounded(goal')
    BY <2>1, <2>2 DEF GoalInv, Shape, Bounded
  <2>9. ~Goals!RoundAdmitted
    BY <2>1, <2>2 DEF Goals!RoundAdmitted
  <2> QED BY <1>1, <2>1, <2>2, <2>5, <2>7, <2>8, <2>9 DEF GoalInv, Shape, Bounded
<1>3. CASE ~Goals!Valid(m)
  <2>1. goal' = Goals!Ended(Goals!Request(w), "blocked")
    BY <1>1, <1>3
  <2>2. Kept(goal, Goals!Request(w))
    BY DroppedKeeps
  <2> QED BY <1>1, <2>1, <2>2, EndingMoves
<1> QED BY <1>2, <1>3

(* The step is entered: no person has cancelled since the driver let the   *)
(* round through.                                                          *)
LEMMA EnterMoves ==
  ASSUME GoalInv, Goals!Enter
  PROVE  GoalInv' /\ held = FALSE
<1>1. /\ goal.loop.at = "entering" /\ goal.loop.aborted = FALSE
      /\ goal' = Goals!Admitted(goal, goal.loop.batch) /\ UNCHANGED <<exposed, held>>
  BY DEF Goals!Enter, Goals!Moves, GoalInv
<1>2. held = FALSE
  BY <1>1 DEF GoalInv, Stopped
<1>3. Goals!FoldAccepts(goal, goal.loop.batch) \/ exposed = TRUE
  BY <1>1 DEF GoalInv, EnteringFresh
<1> QED BY <1>1, <1>2, <1>3, AdmittingMoves

(* The next turn opens, unless it was aborted before.                      *)
LEMMA OpenTurnMoves ==
  ASSUME GoalInv, Goals!OpenTurn
  PROVE  GoalInv' /\ ~Goals!RoundAdmitted
<1> DEFINE u == IF goal.loop.aborted THEN Goals!Converged(goal) ELSE Goals!Claimed(goal)
<1>1. goal.loop.at = "opening" /\ goal' = u /\ UNCHANGED <<exposed, held>>
  BY DEF Goals!OpenTurn, Goals!Moves
<1>2. Kept(goal, u) /\ Free(u)
  BY ClaimedKeeps, ConvergedKeeps DEF GoalInv, Free
<1> HIDE DEF u
<1>3. held = TRUE => ~Goals!Live(u) \/ goal.life = "closed"
  BY <1>1, <1>2 DEF GoalInv, Stopped, Kept
<1> QED BY <1>1, <1>2, <1>3, FreedKeeps

(* Turns that end without the listeners.                                   *)
LEMMA StepEndsMoves ==
  ASSUME GoalInv, NEW reason, Goals!AbortedExit \/ Goals!StepEnds(reason)
  PROVE  GoalInv' /\ ~Goals!RoundAdmitted
<1>1. CASE Goals!AbortedExit
  <2>1. UNCHANGED <<exposed, held>> /\ goal' = Goals!Ended(goal, "aborted")
    BY <1>1 DEF Goals!AbortedExit, Goals!Moves
  <2> QED BY <2>1, DroppedKeeps, EndingMoves
<1>2. CASE Goals!StepEnds(reason)
  <2>1. /\ goal.loop.aborted = FALSE /\ UNCHANGED <<exposed, held>>
        /\ goal' = Goals!Ended(goal, reason)
    BY <1>2 DEF Goals!StepEnds, Goals!Moves, GoalInv
  <2> QED BY <2>1, DroppedKeeps, EndingMoves
<1> QED BY <1>1, <1>2

-----------------------------------------------------------------------------
(* Every step keeps the invariant, and admits no round while held.         *)
LEMMA GoalMoves ==
  ASSUME GoalInv, Goals!Next
  PROVE  GoalInv' /\ (Goals!RoundAdmitted => held = FALSE)
<1>1. CASE Goals!Progress
  BY <1>1, RunsMove, OpenTurnMoves, StepEndsMoves, PassesByMoves, CheckMoves,
     DownstreamEndsMoves, DownstreamEntersMoves, EnterMoves, CloseMoves DEF Goals!Progress
<1>2. CASE Goals!Upset
  BY <1>2, RunsMove, DownstreamEndsMoves, StepEndsMoves, PromptMoves, UnloadMoves, CancelMoves,
     GoalChangeMoves DEF Goals!Upset
<1> QED BY <1>1, <1>2 DEF Goals!Next

(* No step of any component breaks the invariant.                          *)
LEMMA GoalStep ==
  ASSUME GoalInv, [Next]_allVars
  PROVE  GoalInv' /\ (Goals!RoundAdmitted /\ ~UNCHANGED goalVars => held = FALSE)
<1>1. CASE GoalSteps
  BY <1>1, GoalMoves DEF GoalSteps
<1>2. CASE UNCHANGED goalVars
  BY <1>2 DEF goalVars, GoalInv, Shape, Bounded, EnteringFresh, Stopped, Goals!FoldAccepts,
     Goals!Live
<1> QED BY <1>1, <1>2 DEF Next, ToolSteps, RepairSteps, PublicationSteps, ApprovalSteps,
     RetrySteps, ScheduleSteps, allVars

(* The invariant holds throughout.                                         *)
LEMMA GoalAlways == Spec => []GoalInv
<1>1. Init => GoalInv
  <2> SUFFICES ASSUME Init PROVE GoalInv
    OBVIOUS
  <2>1. /\ goal.goal = [phase |-> "none", armed |-> FALSE, rev |-> 0, rounds |-> 0,
                        max |-> MaxRounds]
        /\ goal.loop = [at |-> "idle", batch |-> Goals!None, aborted |-> FALSE, wake |-> FALSE]
        /\ goal.attempt = Nothing /\ goal.life = "active"
        /\ DOMAIN goal = {"goal", "needsCheckpoint", "requested", "competing", "life",
                          "current", "runs", "attempt", "inbox", "loop"}
        /\ exposed = FALSE /\ held = FALSE
    BY DEF Init, Goals!Init, Goals!None, Nothing
  <2>2. goal.goal \in GoalStates
    BY <2>1, GoalsAssumption DEF Goals!GoalAssumption, GoalStates, Phases
  <2>3. Shape(goal) /\ Bounded(goal)
    BY <2>1, <2>2 DEF Shape, Bounded
  <2>4. EnteringFresh /\ Stopped
    BY <2>1 DEF EnteringFresh, Stopped
  <2>5. goal.loop.at = "idle" /\ goal.loop.aborted = FALSE /\ goal.goal.phase = "none"
    BY <2>1
  <2> QED BY <2>1, <2>3, <2>4, <2>5 DEF GoalInv
<1>2. GoalInv /\ [Next]_allVars => GoalInv'
  BY GoalStep
<1> QED BY <1>1, <1>2, PTL DEF Spec

(* The rounds the driver lets through are ones the goal's fold accepts, so *)
(* its log stays readable whatever people do at every await, except when   *)
(* the goal changes while a listener outside the driver's own awaits, or   *)
(* after an unload left a round queued (goal-round-driver/src/index.ts,    *)
(* drive, the pre-step listener and validReservation; goal/src/fold.ts).   *)
THEOREM RoundsAlwaysFresh == Spec => []RoundsFresh
<1>1. GoalInv => RoundsFresh
  BY DEF GoalInv, RoundsFresh, Goals!RoundsFresh
<1> QED BY <1>1, GoalAlways, PTL

(* A person who cancels a turn has stopped the goal: no round enters a     *)
(* step until somebody creates or resumes one, whatever was queued,        *)
(* claimed or checkpointing (goal-round-driver/src/index.ts, turn/end and  *)
(* agent/status).                                                          *)
THEOREM CancelAlwaysHolds == Spec => CancelHolds
<1>1. GoalInv /\ [Next]_allVars => [Goals!RoundAdmitted => ~held]_goalVars
  BY GoalStep DEF goalVars
<1> QED BY <1>1, GoalAlways, PTL DEF Spec, CancelHolds, Goals!CancelHolds, Goals!vars, goalVars

-----------------------------------------------------------------------------
(* Folds.  FoldLeft is a recursive function over the subsets of a domain,  *)
(* so its existence is an induction of its own.                            *)

(* A set that holds 0 and every successor holds all natural numbers.       *)
LEMMA SetInduction ==
  ASSUME NEW T, 0 \in T, \A n \in Nat : n \in T => n + 1 \in T
  PROVE  Nat \subseteq T
<1> DEFINE R == OpToRel(<, Nat)
           Z == Nat \ T
<1> SUFFICES ASSUME Z # {} PROVE FALSE
  OBVIOUS
<1>1. IsWellFoundedOn(R, Nat)
  BY NatLessThanWellFounded
<1>2. \A x, y \in Nat : <<y, x>> \in R <=> y < x
  BY DEF OpToRel
<1>3. Z \subseteq Nat
  OBVIOUS
<1> HIDE DEF R
<1>4. PICK x \in Z : \A y \in Z : ~(<<y, x>> \in R)
  <2> HIDE DEF Z
  <2> QED BY <1>1, <1>3, WFMin
<1>5. x \in Nat /\ x # 0 /\ x - 1 \in Nat /\ x - 1 < x
  OBVIOUS
<1>6. x - 1 \notin Z
  BY <1>2, <1>4, <1>5
<1> QED BY <1>4, <1>5, <1>6

(* Two runs of the same steps are the same run.                            *)
SameSteps(n, c, d) ==
  c[0] = d[0] /\ \A m \in 1..n : c[m - 1] = d[m - 1] => c[m] = d[m]
LEMMA SameRun ==
  ASSUME NEW n \in Nat, NEW c, NEW d, SameSteps(n, c, d)
  PROVE  \A m \in 0..n : c[m] = d[m]
<1> DEFINE T == {m \in Nat : m <= n => c[m] = d[m]}
<1>1. 0 \in T
  BY DEF SameSteps
<1>2. \A m \in Nat : m \in T => m + 1 \in T
  <2> SUFFICES ASSUME NEW m \in Nat, m <= n => c[m] = d[m], m + 1 <= n
               PROVE  c[m + 1] = d[m + 1]
    OBVIOUS
  <2>1. m + 1 \in 1..n /\ (m + 1) - 1 = m /\ m <= n
    OBVIOUS
  <2>2. c[(m + 1) - 1] = d[(m + 1) - 1]
    BY <2>1
  <2> QED BY <2>1, <2>2 DEF SameSteps
<1>3. Nat \subseteq T
  <2> HIDE DEF T
  <2> QED BY <1>1, <1>2, SetInduction
<1> QED BY <1>3

(* The greatest number of a set.                                           *)
Top(S) == CHOOSE x \in S : \A y \in S : x >= y

(* The greatest number of an interval, alone and with others below it.     *)
LEMMA TopIs ==
  ASSUME NEW k \in Nat, NEW s \in SUBSET (1..k), k \in s
  PROVE  Top(s) = k
<1>1. \A x \in s : (\A y \in s : x >= y) => x = k
  OBVIOUS
<1>2. \E x \in s : \A y \in s : x >= y
  OBVIOUS
<1> QED BY <1>1, <1>2 DEF Top

(* A fold takes one step for the greatest number of each set.              *)
FoldSteps(g, n, b, F) ==
  \A s \in SUBSET (1..n) :
    /\ s = {} => g[s] = b
    /\ s # {} => Top(s) \in s /\ g[s] = F[<<Top(s), g[s \ {Top(s)}]>>]

(* The function a fold computes exists: MapThenFoldSet chooses one, so     *)
(* what it returns obeys these steps.                                      *)
LEMMA FoldExists ==
  ASSUME NEW n \in Nat, NEW V, NEW b \in V, NEW F \in [(1..n) \X V -> V]
  PROVE  \E g \in [SUBSET (1..n) -> V] : FoldSteps(g, n, b, F)
<1> DEFINE P(m) == \E g \in [SUBSET (1..m) -> V] : FoldSteps(g, m, b, F)
           T == {m \in Nat : m <= n => P(m)}
<1>1. P(0)
  <2> DEFINE g == [s \in SUBSET (1..0) |-> b]
  <2>1. g \in [SUBSET (1..0) -> V] /\ \A s \in SUBSET (1..0) : s = {} /\ g[s] = b
    OBVIOUS
  <2> HIDE DEF g
  <2>2. FoldSteps(g, 0, b, F)
    BY <2>1 DEF FoldSteps
  <2> QED BY <2>1, <2>2
<1>2. ASSUME NEW m \in Nat, m + 1 <= n, P(m)
      PROVE  P(m + 1)
  <2> PICK g \in [SUBSET (1..m) -> V] : FoldSteps(g, m, b, F)
    BY <1>2
  <2> DEFINE h == [s \in SUBSET (1..(m + 1)) |->
                     IF m + 1 \in s THEN F[<<m + 1, g[s \ {m + 1}]>>] ELSE g[s]]
  <2>1. ASSUME NEW s \in SUBSET (1..(m + 1)), m + 1 \in s
        PROVE  /\ s # {} /\ Top(s) = m + 1 /\ h[s] = F[<<m + 1, g[s \ {m + 1}]>>] /\ h[s] \in V
               /\ h[s \ {m + 1}] = g[s \ {m + 1}]
    <3>1. s \ {m + 1} \in SUBSET (1..m) /\ s \ {m + 1} \in SUBSET (1..(m + 1))
      BY <2>1
    <3>2. Top(s) = m + 1
      BY <2>1, TopIs
    <3>3. h[s] = F[<<m + 1, g[s \ {m + 1}]>>] /\ h[s \ {m + 1}] = g[s \ {m + 1}]
      BY <2>1, <3>1
    <3>4. m + 1 \in 1..n /\ g[s \ {m + 1}] \in V
      BY <3>1, <1>2
    <3> QED BY <2>1, <3>2, <3>3, <3>4
  <2>2. ASSUME NEW s \in SUBSET (1..(m + 1)), m + 1 \notin s
        PROVE  s \in SUBSET (1..m) /\ h[s] = g[s] /\ h[s] \in V
    <3>1. s \in SUBSET (1..m)
      BY <2>2
    <3> QED BY <2>2, <3>1
  <2>3. h \in [SUBSET (1..(m + 1)) -> V]
    BY <2>1, <2>2
  <2> HIDE DEF h
  <2>4. ASSUME NEW s \in SUBSET (1..(m + 1))
        PROVE  /\ s = {} => h[s] = b
               /\ s # {} => Top(s) \in s /\ h[s] = F[<<Top(s), h[s \ {Top(s)}]>>]
    <3>1. CASE m + 1 \in s
      BY <3>1, <2>1
    <3>2. CASE m + 1 \notin s
      <4>1. s \in SUBSET (1..m) /\ h[s] = g[s]
        BY <3>2, <2>2
      <4>2. s # {} => s \ {Top(s)} \in SUBSET (1..(m + 1)) /\ m + 1 \notin s \ {Top(s)}
        BY <3>2
      <4>3. s # {} => h[s \ {Top(s)}] = g[s \ {Top(s)}]
        BY <4>2, <2>2
      <4> QED BY <4>1, <4>3 DEF FoldSteps
    <3> QED BY <3>1, <3>2
  <2>5. FoldSteps(h, m + 1, b, F)
    BY <2>4 DEF FoldSteps
  <2> QED BY <2>3, <2>5
<1> HIDE DEF P
<1>3. 0 \in T /\ \A m \in Nat : m \in T => m + 1 \in T
  BY <1>1, <1>2
<1>4. Nat \subseteq T
  <2> HIDE DEF T
  <2> QED BY <1>3, SetInduction
<1>5. P(n)
  BY <1>4
<1> QED BY <1>5 DEF P

(* The intervals that a run goes through.                                  *)
LEMMA Intervals ==
  ASSUME NEW n \in Nat, NEW m \in 1..n
  PROVE  /\ 1..m # {} /\ (1..m) \ {m} = 1..(m - 1) /\ m \in 0..n /\ m - 1 \in 0..n
         /\ m \in 1..m /\ m \in Nat /\ 1..m \in SUBSET (1..m) /\ 1..m \in SUBSET (1..n)
  OBVIOUS

(* A run of a fold over the first numbers.                                 *)
IsRunOf(c, g, n) == c = [m \in 0..n |-> g[1..m]]
RunsBy(c, n, V, b, F) ==
  c \in [0..n -> V] /\ c[0] = b /\ \A m \in 1..n : c[m] = F[<<m, c[m - 1]>>]
LEMMA FoldRuns ==
  ASSUME NEW n \in Nat, NEW V, NEW b \in V, NEW F \in [(1..n) \X V -> V],
         NEW g \in [SUBSET (1..n) -> V], FoldSteps(g, n, b, F),
         NEW c, IsRunOf(c, g, n)
  PROVE  RunsBy(c, n, V, b, F)
<1>1. \A m \in 0..n : 1..m \in SUBSET (1..n) /\ c[m] = g[1..m]
  BY DEF IsRunOf
<1>2. c \in [0..n -> V]
  BY <1>1 DEF IsRunOf
<1>3. c[0] = b
  <2>1. 1..0 = {} /\ 0 \in 0..n
    OBVIOUS
  <2> QED BY <2>1, <1>1 DEF FoldSteps
<1>4. ASSUME NEW m \in 1..n PROVE c[m] = F[<<m, c[m - 1]>>]
  <2>1. /\ 1..m # {} /\ (1..m) \ {m} = 1..(m - 1) /\ m \in 0..n /\ m - 1 \in 0..n
        /\ m \in 1..m /\ m \in Nat /\ 1..m \in SUBSET (1..m)
    BY Intervals
  <2>2. Top(1..m) = m
    BY <2>1, TopIs
  <2>3. g[1..m] = F[<<m, g[1..(m - 1)]>>]
    BY <2>1, <2>2, <1>1 DEF FoldSteps
  <2>4. c[m] = g[1..m] /\ c[m - 1] = g[1..(m - 1)]
    BY <2>1, <1>1
  <2> QED BY <2>3, <2>4
<1> QED BY <1>2, <1>3, <1>4 DEF RunsBy

(* A set of numbers has a least one.                                       *)
LEMMA LeastIn ==
  ASSUME NEW I \in SUBSET Nat, I # {}
  PROVE  \E k \in I : \A j \in I : k <= j
<1> DEFINE R == OpToRel(<, Nat)
<1>1. IsWellFoundedOn(R, Nat)
  BY NatLessThanWellFounded
<1>2. \A x, y \in Nat : <<y, x>> \in R <=> y < x
  BY DEF OpToRel
<1> HIDE DEF R
<1>3. PICK k \in I : \A j \in I : ~(<<j, k>> \in R)
  BY <1>1, WFMin
<1>4. ASSUME NEW j \in I PROVE k <= j
  <2>1. k \in Nat /\ j \in Nat /\ ~(j < k)
    BY <1>2, <1>3
  <2> QED BY <2>1
<1> QED BY <1>4

-----------------------------------------------------------------------------
(* The repair of a cut log: the companion and the scan, event by event.    *)

(* The types of what the fold of a log goes through: its events, the       *)
(* companion's state and the scan's, and the state each starts from.       *)
CutTypes == {"turn/start", "turn/end", "step/start", "step/end", "assistant", "tool/call",
             "tool/result"}
CutEvents ==
  {e \in [type : CutTypes, turn : Nat, step : Nat, calls : Seq(Calls),
          code : {"none", "TOOL_OUTCOME_UNKNOWN", "TOOL_NOT_STARTED"}] :
     e.type \in {"tool/call", "tool/result"} => Len(e.calls) = 1}
CutLogs == Seq(CutEvents)
Companions == [trace : Cut!TraceType, pending : SUBSET Calls]
Askings == [call : Calls, step : Nat, started : BOOLEAN]
Scans == [turn : Nat, step : Nat, pending : Seq(Askings)]

FreshCompanion == [trace |-> Cut!FreshTrace(0), pending |-> {}]
FreshScan == [turn |-> 0, step |-> 0, pending |-> <<>>]

(* The companion keeps its types.                                          *)
LEMMA CommitTypes ==
  /\ FreshCompanion \in Companions
  /\ \A c \in Companions, e \in CutEvents : Cut!Commit(c, e) \in Companions
<1>1. FreshCompanion \in Companions
  BY DEF FreshCompanion, Companions, Cut!FreshTrace, Cut!TraceType, Cut!None
<1>2. ASSUME NEW c \in Companions, NEW e \in CutEvents
      PROVE  Cut!Commit(c, e) \in Companions
  <2>1. CASE e.type \in {"tool/call", "tool/result"}
    <3>1. e.calls[1] \in Calls
      BY <2>1 DEF CutEvents
    <3>2. (c.trace.legal /\ Cut!AdmitsTool(c, e)) \in BOOLEAN
      BY DEF Companions, Cut!TraceType
    <3>3. [c.trace EXCEPT !.legal = @ /\ Cut!AdmitsTool(c, e)] \in Cut!TraceType
      BY <3>2 DEF Companions, Cut!TraceType
    <3>4. c.pending \cup {e.calls[1]} \in SUBSET Calls /\ c.pending \ {e.calls[1]} \in SUBSET Calls
      BY <3>1 DEF Companions
    <3> QED BY <2>1, <3>3, <3>4 DEF Cut!Commit, Companions
  <2>2. CASE e.type \notin {"tool/call", "tool/result"}
    <3>1. (c.trace.legal /\ Cut!Accepts(c.trace, e)) \in BOOLEAN
      BY DEF Companions, Cut!TraceType
    <3>2. e.turn \in Nat /\ e.step \in Nat /\ Cut!None \in Nat
      BY DEF CutEvents, Cut!None
    <3>3. Cut!Log(c.trace, e) \in Cut!TraceType
      BY <3>1, <3>2 DEF Companions, Cut!TraceType, Cut!Log
    <3> QED BY <2>2, <3>3 DEF Cut!Commit, Companions
  <2> QED BY <2>1, <2>2
<1> QED BY <1>1, <1>2

(* What the companion makes of a log, as a run over its prefixes.          *)
LEMMA CompanionRuns ==
  ASSUME NEW l \in CutLogs
  PROVE  \E c \in [0..Len(l) -> Companions] :
           /\ c[0] = FreshCompanion /\ Cut!Companion(l) = c[Len(l)]
           /\ \A m \in 1..Len(l) : c[m] = Cut!Commit(c[m - 1], l[m])
<1> DEFINE n == Len(l)
           Equation(it) == it = [s \in SUBSET (1..n) |->
             IF s = {} THEN FreshCompanion ELSE Cut!Commit(it[s \ {Top(s)}], l[Top(s)])]
           iter == CHOOSE it : Equation(it)
           F == [p \in (1..n) \X Companions |-> Cut!Commit(p[2], l[p[1]])]
<1>1. n \in Nat /\ DOMAIN l = 1..n /\ \A i \in 1..n : l[i] \in CutEvents
  BY DEF CutLogs
<1> HIDE DEF n
<1>2. Cut!Companion(l) = iter[1..n]
  <2>1. \A s : Cut!Max(s) = Top(s)
    BY DEF Cut!Max, Top
  <2> QED BY <1>1, <2>1 DEF Cut!Companion, Cut!FoldLeft, Cut!MapThenFoldSet, FreshCompanion
<1>3. /\ F \in [(1..n) \X Companions -> Companions] /\ FreshCompanion \in Companions
      /\ \A i \in 1..n, v \in Companions : F[<<i, v>>] = Cut!Commit(v, l[i])
  BY <1>1, CommitTypes
<1> HIDE DEF F
<1>4. PICK g \in [SUBSET (1..n) -> Companions] : FoldSteps(g, n, FreshCompanion, F)
  BY <1>1, <1>3, FoldExists
<1> HIDE DEF Equation, iter
<1> DEFINE c == [m \in 0..n |-> g[1..m]]
           d == [m \in 0..n |-> iter[1..m]]
<1>5. /\ c \in [0..n -> Companions] /\ c[0] = FreshCompanion
      /\ \A m \in 1..n : c[m] = F[<<m, c[m - 1]>>]
  <2>1. n \in Nat /\ IsRunOf(c, g, n)
    BY <1>1 DEF IsRunOf
  <2> HIDE DEF c, d
  <2>2. RunsBy(c, n, Companions, FreshCompanion, F)
    BY <2>1, <1>3, <1>4, FoldRuns
  <2> QED BY <2>2 DEF RunsBy
<1>6. Equation(g)
  <2>1. ASSUME NEW s \in SUBSET (1..n), s # {}
        PROVE  g[s] = Cut!Commit(g[s \ {Top(s)}], l[Top(s)])
    <3>1. Top(s) \in s /\ g[s] = F[<<Top(s), g[s \ {Top(s)}]>>]
      BY <1>4, <2>1 DEF FoldSteps
    <3>2. g[s \ {Top(s)}] \in Companions /\ Top(s) \in 1..n
      BY <3>1
    <3> QED BY <3>1, <3>2, <1>3
  <2> QED BY <2>1, <1>4 DEF FoldSteps, Equation
<1>7. Equation(iter)
  BY <1>6 DEF iter
<1>8. \A m \in 0..n : d[m] = iter[1..m] /\ 1..m \in SUBSET (1..n)
  BY <1>1
<1>9. d[0] = FreshCompanion
  <2>1. 1..0 = {} /\ 0 \in 0..n
    BY <1>1
  <2> QED BY <2>1, <1>7, <1>8 DEF Equation
<1>10. ASSUME NEW m \in 1..n PROVE d[m] = Cut!Commit(d[m - 1], l[m])
  <2>1. /\ 1..m # {} /\ (1..m) \ {m} = 1..(m - 1) /\ m \in 0..n /\ m - 1 \in 0..n
        /\ m \in 1..m /\ m \in Nat /\ 1..m \in SUBSET (1..m)
    BY <1>1, Intervals
  <2>2. Top(1..m) = m
    BY <2>1, TopIs
  <2>3. iter[1..m] = Cut!Commit(iter[1..(m - 1)], l[m])
    BY <1>7, <1>8, <2>1, <2>2 DEF Equation
  <2> QED BY <1>8, <2>1, <2>3
<1> HIDE DEF c, d
<1>11. \A m \in 1..n : c[m - 1] \in Companions /\ c[m] = Cut!Commit(c[m - 1], l[m])
  <2> SUFFICES ASSUME NEW m \in 1..n
               PROVE  c[m - 1] \in Companions /\ c[m] = Cut!Commit(c[m - 1], l[m])
    OBVIOUS
  <2>1. m - 1 \in 0..n
    BY <1>1, Intervals
  <2> QED BY <2>1, <1>3, <1>5
<1>12. \A m \in 0..n : c[m] = d[m]
  <2>1. \A m \in 1..n : c[m - 1] = d[m - 1] => c[m] = d[m]
    BY <1>10, <1>11
  <2>2. n \in Nat /\ c[0] = d[0]
    BY <1>1, <1>5, <1>9
  <2>3. SameSteps(n, c, d)
    BY <2>1, <2>2 DEF SameSteps
  <2> QED BY <2>2, <2>3, SameRun
<1>13. Cut!Companion(l) = c[n]
  BY <1>1, <1>2, <1>8, <1>12
<1> QED BY <1>5, <1>11, <1>13 DEF n

(* A log that grows by one event.                                          *)
LEMMA GrownIs ==
  ASSUME NEW l \in CutLogs, NEW e \in CutEvents
  PROVE  /\ Append(l, e) \in CutLogs /\ Len(Append(l, e)) = Len(l) + 1 /\ Len(l) \in Nat
         /\ Append(l, e)[Len(l) + 1] = e /\ \A m \in 1..Len(l) : Append(l, e)[m] = l[m]
  BY DEF CutLogs

(* The companion, event by event.                                          *)
LEMMA CompanionIs ==
  /\ Cut!Companion(<<>>) = FreshCompanion
  /\ \A l \in CutLogs, e \in CutEvents :
       /\ Cut!Companion(l) \in Companions
       /\ Cut!Companion(Append(l, e)) = Cut!Commit(Cut!Companion(l), e)
<1>1. Cut!Companion(<<>>) = FreshCompanion
  <2>1. <<>> \in CutLogs /\ Len(<<>>) = 0
    BY DEF CutLogs
  <2> QED BY <2>1, CompanionRuns
<1>2. ASSUME NEW l \in CutLogs, NEW e \in CutEvents
      PROVE  /\ Cut!Companion(l) \in Companions
             /\ Cut!Companion(Append(l, e)) = Cut!Commit(Cut!Companion(l), e)
  <2> DEFINE n == Len(l)
             k == Append(l, e)
  <2>1. k \in CutLogs /\ Len(k) = n + 1 /\ n \in Nat /\ k[n + 1] = e /\ \A m \in 1..n : k[m] = l[m]
    BY GrownIs
  <2>2. PICK c \in [0..n -> Companions] :
          /\ c[0] = FreshCompanion /\ Cut!Companion(l) = c[n]
          /\ \A m \in 1..n : c[m] = Cut!Commit(c[m - 1], l[m])
    BY CompanionRuns
  <2> HIDE DEF k, n
  <2>3. PICK d \in [0..(n + 1) -> Companions] :
          /\ d[0] = FreshCompanion /\ Cut!Companion(k) = d[n + 1]
          /\ \A m \in 1..(n + 1) : d[m] = Cut!Commit(d[m - 1], k[m])
    BY <2>1, CompanionRuns
  <2>4. \A m \in 0..n : c[m] = d[m]
    <3>1. \A m \in 1..n : m \in 1..(n + 1) /\ k[m] = l[m]
      BY <2>1
    <3>2. \A m \in 1..n : c[m - 1] = d[m - 1] => c[m] = d[m]
      BY <3>1, <2>2, <2>3
    <3>3. c[0] = d[0]
      BY <2>2, <2>3
    <3>4. n \in Nat
      BY <2>1
    <3>5. SameSteps(n, c, d)
      BY <3>2, <3>3 DEF SameSteps
    <3> QED BY <3>4, <3>5, SameRun
  <2>5. n + 1 \in 1..(n + 1) /\ (n + 1) - 1 = n /\ n \in 0..n
    BY <2>1
  <2>6. d[n + 1] = Cut!Commit(d[n], k[n + 1])
    BY <2>3, <2>5
  <2>7. c[n] \in Companions /\ d[n] = c[n]
    BY <2>2, <2>4, <2>5
  <2> QED BY <2>1, <2>2, <2>3, <2>6, <2>7 DEF k
<1> QED BY <1>1, <1>2

(* An answer takes at most one call off the queue.                         *)
LEMMA UnansweredTypes ==
  ASSUME NEW q \in Seq(Askings), NEW e
  PROVE  Cut!Unanswered(q, e) \in Seq(Askings)
<1> DEFINE I == {j \in 1..Len(q) : q[j].call = e.calls[1]}
<1>1. CASE I = {}
  BY <1>1 DEF Cut!Unanswered, Cut!RemoveFirstMatch
<1>2. CASE I # {}
  <2>1. Cut!SelectInSeq(q, LAMBDA p : p.call = e.calls[1]) = Cut!Min(I)
    BY <1>2 DEF Cut!SelectInSeq
  <2>2. Cut!Unanswered(q, e) = Cut!RemoveAt(q, Cut!Min(I))
    BY <1>2, <2>1 DEF Cut!Unanswered, Cut!RemoveFirstMatch
  <2>3. Cut!Min(I) \in I
    <3>1. \E x \in I : \A y \in I : x =< y
      <4>1. I \in SUBSET Nat
        OBVIOUS
      <4> HIDE DEF I
      <4> QED BY <1>2, <4>1, LeastIn
    <3> HIDE DEF I
    <3> QED BY <3>1 DEF Cut!Min
  <2> DEFINE k == Cut!Min(I)
  <2>5. k \in 1..Len(q)
    BY <2>3
  <2> HIDE DEF k
  <2>6. SubSeq(q, 1, k - 1) \o SubSeq(q, k + 1, Len(q)) \in Seq(Askings)
    BY <2>5
  <2> QED BY <2>2, <2>6 DEF Cut!RemoveAt, k
<1> QED BY <1>1, <1>2

(* The scan keeps its types.                                               *)
LEMMA ScanTypes ==
  /\ FreshScan \in Scans
  /\ \A s \in Scans, e \in CutEvents : Cut!Scan(s, e) \in Scans
<1>1. FreshScan \in Scans
  BY DEF FreshScan, Scans
<1>2. ASSUME NEW s \in Scans, NEW e \in CutEvents
      PROVE  Cut!Scan(s, e) \in Scans
  <2>1. e.turn \in Nat /\ e.step \in Nat /\ e.type \in CutTypes /\ e.calls \in Seq(Calls)
    BY DEF CutEvents
  <2>2. s.turn \in Nat /\ s.step \in Nat /\ s.pending \in Seq(Askings)
    BY DEF Scans
  <2> DEFINE q == s.pending
             n == Len(q)
             m == Len(e.calls)
             mark == [i \in DOMAIN q |-> IF q[i].call = e.calls[1]
                                         THEN [q[i] EXCEPT !.started = TRUE] ELSE q[i]]
  <2>3. Cut!Asked(e) \in Seq(Askings)
    <3>1. m \in Nat /\ DOMAIN e.calls = 1..m /\ \A i \in 1..m : e.calls[i] \in Calls
      BY <2>1
    <3>2. Cut!Asked(e) \in [1..m -> Askings]
      BY <2>1, <3>1 DEF Cut!Asked, Askings
    <3> QED BY <3>1, <3>2
  <2>4. Cut!Unanswered(s.pending, e) \in Seq(Askings)
    BY <2>2, UnansweredTypes
  <2>5. mark \in Seq(Askings)
    <3>1. n \in Nat /\ DOMAIN q = 1..n /\ \A i \in 1..n : q[i] \in Askings
      BY <2>2
    <3>2. \A i \in 1..n : [q[i] EXCEPT !.started = TRUE] \in Askings
      BY <3>1 DEF Askings
    <3>3. mark \in [1..n -> Askings]
      BY <3>1, <3>2
    <3> QED BY <3>1, <3>3
  <2>6. s.pending \o Cut!Asked(e) \in Seq(Askings)
    BY <2>2, <2>3
  <2> QED BY <2>1, <2>2, <2>4, <2>5, <2>6 DEF Cut!Scan, Scans, Cut!None
<1> QED BY <1>1, <1>2

(* What the scan makes of a log, as a run over its prefixes.               *)
LEMMA ScanRuns ==
  ASSUME NEW l \in CutLogs
  PROVE  \E c \in [0..Len(l) -> Scans] :
           /\ c[0] = FreshScan /\ Cut!Scanned(l) = c[Len(l)]
           /\ \A m \in 1..Len(l) : c[m] = Cut!Scan(c[m - 1], l[m])
<1> DEFINE n == Len(l)
           Equation(it) == it = [s \in SUBSET (1..n) |->
             IF s = {} THEN FreshScan ELSE Cut!Scan(it[s \ {Top(s)}], l[Top(s)])]
           iter == CHOOSE it : Equation(it)
           F == [p \in (1..n) \X Scans |-> Cut!Scan(p[2], l[p[1]])]
<1>1. n \in Nat /\ DOMAIN l = 1..n /\ \A i \in 1..n : l[i] \in CutEvents
  BY DEF CutLogs
<1> HIDE DEF n
<1>2. Cut!Scanned(l) = iter[1..n]
  <2>1. \A s : Cut!Max(s) = Top(s)
    BY DEF Cut!Max, Top
  <2> QED BY <1>1, <2>1 DEF Cut!Scanned, Cut!FoldLeft, Cut!MapThenFoldSet, FreshScan, Cut!None
<1>3. /\ F \in [(1..n) \X Scans -> Scans] /\ FreshScan \in Scans
      /\ \A i \in 1..n, v \in Scans : F[<<i, v>>] = Cut!Scan(v, l[i])
  BY <1>1, ScanTypes
<1> HIDE DEF F
<1>4. PICK g \in [SUBSET (1..n) -> Scans] : FoldSteps(g, n, FreshScan, F)
  BY <1>1, <1>3, FoldExists
<1> HIDE DEF Equation, iter
<1> DEFINE c == [m \in 0..n |-> g[1..m]]
           d == [m \in 0..n |-> iter[1..m]]
<1>5. /\ c \in [0..n -> Scans] /\ c[0] = FreshScan
      /\ \A m \in 1..n : c[m] = F[<<m, c[m - 1]>>]
  <2>1. n \in Nat /\ IsRunOf(c, g, n)
    BY <1>1 DEF IsRunOf
  <2> HIDE DEF c, d
  <2>2. RunsBy(c, n, Scans, FreshScan, F)
    BY <2>1, <1>3, <1>4, FoldRuns
  <2> QED BY <2>2 DEF RunsBy
<1>6. Equation(g)
  <2>1. ASSUME NEW s \in SUBSET (1..n), s # {}
        PROVE  g[s] = Cut!Scan(g[s \ {Top(s)}], l[Top(s)])
    <3>1. Top(s) \in s /\ g[s] = F[<<Top(s), g[s \ {Top(s)}]>>]
      BY <1>4, <2>1 DEF FoldSteps
    <3>2. g[s \ {Top(s)}] \in Scans /\ Top(s) \in 1..n
      BY <3>1
    <3> QED BY <3>1, <3>2, <1>3
  <2> QED BY <2>1, <1>4 DEF FoldSteps, Equation
<1>7. Equation(iter)
  BY <1>6 DEF iter
<1>8. \A m \in 0..n : d[m] = iter[1..m] /\ 1..m \in SUBSET (1..n)
  BY <1>1
<1>9. d[0] = FreshScan
  <2>1. 1..0 = {} /\ 0 \in 0..n
    BY <1>1
  <2> QED BY <2>1, <1>7, <1>8 DEF Equation
<1>10. ASSUME NEW m \in 1..n PROVE d[m] = Cut!Scan(d[m - 1], l[m])
  <2>1. /\ 1..m # {} /\ (1..m) \ {m} = 1..(m - 1) /\ m \in 0..n /\ m - 1 \in 0..n
        /\ m \in 1..m /\ m \in Nat /\ 1..m \in SUBSET (1..m)
    BY <1>1, Intervals
  <2>2. Top(1..m) = m
    BY <2>1, TopIs
  <2>3. iter[1..m] = Cut!Scan(iter[1..(m - 1)], l[m])
    BY <1>7, <1>8, <2>1, <2>2 DEF Equation
  <2> QED BY <1>8, <2>1, <2>3
<1> HIDE DEF c, d
<1>11. \A m \in 1..n : c[m - 1] \in Scans /\ c[m] = Cut!Scan(c[m - 1], l[m])
  <2> SUFFICES ASSUME NEW m \in 1..n
               PROVE  c[m - 1] \in Scans /\ c[m] = Cut!Scan(c[m - 1], l[m])
    OBVIOUS
  <2>1. m - 1 \in 0..n
    BY <1>1, Intervals
  <2> QED BY <2>1, <1>3, <1>5
<1>12. \A m \in 0..n : c[m] = d[m]
  <2>1. \A m \in 1..n : c[m - 1] = d[m - 1] => c[m] = d[m]
    BY <1>10, <1>11
  <2>2. n \in Nat /\ c[0] = d[0]
    BY <1>1, <1>5, <1>9
  <2>3. SameSteps(n, c, d)
    BY <2>1, <2>2 DEF SameSteps
  <2> QED BY <2>2, <2>3, SameRun
<1>13. Cut!Scanned(l) = c[n]
  BY <1>1, <1>2, <1>8, <1>12
<1> QED BY <1>5, <1>11, <1>13 DEF n

(* The scan, event by event.                                               *)
LEMMA ScanIs ==
  /\ Cut!Scanned(<<>>) = FreshScan
  /\ \A l \in CutLogs, e \in CutEvents :
       /\ Cut!Scanned(l) \in Scans
       /\ Cut!Scanned(Append(l, e)) = Cut!Scan(Cut!Scanned(l), e)
<1>1. Cut!Scanned(<<>>) = FreshScan
  <2>1. <<>> \in CutLogs /\ Len(<<>>) = 0
    BY DEF CutLogs
  <2> QED BY <2>1, ScanRuns
<1>2. ASSUME NEW l \in CutLogs, NEW e \in CutEvents
      PROVE  /\ Cut!Scanned(l) \in Scans
             /\ Cut!Scanned(Append(l, e)) = Cut!Scan(Cut!Scanned(l), e)
  <2> DEFINE n == Len(l)
             k == Append(l, e)
  <2>1. k \in CutLogs /\ Len(k) = n + 1 /\ n \in Nat /\ k[n + 1] = e /\ \A m \in 1..n : k[m] = l[m]
    BY GrownIs
  <2>2. PICK c \in [0..n -> Scans] :
          /\ c[0] = FreshScan /\ Cut!Scanned(l) = c[n]
          /\ \A m \in 1..n : c[m] = Cut!Scan(c[m - 1], l[m])
    BY ScanRuns
  <2> HIDE DEF k, n
  <2>3. PICK d \in [0..(n + 1) -> Scans] :
          /\ d[0] = FreshScan /\ Cut!Scanned(k) = d[n + 1]
          /\ \A m \in 1..(n + 1) : d[m] = Cut!Scan(d[m - 1], k[m])
    BY <2>1, ScanRuns
  <2>4. \A m \in 0..n : c[m] = d[m]
    <3>1. \A m \in 1..n : m \in 1..(n + 1) /\ k[m] = l[m]
      BY <2>1
    <3>2. \A m \in 1..n : c[m - 1] = d[m - 1] => c[m] = d[m]
      BY <3>1, <2>2, <2>3
    <3>3. c[0] = d[0]
      BY <2>2, <2>3
    <3>4. n \in Nat
      BY <2>1
    <3>5. SameSteps(n, c, d)
      BY <3>2, <3>3 DEF SameSteps
    <3> QED BY <3>4, <3>5, SameRun
  <2>5. n + 1 \in 1..(n + 1) /\ (n + 1) - 1 = n /\ n \in 0..n
    BY <2>1
  <2>6. d[n + 1] = Cut!Scan(d[n], k[n + 1])
    BY <2>3, <2>5
  <2>7. c[n] \in Scans /\ d[n] = c[n]
    BY <2>2, <2>4, <2>5
  <2> QED BY <2>1, <2>2, <2>3, <2>6, <2>7 DEF k
<1> QED BY <1>1, <1>2

-----------------------------------------------------------------------------
(* What the scan and the companion agree on after every event.             *)

Asking(l, u, v, c) ==
  {i \in DOMAIN l : /\ l[i].type = "assistant" /\ l[i].turn = u /\ l[i].step = v
                    /\ \E k \in DOMAIN l[i].calls : l[i].calls[k] = c}
Askers(l, u, v) == {i \in DOMAIN l : l[i].type = "assistant" /\ l[i].turn = u /\ l[i].step = v}
Starting(l, u, v, c) ==
  {i \in DOMAIN l : /\ l[i].type = "tool/call" /\ l[i].turn = u /\ l[i].step = v
                    /\ l[i].calls[1] = c}
Answering(l, u, v, c) ==
  {i \in DOMAIN l : /\ l[i].type = "tool/result" /\ l[i].turn = u /\ l[i].step = v
                    /\ l[i].calls[1] = c}

Aligned(t, s) ==
  /\ t.legal /\ s.turn = t.openTurn /\ s.step = t.openStep
  /\ t.openTurn = 0 => t.openStep = 0
  /\ t.nextTurn >= 1 /\ t.nextStep >= 1
  /\ t.openTurn # 0 => t.openTurn = t.nextTurn
  /\ t.openStep # 0 => t.openStep = t.nextStep

Numbered(l, t) ==
  \A i \in DOMAIN l :
    /\ l[i].turn <= t.nextTurn
    /\ t.openTurn = 0 => l[i].turn < t.nextTurn
    /\ t.openTurn # 0 /\ l[i].turn = t.openTurn =>
         l[i].step <= t.nextStep /\ (t.openStep = 0 => l[i].step < t.nextStep)

Queued(t, w, q) ==
  /\ q # <<>> => t.openStep # 0
  /\ \A i \in DOMAIN q : q[i].step = t.openStep /\ (q[i].started => q[i].call \in w)
  /\ \A i, j \in DOMAIN q : q[i].call = q[j].call => i = j

RecordedCall(l, q, c, asking, starting, answering) ==
  /\ \A i, j \in answering : i = j
  /\ answering # {} \/ starting # {} => asking # {}
  /\ (\E k \in DOMAIN q : q[k].call = c) <=> (asking # {} /\ answering = {})
  /\ \A k \in DOMAIN q : q[k].call = c => (q[k].started <=> starting # {})
  /\ \A i \in answering : IF l[i].code = "TOOL_NOT_STARTED" THEN starting = {}
                                                            ELSE \E j \in starting : j < i
Recorded(l, u, v, q) ==
  v # 0 =>
    /\ \A i, j \in Askers(l, u, v) : i = j
    /\ \A c \in Calls : RecordedCall(l, q, c, Asking(l, u, v, c), Starting(l, u, v, c),
                                     Answering(l, u, v, c))

Agrees(l, c, s) ==
  /\ Aligned(c.trace, s) /\ Numbered(l, c.trace) /\ Queued(c.trace, c.pending, s.pending)
  /\ Recorded(l, c.trace.openTurn, c.trace.openStep, s.pending)
Sync(l) == Agrees(l, Cut!Companion(l), Cut!Scanned(l))

(* The events the driver or a repair may append next.                      *)
Distinct(a) == \A i, j \in DOMAIN a : a[i] = a[j] => i = j
Fits(code, p) == p.started <=> code # "TOOL_NOT_STARTED"
Codes == {"none", "TOOL_OUTCOME_UNKNOWN", "TOOL_NOT_STARTED"}
Moves(l, t, q, e) ==
  \/ t.openTurn = 0 /\ e = Cut!Plain(Cut!TurnStart(t.nextTurn))
  \/ t.openTurn # 0 /\ t.openStep = 0 /\ e = Cut!Plain(Cut!TurnEnd(t.openTurn))
  \/ t.openTurn # 0 /\ t.openStep = 0 /\ e = Cut!Plain(Cut!StepStart(t.openTurn, t.nextStep))
  \/ t.openStep # 0 /\ e = Cut!Plain(Cut!StepEnd(t.openTurn, t.openStep))
  \/ /\ t.openStep # 0 /\ Askers(l, t.openTurn, t.openStep) = {}
     /\ \E a \in Seq(Calls) : Distinct(a) /\ e = Cut!Asks(t.openTurn, t.openStep, a)
  \/ /\ t.openStep # 0
     /\ \E i \in DOMAIN q : ~q[i].started /\ e = Cut!ToolCall(t.openTurn, t.openStep, q[i].call)
  \/ /\ t.openStep # 0
     /\ \E i \in DOMAIN q, code \in Codes :
          Fits(code, q[i]) /\ e = Cut!ToolResult(t.openTurn, t.openStep, q[i].call, code)

TraceEffect(c, e, d) ==
  /\ e.type = "turn/start" =>
       /\ d.trace.openTurn = e.turn /\ d.trace.openStep = c.trace.openStep
       /\ d.trace.nextTurn = c.trace.nextTurn /\ d.trace.nextStep = 1
       /\ (d.trace.legal <=> c.trace.legal /\ c.trace.openTurn = 0 /\ e.turn = c.trace.nextTurn)
       /\ d.pending = c.pending
  /\ e.type = "turn/end" =>
       /\ d.trace.openTurn = 0 /\ d.trace.openStep = c.trace.openStep
       /\ d.trace.nextTurn = c.trace.nextTurn + 1 /\ d.trace.nextStep = c.trace.nextStep
       /\ (d.trace.legal <=> c.trace.legal /\ c.trace.openTurn = e.turn /\ c.trace.openStep = 0)
       /\ d.pending = c.pending
  /\ e.type = "step/start" =>
       /\ d.trace.openTurn = c.trace.openTurn /\ d.trace.openStep = e.step
       /\ d.trace.nextTurn = c.trace.nextTurn /\ d.trace.nextStep = c.trace.nextStep
       /\ (d.trace.legal <=> c.trace.legal /\ c.trace.openTurn = e.turn /\ c.trace.openStep = 0
                           /\ e.step = c.trace.nextStep)
       /\ d.pending = c.pending
  /\ e.type = "step/end" =>
       /\ d.trace.openTurn = c.trace.openTurn /\ d.trace.openStep = 0
       /\ d.trace.nextTurn = c.trace.nextTurn /\ d.trace.nextStep = c.trace.nextStep + 1
       /\ (d.trace.legal <=>
            c.trace.legal /\ c.trace.openTurn = e.turn /\ c.trace.openStep = e.step)
       /\ d.pending = {}
  /\ e.type = "assistant" =>
       /\ d.trace.openTurn = c.trace.openTurn /\ d.trace.openStep = c.trace.openStep
       /\ d.trace.nextTurn = c.trace.nextTurn /\ d.trace.nextStep = c.trace.nextStep
       /\ (d.trace.legal <=>
            c.trace.legal /\ c.trace.openTurn = e.turn /\ c.trace.openStep = e.step)
       /\ d.pending = c.pending
  /\ e.type \in {"tool/call", "tool/result"} =>
       /\ d.trace.openTurn = c.trace.openTurn /\ d.trace.openStep = c.trace.openStep
       /\ d.trace.nextTurn = c.trace.nextTurn /\ d.trace.nextStep = c.trace.nextStep
       /\ (d.trace.legal <=> c.trace.legal /\ Cut!AdmitsTool(c, e))
       /\ d.pending = IF e.type = "tool/call" THEN c.pending \cup {e.calls[1]}
                                              ELSE c.pending \ {e.calls[1]}
LEMMA TraceEffects ==
  ASSUME NEW c \in Companions, NEW e \in CutEvents, NEW d, d = Cut!Commit(c, e)
  PROVE  TraceEffect(c, e, d)
BY DEF TraceEffect, Companions, CutEvents, Cut!TraceType, Cut!Commit, Cut!Log, Cut!Accepts, Cut!None

(* What one event does to the scan.                                        *)
ScanEffect(s, e, r) ==
  /\ e.type = "turn/start" => r.turn = e.turn /\ r.step = 0 /\ r.pending = <<>>
  /\ e.type = "turn/end" => r.turn = 0 /\ r.step = 0 /\ r.pending = <<>>
  /\ e.type = "step/start" => r.turn = s.turn /\ r.step = e.step /\ r.pending = s.pending
  /\ e.type = "step/end" => r.turn = s.turn /\ r.step = 0 /\ r.pending = <<>>
  /\ e.type = "assistant" =>
       r.turn = s.turn /\ r.step = s.step /\ r.pending = s.pending \o Cut!Asked(e)
  /\ e.type = "tool/call" =>
       /\ r.turn = s.turn /\ r.step = s.step
       /\ r.pending = [i \in DOMAIN s.pending |->
                         IF s.pending[i].call = e.calls[1]
                         THEN [s.pending[i] EXCEPT !.started = TRUE] ELSE s.pending[i]]
  /\ e.type = "tool/result" =>
       r.turn = s.turn /\ r.step = s.step /\ r.pending = Cut!Unanswered(s.pending, e)
LEMMA ScanEffects ==
  ASSUME NEW s \in Scans, NEW e \in CutEvents, NEW r, r = Cut!Scan(s, e)
  PROVE  ScanEffect(s, e, r)
BY DEF ScanEffect, Scans, CutEvents, Cut!Scan, Cut!Cleared, Cut!None

(* The first entry that a result settles leaves the queue.                 *)
LEMMA UnansweredIs ==
  ASSUME NEW q \in Seq(Askings), NEW e \in CutEvents, NEW i \in DOMAIN q,
         q[i].call = e.calls[1], \A j \in DOMAIN q : q[j].call = e.calls[1] => j >= i
  PROVE  Cut!Unanswered(q, e) = SubSeq(q, 1, i - 1) \o SubSeq(q, i + 1, Len(q))
<1> DEFINE I == {j \in 1..Len(q) : q[j].call = e.calls[1]}
<1>1. DOMAIN q = 1..Len(q) /\ Len(q) \in Nat /\ i \in I /\ \A j \in I : i <= j
  OBVIOUS
<1>2. Cut!Min(I) = i
  <2>1. \A x \in I : (\A y \in I : x =< y) => x = i
    BY <1>1
  <2> HIDE DEF I
  <2> QED BY <1>1, <2>1 DEF Cut!Min
<1>3. Cut!SelectInSeq(q, LAMBDA p : p.call = e.calls[1]) = i
  BY <1>1, <1>2 DEF Cut!SelectInSeq
<1>4. Cut!Unanswered(q, e)
        = Cut!RemoveAt(q, Cut!SelectInSeq(q, LAMBDA p : p.call = e.calls[1]))
  BY <1>1 DEF Cut!Unanswered, Cut!RemoveFirstMatch
<1> QED BY <1>3, <1>4 DEF Cut!RemoveAt

(* What one more event adds to the records of a step.                      *)
GrownRecord(l, e, u, v, c, k, n) ==
  /\ DOMAIN k = 1..n /\ n \in Nat /\ n >= 1 /\ DOMAIN l = 1..(n - 1) /\ k[n] = e
  /\ \A i \in DOMAIN l : i \in DOMAIN k /\ k[i] = l[i] /\ i < n /\ i \in Nat
  /\ \A i \in DOMAIN k : i \in DOMAIN l \/ i = n
  /\ IF e.type = "assistant" /\ e.turn = u /\ e.step = v
     THEN /\ Askers(k, u, v) = Askers(l, u, v) \cup {n}
          /\ Asking(k, u, v, c) = Asking(l, u, v, c)
               \cup (IF \E j \in DOMAIN e.calls : e.calls[j] = c THEN {n} ELSE {})
     ELSE Askers(k, u, v) = Askers(l, u, v) /\ Asking(k, u, v, c) = Asking(l, u, v, c)
  /\ Starting(k, u, v, c) = Starting(l, u, v, c) \cup
       (IF e.type = "tool/call" /\ e.turn = u /\ e.step = v /\ e.calls[1] = c THEN {n} ELSE {})
  /\ Answering(k, u, v, c) = Answering(l, u, v, c) \cup
       (IF e.type = "tool/result" /\ e.turn = u /\ e.step = v /\ e.calls[1] = c THEN {n} ELSE {})
LEMMA GrownRecords ==
  ASSUME NEW l \in CutLogs, NEW e \in CutEvents, NEW u, NEW v, NEW c, NEW n, n = Len(l) + 1
  PROVE  GrownRecord(l, e, u, v, c, Append(l, e), n)
<1> DEFINE k == Append(l, e)
<1>1. /\ DOMAIN k = 1..n /\ n \in Nat /\ n >= 1 /\ DOMAIN l = 1..(n - 1) /\ k[n] = e
      /\ \A i \in DOMAIN l : i \in DOMAIN k /\ k[i] = l[i] /\ i < n /\ i \in Nat
  BY DEF CutLogs
<1>2. \A i \in DOMAIN k : i \in DOMAIN l \/ i = n
  BY <1>1
<1>3. n \in DOMAIN k
  BY <1>1
<1> HIDE DEF k
<1>4. IF e.type = "assistant" /\ e.turn = u /\ e.step = v
      THEN /\ Askers(k, u, v) = Askers(l, u, v) \cup {n}
           /\ Asking(k, u, v, c) = Asking(l, u, v, c)
                \cup (IF \E j \in DOMAIN e.calls : e.calls[j] = c THEN {n} ELSE {})
      ELSE Askers(k, u, v) = Askers(l, u, v) /\ Asking(k, u, v, c) = Asking(l, u, v, c)
  BY <1>1, <1>2, <1>3 DEF Askers, Asking
<1>5. Starting(k, u, v, c) = Starting(l, u, v, c) \cup
       (IF e.type = "tool/call" /\ e.turn = u /\ e.step = v /\ e.calls[1] = c THEN {n} ELSE {})
  BY <1>1, <1>2, <1>3 DEF Starting
<1>6. Answering(k, u, v, c) = Answering(l, u, v, c) \cup
       (IF e.type = "tool/result" /\ e.turn = u /\ e.step = v /\ e.calls[1] = c THEN {n} ELSE {})
  BY <1>1, <1>2, <1>3 DEF Answering
<1>7. GrownRecord(l, e, u, v, c, k, n)
  BY <1>1, <1>2, <1>4, <1>5, <1>6 DEF GrownRecord
<1> QED BY <1>7 DEF k

(* The numbers of turns and steps stay ahead of the log.                   *)
LEMMA GrownNumbers ==
  ASSUME NEW l \in CutLogs, NEW e \in CutEvents, NEW t \in Cut!TraceType, NEW t2 \in Cut!TraceType,
         Numbered(l, t),
         t.nextTurn <= t2.nextTurn,
         t2.openTurn = 0 => t.openTurn = 0 \/ t2.nextTurn > t.nextTurn,
         t2.openTurn # 0 => t2.openTurn = t2.nextTurn,
         t2.openTurn # 0 /\ t.openTurn # 0 =>
           /\ t2.openTurn = t.openTurn /\ t.nextStep <= t2.nextStep
           /\ t2.openStep = 0 => t.openStep = 0 \/ t2.nextStep > t.nextStep,
         e.turn <= t2.nextTurn, t2.openTurn = 0 => e.turn < t2.nextTurn,
         t2.openTurn # 0 =>
           e.step <= t2.nextStep /\ (t2.openStep = 0 => e.step < t2.nextStep)
  PROVE  Numbered(Append(l, e), t2)
<1> DEFINE k == Append(l, e)
<1>1. \A i \in DOMAIN k : (i \in DOMAIN l /\ k[i] = l[i]) \/ k[i] = e
  BY DEF CutLogs
<1>2. \A i \in DOMAIN l : l[i].turn \in Nat /\ l[i].step \in Nat
  BY DEF CutLogs, CutEvents
<1>3. e.turn \in Nat /\ e.step \in Nat
  BY DEF CutEvents
<1> HIDE DEF k
<1>4. ASSUME NEW i \in DOMAIN k
      PROVE  /\ k[i].turn <= t2.nextTurn
             /\ t2.openTurn = 0 => k[i].turn < t2.nextTurn
             /\ t2.openTurn # 0 /\ k[i].turn = t2.openTurn =>
                  k[i].step <= t2.nextStep /\ (t2.openStep = 0 => k[i].step < t2.nextStep)
  <2>1. CASE k[i] = e
    BY <2>1, <1>3
  <2>2. CASE i \in DOMAIN l /\ k[i] = l[i]
    <3>1. /\ l[i].turn <= t.nextTurn
          /\ t.openTurn = 0 => l[i].turn < t.nextTurn
          /\ t.openTurn # 0 /\ l[i].turn = t.openTurn =>
               l[i].step <= t.nextStep /\ (t.openStep = 0 => l[i].step < t.nextStep)
      BY <2>2 DEF Numbered
    <3> QED BY <3>1, <2>2, <1>2 DEF Cut!TraceType
  <2> QED BY <1>1, <2>1, <2>2
<1> QED BY <1>4 DEF Numbered, k

(* Nothing is recorded of a step not yet numbered.                         *)
LEMMA NewStepRecords ==
  ASSUME NEW l \in CutLogs, NEW e \in CutEvents, NEW t \in Cut!TraceType, Numbered(l, t),
         t.openTurn # 0, t.openStep = 0, e.type = "step/start"
  PROVE  Recorded(Append(l, e), t.openTurn, t.nextStep, <<>>)
<1> DEFINE u == t.openTurn
           v == t.nextStep
           k == Append(l, e)
<1>1. \A i \in DOMAIN l : ~(l[i].turn = u /\ l[i].step = v)
  BY DEF Numbered, CutLogs, CutEvents, Cut!TraceType
<1> HIDE DEF u, v
<1>2. /\ Askers(l, u, v) = {}
      /\ \A c : Asking(l, u, v, c) = {} /\ Starting(l, u, v, c) = {} /\ Answering(l, u, v, c) = {}
  BY <1>1 DEF Askers, Asking, Starting, Answering
<1>3. /\ Askers(k, u, v) = {}
      /\ \A c \in Calls :
           Asking(k, u, v, c) = {} /\ Starting(k, u, v, c) = {} /\ Answering(k, u, v, c) = {}
  <2>1. ASSUME NEW c
        PROVE  /\ Askers(k, u, v) = {} /\ Asking(k, u, v, c) = {} /\ Starting(k, u, v, c) = {}
               /\ Answering(k, u, v, c) = {}
    <3> DEFINE n == Len(l) + 1
    <3>1. k = Append(l, e) /\ n = Len(l) + 1
      OBVIOUS
    <3> HIDE DEF k, n
    <3>2. GrownRecord(l, e, u, v, c, k, n)
      BY <3>1, GrownRecords
    <3> QED BY <3>2, <1>2 DEF GrownRecord
  <2> QED BY <2>1
<1>4. \A c \in Calls : RecordedCall(k, <<>>, c, {}, {}, {})
  BY DEF RecordedCall
<1> QED BY <1>3, <1>4 DEF Recorded, k, u, v

(* A turn or a step begins or ends.                                        *)
LEMMA BoundaryMove ==
  ASSUME NEW l \in CutLogs, NEW c \in Companions, NEW s \in Scans, NEW t, t = c.trace,
         Aligned(t, s), Numbered(l, t), Queued(t, c.pending, s.pending),
         Recorded(l, t.openTurn, t.openStep, s.pending),
         NEW e,
         \/ t.openTurn = 0 /\ e = Cut!Plain(Cut!TurnStart(t.nextTurn))
         \/ t.openTurn # 0 /\ t.openStep = 0 /\ e = Cut!Plain(Cut!TurnEnd(t.openTurn))
         \/ t.openTurn # 0 /\ t.openStep = 0 /\ e = Cut!Plain(Cut!StepStart(t.openTurn, t.nextStep))
         \/ t.openStep # 0 /\ e = Cut!Plain(Cut!StepEnd(t.openTurn, t.openStep)),
         NEW d, d = Cut!Commit(c, e), NEW r, r = Cut!Scan(s, e), NEW k, k = Append(l, e)
  PROVE  /\ e \in CutEvents
         /\ Aligned(d.trace, r) /\ Numbered(k, d.trace) /\ Queued(d.trace, d.pending, r.pending)
         /\ Recorded(k, d.trace.openTurn, d.trace.openStep, r.pending)
<1>1. t \in Cut!TraceType /\ c.pending \in SUBSET Calls
  BY DEF Companions
<1>2. /\ t.openTurn \in Nat /\ t.openStep \in Nat /\ t.nextTurn \in Nat /\ t.nextStep \in Nat
      /\ t.legal \in BOOLEAN
  BY <1>1 DEF Cut!TraceType
<1>3. <<>> \in Seq(Calls)
  OBVIOUS
<1>4. CASE t.openTurn = 0 /\ e = Cut!Plain(Cut!TurnStart(t.nextTurn))
  <2>1. e = [type |-> "turn/start", turn |-> t.nextTurn, step |-> 0, calls |-> <<>>,
             code |-> "none"]
    BY <1>4 DEF Cut!Plain, Cut!Event, Cut!TurnStart, Cut!None
  <2>2. e \in CutEvents
    BY <1>2, <1>3, <2>1 DEF CutEvents, CutTypes
  <2>3. /\ d \in Companions /\ d.trace \in Cut!TraceType
        /\ TraceEffect(c, e, d) /\ ScanEffect(s, e, r)
    BY <2>2, CommitTypes, TraceEffects, ScanEffects DEF Companions
  <2>4. /\ d.trace.openTurn = t.nextTurn /\ d.trace.openStep = 0 /\ d.trace.nextTurn = t.nextTurn
        /\ d.trace.nextStep = 1 /\ d.trace.legal /\ d.pending = c.pending
    BY <1>2, <1>4, <2>1, <2>3 DEF Aligned, TraceEffect
  <2>5. r.turn = t.nextTurn /\ r.step = 0 /\ r.pending = <<>>
    BY <2>1, <2>3 DEF ScanEffect
  <2>6. Aligned(d.trace, r)
    BY <1>2, <2>4, <2>5 DEF Aligned
  <2>7. Numbered(k, d.trace)
    BY <1>1, <1>2, <1>4, <2>1, <2>2, <2>3, <2>4, GrownNumbers DEF Aligned
  <2> QED BY <2>2, <2>4, <2>5, <2>6, <2>7 DEF Queued, Recorded
<1>5. CASE t.openTurn # 0 /\ t.openStep = 0 /\ e = Cut!Plain(Cut!TurnEnd(t.openTurn))
  <2>1. e = [type |-> "turn/end", turn |-> t.openTurn, step |-> 0, calls |-> <<>>, code |-> "none"]
    BY <1>5 DEF Cut!Plain, Cut!Event, Cut!TurnEnd, Cut!None
  <2>2. e \in CutEvents
    BY <1>2, <1>3, <2>1 DEF CutEvents, CutTypes
  <2>3. /\ d \in Companions /\ d.trace \in Cut!TraceType
        /\ TraceEffect(c, e, d) /\ ScanEffect(s, e, r)
    BY <2>2, CommitTypes, TraceEffects, ScanEffects DEF Companions
  <2>4. /\ d.trace.openTurn = 0 /\ d.trace.openStep = 0 /\ d.trace.nextTurn = t.nextTurn + 1
        /\ d.trace.nextStep = t.nextStep /\ d.trace.legal /\ d.pending = c.pending
    BY <1>2, <1>5, <2>1, <2>3 DEF Aligned, TraceEffect
  <2>5. r.turn = 0 /\ r.step = 0 /\ r.pending = <<>>
    BY <2>1, <2>3 DEF ScanEffect
  <2>6. Aligned(d.trace, r)
    BY <1>2, <2>4, <2>5 DEF Aligned
  <2>7. Numbered(k, d.trace)
    BY <1>1, <1>2, <1>5, <2>1, <2>2, <2>3, <2>4, GrownNumbers DEF Aligned
  <2> QED BY <2>2, <2>4, <2>5, <2>6, <2>7 DEF Queued, Recorded
<1>6. CASE t.openTurn # 0 /\ t.openStep = 0
           /\ e = Cut!Plain(Cut!StepStart(t.openTurn, t.nextStep))
  <2>1. e = [type |-> "step/start", turn |-> t.openTurn, step |-> t.nextStep, calls |-> <<>>,
             code |-> "none"]
    BY <1>6 DEF Cut!Plain, Cut!Event, Cut!StepStart
  <2>2. e \in CutEvents
    BY <1>2, <1>3, <2>1 DEF CutEvents, CutTypes
  <2>3. /\ d \in Companions /\ d.trace \in Cut!TraceType
        /\ TraceEffect(c, e, d) /\ ScanEffect(s, e, r)
    BY <2>2, CommitTypes, TraceEffects, ScanEffects DEF Companions
  <2>4. /\ d.trace.openTurn = t.openTurn /\ d.trace.openStep = t.nextStep
        /\ d.trace.nextTurn = t.nextTurn /\ d.trace.nextStep = t.nextStep /\ d.trace.legal
        /\ d.pending = c.pending
    BY <1>2, <1>6, <2>1, <2>3 DEF Aligned, TraceEffect
  <2>5. r.turn = t.openTurn /\ r.step = t.nextStep /\ r.pending = <<>>
    BY <1>6, <2>1, <2>3 DEF Aligned, Queued, ScanEffect
  <2>6. Aligned(d.trace, r)
    BY <1>2, <1>6, <2>4, <2>5 DEF Aligned
  <2>7. Numbered(k, d.trace)
    BY <1>1, <1>2, <1>6, <2>1, <2>2, <2>3, <2>4, GrownNumbers DEF Aligned
  <2>8. Recorded(k, t.openTurn, t.nextStep, <<>>)
    BY <1>1, <1>6, <2>1, <2>2, NewStepRecords
  <2> QED BY <2>2, <2>4, <2>5, <2>6, <2>7, <2>8 DEF Queued
<1>7. CASE t.openStep # 0 /\ e = Cut!Plain(Cut!StepEnd(t.openTurn, t.openStep))
  <2>1. e = [type |-> "step/end", turn |-> t.openTurn, step |-> t.openStep, calls |-> <<>>,
             code |-> "none"]
    BY <1>7 DEF Cut!Plain, Cut!Event, Cut!StepEnd
  <2>2. e \in CutEvents
    BY <1>2, <1>3, <2>1 DEF CutEvents, CutTypes
  <2>3. /\ d \in Companions /\ d.trace \in Cut!TraceType
        /\ TraceEffect(c, e, d) /\ ScanEffect(s, e, r)
    BY <2>2, CommitTypes, TraceEffects, ScanEffects DEF Companions
  <2>4. /\ d.trace.openTurn = t.openTurn /\ d.trace.openStep = 0
        /\ d.trace.nextTurn = t.nextTurn /\ d.trace.nextStep = t.nextStep + 1 /\ d.trace.legal
        /\ d.pending = {}
    BY <1>2, <1>7, <2>1, <2>3 DEF Aligned, TraceEffect
  <2>5. r.turn = t.openTurn /\ r.step = 0 /\ r.pending = <<>>
    BY <1>7, <2>1, <2>3 DEF Aligned, ScanEffect
  <2>6. Aligned(d.trace, r)
    BY <1>2, <1>7, <2>4, <2>5 DEF Aligned
  <2>7. Numbered(k, d.trace)
    BY <1>1, <1>2, <1>7, <2>1, <2>2, <2>3, <2>4, GrownNumbers DEF Aligned
  <2> QED BY <2>2, <2>4, <2>5, <2>6, <2>7 DEF Queued, Recorded
<1> QED BY <1>4, <1>5, <1>6, <1>7

(* What the parts of a move inside a step have in common.                  *)
StepMove(l, c, s, e, d, r, k, u, v, q, p, n) ==
  /\ u \in Nat /\ v \in Nat /\ v # 0 /\ q \in Seq(Askings)
  /\ e.turn = u /\ e.step = v
  /\ Aligned(d.trace, r) /\ Numbered(k, d.trace)
  /\ d.trace.openTurn = u /\ d.trace.openStep = v
  /\ Queued(c.trace, c.pending, q) /\ c.trace.openStep = v /\ Recorded(l, u, v, q)
  /\ \A x : GrownRecord(l, e, u, v, x, k, n)

(* An event of the open step, field by field.                              *)
LEMMA StepMoves ==
  ASSUME NEW l \in CutLogs, NEW c \in Companions, NEW s \in Scans, Agrees(l, c, s),
         NEW e \in CutEvents, c.trace.openStep # 0,
         e.turn = c.trace.openTurn, e.step = c.trace.openStep,
         \/ e.type = "assistant"
         \/ e.type \in {"tool/call", "tool/result"} /\ Cut!AdmitsTool(c, e)
  PROVE  StepMove(l, c, s, e, Cut!Commit(c, e), Cut!Scan(s, e), Append(l, e),
                  c.trace.openTurn, c.trace.openStep, s.pending, Cut!Scan(s, e).pending,
                  Len(l) + 1)
<1> DEFINE t == c.trace
           u == t.openTurn
           v == t.openStep
           d == Cut!Commit(c, e)
           r == Cut!Scan(s, e)
           k == Append(l, e)
           n == Len(l) + 1
<1>1. t \in Cut!TraceType /\ c.pending \in SUBSET Calls
  BY DEF Companions
<1>2. /\ t.openTurn \in Nat /\ t.openStep \in Nat /\ t.nextTurn \in Nat /\ t.nextStep \in Nat
      /\ t.legal \in BOOLEAN /\ u \in Nat /\ v \in Nat
  BY <1>1 DEF Cut!TraceType
<1>3. /\ d \in Companions /\ d.trace \in Cut!TraceType
      /\ TraceEffect(c, e, d) /\ ScanEffect(s, e, r)
  <2>1. d \in Companions /\ TraceEffect(c, e, d) /\ ScanEffect(s, e, r)
    BY CommitTypes, TraceEffects, ScanEffects
  <2> HIDE DEF d, r
  <2> QED BY <2>1 DEF Companions
<1>4. /\ Aligned(t, s) /\ Numbered(l, t) /\ Queued(t, c.pending, s.pending)
      /\ Recorded(l, u, v, s.pending)
  BY DEF Agrees
<1> HIDE DEF d, r, k, n
<1>5. /\ d.trace.openTurn = u /\ d.trace.openStep = v
      /\ d.trace.nextTurn = t.nextTurn /\ d.trace.nextStep = t.nextStep /\ d.trace.legal
  <2>1. t.legal
    BY <1>4 DEF Aligned
  <2>2. CASE e.type = "assistant"
    BY <2>1, <2>2, <1>3 DEF TraceEffect
  <2>3. CASE e.type \in {"tool/call", "tool/result"} /\ Cut!AdmitsTool(c, e)
    BY <2>1, <2>3, <1>3 DEF TraceEffect
  <2> QED BY <2>2, <2>3
<1>6. r.turn = u /\ r.step = v
  BY <1>3, <1>4 DEF Aligned, ScanEffect
<1>7. Aligned(d.trace, r)
  BY <1>2, <1>4, <1>5, <1>6 DEF Aligned
<1>8. Numbered(k, d.trace)
  <2>1. /\ t.openTurn # 0 /\ t.openTurn = t.nextTurn /\ t.openStep = t.nextStep
    BY <1>4 DEF Aligned
  <2>2. Numbered(Append(l, e), d.trace)
    BY <2>1, <1>1, <1>2, <1>3, <1>4, <1>5, GrownNumbers
  <2> QED BY <2>2 DEF k
<1>9. \A x : GrownRecord(l, e, u, v, x, k, n)
  <2>1. k = Append(l, e) /\ n = Len(l) + 1
    BY DEF k, n
  <2> QED BY <2>1, GrownRecords
<1>10. s.pending \in Seq(Askings)
  BY DEF Scans
<1> QED BY <1>2, <1>4, <1>5, <1>7, <1>8, <1>9, <1>10 DEF StepMove, d, r, k, n

(* The assistant's message asks for its calls, once in a step.             *)
AskedIn(p, a, v) ==
  /\ DOMAIN p = DOMAIN a
  /\ \A j \in DOMAIN a : p[j].call = a[j] /\ p[j].step = v /\ p[j].started = FALSE
LEMMA AskQueued ==
  ASSUME NEW v, NEW a \in Seq(Calls), NEW e,
         e.calls = a, e.step = v, NEW q, q = <<>>, NEW p, p = q \o Cut!Asked(e)
  PROVE  AskedIn(p, a, v)
<1>1. Cut!Asked(e) = [j \in DOMAIN a |-> [call |-> a[j], step |-> v, started |-> FALSE]]
  BY DEF Cut!Asked
<1> DEFINE T == {[call |-> x, step |-> v, started |-> FALSE] : x \in Calls}
<1>2. Cut!Asked(e) \in Seq(T)
  <2>1. DOMAIN a = 1..Len(a) /\ Len(a) \in Nat /\ \A j \in DOMAIN a : a[j] \in Calls
    OBVIOUS
  <2>2. \A j \in DOMAIN a : [call |-> a[j], step |-> v, started |-> FALSE] \in T
    BY <2>1
  <2>3. Cut!Asked(e) \in [1..Len(a) -> T]
    <3> HIDE DEF T
    <3> QED BY <1>1, <2>1, <2>2
  <2> HIDE DEF T
  <2> QED BY <2>1, <2>3
<1>3. p = Cut!Asked(e)
  <2> HIDE DEF T
  <2> QED BY <1>2
<1> QED BY <1>1, <1>3 DEF AskedIn

(* Before the message nothing of the step waits.                           *)
LEMMA NothingQueued ==
  ASSUME NEW l \in CutLogs, NEW u, NEW v, v # 0, NEW q \in Seq(Askings), Recorded(l, u, v, q),
         Askers(l, u, v) = {}
  PROVE  q = <<>> /\ \A x \in Calls : Asking(l, u, v, x) = {}
<1>1. \A x \in Calls : Asking(l, u, v, x) = {}
  BY DEF Asking, Askers
<1>2. \A x \in Calls : ~\E j \in DOMAIN q : q[j].call = x
  BY <1>1 DEF Recorded, RecordedCall
<1>3. \A j \in 1..Len(q) : j \in DOMAIN q /\ q[j] \in Askings
  OBVIOUS
<1>4. \A j \in 1..Len(q) : q[j].call \in Calls
  BY <1>3 DEF Askings
<1>5. Len(q) \in Nat
  OBVIOUS
<1>6. ~(Len(q) >= 1)
  BY <1>2, <1>3, <1>4, <1>5
<1> QED BY <1>1, <1>5, <1>6

(* The assistant's message keeps the scan and the companion in agreement.  *)
LEMMA AskMove ==
  ASSUME NEW l \in CutLogs, NEW c \in Companions, NEW s \in Scans, Agrees(l, c, s),
         NEW a \in Seq(Calls), Distinct(a),
         c.trace.openStep # 0, Askers(l, c.trace.openTurn, c.trace.openStep) = {},
         NEW e, e = Cut!Asks(c.trace.openTurn, c.trace.openStep, a)
  PROVE  e \in CutEvents /\ Agrees(Append(l, e), Cut!Commit(c, e), Cut!Scan(s, e))
<1> DEFINE u == c.trace.openTurn
           v == c.trace.openStep
           d == Cut!Commit(c, e)
           r == Cut!Scan(s, e)
           k == Append(l, e)
           n == Len(l) + 1
           q == s.pending
           p == r.pending
<1>1. u \in Nat /\ v \in Nat
  BY DEF Companions, Cut!TraceType
<1>2. /\ e = [type |-> "assistant", turn |-> u, step |-> v, calls |-> a, code |-> "none"]
  BY DEF Cut!Asks, Cut!Event, Cut!Assistant
<1>3. e \in CutEvents /\ e.type = "assistant" /\ e.turn = u /\ e.step = v /\ e.calls = a
  BY <1>1, <1>2 DEF CutEvents, CutTypes
<1>4. StepMove(l, c, s, e, d, r, k, u, v, q, p, n)
  BY <1>3, StepMoves
<1>5. TraceEffect(c, e, d) /\ ScanEffect(s, e, r)
  BY <1>3, TraceEffects, ScanEffects
<1>6. Askers(l, u, v) = {}
  OBVIOUS
<1> HIDE DEF u, v, d, r, k, n, q
<1>7. d.pending = c.pending
  BY <1>3, <1>5 DEF TraceEffect
<1>8. p = q \o Cut!Asked(e)
  BY <1>3, <1>5 DEF ScanEffect, q
<1>9. q = <<>> /\ \A x \in Calls : Asking(l, u, v, x) = {}
  <2>1. v # 0 /\ q \in Seq(Askings) /\ Recorded(l, u, v, q)
    BY <1>4 DEF StepMove
  <2> QED BY <2>1, <1>6, NothingQueued
<1> HIDE DEF p
<1>10. AskedIn(p, a, v)
  BY <1>3, <1>8, <1>9, AskQueued
<1>11. Queued(d.trace, d.pending, p)
  BY <1>4, <1>10 DEF AskedIn, Queued, Distinct, StepMove
<1>12. Recorded(k, u, v, p)
  <2>1. \A x : GrownRecord(l, e, u, v, x, k, n)
    BY <1>4 DEF StepMove
  <2>2. \A i, j \in Askers(k, u, v) : i = j
    BY <1>3, <1>6, <2>1 DEF GrownRecord
  <2>3. ASSUME NEW x \in Calls
        PROVE  RecordedCall(k, p, x, Asking(k, u, v, x), Starting(k, u, v, x),
                            Answering(k, u, v, x))
    <3>1. RecordedCall(l, q, x, Asking(l, u, v, x), Starting(l, u, v, x), Answering(l, u, v, x))
      BY <1>4 DEF Recorded, StepMove
    <3>2. Starting(l, u, v, x) = {} /\ Answering(l, u, v, x) = {}
      BY <1>9, <3>1 DEF RecordedCall
    <3>3. Starting(k, u, v, x) = {} /\ Answering(k, u, v, x) = {}
      BY <1>3, <2>1, <3>2 DEF GrownRecord
    <3>4. Asking(k, u, v, x) = Asking(l, u, v, x)
                \cup (IF \E j \in DOMAIN e.calls : e.calls[j] = x THEN {n} ELSE {})
      BY <1>3, <2>1 DEF GrownRecord
    <3>5. Asking(k, u, v, x) # {} <=> \E j \in DOMAIN a : a[j] = x
      BY <1>3, <1>9, <3>4
    <3> QED BY <1>10, <3>3, <3>5 DEF AskedIn, RecordedCall
  <2> QED BY <2>2, <2>3 DEF Recorded
<1>13. /\ Aligned(d.trace, r) /\ Numbered(k, d.trace)
       /\ d.trace.openTurn = u /\ d.trace.openStep = v
  BY <1>4 DEF StepMove
<1>14. Agrees(k, d, r)
  BY <1>11, <1>12, <1>13 DEF Agrees, p
<1> QED BY <1>3, <1>14 DEF k, d, r

(* What waits is typed.                                                    *)
LEMMA QueueTypes ==
  ASSUME NEW q \in Seq(Askings)
  PROVE  \A j \in DOMAIN q : q[j] \in Askings /\ q[j].call \in Calls /\ q[j].started \in BOOLEAN
<1>1. ASSUME NEW j \in DOMAIN q PROVE q[j] \in Askings
  OBVIOUS
<1> QED BY <1>1 DEF Askings

(* A sequence without its i-th element.                                    *)
Without(p, q, i) ==
  /\ DOMAIN p = 1..(Len(q) - 1)
  /\ \A j \in 1..(Len(q) - 1) : p[j] = q[IF j < i THEN j ELSE j + 1]
LEMMA WithoutIs ==
  ASSUME NEW S, NEW q \in Seq(S), NEW i \in DOMAIN q
  PROVE  Without(SubSeq(q, 1, i - 1) \o SubSeq(q, i + 1, Len(q)), q, i)
<1> DEFINE a == SubSeq(q, 1, i - 1)
           b == SubSeq(q, i + 1, Len(q))
           p == a \o b
<1>1. Len(q) \in Nat /\ i \in 1..Len(q)
  OBVIOUS
<1>2. a \in Seq(S) /\ Len(a) = i - 1 /\ \A j \in 1..(i - 1) : a[j] = q[j]
  BY <1>1
<1>3. b \in Seq(S) /\ Len(b) = Len(q) - i /\ \A j \in 1..(Len(q) - i) : b[j] = q[i + j]
  BY <1>1
<1> HIDE DEF a, b
<1>4. /\ DOMAIN p = 1..(Len(a) + Len(b))
      /\ \A j \in 1..(Len(a) + Len(b)) : p[j] = IF j <= Len(a) THEN a[j] ELSE b[j - Len(a)]
  BY <1>2, <1>3
<1> HIDE DEF p
<1>5. DOMAIN p = 1..(Len(q) - 1)
  BY <1>1, <1>2, <1>3, <1>4
<1>6. ASSUME NEW j \in 1..(Len(q) - 1) PROVE p[j] = q[IF j < i THEN j ELSE j + 1]
  <2>1. CASE j < i
    BY <2>1, <1>1, <1>2, <1>3, <1>4
  <2>2. CASE ~(j < i)
    <3>1. p[j] = b[j - (i - 1)]
      BY <2>2, <1>1, <1>2, <1>3, <1>4
    <3>2. j - (i - 1) \in 1..(Len(q) - i) /\ i + (j - (i - 1)) = j + 1
      BY <2>2, <1>1
    <3> QED BY <2>2, <3>1, <3>2, <1>3
  <2> QED BY <2>1, <2>2
<1>7. Without(p, q, i)
  BY <1>5, <1>6 DEF Without
<1> QED BY <1>7 DEF p, a, b

(* A tool call's own event is written.                                     *)
LEMMA CallMove ==
  ASSUME NEW l \in CutLogs, NEW c \in Companions, NEW s \in Scans, Agrees(l, c, s),
         c.trace.openStep # 0, NEW i \in DOMAIN s.pending, ~s.pending[i].started,
         NEW e, e = Cut!ToolCall(c.trace.openTurn, c.trace.openStep, s.pending[i].call)
  PROVE  e \in CutEvents /\ Agrees(Append(l, e), Cut!Commit(c, e), Cut!Scan(s, e))
<1> DEFINE u == c.trace.openTurn
           v == c.trace.openStep
           d == Cut!Commit(c, e)
           r == Cut!Scan(s, e)
           k == Append(l, e)
           n == Len(l) + 1
           q == s.pending
           p == r.pending
           y == q[i].call
<1>1. u \in Nat /\ v \in Nat /\ q \in Seq(Askings)
  BY DEF Companions, Cut!TraceType, Scans
<1>2. \A j \in DOMAIN q : /\ q[j].call \in Calls /\ q[j].started \in BOOLEAN
                          /\ q[j] \in Askings
  BY <1>1, QueueTypes
<1>3. y \in Calls /\ i \in DOMAIN q /\ ~q[i].started
  BY <1>2
<1>4. e = [type |-> "tool/call", turn |-> u, step |-> v, calls |-> <<y>>, code |-> "none"]
  BY DEF Cut!ToolCall, Cut!Event
<1> HIDE DEF y, q
<1>5. <<y>> \in Seq(Calls) /\ Len(<<y>>) = 1 /\ <<y>>[1] = y
  BY <1>3
<1>6. e \in CutEvents /\ e.type = "tool/call" /\ e.turn = u /\ e.step = v /\ e.calls[1] = y
  BY <1>1, <1>4, <1>5 DEF CutEvents, CutTypes
<1>7. Cut!AdmitsTool(c, e)
  BY <1>6 DEF Cut!AdmitsTool
<1>8. StepMove(l, c, s, e, d, r, k, u, v, q, p, n)
  BY <1>6, <1>7, StepMoves DEF q
<1>9. TraceEffect(c, e, d) /\ ScanEffect(s, e, r)
  BY <1>6, TraceEffects, ScanEffects
<1> HIDE DEF u, v, d, r, k, n
<1>10. d.pending = c.pending \cup {y}
  BY <1>6, <1>9 DEF TraceEffect
<1>11. p = [j \in DOMAIN q |-> IF q[j].call = y THEN [q[j] EXCEPT !.started = TRUE] ELSE q[j]]
  BY <1>6, <1>9 DEF ScanEffect, q
<1> HIDE DEF p
<1>12. /\ DOMAIN p = DOMAIN q
       /\ \A j \in DOMAIN q : /\ p[j].call = q[j].call /\ p[j].step = q[j].step
                              /\ p[j].started <=> (q[j].started \/ q[j].call = y)
  <2>1. DOMAIN p = DOMAIN q
    BY <1>11
  <2>2. ASSUME NEW j \in DOMAIN q
        PROVE  /\ p[j].call = q[j].call /\ p[j].step = q[j].step
               /\ p[j].started <=> (q[j].started \/ q[j].call = y)
    <3>1. CASE q[j].call = y
      <4>1. p[j] = [q[j] EXCEPT !.started = TRUE]
        BY <1>11, <3>1
      <4> QED BY <3>1, <4>1, <1>2 DEF Askings
    <3>2. CASE q[j].call # y
      <4>1. p[j] = q[j]
        BY <1>11, <3>2
      <4> QED BY <3>2, <4>1
    <3> QED BY <3>1, <3>2
  <2> QED BY <2>1, <2>2
<1>13. Queued(d.trace, d.pending, p)
  <2>1. Queued(c.trace, c.pending, q) /\ c.trace.openStep = v /\ d.trace.openStep = v /\ v # 0
    BY <1>8 DEF StepMove
  <2> QED BY <1>10, <1>12, <2>1 DEF Queued
<1>14. Recorded(k, u, v, p)
  <2>1. \A x : GrownRecord(l, e, u, v, x, k, n)
    BY <1>8 DEF StepMove
  <2>2. Recorded(l, u, v, q) /\ v # 0
    BY <1>8 DEF StepMove
  <2>3. \A g, h \in Askers(k, u, v) : g = h
    BY <1>6, <2>1, <2>2 DEF GrownRecord, Recorded
  <2>4. ASSUME NEW x \in Calls
        PROVE  RecordedCall(k, p, x, Asking(k, u, v, x), Starting(k, u, v, x),
                            Answering(k, u, v, x))
    <3>1. RecordedCall(l, q, x, Asking(l, u, v, x), Starting(l, u, v, x), Answering(l, u, v, x))
      BY <2>2 DEF Recorded
    <3>2. /\ Answering(k, u, v, x) = Answering(l, u, v, x)
          /\ Asking(k, u, v, x) = Asking(l, u, v, x)
          /\ Starting(k, u, v, x) = Starting(l, u, v, x) \cup (IF y = x THEN {n} ELSE {})
      BY <1>6, <2>1 DEF GrownRecord
    <3>3. \A g \in Answering(l, u, v, x) : k[g] = l[g]
      BY <2>1 DEF GrownRecord, Answering
    <3>4. y = x => Answering(l, u, v, x) = {} /\ Asking(l, u, v, x) # {}
      BY <1>3, <3>1 DEF RecordedCall, y
    <3>5. \A g \in DOMAIN q : q[g].call = x => (p[g].started <=> Starting(k, u, v, x) # {})
      BY <1>12, <3>1, <3>2 DEF RecordedCall
    <3>6. \A g \in Answering(k, u, v, x) :
            IF k[g].code = "TOOL_NOT_STARTED" THEN Starting(k, u, v, x) = {}
            ELSE \E j \in Starting(k, u, v, x) : j < g
      BY <3>1, <3>2, <3>3, <3>4 DEF RecordedCall
    <3> QED BY <1>12, <3>1, <3>2, <3>4, <3>5, <3>6 DEF RecordedCall
  <2> QED BY <2>3, <2>4 DEF Recorded
<1>15. /\ Aligned(d.trace, r) /\ Numbered(k, d.trace)
       /\ d.trace.openTurn = u /\ d.trace.openStep = v
  BY <1>8 DEF StepMove
<1>16. Agrees(k, d, r)
  BY <1>13, <1>14, <1>15 DEF Agrees, p
<1> QED BY <1>6, <1>16 DEF k, d, r

(* A result, the scheduler's own or a repair's, is written.                *)
LEMMA ResultMove ==
  ASSUME NEW l \in CutLogs, NEW c \in Companions, NEW s \in Scans, Agrees(l, c, s),
         c.trace.openStep # 0, NEW i \in DOMAIN s.pending,
         NEW code \in Codes, Fits(code, s.pending[i]),
         NEW e, e = Cut!ToolResult(c.trace.openTurn, c.trace.openStep, s.pending[i].call, code)
  PROVE  e \in CutEvents /\ Agrees(Append(l, e), Cut!Commit(c, e), Cut!Scan(s, e))
<1> DEFINE u == c.trace.openTurn
           v == c.trace.openStep
           d == Cut!Commit(c, e)
           r == Cut!Scan(s, e)
           k == Append(l, e)
           n == Len(l) + 1
           q == s.pending
           p == r.pending
           y == q[i].call
           m == Len(q)
           h(j) == IF j < i THEN j ELSE j + 1
<1>1. u \in Nat /\ v \in Nat /\ q \in Seq(Askings)
  BY DEF Companions, Cut!TraceType, Scans
<1>2. \A j \in DOMAIN q : q[j].call \in Calls /\ q[j] \in Askings
  BY <1>1, QueueTypes
<1>3. y \in Calls /\ i \in DOMAIN q /\ (q[i].started <=> code # "TOOL_NOT_STARTED")
  BY <1>2 DEF Fits
<1>4. e = [type |-> "tool/result", turn |-> u, step |-> v, calls |-> <<y>>, code |-> code]
  BY DEF Cut!ToolResult, Cut!Event
<1> HIDE DEF y, q
<1>5. <<y>> \in Seq(Calls) /\ Len(<<y>>) = 1 /\ <<y>>[1] = y
  BY <1>3
<1>6. /\ e \in CutEvents /\ e.type = "tool/result" /\ e.turn = u /\ e.step = v /\ e.calls[1] = y
      /\ e.code = code
  BY <1>1, <1>4, <1>5 DEF CutEvents, CutTypes, Codes
<1>7. Queued(c.trace, c.pending, q)
  BY DEF Agrees, q
<1>8. Cut!AdmitsTool(c, e)
  <2>1. q[i].started => y \in c.pending
    BY <1>3, <1>7 DEF Queued, y
  <2> QED BY <1>3, <1>6, <2>1 DEF Cut!AdmitsTool
<1>9. StepMove(l, c, s, e, d, r, k, u, v, q, p, n)
  BY <1>6, <1>8, StepMoves DEF q
<1>10. TraceEffect(c, e, d) /\ ScanEffect(s, e, r)
  BY <1>6, TraceEffects, ScanEffects
<1> HIDE DEF u, v, d, r, k, n
<1>11. d.pending = c.pending \ {y}
  BY <1>6, <1>10 DEF TraceEffect
<1>12. p = Cut!Unanswered(q, e)
  BY <1>6, <1>10 DEF ScanEffect, q
<1> HIDE DEF p
<1>13. \A j \in DOMAIN q : q[j].call = y => j = i
  BY <1>3, <1>7 DEF Queued, y
<1>14. DOMAIN q = 1..m /\ m \in Nat /\ i \in Nat
  BY <1>1, <1>3
<1>15. p = SubSeq(q, 1, i - 1) \o SubSeq(q, i + 1, m)
  <2>1. \A j \in DOMAIN q : q[j].call = e.calls[1] => j >= i
    BY <1>6, <1>13, <1>14
  <2>2. q[i].call = e.calls[1]
    BY <1>6 DEF y
  <2> QED BY <1>1, <1>3, <1>6, <1>12, <2>1, <2>2, UnansweredIs
<1>16. /\ DOMAIN p = 1..(m - 1)
       /\ \A j \in 1..(m - 1) : p[j] = q[h(j)]
  <2>1. Without(p, q, i)
    BY <1>1, <1>3, <1>15, WithoutIs
  <2> QED BY <2>1 DEF Without
<1>17. \A j \in 1..(m - 1) : h(j) \in DOMAIN q /\ h(j) # i /\ j \in Nat
  BY <1>3, <1>14
<1>18. \A g \in DOMAIN q : g # i => \E j \in 1..(m - 1) : h(j) = g
  <2> SUFFICES ASSUME NEW g \in DOMAIN q, g # i PROVE \E j \in 1..(m - 1) : h(j) = g
    OBVIOUS
  <2>1. CASE g < i
    BY <2>1, <1>3, <1>14
  <2>2. CASE g > i
    <3>1. g - 1 \in 1..(m - 1) /\ h(g - 1) = g
      BY <2>2, <1>3, <1>14
    <3> QED BY <3>1
  <2> QED BY <2>1, <2>2, <1>14
<1>19. \A j, g \in 1..(m - 1) : h(j) = h(g) => j = g
  BY <1>14
<1> HIDE DEF h, m
<1>20. Queued(d.trace, d.pending, p)
  <2>1. c.trace.openStep = v /\ d.trace.openStep = v /\ v # 0
    BY <1>9 DEF StepMove
  <2>2. \A j \in DOMAIN p : p[j].step = v /\ (p[j].started => p[j].call \in d.pending)
    BY <1>7, <1>11, <1>13, <1>16, <1>17, <2>1 DEF Queued
  <2>3. \A j, g \in DOMAIN p : p[j].call = p[g].call => j = g
    BY <1>7, <1>16, <1>17, <1>19 DEF Queued
  <2> QED BY <2>1, <2>2, <2>3 DEF Queued
<1>21. Recorded(k, u, v, p)
  <2>1. \A x : GrownRecord(l, e, u, v, x, k, n)
    BY <1>9 DEF StepMove
  <2>2. Recorded(l, u, v, q) /\ v # 0
    BY <1>9 DEF StepMove
  <2>3. \A g, j \in Askers(k, u, v) : g = j
    BY <1>6, <2>1, <2>2 DEF GrownRecord, Recorded
  <2>4. ASSUME NEW x \in Calls
        PROVE  RecordedCall(k, p, x, Asking(k, u, v, x), Starting(k, u, v, x),
                            Answering(k, u, v, x))
    <3>1. RecordedCall(l, q, x, Asking(l, u, v, x), Starting(l, u, v, x), Answering(l, u, v, x))
      BY <2>2 DEF Recorded
    <3>2. /\ Starting(k, u, v, x) = Starting(l, u, v, x)
          /\ Asking(k, u, v, x) = Asking(l, u, v, x)
          /\ Answering(k, u, v, x) = Answering(l, u, v, x) \cup (IF y = x THEN {n} ELSE {})
      BY <1>6, <2>1 DEF GrownRecord
    <3>3. \A g \in Answering(l, u, v, x) : k[g] = l[g]
      BY <2>1 DEF GrownRecord, Answering
    <3>4. \A g \in Starting(l, u, v, x) : g < n
      BY <2>1 DEF GrownRecord, Starting
    <3>5. k[n].code = code
      BY <1>6, <2>1 DEF GrownRecord
    <3>6. y = x => /\ Answering(l, u, v, x) = {} /\ Asking(l, u, v, x) # {}
                   /\ code # "TOOL_NOT_STARTED" <=> Starting(l, u, v, x) # {}
      BY <1>3, <3>1 DEF RecordedCall, y
    <3>7. (\E g \in DOMAIN p : p[g].call = x) <=> (y # x /\ \E g \in DOMAIN q : q[g].call = x)
      <4>1. ASSUME NEW g \in DOMAIN p, p[g].call = x
            PROVE  y # x /\ \E j \in DOMAIN q : q[j].call = x
        BY <4>1, <1>13, <1>16, <1>17
      <4>2. ASSUME y # x, NEW g \in DOMAIN q, q[g].call = x
            PROVE  \E j \in DOMAIN p : p[j].call = x
        <5>1. g # i
          BY <4>2 DEF y
        <5> QED BY <4>2, <5>1, <1>16, <1>18
      <4> QED BY <4>1, <4>2
    <3>8. \A g \in DOMAIN p : p[g].call = x => (p[g].started <=> Starting(k, u, v, x) # {})
      BY <1>16, <1>17, <3>1, <3>2 DEF RecordedCall
    <3>9. \A g \in Answering(k, u, v, x) :
            IF k[g].code = "TOOL_NOT_STARTED" THEN Starting(k, u, v, x) = {}
            ELSE \E j \in Starting(k, u, v, x) : j < g
      <4>1. CASE y = x
        BY <4>1, <3>2, <3>4, <3>5, <3>6
      <4>2. CASE y # x
        BY <4>2, <3>1, <3>2, <3>3 DEF RecordedCall
      <4> QED BY <4>1, <4>2
    <3>10. \A g, j \in Answering(k, u, v, x) : g = j
      BY <3>1, <3>2, <3>6 DEF RecordedCall
    <3>11. (\E g \in DOMAIN p : p[g].call = x)
             <=> (Asking(k, u, v, x) # {} /\ Answering(k, u, v, x) = {})
      BY <3>1, <3>2, <3>6, <3>7 DEF RecordedCall
    <3>12. Answering(k, u, v, x) # {} \/ Starting(k, u, v, x) # {} => Asking(k, u, v, x) # {}
      BY <3>1, <3>2, <3>6 DEF RecordedCall
    <3> QED BY <3>8, <3>9, <3>10, <3>11, <3>12 DEF RecordedCall
  <2> QED BY <2>3, <2>4 DEF Recorded
<1>22. /\ Aligned(d.trace, r) /\ Numbered(k, d.trace)
       /\ d.trace.openTurn = u /\ d.trace.openStep = v
  BY <1>9 DEF StepMove
<1>23. Agrees(k, d, r)
  BY <1>20, <1>21, <1>22 DEF Agrees, p
<1> QED BY <1>6, <1>23 DEF k, d, r

(* Whatever the driver or a repair appends, the scan and the companion     *)
(* still agree.                                                            *)
LEMMA SyncMoves ==
  ASSUME NEW l \in CutLogs, Sync(l), NEW e,
         Moves(l, Cut!Companion(l).trace, Cut!Scanned(l).pending, e)
  PROVE  e \in CutEvents /\ Append(l, e) \in CutLogs /\ Sync(Append(l, e))
<1> DEFINE c == Cut!Companion(l)
           s == Cut!Scanned(l)
           t == c.trace
<1>1. ASSUME NEW x \in CutEvents
      PROVE  c \in Companions /\ Cut!Companion(Append(l, x)) = Cut!Commit(c, x)
  BY CompanionIs
<1>2. ASSUME NEW x \in CutEvents
      PROVE  s \in Scans /\ Cut!Scanned(Append(l, x)) = Cut!Scan(s, x)
  BY ScanIs
<1>3. \E x : x \in CutEvents
  <2>1. [type |-> "turn/start", turn |-> 0, step |-> 0, calls |-> <<>>, code |-> "none"]
        \in CutEvents
    BY DEF CutEvents, CutTypes
  <2> QED BY <2>1
<1>4. c \in Companions /\ s \in Scans
  BY <1>1, <1>2, <1>3
<1>5. Agrees(l, c, s) /\ Moves(l, t, s.pending, e)
  BY DEF Sync
<1> HIDE DEF c, s
<1>6. e \in CutEvents /\ Agrees(Append(l, e), Cut!Commit(c, e), Cut!Scan(s, e))
  <2>1. CASE \/ t.openTurn = 0 /\ e = Cut!Plain(Cut!TurnStart(t.nextTurn))
             \/ t.openTurn # 0 /\ t.openStep = 0 /\ e = Cut!Plain(Cut!TurnEnd(t.openTurn))
             \/ t.openTurn # 0 /\ t.openStep = 0
                /\ e = Cut!Plain(Cut!StepStart(t.openTurn, t.nextStep))
             \/ t.openStep # 0 /\ e = Cut!Plain(Cut!StepEnd(t.openTurn, t.openStep))
    <3> DEFINE d == Cut!Commit(c, e)
               r == Cut!Scan(s, e)
               k == Append(l, e)
    <3>1. Aligned(t, s) /\ Numbered(l, t) /\ Queued(t, c.pending, s.pending)
          /\ Recorded(l, t.openTurn, t.openStep, s.pending)
      BY <1>5 DEF Agrees
    <3>2. d = Cut!Commit(c, e) /\ r = Cut!Scan(s, e) /\ k = Append(l, e)
      OBVIOUS
    <3> HIDE DEF d, r, k
    <3>3. /\ e \in CutEvents
          /\ Aligned(d.trace, r) /\ Numbered(k, d.trace) /\ Queued(d.trace, d.pending, r.pending)
          /\ Recorded(k, d.trace.openTurn, d.trace.openStep, r.pending)
      BY <2>1, <3>1, <3>2, <1>4, BoundaryMove
    <3> QED BY <3>3 DEF Agrees, d, r, k
  <2>2. CASE /\ t.openStep # 0 /\ Askers(l, t.openTurn, t.openStep) = {}
             /\ \E a \in Seq(Calls) : Distinct(a) /\ e = Cut!Asks(t.openTurn, t.openStep, a)
    BY <2>2, <1>4, <1>5, AskMove
  <2>3. CASE /\ t.openStep # 0
             /\ \E i \in DOMAIN s.pending :
                  /\ ~s.pending[i].started
                   /\ e = Cut!ToolCall(t.openTurn, t.openStep, s.pending[i].call)
    BY <2>3, <1>4, <1>5, CallMove
  <2>4. CASE /\ t.openStep # 0
             /\ \E i \in DOMAIN s.pending, code \in Codes :
                  /\ Fits(code, s.pending[i])
                  /\ e = Cut!ToolResult(t.openTurn, t.openStep, s.pending[i].call, code)
    BY <2>4, <1>4, <1>5, ResultMove
  <2> QED BY <1>5, <2>1, <2>2, <2>3, <2>4 DEF Moves
<1>7. Append(l, e) \in CutLogs
  BY <1>6, GrownIs
<1>8. Cut!Companion(Append(l, e)) = Cut!Commit(c, e) /\ Cut!Scanned(Append(l, e)) = Cut!Scan(s, e)
  BY <1>1, <1>2, <1>6
<1> QED BY <1>6, <1>7, <1>8 DEF Sync

-----------------------------------------------------------------------------
(* The closers of a log.                                                   *)
LEMMA ScannedTypes ==
  ASSUME NEW l \in CutLogs
  PROVE  Cut!Scanned(l) \in Scans /\ Cut!Companion(l) \in Companions
<1>1. [type |-> "turn/start", turn |-> 0, step |-> 0, calls |-> <<>>, code |-> "none"]
        \in CutEvents
  BY DEF CutEvents, CutTypes
<1> QED BY <1>1, ScanIs, CompanionIs

(* The closers a scan calls for: a result for each call that waits, the    *)
(* end of the step if one is open, and the end of the turn.                *)
ResultOf(s, i) ==
  Cut!ToolResult(s.turn, s.pending[i].step, s.pending[i].call, Cut!Code(s.pending[i]))
ClosersOf(s, z) ==
  LET m == Len(s.pending) IN
  /\ z \in Seq(CutEvents)
  /\ s.turn = 0 => z = <<>>
  /\ s.turn # 0 /\ s.step = 0 =>
       /\ Len(z) = m + 1 /\ \A i \in 1..m : z[i] = ResultOf(s, i)
       /\ z[m + 1] = Cut!Plain(Cut!TurnEnd(s.turn))
  /\ s.turn # 0 /\ s.step # 0 =>
       /\ Len(z) = m + 2 /\ \A i \in 1..m : z[i] = ResultOf(s, i)
       /\ z[m + 1] = Cut!Plain(Cut!StepEnd(s.turn, s.step))
       /\ z[m + 2] = Cut!Plain(Cut!TurnEnd(s.turn))

(* A synthetic result answers the call it is written for.                  *)
LEMMA ResultTypes ==
  ASSUME NEW s \in Scans, NEW i \in 1..Len(s.pending)
  PROVE  /\ ResultOf(s, i) \in CutEvents /\ ResultOf(s, i).type = "tool/result"
         /\ ResultOf(s, i).calls[1] = s.pending[i].call
<1> DEFINE p == s.pending[i]
<1>1. s.turn \in Nat /\ s.pending \in Seq(Askings)
  BY DEF Scans
<1>2. p \in Askings
  BY <1>1
<1>3. p.step \in Nat /\ p.call \in Calls
  BY <1>2 DEF Askings
<1> HIDE DEF p
<1>4. ResultOf(s, i) = [type |-> "tool/result", turn |-> s.turn, step |-> p.step,
                        calls |-> <<p.call>>, code |-> Cut!Code(p)]
  BY DEF ResultOf, Cut!ToolResult, Cut!Event, p
<1>5. Cut!Code(p) \in {"TOOL_OUTCOME_UNKNOWN", "TOOL_NOT_STARTED"}
  BY DEF Cut!Code
<1>6. <<p.call>> \in Seq(Calls) /\ Len(<<p.call>>) = 1 /\ <<p.call>>[1] = p.call
  BY <1>3
<1> QED BY <1>1, <1>3, <1>4, <1>5, <1>6 DEF CutEvents, CutTypes, p

(* A sequence with one element more.                                       *)
OneMore(S, a, x, z) ==
  /\ z \in Seq(S) /\ Len(z) = Len(a) + 1 /\ z[Len(a) + 1] = x
  /\ \A i \in 1..Len(a) : z[i] = a[i]
LEMMA CatOne ==
  ASSUME NEW S, NEW a \in Seq(S), NEW x \in S
  PROVE  OneMore(S, a, x, a \o <<x>>)
<1> DEFINE z == a \o <<x>>
<1>1. z \in Seq(S) /\ Len(z) = Len(a) + 1
  OBVIOUS
<1>2. z[Len(a) + 1] = x
  OBVIOUS
<1>3. \A i \in 1..Len(a) : z[i] = a[i]
  OBVIOUS
<1> HIDE DEF z
<1>4. OneMore(S, a, x, z)
  BY <1>1, <1>2, <1>3 DEF OneMore
<1> QED BY <1>4 DEF z

(* The closers of a log are those its scan calls for.                      *)
LEMMA ClosersAre ==
  ASSUME NEW l \in CutLogs
  PROVE  ClosersOf(Cut!Scanned(l), Cut!Closers(l))
<1> DEFINE s == Cut!Scanned(l)
           q == s.pending
           m == Len(q)
           a == Cut!ResultsFor(s)
           b == IF s.step # 0 THEN <<Cut!Plain(Cut!StepEnd(s.turn, s.step))>> ELSE <<>>
           f == <<Cut!Plain(Cut!TurnEnd(s.turn))>>
           z == Cut!Closers(l)
<1>1. s \in Scans
  BY ScannedTypes
<1>2. z = IF s.turn = 0 THEN <<>> ELSE a \o b \o f
  BY DEF Cut!Closers, Cut!None
<1> HIDE DEF s, z
<1>3. s.turn \in Nat /\ s.step \in Nat /\ q \in Seq(Askings) /\ m \in Nat /\ DOMAIN q = 1..m
  BY <1>1 DEF Scans
<1>4. a = [i \in 1..m |-> ResultOf(s, i)]
  BY <1>3 DEF Cut!ResultsFor, ResultOf
<1>5. \A i \in 1..m : ResultOf(s, i) \in CutEvents
  BY <1>1, ResultTypes
<1>6. /\ Cut!Plain(Cut!StepEnd(s.turn, s.step)) \in CutEvents
      /\ Cut!Plain(Cut!TurnEnd(s.turn)) \in CutEvents
  <2>1. <<>> \in Seq(Calls)
    OBVIOUS
  <2> QED BY <1>3, <2>1 DEF Cut!Plain, Cut!StepEnd, Cut!TurnEnd, Cut!Event, CutEvents,
         CutTypes, Cut!None
<1> HIDE DEF m, q, a
<1>7. a \in Seq(CutEvents) /\ Len(a) = m /\ \A i \in 1..m : a[i] = ResultOf(s, i)
  BY <1>3, <1>4, <1>5
<1>8. m = Len(s.pending)
  BY DEF m, q
<1>9. CASE s.turn = 0
  BY <1>2, <1>9 DEF ClosersOf, z, s
<1>10. CASE s.turn # 0 /\ s.step = 0
  <2>1. z = a \o f
    <3>1. z = (a \o <<>>) \o f
      BY <1>2, <1>10
    <3>2. a \o <<>> = a
      BY <1>7
    <3> QED BY <3>1, <3>2
  <2>2. OneMore(CutEvents, a, Cut!Plain(Cut!TurnEnd(s.turn)), z)
    BY <2>1, <1>6, <1>7, CatOne
  <2>3. z \in Seq(CutEvents) /\ Len(z) = m + 1 /\ z[m + 1] = Cut!Plain(Cut!TurnEnd(s.turn))
        /\ \A i \in 1..m : z[i] = a[i]
    BY <2>2, <1>7 DEF OneMore
  <2> QED BY <1>7, <1>8, <1>10, <2>3 DEF ClosersOf, z, s
<1>11. CASE s.turn # 0 /\ s.step # 0
  <2> DEFINE y == a \o <<Cut!Plain(Cut!StepEnd(s.turn, s.step))>>
  <2>1. z = y \o f
    BY <1>2, <1>11
  <2>2. OneMore(CutEvents, a, Cut!Plain(Cut!StepEnd(s.turn, s.step)), y)
    BY <1>6, <1>7, CatOne
  <2> HIDE DEF y
  <2>3. /\ y \in Seq(CutEvents) /\ Len(y) = m + 1
        /\ y[m + 1] = Cut!Plain(Cut!StepEnd(s.turn, s.step)) /\ \A i \in 1..m : y[i] = a[i]
    BY <2>2, <1>7 DEF OneMore
  <2>4. OneMore(CutEvents, y, Cut!Plain(Cut!TurnEnd(s.turn)), z)
    BY <2>1, <2>3, <1>6, CatOne
  <2>5. /\ z \in Seq(CutEvents) /\ Len(z) = (m + 1) + 1
        /\ z[(m + 1) + 1] = Cut!Plain(Cut!TurnEnd(s.turn)) /\ \A i \in 1..(m + 1) : z[i] = y[i]
    BY <2>3, <2>4 DEF OneMore
  <2>6. /\ (m + 1) + 1 = m + 2 /\ m + 1 \in 1..(m + 1) /\ \A i \in 1..m : i \in 1..(m + 1)
    BY <1>3
  <2>7. /\ z \in Seq(CutEvents) /\ Len(z) = m + 2
        /\ z[m + 1] = Cut!Plain(Cut!StepEnd(s.turn, s.step))
        /\ z[m + 2] = Cut!Plain(Cut!TurnEnd(s.turn)) /\ \A i \in 1..m : z[i] = a[i]
    BY <2>3, <2>5, <2>6
  <2> QED BY <1>7, <1>8, <1>11, <2>7 DEF ClosersOf, z, s
<1> QED BY <1>9, <1>10, <1>11

(* A sequence that starts at the second element is the tail.               *)
LEMMA TailIs ==
  ASSUME NEW S, NEW z \in Seq(S), NEW y \in Seq(S), Len(z) >= 1, Len(y) = Len(z) - 1,
         \A j \in 1..(Len(z) - 1) : y[j] = z[j + 1]
  PROVE  y = Tail(z)
<1>1. Tail(z) \in Seq(S) /\ Len(Tail(z)) = Len(y) /\ \A j \in 1..Len(y) : Tail(z)[j] = y[j]
  OBVIOUS
<1> DEFINE x == Tail(z)
<1> HIDE DEF x
<1>2. x \in Seq(S) /\ Len(x) = Len(y) /\ \A j \in 1..Len(y) : x[j] = y[j]
  BY <1>1 DEF x
<1>3. x = y
  BY <1>2
<1> QED BY <1>3 DEF x

(* What is left to close after the first closer is the rest of the         *)
(* closers.                                                                *)
LEMMA CloserTail ==
  ASSUME NEW l \in CutLogs, NEW z, z = Cut!Closers(l), z # <<>>
  PROVE  /\ z \in Seq(CutEvents) /\ z[1] \in CutEvents
         /\ Cut!Closers(Append(l, z[1])) = Tail(z)
<1> DEFINE s == Cut!Scanned(l)
           q == s.pending
           m == Len(q)
           e == z[1]
           r == Cut!Scan(s, e)
           y == Cut!Closers(Append(l, e))
<1>1. s \in Scans /\ ClosersOf(s, z)
  BY ScannedTypes, ClosersAre
<1> HIDE DEF s
<1>2. /\ s.turn \in Nat /\ s.step \in Nat /\ q \in Seq(Askings) /\ m \in Nat /\ DOMAIN q = 1..m
      /\ m = Len(s.pending)
  BY <1>1 DEF Scans
<1> HIDE DEF q, m
<1>3. s.turn # 0 /\ z \in Seq(CutEvents)
  BY <1>1 DEF ClosersOf
<1>4. Len(z) \in Nat /\ Len(z) >= 1 /\ e \in CutEvents
  BY <1>1, <1>2, <1>3 DEF ClosersOf
<1>5. r \in Scans /\ ScanEffect(s, e, r)
  BY <1>1, <1>4, ScanTypes, ScanEffects
<1>6. ClosersOf(r, y)
  <2>1. Append(l, e) \in CutLogs /\ Cut!Scanned(Append(l, e)) = r
    <3> HIDE DEF e
    <3> QED BY <1>4, GrownIs, ScanIs DEF s
  <2> HIDE DEF e, r
  <2> QED BY <2>1, ClosersAre
<1> HIDE DEF r, y, e
<1>7. y = Tail(z)
  <2>1. CASE m >= 1
    <3>1. e = ResultOf(s, 1) /\ 1 \in 1..m
      BY <1>1, <1>2, <1>3, <2>1 DEF ClosersOf, e
    <3>2. e.type = "tool/result" /\ e.calls[1] = q[1].call
      BY <1>1, <1>2, <3>1, ResultTypes DEF q
    <3>3. r.turn = s.turn /\ r.step = s.step /\ r.pending = Cut!Unanswered(q, e)
      BY <1>5, <3>2 DEF ScanEffect, q
    <3>4. Without(r.pending, q, 1)
      <4>1. 1 \in DOMAIN q /\ \A j \in DOMAIN q : q[j].call = e.calls[1] => j >= 1
        BY <1>2, <3>1
      <4>2. r.pending = SubSeq(q, 1, 1 - 1) \o SubSeq(q, 1 + 1, Len(q))
        BY <1>2, <1>4, <3>2, <3>3, <4>1, UnansweredIs
      <4> QED BY <1>2, <4>1, <4>2, WithoutIs
    <3>5. r.pending \in Seq(Askings)
      BY <1>5 DEF Scans
    <3>6. Len(r.pending) = m - 1 /\ \A j \in 1..(m - 1) : r.pending[j] = q[j + 1]
      BY <1>2, <2>1, <3>4, <3>5 DEF Without, m
    <3>7. \A j \in 1..(m - 1) : ResultOf(r, j) = ResultOf(s, j + 1)
      BY <3>3, <3>6 DEF ResultOf, q
    <3>8. Len(y) = Len(z) - 1 /\ y \in Seq(CutEvents)
      BY <1>1, <1>2, <1>3, <1>6, <3>3, <3>6, <2>1 DEF ClosersOf
    <3>9. \A j \in 1..(Len(z) - 1) : y[j] = z[j + 1]
      <4>1. \A j \in 1..(m - 1) : y[j] = z[j + 1]
        <5>1. \A j \in 1..(m - 1) : y[j] = ResultOf(r, j)
          BY <1>3, <1>6, <3>3, <3>6 DEF ClosersOf
        <5>2. \A j \in 1..m : z[j] = ResultOf(s, j)
          BY <1>1, <1>2, <1>3 DEF ClosersOf
        <5>3. \A j \in 1..(m - 1) : j + 1 \in 1..m
          BY <1>2
        <5> QED BY <5>1, <5>2, <5>3, <3>7
      <4>2. CASE s.step = 0
        <5>1. y[(m - 1) + 1] = z[m + 1] /\ Len(z) = m + 1
          BY <1>1, <1>2, <1>3, <1>6, <3>3, <3>6, <4>2 DEF ClosersOf
        <5> QED BY <1>2, <2>1, <4>1, <5>1
      <4>3. CASE s.step # 0
        <5>1. y[(m - 1) + 1] = z[m + 1] /\ y[(m - 1) + 2] = z[m + 2] /\ Len(z) = m + 2
          BY <1>1, <1>2, <1>3, <1>6, <3>3, <3>6, <4>3 DEF ClosersOf
        <5> QED BY <1>2, <2>1, <4>1, <5>1
      <4> QED BY <4>2, <4>3
    <3> QED BY <1>3, <1>4, <3>8, <3>9, TailIs
  <2>2. CASE m = 0 /\ s.step # 0
    <3>1. e = Cut!Plain(Cut!StepEnd(s.turn, s.step)) /\ Len(z) = 2
          /\ z[2] = Cut!Plain(Cut!TurnEnd(s.turn))
      BY <1>1, <1>2, <1>3, <2>2 DEF ClosersOf, e
    <3>2. e.type = "step/end"
      BY <3>1 DEF Cut!Plain, Cut!Event, Cut!StepEnd
    <3>3. r.turn = s.turn /\ r.step = 0 /\ r.pending = <<>>
      BY <1>5, <3>2 DEF ScanEffect
    <3>4. y \in Seq(CutEvents) /\ Len(y) = 1 /\ y[1] = Cut!Plain(Cut!TurnEnd(s.turn))
      BY <1>3, <1>6, <3>3 DEF ClosersOf
    <3>5. Len(y) = Len(z) - 1 /\ \A j \in 1..(Len(z) - 1) : y[j] = z[j + 1]
      BY <3>1, <3>4
    <3> QED BY <1>3, <1>4, <3>4, <3>5, TailIs
  <2>3. CASE m = 0 /\ s.step = 0
    <3>1. e = Cut!Plain(Cut!TurnEnd(s.turn)) /\ Len(z) = 1
      BY <1>1, <1>2, <1>3, <2>3 DEF ClosersOf, e
    <3>2. e.type = "turn/end"
      BY <3>1 DEF Cut!Plain, Cut!Event, Cut!TurnEnd
    <3>3. r.turn = 0
      BY <1>5, <3>2 DEF ScanEffect
    <3>4. y \in Seq(CutEvents) /\ Len(y) = 0
      BY <1>6, <3>3 DEF ClosersOf
    <3>5. Len(y) = Len(z) - 1 /\ \A j \in 1..(Len(z) - 1) : y[j] = z[j + 1]
      BY <3>1, <3>4
    <3> QED BY <1>3, <1>4, <3>4, <3>5, TailIs
  <2> QED BY <1>2, <2>1, <2>2, <2>3
<1> QED BY <1>3, <1>4, <1>7 DEF e, y

(* Each closer is an event that may come next.                             *)
LEMMA CloserMoves ==
  ASSUME NEW l \in CutLogs, Sync(l), NEW z, z = Cut!Closers(l), z # <<>>
  PROVE  Moves(l, Cut!Companion(l).trace, Cut!Scanned(l).pending, z[1])
<1> DEFINE s == Cut!Scanned(l)
           c == Cut!Companion(l)
           t == c.trace
           q == s.pending
           m == Len(q)
<1>1. s \in Scans /\ ClosersOf(s, z) /\ Agrees(l, c, s)
  BY ScannedTypes, ClosersAre DEF Sync
<1> HIDE DEF s, c
<1>2. /\ s.turn \in Nat /\ s.step \in Nat /\ q \in Seq(Askings) /\ m \in Nat /\ DOMAIN q = 1..m
      /\ m = Len(s.pending)
  BY <1>1 DEF Scans
<1>3. s.turn # 0 /\ s.turn = t.openTurn /\ s.step = t.openStep
  BY <1>1 DEF ClosersOf, Agrees, Aligned
<1>4. Queued(t, c.pending, q)
  BY <1>1 DEF Agrees
<1> HIDE DEF q, m, t
<1>5. CASE m >= 1
  <2>1. z[1] = ResultOf(s, 1) /\ 1 \in DOMAIN q
    BY <1>1, <1>2, <1>3, <1>5 DEF ClosersOf
  <2>2. t.openStep # 0 /\ q[1].step = t.openStep
    BY <1>2, <1>4, <2>1 DEF Queued
  <2>3. Cut!Code(q[1]) \in Codes /\ Fits(Cut!Code(q[1]), q[1])
    BY DEF Cut!Code, Codes, Fits
  <2>4. z[1] = Cut!ToolResult(t.openTurn, t.openStep, q[1].call, Cut!Code(q[1]))
    BY <1>3, <2>1, <2>2 DEF ResultOf, q
  <2>5. Moves(l, t, q, z[1])
    BY <2>1, <2>2, <2>3, <2>4 DEF Moves
  <2> QED BY <2>5 DEF t, q, c, s
<1>6. CASE m = 0 /\ s.step # 0
  <2>1. z[1] = Cut!Plain(Cut!StepEnd(t.openTurn, t.openStep)) /\ t.openStep # 0
    BY <1>1, <1>2, <1>3, <1>6 DEF ClosersOf
  <2>2. Moves(l, t, q, z[1])
    BY <2>1 DEF Moves
  <2> QED BY <2>2 DEF t, q, c, s
<1>7. CASE m = 0 /\ s.step = 0
  <2>1. z[1] = Cut!Plain(Cut!TurnEnd(t.openTurn)) /\ t.openTurn # 0 /\ t.openStep = 0
    BY <1>1, <1>2, <1>3, <1>7 DEF ClosersOf
  <2>2. Moves(l, t, q, z[1])
    BY <2>1 DEF Moves
  <2> QED BY <2>2 DEF t, q, c, s
<1> QED BY <1>2, <1>5, <1>6, <1>7

-----------------------------------------------------------------------------
(* A repair, closer by closer.                                             *)
Part(l, z, j) == l \o SubSeq(z, 1, j)

PartAt(S, l, z, j) ==
  /\ Part(l, z, j) \in Seq(S) /\ Len(Part(l, z, j)) = Len(l) + j
  /\ SubSeq(l \o z, 1, Len(l) + j) = Part(l, z, j)
(* A part of a repair is a prefix of the repaired log, and grows by a      *)
(* closer.                                                                 *)
LEMMA PartIs ==
  ASSUME NEW S, NEW l \in Seq(S), NEW z \in Seq(S)
  PROVE  /\ Part(l, z, 0) = l /\ Part(l, z, Len(z)) = l \o z
         /\ \A j \in 0..Len(z) : PartAt(S, l, z, j)
         /\ \A j \in Nat : j + 1 <= Len(z) => Append(Part(l, z, j), z[j + 1]) = Part(l, z, j + 1)
<1>1. Part(l, z, 0) = l
  <2>1. SubSeq(z, 1, 0) = <<>>
    OBVIOUS
  <2>2. l \o <<>> = l
    OBVIOUS
  <2> QED BY <2>1, <2>2 DEF Part
<1>2. Part(l, z, Len(z)) = l \o z
  <2>1. SubSeq(z, 1, Len(z)) = z
    OBVIOUS
  <2> QED BY <2>1 DEF Part
<1>3. ASSUME NEW j \in 0..Len(z)
      PROVE  PartAt(S, l, z, j)
  <2>1. SubSeq(z, 1, j) \in Seq(S) /\ Len(SubSeq(z, 1, j)) = j
    OBVIOUS
  <2>2. Part(l, z, j) \in Seq(S) /\ Len(Part(l, z, j)) = Len(l) + j
    BY <2>1 DEF Part
  <2>3. SubSeq(l \o z, 1, Len(l) + j) = Part(l, z, j)
    BY DEF Part
  <2> QED BY <2>2, <2>3 DEF PartAt
<1>4. ASSUME NEW j \in Nat, j + 1 <= Len(z)
      PROVE  Append(Part(l, z, j), z[j + 1]) = Part(l, z, j + 1)
  BY <1>4 DEF Part
<1> QED BY <1>1, <1>2, <1>3, <1>4

(* Every part of a repair leaves the rest to be appended, and the scan     *)
(* and the companion agree on it.                                          *)
LEMMA RepairParts ==
  ASSUME NEW l \in CutLogs, NEW z, z = Cut!Closers(l)
  PROVE  /\ z \in Seq(CutEvents)
         /\ \A j \in 0..Len(z) : /\ Part(l, z, j) \in CutLogs
                                 /\ Cut!Closers(Part(l, z, j)) = SubSeq(z, j + 1, Len(z))
                                 /\ Sync(l) => Sync(Part(l, z, j))
<1> DEFINE Q(j) == /\ Part(l, z, j) \in CutLogs
                   /\ Cut!Closers(Part(l, z, j)) = SubSeq(z, j + 1, Len(z))
                   /\ Sync(l) => Sync(Part(l, z, j))
           T == {j \in Nat : j <= Len(z) => Q(j)}
<1>1. z \in Seq(CutEvents) /\ l \in Seq(CutEvents)
  <2>1. ClosersOf(Cut!Scanned(l), z)
    BY ClosersAre
  <2> QED BY <2>1 DEF ClosersOf, CutLogs
<1>2. Q(0)
  <2>1. SubSeq(z, 0 + 1, Len(z)) = z
    BY <1>1
  <2>2. Part(l, z, 0) = l
    BY <1>1, PartIs
  <2> QED BY <2>1, <2>2
<1>3. ASSUME NEW j \in Nat, j + 1 <= Len(z), Q(j)
      PROVE  Q(j + 1)
  <2> DEFINE x == Part(l, z, j)
             w == Cut!Closers(x)
  <2>1. x \in CutLogs /\ w = SubSeq(z, j + 1, Len(z)) /\ (Sync(l) => Sync(x))
    BY <1>3
  <2>2. /\ w \in Seq(CutEvents) /\ w # <<>> /\ w[1] = z[j + 1]
        /\ Tail(w) = SubSeq(z, (j + 1) + 1, Len(z))
    <3> HIDE DEF w
    <3>1. Len(z) \in Nat /\ Len(w) = Len(z) - j /\ w \in Seq(CutEvents) /\ w[1] = z[j + 1]
      BY <1>1, <1>3, <2>1
    <3>2. Tail(w) = SubSeq(z, (j + 1) + 1, Len(z))
      BY <1>1, <1>3, <2>1
    <3> QED BY <1>3, <3>1, <3>2
  <2>3. Append(x, w[1]) = Part(l, z, j + 1)
    <3>1. Append(Part(l, z, j), z[j + 1]) = Part(l, z, j + 1)
      BY <1>1, <1>3, PartIs
    <3> HIDE DEF w
    <3> QED BY <2>2, <3>1
  <2> HIDE DEF x
  <2>4. /\ w[1] \in CutEvents /\ Cut!Closers(Append(x, w[1])) = Tail(w)
    BY <2>1, <2>2, CloserTail
  <2>5. ASSUME Sync(l) PROVE Sync(Append(x, w[1]))
    <3>1. Sync(x)
      BY <2>1, <2>5
    <3>2. Moves(x, Cut!Companion(x).trace, Cut!Scanned(x).pending, w[1])
      BY <2>1, <2>2, <3>1, CloserMoves
    <3> QED BY <2>1, <3>1, <3>2, SyncMoves
  <2>6. Append(x, w[1]) \in CutLogs
    BY <2>1, <2>4, GrownIs
  <2> HIDE DEF w
  <2> QED BY <2>2, <2>3, <2>4, <2>5, <2>6
<1> HIDE DEF Q
<1>4. 0 \in T /\ \A j \in Nat : j \in T => j + 1 \in T
  <2>1. Len(z) \in Nat
    BY <1>1
  <2> QED BY <1>2, <1>3, <2>1
<1>5. Nat \subseteq T
  <2> HIDE DEF T
  <2> QED BY <1>4, SetInduction
<1>6. \A j \in 0..Len(z) : Q(j)
  BY <1>1, <1>5
<1> QED BY <1>1, <1>6 DEF Q

-----------------------------------------------------------------------------
(* Every prefix of the log is one whose repair the companion accepts.      *)
Good(l) == l \in CutLogs /\ \A j \in 0..Len(l) : Sync(SubSeq(l, 1, j))

(* A good log itself is one whose scan and companion agree.                *)
LEMMA GoodIsSync ==
  ASSUME NEW l, Good(l)
  PROVE  l \in CutLogs /\ Sync(l)
<1>1. l \in CutLogs /\ SubSeq(l, 1, Len(l)) = l /\ Len(l) \in 0..Len(l)
  BY DEF Good, CutLogs
<1> QED BY <1>1 DEF Good

(* A crash leaves a good log.                                              *)
LEMMA GoodPrefix ==
  ASSUME NEW l, Good(l), NEW n \in 0..Len(l)
  PROVE  Good(SubSeq(l, 1, n))
<1> DEFINE x == SubSeq(l, 1, n)
<1>1. l \in CutLogs /\ Len(l) \in Nat
  BY DEF Good, CutLogs
<1>2. x \in CutLogs /\ Len(x) = n
  BY <1>1 DEF CutLogs
<1>3. ASSUME NEW j \in 0..n PROVE SubSeq(x, 1, j) = SubSeq(l, 1, j) /\ j \in 0..Len(l)
  BY <1>1 DEF CutLogs
<1> HIDE DEF x
<1>4. \A j \in 0..Len(x) : Sync(SubSeq(x, 1, j))
  BY <1>2, <1>3 DEF Good
<1> QED BY <1>2, <1>4 DEF Good, x

(* An event that keeps the agreement leaves a good log.                    *)
LEMMA GoodGrown ==
  ASSUME NEW l, Good(l), NEW e \in CutEvents, Sync(Append(l, e))
  PROVE  Good(Append(l, e))
<1> DEFINE x == Append(l, e)
<1>1. l \in CutLogs /\ Len(l) \in Nat
  BY DEF Good, CutLogs
<1>2. x \in CutLogs /\ Len(x) = Len(l) + 1
  BY <1>1 DEF CutLogs
<1>3. ASSUME NEW j \in 0..(Len(l) + 1) PROVE Sync(SubSeq(x, 1, j))
  <2>1. CASE j = Len(l) + 1
    <3>1. SubSeq(x, 1, j) = x
      BY <1>1, <2>1 DEF CutLogs
    <3> QED BY <3>1
  <2>2. CASE j \in 0..Len(l)
    <3>1. SubSeq(x, 1, j) = SubSeq(l, 1, j)
      BY <1>1, <2>2 DEF CutLogs
    <3> QED BY <2>2, <3>1 DEF Good
  <2> QED BY <1>1, <2>1, <2>2
<1> HIDE DEF x
<1> QED BY <1>2, <1>3 DEF Good, x

(* The repair of a good log, and what a cut leaves of it, is good.         *)
LEMMA GoodRepair ==
  ASSUME NEW l, Good(l)
  PROVE  Good(Cut!Repaired(l))
<1> DEFINE z == Cut!Closers(l)
           y == Cut!Repaired(l)
<1>1. l \in CutLogs /\ Sync(l) /\ l \in Seq(CutEvents) /\ Len(l) \in Nat
  BY GoodIsSync DEF CutLogs
<1>2. z \in Seq(CutEvents)
  BY <1>1, RepairParts
<1>3. \A j \in 0..Len(z) : Sync(Part(l, z, j))
  BY <1>1, RepairParts
<1>4. y = l \o z
  BY DEF Cut!Repaired
<1> HIDE DEF y, z
<1>5. y \in CutLogs /\ Len(y) = Len(l) + Len(z) /\ Len(z) \in Nat
  BY <1>1, <1>2, <1>4 DEF CutLogs
<1>6. ASSUME NEW j \in 0..Len(y) PROVE Sync(SubSeq(y, 1, j))
  <2>1. CASE j \in 0..Len(l)
    <3>1. SubSeq(y, 1, j) = SubSeq(l, 1, j)
      BY <1>1, <1>2, <1>4, <2>1
    <3> QED BY <2>1, <3>1 DEF Good
  <2>2. CASE j > Len(l)
    <3> DEFINE i == j - Len(l)
    <3>1. i \in 0..Len(z) /\ j = Len(l) + i
      BY <1>1, <1>5, <2>2
    <3> HIDE DEF i
    <3>2. PartAt(CutEvents, l, z, i)
      BY <1>1, <1>2, <3>1, PartIs
    <3>3. SubSeq(y, 1, j) = Part(l, z, i)
      BY <1>4, <3>1, <3>2 DEF PartAt
    <3> QED BY <1>3, <3>1, <3>3
  <2> QED BY <1>1, <1>5, <2>1, <2>2
<1> QED BY <1>5, <1>6 DEF Good, y

(* A sequence is its first elements and the others.                        *)
LEMMA SplitIs ==
  ASSUME NEW S, NEW z \in Seq(S), NEW j \in 0..Len(z)
  PROVE  /\ SubSeq(z, 1, j) \in Seq(S) /\ SubSeq(z, j + 1, Len(z)) \in Seq(S)
         /\ SubSeq(z, 1, j) \o SubSeq(z, j + 1, Len(z)) = z
<1> DEFINE a == SubSeq(z, 1, j)
           b == SubSeq(z, j + 1, Len(z))
<1>1. a \in Seq(S) /\ Len(a) = j /\ \A i \in 1..j : a[i] = z[i]
  OBVIOUS
<1>2. b \in Seq(S) /\ Len(b) = Len(z) - j /\ \A i \in 1..(Len(z) - j) : b[i] = z[j + i]
  OBVIOUS
<1> HIDE DEF a, b
<1>3. a \o b \in Seq(S) /\ Len(a \o b) = Len(z)
  BY <1>1, <1>2
<1>4. ASSUME NEW i \in 1..Len(z) PROVE (a \o b)[i] = z[i]
  <2>0. Len(z) \in Nat /\ i \in Nat /\ j \in Nat
    OBVIOUS
  <2>1. CASE i <= j
    BY <1>1, <1>2, <2>1
  <2>2. CASE i > j
    <3>1. (a \o b)[i] = b[i - j]
      BY <1>1, <1>2, <2>2
    <3>2. i - j \in 1..(Len(z) - j) /\ j + (i - j) = i
      BY <2>2
    <3> QED BY <1>2, <3>1, <3>2
  <2>3. i <= j \/ i > j
    BY <2>0
  <2> QED BY <2>1, <2>2, <2>3
<1>5. a \o b = z
  <2> DEFINE y == a \o b
  <2>1. y \in Seq(S) /\ Len(y) = Len(z) /\ \A i \in 1..Len(z) : y[i] = z[i]
    BY <1>3, <1>4
  <2> HIDE DEF y
  <2>2. y = z
    BY <2>1
  <2> QED BY <2>2 DEF y
<1> QED BY <1>1, <1>2, <1>5 DEF a, b

(* A cut repair is repaired to the same log.                               *)
LEMMA CutRepair ==
  ASSUME NEW l \in CutLogs, NEW n \in Len(l)..Len(Cut!Repaired(l)),
         NEW x, x = SubSeq(Cut!Repaired(l), 1, n)
  PROVE  x \in CutLogs /\ Cut!Repaired(x) = Cut!Repaired(l)
<1> DEFINE z == Cut!Closers(l)
           y == Cut!Repaired(l)
           j == n - Len(l)
<1>1. l \in Seq(CutEvents) /\ Len(l) \in Nat /\ z \in Seq(CutEvents) /\ Len(z) \in Nat
  BY RepairParts DEF CutLogs
<1>2. y = l \o z
  BY DEF Cut!Repaired
<1>3. \A i \in 0..Len(z) : /\ Part(l, z, i) \in CutLogs
                           /\ Cut!Closers(Part(l, z, i)) = SubSeq(z, i + 1, Len(z))
  BY RepairParts
<1>4. x = SubSeq(y, 1, n) /\ n \in Len(l)..Len(y)
  OBVIOUS
<1> HIDE DEF y, z
<1>5. Len(y) = Len(l) + Len(z)
  BY <1>1, <1>2
<1>6. j \in 0..Len(z) /\ n = Len(l) + j
  BY <1>1, <1>4, <1>5
<1> HIDE DEF j
<1>7. PartAt(CutEvents, l, z, j)
  BY <1>1, <1>6, PartIs
<1>8. x = Part(l, z, j)
  BY <1>2, <1>4, <1>6, <1>7 DEF PartAt
<1>9. x \in CutLogs /\ Cut!Closers(x) = SubSeq(z, j + 1, Len(z))
  BY <1>3, <1>6, <1>8
<1>10. (l \o SubSeq(z, 1, j)) \o SubSeq(z, j + 1, Len(z)) = l \o z
  <2>1. /\ SubSeq(z, 1, j) \in Seq(CutEvents) /\ SubSeq(z, j + 1, Len(z)) \in Seq(CutEvents)
        /\ SubSeq(z, 1, j) \o SubSeq(z, j + 1, Len(z)) = z
    BY <1>1, <1>6, SplitIs
  <2> DEFINE a == SubSeq(z, 1, j)
             b == SubSeq(z, j + 1, Len(z))
  <2> HIDE DEF a, b
  <2>2. a \in Seq(CutEvents) /\ b \in Seq(CutEvents)
    BY <2>1 DEF a, b
  <2>3. (l \o a) \o b = l \o (a \o b)
    BY <1>1, <2>2
  <2> QED BY <2>1, <2>3 DEF a, b
<1>11. Cut!Repaired(x) = x \o SubSeq(z, j + 1, Len(z))
  BY <1>9 DEF Cut!Repaired
<1>12. x = l \o SubSeq(z, 1, j)
  BY <1>8 DEF Part
<1>13. Cut!Repaired(x) = y
  BY <1>2, <1>10, <1>11, <1>12
<1> QED BY <1>9, <1>13 DEF y

(* The module Repair sees the standard module FiniteSets as its own.       *)
LEMMA SameFinite ==
  \A S : Cut!Cardinality(S) = Cardinality(S) /\ (Cut!IsFiniteSet(S) <=> IsFiniteSet(S))
<1>1. ASSUME NEW S PROVE Cut!Cardinality(S) = Cardinality(S)
  BY DEF Cut!Cardinality, Cardinality
<1>2. ASSUME NEW S PROVE Cut!IsFiniteSet(S) <=> IsFiniteSet(S)
  BY DEF Cut!IsFiniteSet, IsFiniteSet
<1> QED BY <1>1, <1>2

(* An assistant's calls, in some order without a repetition.               *)
LEMMA SetAsSeq ==
  ASSUME NEW S \in SUBSET Calls, IsFiniteSet(S)
  PROVE  Cut!SetToSeq(S) \in Seq(Calls) /\ Distinct(Cut!SetToSeq(S))
<1> DEFINE n == Cardinality(S)
           x == Cut!SetToSeq(S)
<1>1. n \in Nat /\ ExistsBijection(1..n, S)
  BY FS_CardinalityType
<1>2. PICK f \in [1..n -> S] : \A a, b \in 1..n : f[a] = f[b] => a = b
  BY <1>1 DEF ExistsBijection, Bijection, Injection, IsInjective
<1>3. \E g \in [1..n -> S] : Cut!IsInjective(g)
  BY <1>2 DEF Cut!IsInjective
<1>4. x \in [1..n -> S] /\ Cut!IsInjective(x)
  <2>1. Cut!Cardinality(S) = n
    BY SameFinite
  <2> HIDE DEF n
  <2>2. x = CHOOSE g \in [1..n -> S] : Cut!IsInjective(g)
    BY <2>1 DEF Cut!SetToSeq
  <2> QED BY <1>3, <2>2
<1> HIDE DEF x, n
<1>5. x \in Seq(Calls)
  BY <1>1, <1>4
<1>6. Distinct(x)
  BY <1>4 DEF Distinct, Cut!IsInjective
<1> QED BY <1>5, <1>6 DEF x

(* The first call that was not started, and the first that was.            *)
LEMMA SelectedIs ==
  ASSUME NEW q \in Seq(Askings)
  PROVE  /\ Cut!SelectInSeq(q, LAMBDA p : ~p.started) # 0 =>
              /\ Cut!SelectInSeq(q, LAMBDA p : ~p.started) \in DOMAIN q
              /\ ~q[Cut!SelectInSeq(q, LAMBDA p : ~p.started)].started
         /\ Cut!SelectInSeq(q, LAMBDA p : p.started) # 0 =>
              /\ Cut!SelectInSeq(q, LAMBDA p : p.started) \in DOMAIN q
              /\ q[Cut!SelectInSeq(q, LAMBDA p : p.started)].started
<1>1. ASSUME NEW I \in SUBSET Nat, I # {} PROVE Cut!Min(I) \in I
  <2>1. \E k \in I : \A j \in I : k =< j
    BY <1>1, LeastIn
  <2> QED BY <2>1 DEF Cut!Min
<1>2. DOMAIN q = 1..Len(q)
  OBVIOUS
<1>3. Cut!SelectInSeq(q, LAMBDA p : ~p.started) # 0 =>
        Cut!SelectInSeq(q, LAMBDA p : ~p.started) \in {i \in 1..Len(q) : ~q[i].started}
  <2> DEFINE I == {i \in 1..Len(q) : ~q[i].started}
  <2>1. Cut!SelectInSeq(q, LAMBDA p : ~p.started) = IF I # {} THEN Cut!Min(I) ELSE 0
    BY DEF Cut!SelectInSeq
  <2>2. I \in SUBSET Nat
    OBVIOUS
  <2> HIDE DEF I
  <2>3. Cut!SelectInSeq(q, LAMBDA p : ~p.started) # 0 =>
          Cut!SelectInSeq(q, LAMBDA p : ~p.started) \in I
    BY <1>1, <2>1, <2>2
  <2> QED BY <2>3 DEF I
<1>4. Cut!SelectInSeq(q, LAMBDA p : p.started) # 0 =>
        Cut!SelectInSeq(q, LAMBDA p : p.started) \in {i \in 1..Len(q) : q[i].started}
  <2> DEFINE I == {i \in 1..Len(q) : q[i].started}
  <2>1. Cut!SelectInSeq(q, LAMBDA p : p.started) = IF I # {} THEN Cut!Min(I) ELSE 0
    BY DEF Cut!SelectInSeq
  <2>2. I \in SUBSET Nat
    OBVIOUS
  <2> HIDE DEF I
  <2>3. Cut!SelectInSeq(q, LAMBDA p : p.started) # 0 =>
          Cut!SelectInSeq(q, LAMBDA p : p.started) \in I
    BY <1>1, <2>1, <2>2
  <2> QED BY <2>3 DEF I
<1> QED BY <1>2, <1>3, <1>4

(* What the driver may append next is one of the moves.                    *)
LEMMA EventsMove ==
  ASSUME cutLog \in CutLogs, NEW e \in Cut!Events
  PROVE  Moves(cutLog, Cut!Companion(cutLog).trace, Cut!Scanned(cutLog).pending, e)
<1> DEFINE t == Cut!Companion(cutLog).trace
           q == Cut!Scanned(cutLog).pending
           w == Cut!SelectInSeq(q, LAMBDA p : ~p.started)
           g == Cut!SelectInSeq(q, LAMBDA p : p.started)
<1>1. q \in Seq(Askings)
  BY ScannedTypes DEF Scans
<1>2. \/ t.openTurn = 0 /\ e = Cut!Plain(Cut!TurnStart(t.nextTurn))
      \/ t.openTurn # 0 /\ t.openStep = 0 /\ e = Cut!Plain(Cut!TurnEnd(t.openTurn))
      \/ t.openTurn # 0 /\ t.openStep = 0 /\ e = Cut!Plain(Cut!StepStart(t.openTurn, t.nextStep))
      \/ t.openStep # 0 /\ e = Cut!Plain(Cut!StepEnd(t.openTurn, t.openStep))
      \/ /\ t.openStep # 0
         /\ ~\E i \in DOMAIN cutLog : /\ cutLog[i].type = "assistant"
                                      /\ cutLog[i].turn = t.openTurn
                                      /\ cutLog[i].step = t.openStep
         /\ \E cs \in SUBSET Calls : IsFiniteSet(cs) /\
              e = Cut!Asks(t.openTurn, t.openStep, Cut!SetToSeq(cs))
      \/ t.openStep # 0 /\ w # 0 /\ e = Cut!ToolCall(t.openTurn, t.openStep, q[w].call)
      \/ t.openStep # 0 /\ g # 0 /\ e = Cut!ToolResult(t.openTurn, t.openStep, q[g].call, "none")
  <2> DEFINE asked == \E i \in DOMAIN cutLog : /\ cutLog[i].type = "assistant"
                                                /\ cutLog[i].turn = t.openTurn
                                                /\ cutLog[i].step = t.openStep
             asks == {Cut!Asks(t.openTurn, t.openStep, Cut!SetToSeq(cs)) :
                        cs \in {x \in SUBSET Calls :
                                  Cut!IsFiniteSet(x) /\ Cut!Cardinality(x) <= MaxAsk}}
  <2>1. Cut!Events =
          (IF t.openTurn = 0 THEN {Cut!Plain(Cut!TurnStart(t.nextTurn))} ELSE {})
          \cup (IF t.openTurn # 0 /\ t.openStep = 0
                THEN {Cut!Plain(Cut!TurnEnd(t.openTurn)),
                      Cut!Plain(Cut!StepStart(t.openTurn, t.nextStep))}
                ELSE {})
          \cup (IF t.openStep # 0
                THEN {Cut!Plain(Cut!StepEnd(t.openTurn, t.openStep))}
                     \cup (IF asked THEN {} ELSE asks)
                     \cup (IF w = 0 THEN {}
                           ELSE {Cut!ToolCall(t.openTurn, t.openStep, q[w].call)})
                     \cup (IF g = 0 THEN {}
                           ELSE {Cut!ToolResult(t.openTurn, t.openStep, q[g].call, "none")})
                ELSE {})
    BY Zenon DEF Cut!Events, Cut!None
  <2>2. e \in asks => \E cs \in SUBSET Calls : IsFiniteSet(cs) /\
              e = Cut!Asks(t.openTurn, t.openStep, Cut!SetToSeq(cs))
    BY SameFinite
  <2> HIDE DEF asked, asks, t, q, w, g
  <2>3. \/ t.openTurn = 0 /\ e = Cut!Plain(Cut!TurnStart(t.nextTurn))
        \/ t.openTurn # 0 /\ t.openStep = 0 /\ e = Cut!Plain(Cut!TurnEnd(t.openTurn))
        \/ t.openTurn # 0 /\ t.openStep = 0 /\ e = Cut!Plain(Cut!StepStart(t.openTurn, t.nextStep))
        \/ t.openStep # 0 /\ e = Cut!Plain(Cut!StepEnd(t.openTurn, t.openStep))
        \/ t.openStep # 0 /\ ~asked /\ e \in asks
        \/ t.openStep # 0 /\ w # 0 /\ e = Cut!ToolCall(t.openTurn, t.openStep, q[w].call)
        \/ t.openStep # 0 /\ g # 0
           /\ e = Cut!ToolResult(t.openTurn, t.openStep, q[g].call, "none")
    BY <2>1
  <2> QED BY <2>2, <2>3 DEF asked
<1>3. (w # 0 => w \in DOMAIN q /\ ~q[w].started) /\ (g # 0 => g \in DOMAIN q /\ q[g].started)
  BY <1>1, SelectedIs
<1> HIDE DEF t, q, w, g
<1>4. CASE /\ t.openStep # 0
           /\ ~\E i \in DOMAIN cutLog : /\ cutLog[i].type = "assistant"
                                        /\ cutLog[i].turn = t.openTurn
                                        /\ cutLog[i].step = t.openStep
           /\ \E cs \in SUBSET Calls : IsFiniteSet(cs) /\
                e = Cut!Asks(t.openTurn, t.openStep, Cut!SetToSeq(cs))
  <2>1. PICK cs \in SUBSET Calls :
          IsFiniteSet(cs) /\ e = Cut!Asks(t.openTurn, t.openStep, Cut!SetToSeq(cs))
    BY <1>4
  <2>2. Cut!SetToSeq(cs) \in Seq(Calls) /\ Distinct(Cut!SetToSeq(cs))
    BY <2>1, SetAsSeq
  <2>3. Askers(cutLog, t.openTurn, t.openStep) = {}
    BY <1>4 DEF Askers
  <2>4. \E a \in Seq(Calls) : Distinct(a) /\ e = Cut!Asks(t.openTurn, t.openStep, a)
    BY <2>1, <2>2
  <2> QED BY <1>4, <2>3, <2>4 DEF Moves, t, q
<1>5. CASE t.openStep # 0 /\ w # 0 /\ e = Cut!ToolCall(t.openTurn, t.openStep, q[w].call)
  BY <1>3, <1>5 DEF Moves, t, q
<1>6. CASE t.openStep # 0 /\ g # 0 /\ e = Cut!ToolResult(t.openTurn, t.openStep, q[g].call, "none")
  <2>1. g \in DOMAIN q /\ "none" \in Codes /\ Fits("none", q[g])
    BY <1>3, <1>6 DEF Codes, Fits
  <2> QED BY <1>6, <2>1 DEF Moves, t, q
<1>7. CASE \/ t.openTurn = 0 /\ e = Cut!Plain(Cut!TurnStart(t.nextTurn))
           \/ t.openTurn # 0 /\ t.openStep = 0 /\ e = Cut!Plain(Cut!TurnEnd(t.openTurn))
           \/ t.openTurn # 0 /\ t.openStep = 0
              /\ e = Cut!Plain(Cut!StepStart(t.openTurn, t.nextStep))
           \/ t.openStep # 0 /\ e = Cut!Plain(Cut!StepEnd(t.openTurn, t.openStep))
  BY <1>7 DEF Moves, t
<1> QED BY <1>2, <1>4, <1>5, <1>6, <1>7

-----------------------------------------------------------------------------
(* The inductive invariant of the repair.                                  *)
CutInv ==
  /\ Good(cutLog) /\ cutMode \in {"live", "down"}
  /\ cutMode = "live" => cutGoal = <<>>
  /\ cutGoal # <<>> => Cut!Repaired(cutLog) = cutGoal

(* The empty log is good.                                                  *)
LEMMA CutInit == Init => CutInv
<1> SUFFICES ASSUME Init PROVE CutInv
  OBVIOUS
<1>1. cutLog = <<>> /\ cutMode = "live" /\ cutGoal = <<>>
  BY DEF Init, Cut!Init
<1>2. <<>> \in CutLogs /\ Len(<<>>) = 0 /\ SubSeq(<<>>, 1, 0) = <<>>
  BY DEF CutLogs
<1>3. Sync(<<>>)
  <2>1. Cut!Companion(<<>>) = FreshCompanion /\ Cut!Scanned(<<>>) = FreshScan
    BY CompanionIs, ScanIs
  <2>2. DOMAIN <<>> = {}
    OBVIOUS
  <2> QED BY <2>1, <2>2 DEF Sync, Agrees, FreshCompanion, FreshScan, Cut!FreshTrace, Cut!None,
         Aligned, Numbered, Queued, Recorded
<1>4. Good(<<>>)
  <2>1. ASSUME NEW j \in 0..Len(<<>>) PROVE Sync(SubSeq(<<>>, 1, j))
    <3>1. j = 0
      BY <1>2
    <3> QED BY <1>2, <1>3, <3>1
  <2> QED BY <1>2, <2>1 DEF Good
<1> QED BY <1>1, <1>4 DEF CutInv

(* Growing, crashing, a cut repair and a resume keep the invariant.        *)
LEMMA CutStep == CutInv /\ [Next]_allVars => CutInv'
<1> SUFFICES ASSUME CutInv, [Next]_allVars PROVE CutInv'
  OBVIOUS
<1>0. cutLog \in CutLogs /\ Sync(cutLog) /\ Good(cutLog)
  BY GoodIsSync DEF CutInv
<1>1. CASE Cut!Grow
  <2>1. PICK e \in Cut!Events : cutLog' = Append(cutLog, e)
    BY <1>1 DEF Cut!Grow
  <2>2. e \in CutEvents /\ Sync(Append(cutLog, e))
    BY <1>0, EventsMove, SyncMoves
  <2>3. Good(cutLog')
    BY <1>0, <2>1, <2>2, GoodGrown
  <2>4. cutMode = "live" /\ cutMode' = cutMode /\ cutGoal' = cutGoal
    BY <1>1 DEF Cut!Grow
  <2> QED BY <2>3, <2>4 DEF CutInv
<1>2. CASE Cut!Crash
  <2>1. PICK n \in 0..Len(cutLog) : cutLog' = SubSeq(cutLog, 1, n)
    BY <1>2 DEF Cut!Crash
  <2>2. Good(cutLog')
    BY <1>0, <2>1, GoodPrefix
  <2>3. cutMode' = "down" /\ cutGoal' = <<>>
    BY <1>2 DEF Cut!Crash
  <2> QED BY <2>2, <2>3 DEF CutInv
<1>3. CASE Cut!RepairCut
  <2> DEFINE y == Cut!Repaired(cutLog)
  <2>1. PICK n \in Len(cutLog)..Len(y) : cutLog' = SubSeq(y, 1, n)
    BY <1>3 DEF Cut!RepairCut
  <2>2. Good(y)
    BY <1>0, GoodRepair
  <2>3. n \in 0..Len(y)
    BY <1>0, <2>1 DEF CutLogs
  <2>4. Good(cutLog')
    BY <2>1, <2>2, <2>3, GoodPrefix
  <2>5. Cut!Repaired(cutLog') = y
    BY <1>0, <2>1, CutRepair
  <2>6. /\ cutGoal' = IF cutGoal = <<>> THEN y ELSE cutGoal
        /\ cutMode = "down" /\ cutMode' = cutMode
    BY <1>3 DEF Cut!RepairCut
  <2> QED BY <2>4, <2>5, <2>6 DEF CutInv
<1>4. CASE Cut!Resume
  <2>1. cutLog' = Cut!Repaired(cutLog) /\ cutMode' = "live" /\ cutGoal' = <<>>
    BY <1>4 DEF Cut!Resume
  <2>2. Good(cutLog')
    BY <1>0, <2>1, GoodRepair
  <2> QED BY <2>1, <2>2 DEF CutInv
<1>5. CASE UNCHANGED cutVars
  BY <1>5 DEF cutVars, CutInv
<1>6. RepairSteps => Cut!Grow \/ Cut!Crash \/ Cut!RepairCut \/ Cut!Resume
  BY DEF RepairSteps, Cut!Next
<1> QED BY <1>1, <1>2, <1>3, <1>4, <1>5, <1>6 DEF Next, ToolSteps, PublicationSteps, ApprovalSteps,
     RetrySteps, GoalSteps, ScheduleSteps, allVars

(* So it always holds.                                                     *)
LEMMA CutAlways == Spec => []CutInv
BY CutInit, CutStep, PTL DEF Spec

(* The repaired log, from the closers.                                     *)
LEMMA RepairedIs ==
  ASSUME NEW l, Good(l)
  PROVE  /\ Cut!Repaired(l) \in CutLogs /\ Sync(Cut!Repaired(l))
         /\ Cut!Scanned(Cut!Repaired(l)).turn = 0
<1> DEFINE y == Cut!Repaired(l)
           z == Cut!Closers(l)
<1>1. y \in CutLogs /\ Sync(y) /\ l \in CutLogs
  BY GoodRepair, GoodIsSync
<1>2. z \in Seq(CutEvents) /\ \A j \in 0..Len(z) :
                                Cut!Closers(Part(l, z, j)) = SubSeq(z, j + 1, Len(z))
  BY <1>1, RepairParts
<1>3. y = Part(l, z, Len(z))
  <2>1. y = l \o z /\ l \in Seq(CutEvents)
    BY <1>1 DEF Cut!Repaired, CutLogs
  <2> HIDE DEF y, z
  <2> QED BY <1>2, <2>1, PartIs
<1> HIDE DEF y, z
<1>4. Cut!Closers(y) = <<>>
  <2>1. Len(z) \in 0..Len(z) /\ SubSeq(z, Len(z) + 1, Len(z)) = <<>>
    BY <1>2
  <2> QED BY <1>2, <1>3, <2>1
<1>5. ClosersOf(Cut!Scanned(y), <<>>) /\ Cut!Scanned(y) \in Scans
  BY <1>1, <1>4, ClosersAre, ScannedTypes
<1>6. Cut!Scanned(y).turn = 0
  <2>1. Len(Cut!Scanned(y).pending) \in Nat /\ Len(<<>>) = 0
    BY <1>5 DEF Scans
  <2> QED BY <1>5, <2>1 DEF ClosersOf
<1> QED BY <1>1, <1>6 DEF y

(* Wherever a crash cuts a log, and whatever the session did after earlier *)
(* repairs, the log interruptedTurnClosers leaves is one the session's     *)
(* companion accepts event by event, with no turn open: for any call ids,  *)
(* any number of calls in a message and logs of any length.                *)
THEOREM RepairedAlwaysLegal == Spec => []RepairedLegal
<1>1. CutInv => RepairedLegal
  <2> SUFFICES ASSUME CutInv PROVE RepairedLegal
    OBVIOUS
  <2> DEFINE y == Cut!Repaired(cutLog)
  <2>1. Sync(y) /\ Cut!Scanned(y).turn = 0
    BY RepairedIs DEF CutInv
  <2> HIDE DEF y
  <2>2. Cut!Companion(y).trace.legal /\ Cut!Companion(y).trace.openTurn = 0
    BY <2>1 DEF Sync, Agrees, Aligned
  <2> QED BY <2>2 DEF RepairedLegal, Cut!RepairedLegal, Cut!None, y
<1> QED BY <1>1, CutAlways, PTL

(* A repair whose append is cut, however often, is completed by the next   *)
(* one to the log the first repair set out to write, event for event:      *)
(* interruptedTurnClosers needs no memory of the repairs before it.        *)
THEOREM RepairAlwaysConverges == Spec => []RepairConverges
<1>1. CutInv => RepairConverges
  BY DEF CutInv, RepairConverges, Cut!RepairConverges
<1> QED BY <1>1, CutAlways, PTL

(* Facts about sequences: a concatenation of three, and the end of one.    *)
CatTogether(l, a, b) == (l \o a) \o b = l \o (a \o b)
LEMMA CatAssociates ==
  ASSUME NEW S, NEW l \in Seq(S), NEW a \in Seq(S), NEW b \in Seq(S)
  PROVE  CatTogether(l, a, b)
<1>1. (l \o a) \o b = l \o (a \o b)
  OBVIOUS
<1> QED BY <1>1 DEF CatTogether

LEMMA NotEmpty ==
  ASSUME NEW S, NEW w \in Seq(S), Len(w) = 2
  PROVE  w # <<>>
  OBVIOUS

TwoOf(S, z, m, b) == b \in Seq(S) /\ Len(b) = 2 /\ b[1] = z[m + 1] /\ b[2] = z[m + 2]
LEMMA LastTwo ==
  ASSUME NEW S, NEW z \in Seq(S), NEW m \in Nat, Len(z) = m + 2
  PROVE  TwoOf(S, z, m, SubSeq(z, m + 1, Len(z)))
<1> DEFINE b == SubSeq(z, m + 1, Len(z))
<1>1. b \in Seq(S) /\ Len(b) = 2
  OBVIOUS
<1>2. \A i \in 1..2 : b[i] = z[m + i]
  OBVIOUS
<1> HIDE DEF b
<1>3. b[1] = z[m + 1] /\ b[2] = z[m + 2]
  BY <1>2
<1>4. TwoOf(S, z, m, b)
  BY <1>1, <1>3 DEF TwoOf
<1> QED BY <1>4 DEF b

(* Where the results of a repair end, the step the crash interrupted is    *)
(* still open and no call of it waits.                                     *)
LEMMA ResultsWritten ==
  ASSUME NEW l, Good(l), Cut!Scanned(l).turn # 0, Cut!Scanned(l).step # 0
  PROVE  \E x \in CutLogs, w \in Seq(CutEvents) :
           /\ Cut!Repaired(l) = x \o w
           /\ \A i \in DOMAIN w : w[i].type \in {"step/end", "turn/end"}
           /\ Recorded(x, Cut!Scanned(l).turn, Cut!Scanned(l).step, <<>>)
<1> DEFINE s == Cut!Scanned(l)
           z == Cut!Closers(l)
           m == Len(s.pending)
           x == Part(l, z, m)
           w == Cut!Closers(x)
           r == Cut!Scanned(x)
<1>1. l \in CutLogs /\ Sync(l) /\ l \in Seq(CutEvents)
  BY GoodIsSync DEF CutLogs
<1>2. s \in Scans /\ ClosersOf(s, z) /\ s.turn # 0 /\ s.step # 0
  BY <1>1, ScannedTypes, ClosersAre
<1>3. s.turn \in Nat /\ s.step \in Nat /\ m \in Nat
  BY <1>2 DEF Scans
<1> HIDE DEF s
<1>4. /\ z \in Seq(CutEvents) /\ Len(z) = m + 2
      /\ z[m + 1] = Cut!Plain(Cut!StepEnd(s.turn, s.step))
      /\ z[m + 2] = Cut!Plain(Cut!TurnEnd(s.turn))
  <2> HIDE DEF z
  <2> QED BY <1>2 DEF ClosersOf
<1>5. m \in 0..Len(z)
  <2> HIDE DEF z, m
  <2> QED BY <1>3, <1>4
<1>6. x \in CutLogs /\ w = SubSeq(z, m + 1, Len(z)) /\ Sync(x)
  <2> HIDE DEF m
  <2> QED BY <1>1, <1>5, RepairParts
<1>7. r \in Scans /\ ClosersOf(r, w)
  <2> HIDE DEF x
  <2> QED BY <1>6, ScannedTypes, ClosersAre
<1>8. Cut!Repaired(l) = x \o SubSeq(z, m + 1, Len(z))
  <2>1. Cut!Repaired(l) = l \o z
    BY DEF Cut!Repaired
  <2> HIDE DEF z, m
  <2> DEFINE a == SubSeq(z, 1, m)
             b == SubSeq(z, m + 1, Len(z))
  <2>2. a \in Seq(CutEvents) /\ b \in Seq(CutEvents) /\ a \o b = z
    BY <1>4, <1>5, SplitIs
  <2>3. x = l \o a
    BY DEF Part
  <2> HIDE DEF a, b, x
  <2>4. l \in Seq(CutEvents) /\ a \in Seq(CutEvents) /\ b \in Seq(CutEvents)
    BY <1>1, <2>2
  <2>5. CatTogether(l, a, b)
    BY <2>4, CatAssociates
  <2>6. (l \o a) \o b = l \o (a \o b)
    BY <2>5 DEF CatTogether
  <2> QED BY <2>1, <2>2, <2>3, <2>6 DEF b
<1>9. SubSeq(z, m + 1, Len(z)) \in Seq(CutEvents) /\ Len(SubSeq(z, m + 1, Len(z))) = 2
      /\ SubSeq(z, m + 1, Len(z))[1] = z[m + 1] /\ SubSeq(z, m + 1, Len(z))[2] = z[m + 2]
  <2> HIDE DEF z, m
  <2> DEFINE b == SubSeq(z, m + 1, Len(z))
  <2>1. b = SubSeq(z, m + 1, Len(z))
    OBVIOUS
  <2> HIDE DEF b
  <2>2. TwoOf(CutEvents, z, m, b)
    BY <1>3, <1>4, <2>1, LastTwo
  <2>3. b \in Seq(CutEvents) /\ Len(b) = 2 /\ b[1] = z[m + 1] /\ b[2] = z[m + 2]
    BY <2>2 DEF TwoOf
  <2> QED BY <2>1, <2>3
<1> HIDE DEF z, m, w
<1>10. /\ w \in Seq(CutEvents) /\ Len(w) = 2
       /\ w[1] = Cut!Plain(Cut!StepEnd(s.turn, s.step)) /\ w[2] = Cut!Plain(Cut!TurnEnd(s.turn))
  BY <1>4, <1>6, <1>9
<1>11. /\ w[1].type = "step/end" /\ w[1].turn = s.turn /\ w[1].step = s.step
       /\ w[2].type = "turn/end"
  BY <1>10 DEF Cut!Plain, Cut!Event, Cut!StepEnd, Cut!TurnEnd
<1> HIDE DEF x, r
<1>12. r.turn # 0 /\ Len(r.pending) \in Nat
  <2>1. w # <<>>
    BY <1>10, NotEmpty
  <2>2. r.pending \in Seq(Askings)
    BY <1>7 DEF Scans
  <2>3. Len(r.pending) \in Nat
    BY <2>2
  <2> QED BY <1>7, <2>1, <2>3 DEF ClosersOf
<1>13. r.pending = <<>>
  <2>1. CASE Len(r.pending) >= 1
    <3>1. w[1] = ResultOf(r, 1) /\ 1 \in 1..Len(r.pending)
      BY <1>7, <1>12, <2>1 DEF ClosersOf, Scans
    <3>2. w[1].type = "tool/result"
      BY <1>7, <3>1, ResultTypes
    <3> QED BY <1>11, <3>2
  <2>2. CASE Len(r.pending) = 0
    BY <1>7, <2>2 DEF Scans
  <2> QED BY <1>12, <2>1, <2>2
<1>14. r.turn = s.turn /\ r.step = s.step
  <2>1. Len(r.pending) = 0
    BY <1>13
  <2>2. CASE r.step = 0
    <3>1. w[1] = Cut!Plain(Cut!TurnEnd(r.turn))
      BY <1>7, <1>12, <2>1, <2>2 DEF ClosersOf
    <3> QED BY <1>11, <3>1 DEF Cut!Plain, Cut!Event, Cut!TurnEnd
  <2>3. CASE r.step # 0
    <3>1. w[1] = Cut!Plain(Cut!StepEnd(r.turn, r.step))
      BY <1>7, <1>12, <2>1, <2>3 DEF ClosersOf
    <3> QED BY <1>11, <3>1 DEF Cut!Plain, Cut!Event, Cut!StepEnd
  <2> QED BY <2>2, <2>3
<1>15. Recorded(x, s.turn, s.step, <<>>)
  BY <1>6, <1>13, <1>14 DEF Sync, Agrees, Aligned, r
<1>16. \A i \in DOMAIN w : w[i].type \in {"step/end", "turn/end"}
  <2>1. DOMAIN w = {1, 2}
    BY <1>10
  <2> QED BY <1>11, <2>1
<1>17. Cut!Repaired(l) = x \o w
  BY <1>6, <1>8
<1> QED BY <1>6, <1>10, <1>15, <1>16, <1>17 DEF s

(* What the finished log says of a call is what the log said before its    *)
(* step was closed.                                                        *)
OfCall(y, u, v, type, c) ==
  {i \in DOMAIN y : /\ y[i].turn = u /\ y[i].step = v /\ y[i].type = type
                    /\ c \in Cut!Range(y[i].calls)}

(* Events that close a step or a turn add nothing to it.                   *)
SameOfCall(x, y, u, v, c) ==
  /\ OfCall(y, u, v, "assistant", c) = Asking(x, u, v, c)
  /\ OfCall(y, u, v, "tool/call", c) = Starting(x, u, v, c)
  /\ OfCall(y, u, v, "tool/result", c) = Answering(x, u, v, c)
  /\ \A i \in DOMAIN x : y[i] = x[i] /\ i \in DOMAIN y
LEMMA OfCallIs ==
  ASSUME NEW x \in CutLogs, NEW w \in Seq(CutEvents), NEW u, NEW v, NEW c,
         \A i \in DOMAIN w : w[i].type \in {"step/end", "turn/end"}
  PROVE  SameOfCall(x, x \o w, u, v, c)
<1> DEFINE y == x \o w
<1>1. x \in Seq(CutEvents) /\ \A i \in DOMAIN x : x[i] \in CutEvents
  BY DEF CutLogs
<1>2. \A i \in DOMAIN x : y[i] = x[i] /\ i \in DOMAIN y
  BY <1>1
<1>3. \A i \in DOMAIN y : i \in DOMAIN x \/ y[i].type \in {"step/end", "turn/end"}
  <2> SUFFICES ASSUME NEW i \in DOMAIN y, i \notin DOMAIN x
               PROVE  y[i].type \in {"step/end", "turn/end"}
    OBVIOUS
  <2>1. i - Len(x) \in DOMAIN w /\ y[i] = w[i - Len(x)]
    BY <1>1
  <2> QED BY <2>1
<1>4. \A i \in DOMAIN x : x[i].type \in {"tool/call", "tool/result"} =>
        (c \in Cut!Range(x[i].calls) <=> x[i].calls[1] = c)
  <2> SUFFICES ASSUME NEW i \in DOMAIN x, x[i].type \in {"tool/call", "tool/result"}
               PROVE  c \in Cut!Range(x[i].calls) <=> x[i].calls[1] = c
    OBVIOUS
  <2>1. x[i].calls \in Seq(Calls) /\ Len(x[i].calls) = 1
    BY <1>1 DEF CutEvents
  <2>2. DOMAIN x[i].calls = {1}
    BY <2>1
  <2> QED BY <2>2 DEF Cut!Range
<1>5. \A i \in DOMAIN x :
        c \in Cut!Range(x[i].calls) <=> \E k \in DOMAIN x[i].calls : x[i].calls[k] = c
  BY DEF Cut!Range
<1> HIDE DEF y
<1>6. OfCall(y, u, v, "assistant", c) = Asking(x, u, v, c)
  BY <1>2, <1>3, <1>5 DEF OfCall, Asking
<1>7. OfCall(y, u, v, "tool/call", c) = Starting(x, u, v, c)
  BY <1>2, <1>3, <1>4 DEF OfCall, Starting
<1>8. OfCall(y, u, v, "tool/result", c) = Answering(x, u, v, c)
  BY <1>2, <1>3, <1>4 DEF OfCall, Answering
<1>9. SameOfCall(x, y, u, v, c)
  BY <1>2, <1>6, <1>7, <1>8 DEF SameOfCall
<1> QED BY <1>9 DEF y

(* Two sets of at most one element, empty together, have the same size.    *)
LEMMA SameSize ==
  ASSUME NEW A, NEW B, \A i, j \in A : i = j, \A i, j \in B : i = j, A # {} <=> B # {}
  PROVE  Cut!Cardinality(A) = Cut!Cardinality(B)
<1>1. CASE A = {}
  BY <1>1
<1>2. CASE A # {}
  <2>1. PICK a \in A, b \in B : TRUE
    BY <1>2
  <2>2. A = {a} /\ B = {b}
    BY <2>1
  <2>3. Cardinality(A) = 1 /\ Cardinality(B) = 1
    BY <2>2, FS_Singleton
  <2> QED BY <2>3, SameFinite
<1> QED BY <1>1, <1>2

(* In the log interruptedTurnClosers leaves, each call asked for in the    *)
(* step the crash interrupted has exactly one result in it, an id used     *)
(* again in another step counts for nothing, and a synthetic result says   *)
(* truly whether the call's own event is in the log.                       *)
THEOREM AnsweredAlwaysOnce == Spec => []AnsweredOnce
<1>1. CutInv => AnsweredOnce
  <2> SUFFICES ASSUME CutInv, Cut!Scanned(cutLog).turn # 0, Cut!Scanned(cutLog).step # 0
               PROVE  AnsweredOnce
    BY DEF AnsweredOnce, Cut!AnsweredOnce, Cut!None
  <2> DEFINE u == Cut!Scanned(cutLog).turn
             v == Cut!Scanned(cutLog).step
             y == Cut!Repaired(cutLog)
  <2>1. Good(cutLog) /\ v # 0
    BY DEF CutInv
  <2>2. PICK x \in CutLogs, w \in Seq(CutEvents) :
          /\ y = x \o w
          /\ \A i \in DOMAIN w : w[i].type \in {"step/end", "turn/end"}
          /\ Recorded(x, u, v, <<>>)
    BY <2>1, ResultsWritten
  <2> HIDE DEF u, v, y
  <2>3. ASSUME NEW c \in Calls
        PROVE  /\ Cut!Cardinality(OfCall(y, u, v, "tool/result", c))
                    = Cut!Cardinality(OfCall(y, u, v, "assistant", c))
               /\ \A i \in OfCall(y, u, v, "tool/result", c) :
                    IF y[i].code = "TOOL_NOT_STARTED"
                    THEN OfCall(y, u, v, "tool/call", c) = {}
                    ELSE \E j \in OfCall(y, u, v, "tool/call", c) : j < i
    <3>1. /\ OfCall(y, u, v, "assistant", c) = Asking(x, u, v, c)
          /\ OfCall(y, u, v, "tool/call", c) = Starting(x, u, v, c)
          /\ OfCall(y, u, v, "tool/result", c) = Answering(x, u, v, c)
          /\ \A i \in DOMAIN x : y[i] = x[i]
      <4>1. SameOfCall(x, y, u, v, c)
        BY <2>2, OfCallIs
      <4> QED BY <4>1 DEF SameOfCall
    <3>2. /\ \A i, j \in Askers(x, u, v) : i = j
          /\ RecordedCall(x, <<>>, c, Asking(x, u, v, c), Starting(x, u, v, c),
                          Answering(x, u, v, c))
      BY <2>1, <2>2 DEF Recorded
    <3>3. \A i, j \in Asking(x, u, v, c) : i = j
      BY <3>2 DEF Asking, Askers
    <3>4. /\ \A i, j \in Answering(x, u, v, c) : i = j
          /\ Answering(x, u, v, c) # {} <=> Asking(x, u, v, c) # {}
      <4>1. DOMAIN <<>> = {}
        OBVIOUS
      <4> QED BY <3>2, <4>1 DEF RecordedCall
    <3>5. Cut!Cardinality(Answering(x, u, v, c)) = Cut!Cardinality(Asking(x, u, v, c))
      BY <3>3, <3>4, SameSize
    <3>6. \A i \in Answering(x, u, v, c) :
            IF x[i].code = "TOOL_NOT_STARTED" THEN Starting(x, u, v, c) = {}
            ELSE \E j \in Starting(x, u, v, c) : j < i
      BY <3>2 DEF RecordedCall
    <3>7. \A i \in Answering(x, u, v, c) : y[i] = x[i]
      BY <3>1 DEF Answering
    <3> QED BY <3>1, <3>5, <3>6, <3>7
  <2> QED BY <2>3 DEF AnsweredOnce, Cut!AnsweredOnce, OfCall, u, v, y
<1> QED BY <1>1, CutAlways, PTL

-----------------------------------------------------------------------------
(* Schedules: the fold of the reminders.                                   *)
ReminderEvents ==
  [op : {"create"}, rec : Nat, every : BOOLEAN, at : Nat]
    \cup [op : {"delete", "dispatch"}, rec : Nat, at : Nat]
ReminderLogs == Seq(ReminderEvents)
Reminded == [rec : Nat, every : BOOLEAN, at : Nat]

(* Division rounds down.                                                   *)
LEMMA DivIs ==
  ASSUME NEW i \in Int, NEW d \in Nat \ {0}
  PROVE  i \div d \in Int /\ d * (i \div d) <= i /\ i < d * (i \div d) + d
  OBVIOUS

(* The delays and the period of the schedules.                             *)
LEMMA Periods == Period \in Nat \ {0} /\ MaxTime \in Nat /\ \A delay \in Delays : delay \in Nat
  BY RemindersAssumption DEF Reminders!ScheduleAssumption

(* A dispatch moves a fixed-rate record past the moment it was accepted.   *)
LEMMA DispatchedIs ==
  ASSUME NEW x \in Reminded, NEW a \in Nat
  PROVE  /\ Reminders!Occurrence(x, a) \in Int
         /\ x.at <= a => x.at <= Reminders!Occurrence(x, a) /\ Reminders!Occurrence(x, a) <= a
         /\ x.every => /\ Reminders!Dispatched(x, a) \in Reminded
                       /\ Reminders!Dispatched(x, a).rec = x.rec
                       /\ Reminders!Dispatched(x, a).at > a
<1> DEFINE q == (a - x.at) \div Period
<1>1. x.at \in Nat /\ x.rec \in Nat /\ x.every \in BOOLEAN /\ x.at \in Int
  BY DEF Reminded
<1>2. /\ q \in Int /\ Period * q \in Int
      /\ Period * q <= a - x.at /\ a - x.at < Period * q + Period
  <2>1. a - x.at \in Int /\ Period \in Nat \ {0}
    BY <1>1, Periods
  <2>2. q \in Int /\ Period * q <= a - x.at /\ a - x.at < Period * q + Period
    BY <2>1, DivIs
  <2> QED BY <2>1, <2>2
<1>3. x.at <= a => Period * q >= 0
  <2> SUFFICES ASSUME x.at <= a PROVE Period * q >= 0
    OBVIOUS
  <2> HIDE DEF q
  <2>1. Period \in Nat /\ Period > 0 /\ q \in Int /\ Period * q + Period > 0
    BY <1>1, <1>2, Periods
  <2>2. q >= 0
    BY <2>1
  <2> QED BY <2>1, <2>2
<1>4. Reminders!Occurrence(x, a) = IF x.every THEN x.at + Period * q ELSE x.at
  BY DEF Reminders!Occurrence
<1> DEFINE p == Period * q
<1> HIDE DEF q
<1>5. p = Period * q
  OBVIOUS
<1> HIDE DEF p
<1>6. /\ Reminders!Occurrence(x, a) \in Int
      /\ x.at <= a => x.at <= Reminders!Occurrence(x, a) /\ Reminders!Occurrence(x, a) <= a
      /\ x.every => Reminders!Occurrence(x, a) + Period > a
  BY <1>1, <1>2, <1>3, <1>4, <1>5, Periods
<1>7. ASSUME x.every
      PROVE  /\ Reminders!Dispatched(x, a) \in Reminded
             /\ Reminders!Dispatched(x, a).rec = x.rec
             /\ Reminders!Dispatched(x, a).at > a
  <2> DEFINE o == Reminders!Occurrence(x, a) + Period
  <2>1. o \in Nat /\ o > a
    BY <1>6, <1>7, Periods
  <2> HIDE DEF o
  <2>2. Reminders!Dispatched(x, a) = [x EXCEPT !.at = o]
    BY DEF Reminders!Dispatched, o
  <2> QED BY <1>1, <2>1, <2>2 DEF Reminded
<1> QED BY <1>6, <1>7

(* What one event does to the active records.                              *)
AppliedTo(x, e, y) ==
  /\ e.op = "create" => y = x \cup {[rec |-> e.rec, every |-> e.every, at |-> e.at]}
  /\ e.op = "delete" => y = {z \in x : z.rec # e.rec}
  /\ e.op = "dispatch" =>
       y = {z \in x : z.rec # e.rec}
             \cup {Reminders!Dispatched(z, e.at) : z \in {w \in x : w.rec = e.rec /\ w.every}}
(* Applied, case by case.                                                  *)
LEMMA AppliedIs ==
  ASSUME NEW x, NEW e
  PROVE  AppliedTo(x, e, Reminders!Applied(x, e))
BY DEF AppliedTo, Reminders!Applied

(* The fields of an event.                                                 *)
LEMMA ReminderTypes ==
  ASSUME NEW e \in ReminderEvents
  PROVE  /\ e.op \in {"create", "delete", "dispatch"} /\ e.rec \in Nat /\ e.at \in Nat
         /\ e.op = "create" => e.every \in BOOLEAN
BY DEF ReminderEvents

(* An event keeps the active records typed.                                *)
LEMMA AppliedTypes ==
  ASSUME NEW x \in SUBSET Reminded, NEW e \in ReminderEvents
  PROVE  Reminders!Applied(x, e) \in SUBSET Reminded
<1> DEFINE y == Reminders!Applied(x, e)
<1>1. AppliedTo(x, e, y)
  BY AppliedIs
<1> HIDE DEF y
<1>2. CASE e.op = "create"
  <2>1. [rec |-> e.rec, every |-> e.every, at |-> e.at] \in Reminded
    BY <1>2, ReminderTypes DEF Reminded
  <2> QED BY <1>1, <1>2, <2>1 DEF AppliedTo, y
<1>3. CASE e.op = "delete"
  BY <1>1, <1>3 DEF AppliedTo, y
<1>4. CASE e.op = "dispatch"
  <2>1. \A z \in x : z.every => Reminders!Dispatched(z, e.at) \in Reminded
    BY ReminderTypes, DispatchedIs
  <2> QED BY <1>1, <1>4, <2>1 DEF AppliedTo, y
<1> QED BY <1>2, <1>3, <1>4, ReminderTypes

ActiveSets == SUBSET Reminded
NoReminders == {}

(* So does each event of a log, from the empty set on.                     *)
LEMMA AppliedAlways ==
  /\ NoReminders \in ActiveSets
  /\ \A x \in ActiveSets, e \in ReminderEvents : Reminders!Applied(x, e) \in ActiveSets
BY AppliedTypes DEF NoReminders, ActiveSets

(* The active records of a log, as a run over its prefixes.                *)
LEMMA ActiveRuns ==
  ASSUME NEW l \in ReminderLogs
  PROVE  \E c \in [0..Len(l) -> ActiveSets] :
           /\ c[0] = NoReminders /\ Reminders!Active(l) = c[Len(l)]
           /\ \A m \in 1..Len(l) : c[m] = Reminders!Applied(c[m - 1], l[m])
<1> DEFINE n == Len(l)
           Equation(it) == it = [s \in SUBSET (1..n) |->
             IF s = {} THEN NoReminders ELSE Reminders!Applied(it[s \ {Top(s)}], l[Top(s)])]
           iter == CHOOSE it : Equation(it)
           F == [p \in (1..n) \X ActiveSets |-> Reminders!Applied(p[2], l[p[1]])]
<1>1. n \in Nat /\ DOMAIN l = 1..n /\ \A i \in 1..n : l[i] \in ReminderEvents
  BY DEF ReminderLogs
<1> HIDE DEF n
<1>2. Reminders!Active(l) = iter[1..n]
  <2>1. \A s : Reminders!Max(s) = Top(s)
    BY DEF Reminders!Max, Top
  <2> QED BY <1>1, <2>1
          DEF Reminders!Active, Reminders!FoldLeft, Reminders!MapThenFoldSet, NoReminders
<1>3. /\ F \in [(1..n) \X ActiveSets -> ActiveSets] /\ NoReminders \in ActiveSets
      /\ \A i \in 1..n, v \in ActiveSets : F[<<i, v>>] = Reminders!Applied(v, l[i])
  BY <1>1, AppliedAlways
<1> HIDE DEF F
<1>4. PICK g \in [SUBSET (1..n) -> ActiveSets] : FoldSteps(g, n, NoReminders, F)
  BY <1>1, <1>3, FoldExists
<1> HIDE DEF Equation, iter
<1> DEFINE c == [m \in 0..n |-> g[1..m]]
           d == [m \in 0..n |-> iter[1..m]]
<1>5. /\ c \in [0..n -> ActiveSets] /\ c[0] = NoReminders
      /\ \A m \in 1..n : c[m] = F[<<m, c[m - 1]>>]
  <2>1. n \in Nat /\ IsRunOf(c, g, n)
    BY <1>1 DEF IsRunOf
  <2> HIDE DEF c, d
  <2>2. RunsBy(c, n, ActiveSets, NoReminders, F)
    BY <2>1, <1>3, <1>4, FoldRuns
  <2> QED BY <2>2 DEF RunsBy
<1>6. Equation(g)
  <2>1. ASSUME NEW s \in SUBSET (1..n), s # {}
        PROVE  g[s] = Reminders!Applied(g[s \ {Top(s)}], l[Top(s)])
    <3>1. Top(s) \in s /\ g[s] = F[<<Top(s), g[s \ {Top(s)}]>>]
      BY <1>4, <2>1 DEF FoldSteps
    <3>2. g[s \ {Top(s)}] \in ActiveSets /\ Top(s) \in 1..n
      BY <3>1
    <3> QED BY <3>1, <3>2, <1>3
  <2> QED BY <2>1, <1>4 DEF FoldSteps, Equation
<1>7. Equation(iter)
  BY <1>6 DEF iter
<1>8. \A m \in 0..n : d[m] = iter[1..m] /\ 1..m \in SUBSET (1..n)
  BY <1>1
<1>9. d[0] = NoReminders
  <2>1. 1..0 = {} /\ 0 \in 0..n
    BY <1>1
  <2> QED BY <2>1, <1>7, <1>8 DEF Equation
<1>10. ASSUME NEW m \in 1..n PROVE d[m] = Reminders!Applied(d[m - 1], l[m])
  <2>1. /\ 1..m # {} /\ (1..m) \ {m} = 1..(m - 1) /\ m \in 0..n /\ m - 1 \in 0..n
        /\ m \in 1..m /\ m \in Nat /\ 1..m \in SUBSET (1..m)
    BY <1>1, Intervals
  <2>2. Top(1..m) = m
    BY <2>1, TopIs
  <2>3. iter[1..m] = Reminders!Applied(iter[1..(m - 1)], l[m])
    BY <1>7, <1>8, <2>1, <2>2 DEF Equation
  <2> QED BY <1>8, <2>1, <2>3
<1> HIDE DEF c, d
<1>11. \A m \in 1..n : c[m - 1] \in ActiveSets /\ c[m] = Reminders!Applied(c[m - 1], l[m])
  <2> SUFFICES ASSUME NEW m \in 1..n
               PROVE  c[m - 1] \in ActiveSets /\ c[m] = Reminders!Applied(c[m - 1], l[m])
    OBVIOUS
  <2>1. m - 1 \in 0..n
    BY <1>1, Intervals
  <2> QED BY <2>1, <1>3, <1>5
<1>12. \A m \in 0..n : c[m] = d[m]
  <2>1. \A m \in 1..n : c[m - 1] = d[m - 1] => c[m] = d[m]
    BY <1>10, <1>11
  <2>2. n \in Nat /\ c[0] = d[0]
    BY <1>1, <1>5, <1>9
  <2>3. SameSteps(n, c, d)
    BY <2>1, <2>2 DEF SameSteps
  <2> QED BY <2>2, <2>3, SameRun
<1>13. Reminders!Active(l) = c[n]
  BY <1>1, <1>2, <1>8, <1>12
<1> QED BY <1>5, <1>11, <1>13 DEF n

(* A log of reminders that grows by one event.                             *)
LEMMA LongerIs ==
  ASSUME NEW l \in ReminderLogs, NEW e \in ReminderEvents
  PROVE  /\ Append(l, e) \in ReminderLogs /\ Len(Append(l, e)) = Len(l) + 1 /\ Len(l) \in Nat
         /\ Append(l, e)[Len(l) + 1] = e /\ \A m \in 1..Len(l) : Append(l, e)[m] = l[m]
  BY DEF ReminderLogs

(* The active records, event by event.                                     *)
LEMMA ActiveIs ==
  /\ Reminders!Active(<<>>) = NoReminders
  /\ \A l \in ReminderLogs, e \in ReminderEvents :
       /\ Reminders!Active(l) \in ActiveSets
       /\ Reminders!Active(Append(l, e)) = Reminders!Applied(Reminders!Active(l), e)
<1>1. Reminders!Active(<<>>) = NoReminders
  <2>1. <<>> \in ReminderLogs /\ Len(<<>>) = 0
    BY DEF ReminderLogs
  <2> QED BY <2>1, ActiveRuns
<1>2. ASSUME NEW l \in ReminderLogs, NEW e \in ReminderEvents
      PROVE  /\ Reminders!Active(l) \in ActiveSets
             /\ Reminders!Active(Append(l, e)) = Reminders!Applied(Reminders!Active(l), e)
  <2> DEFINE n == Len(l)
             k == Append(l, e)
  <2>1. /\ k \in ReminderLogs /\ Len(k) = n + 1 /\ n \in Nat /\ k[n + 1] = e
        /\ \A m \in 1..n : k[m] = l[m]
    BY LongerIs
  <2>2. PICK c \in [0..n -> ActiveSets] :
          /\ c[0] = NoReminders /\ Reminders!Active(l) = c[n]
          /\ \A m \in 1..n : c[m] = Reminders!Applied(c[m - 1], l[m])
    BY ActiveRuns
  <2> HIDE DEF k, n
  <2>3. PICK d \in [0..(n + 1) -> ActiveSets] :
          /\ d[0] = NoReminders /\ Reminders!Active(k) = d[n + 1]
          /\ \A m \in 1..(n + 1) : d[m] = Reminders!Applied(d[m - 1], k[m])
    BY <2>1, ActiveRuns
  <2>4. \A m \in 0..n : c[m] = d[m]
    <3>1. \A m \in 1..n : m \in 1..(n + 1) /\ k[m] = l[m]
      BY <2>1
    <3>2. \A m \in 1..n : c[m - 1] = d[m - 1] => c[m] = d[m]
      BY <3>1, <2>2, <2>3
    <3>3. c[0] = d[0]
      BY <2>2, <2>3
    <3>4. n \in Nat
      BY <2>1
    <3>5. SameSteps(n, c, d)
      BY <3>2, <3>3 DEF SameSteps
    <3> QED BY <3>4, <3>5, SameRun
  <2>5. n + 1 \in 1..(n + 1) /\ (n + 1) - 1 = n /\ n \in 0..n
    BY <2>1
  <2>6. d[n + 1] = Reminders!Applied(d[n], k[n + 1])
    BY <2>3, <2>5
  <2>7. c[n] \in ActiveSets /\ d[n] = c[n]
    BY <2>2, <2>4, <2>5
  <2> QED BY <2>1, <2>2, <2>3, <2>6, <2>7 DEF k
<1> QED BY <1>1, <1>2

-----------------------------------------------------------------------------
(* A log of reminders: identifiers are given out in order and once, and no *)
(* two active records share one.                                           *)
TidyAt(l) ==
  /\ Reminders!Active(l) \in SUBSET Reminded /\ IsFiniteSet(Reminders!Active(l))
  /\ \A x, y \in Reminders!Active(l) : x.rec = y.rec => x = y
  /\ \E k \in Nat : Reminders!Created(l) = 1..k
  /\ \A x \in Reminders!Active(l) : x.rec \in Reminders!Created(l)
(* The events the runtime and the tools append.                            *)
FitsIn(l, e) ==
  /\ e \in ReminderEvents
  /\ e.op = "create" => e.rec = Cardinality(Reminders!Created(l)) + 1
  /\ e.op # "create" => \E x \in Reminders!Active(l) :
       x.rec = e.rec /\ (e.op = "dispatch" => x.at <= e.at)

(* Each event of a log fitted, and each prefix is tidy.                    *)
Tidy(l) ==
  /\ l \in ReminderLogs /\ \A n \in 0..Len(l) : TidyAt(SubSeq(l, 1, n))
  /\ \A i \in 1..Len(l) : FitsIn(SubSeq(l, 1, i - 1), l[i])

(* An occurrence is past: its reminder's record holds a later one, or none.*)
PastAt(l, y) ==
  /\ y.rec \in Reminders!Created(l)
  /\ \A z \in Reminders!Active(l) : z.rec = y.rec => z.at > y.at
Past(l, y) == y.pos \in 1..Len(l) /\ \A n \in y.pos..Len(l) : PastAt(SubSeq(l, 1, n), y)

(* A log that grows creates what its new event creates.                    *)
LEMMA CreatedIs ==
  ASSUME NEW l \in ReminderLogs, NEW e \in ReminderEvents
  PROVE  Reminders!Created(Append(l, e)) =
           Reminders!Created(l) \cup (IF e.op = "create" THEN {e.rec} ELSE {})
<1> DEFINE k == Append(l, e)
           n == Len(l)
<1>1. /\ n \in Nat /\ DOMAIN k = 1..(n + 1) /\ DOMAIN l = 1..n /\ k[n + 1] = e
      /\ \A i \in 1..n : k[i] = l[i]
  BY DEF ReminderLogs
<1> HIDE DEF k, n
<1>2. Reminders!Created(k) = Reminders!Created(l) \cup (IF e.op = "create" THEN {e.rec} ELSE {})
  BY <1>1 DEF Reminders!Created
<1> QED BY <1>2 DEF k

(* The cardinality the instance speaks of is the usual one.                *)
LEMMA SameSets ==
  \A S : Reminders!Cardinality(S) = Cardinality(S)
         /\ (Reminders!IsFiniteSet(S) <=> IsFiniteSet(S))
<1>1. ASSUME NEW S PROVE Reminders!Cardinality(S) = Cardinality(S)
  BY DEF Reminders!Cardinality, Cardinality
<1>2. ASSUME NEW S PROVE Reminders!IsFiniteSet(S) <=> IsFiniteSet(S)
  BY DEF Reminders!IsFiniteSet, IsFiniteSet
<1> QED BY <1>1, <1>2

(* An event that fits keeps the log tidy and what is past past.            *)
LEMMA FitsKeeps ==
  ASSUME NEW l \in ReminderLogs, TidyAt(l), NEW e, FitsIn(l, e)
  PROVE  /\ TidyAt(Append(l, e))
         /\ \A y : PastAt(l, y) /\ y.at \in Int => PastAt(Append(l, e), y)
         /\ e.op = "dispatch" =>
              \A y : y.rec = e.rec /\ y.at \in Int /\ y.at <= e.at => PastAt(Append(l, e), y)
         /\ e.op = "dispatch" => \A z \in Reminders!Active(l) :
              z.rec # e.rec => z \in Reminders!Active(Append(l, e))
<1> DEFINE k == Append(l, e)
           a == Reminders!Active(l)
           b == Reminders!Active(k)
           c == Reminders!Created(l)
           d == Reminders!Created(k)
<1>1. e \in ReminderEvents /\ k \in ReminderLogs
  BY DEF FitsIn, ReminderLogs
<1>2. a \in SUBSET Reminded /\ b \in SUBSET Reminded /\ AppliedTo(a, e, b)
  BY <1>1, ActiveIs, AppliedIs DEF ActiveSets
<1>3. d = c \cup (IF e.op = "create" THEN {e.rec} ELSE {})
  BY <1>1, CreatedIs
<1>4. /\ e.op \in {"create", "delete", "dispatch"} /\ e.rec \in Nat /\ e.at \in Nat
      /\ e.op = "create" => e.every \in BOOLEAN
  BY <1>1, ReminderTypes
<1>5. PICK m \in Nat : c = 1..m
  BY DEF TidyAt
<1>6. /\ IsFiniteSet(a) /\ \A x, y \in a : x.rec = y.rec => x = y
      /\ \A x \in a : x.rec \in c
  BY DEF TidyAt
<1>7. /\ e.op = "create" => e.rec = m + 1
      /\ e.op # "create" => e.rec \in c
      /\ e.op = "dispatch" => \A x \in a : x.rec = e.rec => x.at <= e.at
  <2>1. Cardinality(c) = m
    BY <1>5, FS_Interval
  <2> QED BY <1>6, <2>1 DEF FitsIn
<1> HIDE DEF a, b, c, d, k
<1>8. \A z \in Reminded : z.at \in Nat /\ z.rec \in Nat
  BY DEF Reminded
<1>9. \A z \in a : z.every => /\ Reminders!Dispatched(z, e.at).rec = z.rec
                              /\ Reminders!Dispatched(z, e.at).at > e.at
  BY <1>2, <1>4, DispatchedIs
<1>10. \E f \in Nat : d = 1..f
  <2>1. CASE e.op = "create"
    <3>1. d = 1..(m + 1)
      BY <1>3, <1>5, <1>7, <2>1
    <3> QED BY <3>1
  <2>2. CASE e.op # "create"
    BY <1>3, <1>5, <2>2
  <2> QED BY <2>1, <2>2
<1>11. IsFiniteSet(b)
  <2>1. CASE e.op = "create"
    <3>1. b = a \cup {[rec |-> e.rec, every |-> e.every, at |-> e.at]}
      BY <1>2, <2>1 DEF AppliedTo
    <3> QED BY <1>6, <3>1, FS_AddElement
  <2>2. CASE e.op = "delete"
    <3>1. b \subseteq a
      BY <1>2, <2>2 DEF AppliedTo
    <3> QED BY <1>6, <3>1, FS_Subset
  <2>3. CASE e.op = "dispatch"
    <3> DEFINE g == {z \in a : z.rec # e.rec}
               h == {w \in a : w.rec = e.rec /\ w.every}
               i == {Reminders!Dispatched(z, e.at) : z \in h}
    <3>1. b = g \cup i
      BY <1>2, <2>3 DEF AppliedTo
    <3>2. IsFiniteSet(g)
      BY <1>6, FS_Subset
    <3>3. IsFiniteSet(i)
      <4>1. CASE h = {}
        BY <4>1, FS_EmptySet
      <4>2. CASE h # {}
        <5>1. PICK w \in h : TRUE
          BY <4>2
        <5>2. h = {w}
          BY <5>1, <1>6
        <5>3. i = {Reminders!Dispatched(w, e.at)}
          BY <5>2
        <5> HIDE DEF i
        <5> QED BY <5>3, FS_Singleton
      <4> QED BY <4>1, <4>2
    <3> HIDE DEF g, h, i
    <3> QED BY <3>1, <3>2, <3>3, FS_Union
  <2> QED BY <1>4, <2>1, <2>2, <2>3
(* Each record after the event: kept, new, or moved.                       *)
<1>12. \A z \in b : \/ z \in a
                    \/ e.op = "create" /\ z.rec = e.rec
                    \/ e.op = "dispatch" /\ z.rec = e.rec /\ z.at > e.at
                       /\ \E w \in a : w.rec = e.rec /\ z = Reminders!Dispatched(w, e.at)
  <2>1. CASE e.op = "create"
    <3>1. b = a \cup {[rec |-> e.rec, every |-> e.every, at |-> e.at]}
      BY <1>2, <2>1 DEF AppliedTo
    <3> QED BY <2>1, <3>1
  <2>2. CASE e.op = "delete"
    BY <1>2, <2>2 DEF AppliedTo
  <2>3. CASE e.op = "dispatch"
    <3>1. b = {z \in a : z.rec # e.rec}
                \cup {Reminders!Dispatched(z, e.at) : z \in {w \in a : w.rec = e.rec /\ w.every}}
      BY <1>2, <2>3 DEF AppliedTo
    <3> QED BY <2>3, <3>1, <1>9
  <2> QED BY <1>4, <2>1, <2>2, <2>3
<1>13. e.op = "dispatch" => \A z \in b : z.rec = e.rec => z.at > e.at
  <2>1. ASSUME e.op = "dispatch"
        PROVE  b = {z \in a : z.rec # e.rec}
                \cup {Reminders!Dispatched(z, e.at) : z \in {w \in a : w.rec = e.rec /\ w.every}}
    BY <1>2, <2>1 DEF AppliedTo
  <2> QED BY <2>1, <1>9
<1>14. e.op = "dispatch" => \A z \in a : z.rec # e.rec => z \in b
  BY <1>2 DEF AppliedTo
<1>15. \A x, y \in b : x.rec = y.rec => x = y
  <2> SUFFICES ASSUME NEW x \in b, NEW y \in b, x.rec = y.rec PROVE x = y
    OBVIOUS
  <2>1. CASE e.op = "create"
    <3>1. b = a \cup {[rec |-> e.rec, every |-> e.every, at |-> e.at]}
      BY <1>2, <2>1 DEF AppliedTo
    <3>2. \A z \in a : z.rec # e.rec
      BY <1>5, <1>6, <1>7, <2>1
    <3> QED BY <1>6, <3>1, <3>2
  <2>2. CASE e.op = "delete"
    BY <1>2, <1>6, <2>2 DEF AppliedTo
  <2>3. CASE e.op = "dispatch"
    <3>1. b = {z \in a : z.rec # e.rec}
                \cup {Reminders!Dispatched(z, e.at) : z \in {w \in a : w.rec = e.rec /\ w.every}}
      BY <1>2, <2>3 DEF AppliedTo
    <3> QED BY <3>1, <1>6, <1>9
  <2> QED BY <1>4, <2>1, <2>2, <2>3
<1>16. \A x \in b : x.rec \in d
  BY <1>3, <1>6, <1>7, <1>12
<1>17. TidyAt(k)
  BY <1>2, <1>10, <1>11, <1>15, <1>16 DEF TidyAt, b, d
<1>18. ASSUME NEW y, PastAt(l, y), y.at \in Int PROVE PastAt(k, y)
  <2>1. y.rec \in c /\ \A z \in a : z.rec = y.rec => z.at > y.at
    BY <1>18 DEF PastAt, a, c
  <2>2. y.rec \in d
    BY <1>3, <2>1
  <2>3. ASSUME NEW z \in b, z.rec = y.rec PROVE z.at > y.at
    <3>1. CASE z \in a
      BY <2>1, <2>3, <3>1
    <3>2. CASE e.op = "create" /\ z.rec = e.rec
      BY <1>5, <1>7, <2>1, <2>3, <3>2
    <3>3. CASE e.op = "dispatch" /\ z.rec = e.rec /\ z.at > e.at
               /\ \E w \in a : w.rec = e.rec /\ z = Reminders!Dispatched(w, e.at)
      <4>1. PICK w \in a : w.rec = e.rec
        BY <3>3
      <4>2. w.at > y.at /\ w.at <= e.at /\ w.at \in Nat /\ z.at \in Nat
        BY <1>2, <1>7, <1>8, <2>1, <2>3, <3>3, <4>1
      <4> QED BY <1>18, <1>4, <3>3, <4>2
    <3> QED BY <1>12, <3>1, <3>2, <3>3
  <2> QED BY <2>2, <2>3 DEF PastAt, b, d
<1>19. ASSUME e.op = "dispatch", NEW y, y.rec = e.rec, y.at \in Int, y.at <= e.at
       PROVE  PastAt(k, y)
  <2>1. y.rec \in d
    BY <1>3, <1>7, <1>19
  <2>2. ASSUME NEW z \in b, z.rec = y.rec PROVE z.at > y.at
    <3>1. z.at > e.at /\ z.at \in Nat /\ e.at \in Nat
      BY <1>2, <1>4, <1>8, <1>13, <1>19, <2>2
    <3> QED BY <1>19, <3>1
  <2> QED BY <2>1, <2>2 DEF PastAt, b, d
<1> QED BY <1>14, <1>17, <1>18, <1>19 DEF k, a, b

(* A prefix of a tidy log is tidy; what its events made past stays past.   *)
LEMMA TidyPrefix ==
  ASSUME NEW l, Tidy(l), NEW n \in 0..Len(l)
  PROVE  /\ Tidy(SubSeq(l, 1, n)) /\ Len(SubSeq(l, 1, n)) = n
         /\ \A y : Past(l, y) /\ y.pos <= n => Past(SubSeq(l, 1, n), y)
<1> DEFINE k == SubSeq(l, 1, n)
<1>1. l \in ReminderLogs /\ Len(l) \in Nat /\ n \in 0..Len(l) /\ n \in Nat
  BY DEF Tidy, ReminderLogs
<1>2. k \in ReminderLogs /\ Len(k) = n
  BY <1>1 DEF ReminderLogs
<1>3. ASSUME NEW j \in 0..n PROVE SubSeq(k, 1, j) = SubSeq(l, 1, j) /\ j \in 0..Len(l)
  BY <1>1 DEF ReminderLogs
<1> HIDE DEF k
<1>4. Tidy(k)
  <2>1. ASSUME NEW i \in 1..n
        PROVE  /\ i \in 1..Len(l) /\ i - 1 \in 0..n /\ l[i] = k[i]
               /\ SubSeq(k, 1, i - 1) = SubSeq(l, 1, i - 1)
    <3>1. i \in 1..Len(l) /\ i - 1 \in 0..n
      BY <1>1
    <3>2. l[i] = k[i]
      BY <1>1, <3>1 DEF k, ReminderLogs
    <3> QED BY <1>3, <3>1, <3>2
  <2>2. \A i \in 1..n : FitsIn(SubSeq(k, 1, i - 1), k[i])
    BY <2>1 DEF Tidy
  <2>3. \A j \in 0..n : TidyAt(SubSeq(k, 1, j))
    BY <1>3 DEF Tidy
  <2> QED BY <1>2, <2>2, <2>3 DEF Tidy
<1>5. ASSUME NEW y, Past(l, y), y.pos <= n PROVE Past(k, y)
  <2>1. y.pos \in 1..n
    BY <1>1, <1>5 DEF Past
  <2>2. ASSUME NEW j \in y.pos..n PROVE PastAt(SubSeq(k, 1, j), y)
    <3>1. j \in 0..n /\ j \in y.pos..Len(l)
      BY <1>1, <2>1
    <3> QED BY <1>3, <1>5, <3>1 DEF Past
  <2> QED BY <1>2, <2>1, <2>2 DEF Past
<1> QED BY <1>2, <1>4, <1>5 DEF k

(* A tidy log is tidy as it stands, and what is past is past now.          *)
LEMMA TidyNow ==
  ASSUME NEW l, Tidy(l)
  PROVE  l \in ReminderLogs /\ Len(l) \in Nat /\ TidyAt(l) /\ \A y : Past(l, y) => PastAt(l, y)
<1>1. l \in ReminderLogs /\ Len(l) \in Nat /\ SubSeq(l, 1, Len(l)) = l
  BY DEF Tidy, ReminderLogs
<1>2. TidyAt(l)
  <2>1. Len(l) \in 0..Len(l)
    BY <1>1
  <2>2. TidyAt(SubSeq(l, 1, Len(l)))
    BY <2>1 DEF Tidy
  <2> QED BY <1>1, <2>2
<1>3. ASSUME NEW y, Past(l, y) PROVE PastAt(l, y)
  <2>1. Len(l) \in y.pos..Len(l)
    BY <1>1, <1>3 DEF Past
  <2> QED BY <1>1, <1>3, <2>1 DEF Past
<1> QED BY <1>1, <1>2, <1>3

(* The same of a log that grows by an event that fits.                     *)
LEMMA TidyGrows ==
  ASSUME NEW l, Tidy(l), NEW e, FitsIn(l, e)
  PROVE  /\ Tidy(Append(l, e)) /\ Len(Append(l, e)) = Len(l) + 1
         /\ \A y : Past(l, y) /\ y.at \in Int => Past(Append(l, e), y)
         /\ e.op = "dispatch" =>
              \A y : /\ y.rec = e.rec /\ y.at \in Int /\ y.at <= e.at /\ y.pos = Len(l) + 1
                     => Past(Append(l, e), y)
         /\ e.op = "dispatch" => \A z \in Reminders!Active(l) :
              z.rec # e.rec => z \in Reminders!Active(Append(l, e))
<1> DEFINE k == Append(l, e)
           n == Len(l)
<1>1. l \in ReminderLogs /\ n \in Nat /\ TidyAt(l) /\ \A y : Past(l, y) => PastAt(l, y)
  BY TidyNow
<1>2. e \in ReminderEvents
  BY DEF FitsIn
<1>3. /\ k \in ReminderLogs /\ Len(k) = n + 1 /\ SubSeq(k, 1, n + 1) = k
      /\ k[n + 1] = e /\ SubSeq(k, 1, n) = l
      /\ \A j \in 0..n : SubSeq(k, 1, j) = SubSeq(l, 1, j)
      /\ \A i \in 1..n : k[i] = l[i]
  BY <1>1, <1>2 DEF ReminderLogs
<1>4. /\ TidyAt(k)
      /\ \A y : PastAt(l, y) /\ y.at \in Int => PastAt(k, y)
      /\ e.op = "dispatch" =>
           \A y : y.rec = e.rec /\ y.at \in Int /\ y.at <= e.at => PastAt(k, y)
      /\ e.op = "dispatch" => \A z \in Reminders!Active(l) :
           z.rec # e.rec => z \in Reminders!Active(k)
  BY <1>1, FitsKeeps
<1>5. n = Len(l)
  OBVIOUS
<1> HIDE DEF k, n
<1>6. Tidy(k)
  <2>1. ASSUME NEW j \in 0..(n + 1) PROVE TidyAt(SubSeq(k, 1, j))
    <3>1. CASE j = n + 1
      BY <3>1, <1>3, <1>4
    <3>2. CASE j \in 0..n
      BY <3>2, <1>3, <1>5 DEF Tidy
    <3> QED BY <1>1, <3>1, <3>2
  <2>2. ASSUME NEW i \in 1..(n + 1) PROVE FitsIn(SubSeq(k, 1, i - 1), k[i])
    <3>1. CASE i = n + 1
      <4>1. (n + 1) - 1 = n
        BY <1>1
      <4> QED BY <1>3, <3>1, <4>1
    <3>2. CASE i \in 1..n
      <4>1. i - 1 \in 0..n
        BY <1>1, <3>2
      <4> QED BY <3>2, <4>1, <1>3, <1>5 DEF Tidy
    <3> QED BY <1>1, <3>1, <3>2
  <2> QED BY <1>3, <2>1, <2>2 DEF Tidy
<1>7. ASSUME NEW y, Past(l, y), y.at \in Int PROVE Past(k, y)
  <2>1. y.pos \in 1..n /\ \A j \in y.pos..n : PastAt(SubSeq(l, 1, j), y)
    BY <1>5, <1>7 DEF Past
  <2>2. ASSUME NEW j \in y.pos..(n + 1) PROVE PastAt(SubSeq(k, 1, j), y)
    <3>1. CASE j = n + 1
      BY <3>1, <1>1, <1>3, <1>4, <1>7
    <3>2. CASE j \in y.pos..n
      <4>1. j \in 0..n
        BY <1>1, <2>1, <3>2
      <4> QED BY <3>2, <4>1, <2>1, <1>3
    <3> QED BY <1>1, <2>1, <3>1, <3>2
  <2>3. y.pos \in 1..(n + 1)
    BY <1>1, <2>1
  <2> QED BY <1>3, <2>2, <2>3 DEF Past
<1>8. ASSUME e.op = "dispatch", NEW y, y.rec = e.rec, y.at \in Int, y.at <= e.at, y.pos = n + 1
      PROVE  Past(k, y)
  <2>1. PastAt(k, y)
    BY <1>4, <1>8
  <2>2. \A j \in (n + 1)..(n + 1) : j = n + 1
    BY <1>1
  <2>3. n + 1 \in 1..(n + 1)
    BY <1>1
  <2> QED BY <1>3, <1>8, <2>1, <2>2, <2>3 DEF Past
<1> QED BY <1>3, <1>4, <1>6, <1>7, <1>8 DEF k, n

-----------------------------------------------------------------------------
(* One maintenance job: the due reminders in their order, and the events   *)
(* and messages about the first of them.                                   *)
DispatchOf(x) == [op |-> "dispatch", rec |-> x.rec, at |-> now]
Message(l, due, n, i) ==
  [rec |-> due[i].rec, at |-> Reminders!Occurrence(due[i], now), lost |-> FALSE,
   pos |-> IF i <= n THEN Len(l) + i ELSE 0]
Batch(l, due, n) == l \o [i \in 1..n |-> DispatchOf(due[i])]

(* A batch is one dispatch longer than the batch before it.                *)
LEMMA BatchGrows ==
  ASSUME NEW l \in ReminderLogs, now \in Nat, NEW due, NEW n \in Nat,
         \A i \in 1..(n + 1) : due[i] \in Reminded
  PROVE  /\ Batch(l, due, 0) = l
         /\ Batch(l, due, n + 1) = Append(Batch(l, due, n), DispatchOf(due[n + 1]))
         /\ Batch(l, due, n) \in ReminderLogs /\ Len(Batch(l, due, n)) = Len(l) + n
         /\ DispatchOf(due[n + 1]) \in ReminderEvents
<1>1. \A i \in 1..(n + 1) : DispatchOf(due[i]) \in ReminderEvents
  BY DEF DispatchOf, ReminderEvents, Reminded
<1> DEFINE d == [i \in 1..n |-> DispatchOf(due[i])]
           f == [i \in 1..(n + 1) |-> DispatchOf(due[i])]
           g == [i \in 1..0 |-> DispatchOf(due[i])]
           x == DispatchOf(due[n + 1])
<1>2. d \in Seq(ReminderEvents) /\ Len(d) = n
  BY <1>1
<1>3. f \in Seq(ReminderEvents) /\ Len(f) = n + 1 /\ g = <<>>
  BY <1>1
<1>4. x \in ReminderEvents
  BY <1>1
<1>5. f[n + 1] = x /\ \A i \in 1..n : f[i] = d[i]
  OBVIOUS
<1>6. Batch(l, due, n) = l \o d /\ Batch(l, due, n + 1) = l \o f /\ Batch(l, due, 0) = l \o g
  BY DEF Batch
<1> HIDE DEF d, f, g, x
<1>7. l \in Seq(ReminderEvents)
  BY DEF ReminderLogs
<1>8. l \o g = l
  BY <1>3, <1>7
<1>9. l \o d \in Seq(ReminderEvents) /\ Len(l \o d) = Len(l) + n
  BY <1>2, <1>7
<1>10. f = Append(d, x)
  <2>1. Append(d, x) \in Seq(ReminderEvents) /\ Len(Append(d, x)) = n + 1
        /\ \A i \in 1..(n + 1) : Append(d, x)[i] = f[i]
    BY <1>2, <1>4, <1>5
  <2> DEFINE h == Append(d, x)
  <2> HIDE DEF h
  <2>2. h \in Seq(ReminderEvents) /\ Len(h) = Len(f) /\ \A i \in 1..Len(h) : h[i] = f[i]
    BY <1>3, <2>1 DEF h
  <2>3. h = f
    BY <1>3, <2>2
  <2> QED BY <2>3 DEF h
<1>11. l \o Append(d, x) = Append(l \o d, x)
  BY <1>2, <1>4, <1>7
<1> QED BY <1>4, <1>6, <1>8, <1>9, <1>10, <1>11 DEF x, ReminderLogs

(* What is due is active and due.                                          *)
LEMMA DueIs ==
  ASSUME NEW a \in SUBSET Reminded, NEW x \in Reminders!Due(a)
  PROVE  x \in a /\ x.at <= now
<1> DEFINE due == {y \in a : y.at <= now}
           shots == {y \in due : ~y.every}
           first == CHOOSE y \in shots : \A z \in shots : Reminders!Earlier(y, z)
<1>1. Reminders!Due(a) = IF shots # {} THEN {first} ELSE due
  BY DEF Reminders!Due
<1>2. shots # {} => first \in shots
  <2> SUFFICES ASSUME shots # {} PROVE \E y \in shots : \A z \in shots : Reminders!Earlier(y, z)
    BY Zenon
  <2>1. \A y \in shots : y.at \in Nat /\ y.rec \in Nat
    BY DEF Reminded
  <2> HIDE DEF shots
  <2> DEFINE T == {y.at : y \in shots}
  <2>2. T \in SUBSET Nat /\ T # {}
    BY <2>1
  <2>3. PICK t \in T : \A u \in T : t <= u
    <3> HIDE DEF T
    <3> QED BY <2>2, LeastIn
  <2> DEFINE R == {y.rec : y \in {z \in shots : z.at = t}}
  <2>4. R \in SUBSET Nat /\ R # {}
    BY <2>1, <2>3
  <2>5. PICK r \in R : \A u \in R : r <= u
    <3> HIDE DEF R
    <3> QED BY <2>4, LeastIn
  <2>6. PICK y \in shots : y.at = t /\ y.rec = r
    BY <2>5
  <2>7. ASSUME NEW z \in shots PROVE Reminders!Earlier(y, z)
    <3>1. t <= z.at /\ t \in Nat /\ z.at \in Nat
      BY <2>1, <2>2, <2>3
    <3>2. z.at = t => r <= z.rec
      BY <2>5
    <3> QED BY <2>6, <3>1, <3>2 DEF Reminders!Earlier
  <2> QED BY <2>7
<1> HIDE DEF first
<1> QED BY <1>1, <1>2

(* The batch keeps the log tidy and makes past what it tells.              *)
LEMMA BatchIs ==
  ASSUME NEW l, Tidy(l), now \in Nat, NEW c \in Nat, NEW n \in 0..c, NEW due,
         \A i \in 1..c : due[i] \in Reminders!Active(l) /\ due[i].at <= now,
         \A i, j \in 1..c : i < j => due[i] # due[j]
  PROVE  /\ Tidy(Batch(l, due, n)) /\ Len(Batch(l, due, n)) = Len(l) + n
         /\ \A y : Past(l, y) /\ y.at \in Int => Past(Batch(l, due, n), y)
         /\ \A i \in 1..n : Past(Batch(l, due, n), Message(l, due, n, i))
<1> DEFINE b(m) == Batch(l, due, m)
           P(m) == /\ Tidy(b(m)) /\ Len(b(m)) = Len(l) + m
                   /\ \A y : Past(l, y) /\ y.at \in Int => Past(b(m), y)
                   /\ \A i \in 1..m : Past(b(m), Message(l, due, n, i))
                   /\ \A i \in (m + 1)..c : due[i] \in Reminders!Active(b(m))
           T == {m \in Nat : m <= n => P(m)}
<1>1. /\ l \in ReminderLogs /\ Len(l) \in Nat /\ TidyAt(l) /\ n \in Nat
      /\ \A i \in 1..c : due[i] \in Reminded
  <2>1. l \in ReminderLogs /\ Len(l) \in Nat /\ TidyAt(l)
    BY TidyNow
  <2> QED BY <2>1 DEF TidyAt
<1>2. ASSUME NEW i \in 1..c
      PROVE  /\ Message(l, due, n, i).rec = due[i].rec
             /\ Message(l, due, n, i).at \in Int /\ Message(l, due, n, i).at <= now
             /\ Message(l, due, n, i).pos = IF i <= n THEN Len(l) + i ELSE 0
  <2>1. Reminders!Occurrence(due[i], now) \in Int /\ Reminders!Occurrence(due[i], now) <= now
    BY <1>1, DispatchedIs
  <2> QED BY <2>1 DEF Message
<1>3. P(0)
  <2>1. b(0) = l
    <3>1. CASE c = 0
      <4>1. [i \in 1..0 |-> DispatchOf(due[i])] = <<>>
        OBVIOUS
      <4>2. l \o <<>> = l
        BY <1>1 DEF ReminderLogs
      <4> QED BY <4>1, <4>2 DEF Batch
    <3>2. CASE c # 0
      <4>1. \A i \in 1..(0 + 1) : due[i] \in Reminded
        BY <1>1, <3>2
      <4> QED BY <1>1, <4>1, BatchGrows
    <3> QED BY <3>1, <3>2
  <2> HIDE DEF b
  <2> QED BY <2>1, <1>1
<1>4. ASSUME NEW m \in Nat, m + 1 <= n, P(m)
      PROVE  P(m + 1)
  <2> DEFINE e == DispatchOf(due[m + 1])
  <2>1. m + 1 \in 1..c /\ \A i \in 1..(m + 1) : due[i] \in Reminded /\ i \in 1..c
    BY <1>1, <1>4
  <2>2. b(m + 1) = Append(b(m), e) /\ e \in ReminderEvents
    BY <1>1, <2>1, BatchGrows
  <2>3. e.op = "dispatch" /\ e.rec = due[m + 1].rec /\ e.at = now
    BY DEF DispatchOf
  <2> HIDE DEF e, b
  <2>4. due[m + 1] \in Reminders!Active(b(m)) /\ due[m + 1].at <= now
    BY <2>1, <1>4
  <2>5. FitsIn(b(m), e)
    BY <2>2, <2>3, <2>4 DEF FitsIn
  <2>6. /\ Tidy(b(m + 1)) /\ Len(b(m + 1)) = Len(b(m)) + 1
        /\ \A y : Past(b(m), y) /\ y.at \in Int => Past(b(m + 1), y)
        /\ \A y : /\ y.rec = e.rec /\ y.at \in Int /\ y.at <= e.at /\ y.pos = Len(b(m)) + 1
                  => Past(b(m + 1), y)
        /\ \A z \in Reminders!Active(b(m)) : z.rec # e.rec => z \in Reminders!Active(b(m + 1))
    BY <1>4, <2>2, <2>3, <2>5, TidyGrows
  <2>7. Len(b(m + 1)) = Len(l) + (m + 1)
    BY <1>1, <1>4, <2>6
  <2>8. \A y : Past(l, y) /\ y.at \in Int => Past(b(m + 1), y)
    BY <1>4, <2>6
  <2>9. ASSUME NEW i \in 1..(m + 1) PROVE Past(b(m + 1), Message(l, due, n, i))
    <3>1. CASE i = m + 1
      <4>1. Message(l, due, n, i).pos = Len(b(m)) + 1
        BY <1>1, <1>2, <1>4, <2>1, <3>1
      <4> QED BY <1>2, <2>1, <2>3, <2>6, <3>1, <4>1
    <3>2. CASE i # m + 1
      <4>1. i \in 1..m
        BY <3>2
      <4> QED BY <1>2, <1>4, <2>1, <2>6, <4>1
    <3> QED BY <3>1, <3>2
  <2>10. ASSUME NEW i \in ((m + 1) + 1)..c PROVE due[i] \in Reminders!Active(b(m + 1))
    <3>1. i \in (m + 1)..c /\ i \in 1..c /\ m + 1 < i
      BY <1>1, <1>4
    <3>2. due[i] \in Reminders!Active(b(m)) /\ due[i] # due[m + 1]
      BY <1>4, <2>1, <3>1
    <3>3. due[i].rec # due[m + 1].rec
      <4>1. TidyAt(b(m))
        BY <1>4, TidyNow
      <4> QED BY <2>4, <3>2, <4>1 DEF TidyAt
    <3> QED BY <2>3, <2>6, <3>2, <3>3
  <2> QED BY <2>6, <2>7, <2>8, <2>9, <2>10
<1> HIDE DEF P
<1>5. 0 \in T /\ \A m \in Nat : m \in T => m + 1 \in T
  BY <1>1, <1>3, <1>4
<1>6. Nat \subseteq T
  <2> HIDE DEF T
  <2> QED BY <1>5, SetInduction
<1>7. P(n)
  BY <1>1, <1>6
<1> QED BY <1>7 DEF P

-----------------------------------------------------------------------------
(* The runtime and its chain of transactions.                              *)
Runs(r) ==
  /\ r = [run |-> r.run, requested |-> r.requested, timer |-> r.timer, idleWait |-> r.idleWait,
          stopping |-> r.stopping, faulted |-> r.faulted, failed |-> r.failed]
  /\ r.run \in {"none", "active", "ending"} /\ r.faulted \in {"no", "log", "append"}
Transactions ==
  [op : {"drive", "create", "delete", "list"}, stage : {"queued", "preflight", "barrier"},
   upto : Nat, rec : Nat, delay : Nat, every : BOOLEAN]

(* Only the first transaction is under way, and its checkpoint covers the  *)
(* whole log; at most one is a drive, of a runtime that runs and has no    *)
(* fault.                                                                  *)
Waiting(c) == \A i \in DOMAIN c : c[i].stage = "queued"
OneDrive(c) == \A i, j \in DOMAIN c : c[i].op = "drive" /\ c[j].op = "drive" => i = j
Drives(c) == \E i \in DOMAIN c : c[i].op = "drive"
Chained(c, r, l) ==
  /\ Runs(r) /\ c \in Seq(Transactions) /\ OneDrive(c)
  /\ \A i \in DOMAIN c : i # 1 => c[i].stage = "queued"
  /\ c # <<>> /\ c[1].stage # "queued" => c[1].upto = Len(l)
  /\ Drives(c) => r.run = "active" /\ r.faulted = "no"

(* A new transaction waits.                                                *)
LEMMA NewTxn ==
  \A op \in {"drive", "create", "delete", "list"} :
    /\ Reminders!Txn(op) \in Transactions /\ Reminders!Txn(op).op = op
    /\ Reminders!Txn(op).stage = "queued"
BY DEF Reminders!Txn, Transactions

(* The chain without its first transaction, and with one more.             *)
LEMMA ChainTail ==
  ASSUME NEW c \in Seq(Transactions), c # <<>>, OneDrive(c),
         \A i \in DOMAIN c : i # 1 => c[i].stage = "queued"
  PROVE  /\ Tail(c) \in Seq(Transactions) /\ OneDrive(Tail(c)) /\ Waiting(Tail(c))
         /\ c[1].op = "drive" => ~Drives(Tail(c))
         /\ Drives(Tail(c)) => Drives(c)
<1> DEFINE d == Tail(c)
<1>1. /\ d \in Seq(Transactions)
      /\ \A i \in DOMAIN d : i + 1 \in DOMAIN c /\ d[i] = c[i + 1] /\ i \in Nat /\ i + 1 # 1
  OBVIOUS
<1>2. 1 \in DOMAIN c
  OBVIOUS
<1> HIDE DEF d
<1>3. OneDrive(d)
  <2> SUFFICES ASSUME NEW i \in DOMAIN d, NEW j \in DOMAIN d, d[i].op = "drive", d[j].op = "drive"
               PROVE  i = j
    BY DEF OneDrive
  <2>1. i + 1 = j + 1
    BY <1>1 DEF OneDrive
  <2> QED BY <1>1, <2>1
<1>4. Waiting(d)
  BY <1>1 DEF Waiting
<1>5. c[1].op = "drive" => ~Drives(d)
  BY <1>1, <1>2 DEF OneDrive, Drives
<1>6. Drives(d) => Drives(c)
  BY <1>1 DEF Drives
<1> QED BY <1>1, <1>3, <1>4, <1>5, <1>6 DEF d

(* One more transaction waits behind the others.                           *)
LEMMA ChainMore ==
  ASSUME NEW c \in Seq(Transactions), OneDrive(c), NEW t \in Transactions, t.stage = "queued",
         t.op = "drive" => ~Drives(c)
  PROVE  /\ Append(c, t) \in Seq(Transactions) /\ OneDrive(Append(c, t))
         /\ Waiting(c) => Waiting(Append(c, t))
         /\ (\A i \in DOMAIN c : i # 1 => c[i].stage = "queued") =>
              \A i \in DOMAIN Append(c, t) : i # 1 => Append(c, t)[i].stage = "queued"
         /\ Drives(Append(c, t)) => Drives(c) \/ t.op = "drive"
         /\ Append(c, t)[1] = IF c = <<>> THEN t ELSE c[1]
<1> DEFINE d == Append(c, t)
<1>1. /\ d \in Seq(Transactions)
      /\ \A i \in DOMAIN d :
           \/ i \in DOMAIN c /\ d[i] = c[i]
           \/ i = Len(c) + 1 /\ i \notin DOMAIN c /\ d[i] = t
  OBVIOUS
<1>2. d[1] = IF c = <<>> THEN t ELSE c[1]
  OBVIOUS
<1> HIDE DEF d
<1>3. OneDrive(d)
  BY <1>1 DEF OneDrive, Drives
<1>4. Waiting(c) => Waiting(d)
  BY <1>1 DEF Waiting
<1>5. (\A i \in DOMAIN c : i # 1 => c[i].stage = "queued") =>
        \A i \in DOMAIN d : i # 1 => d[i].stage = "queued"
  BY <1>1
<1>6. Drives(d) => Drives(c) \/ t.op = "drive"
  BY <1>1 DEF Drives
<1> QED BY <1>1, <1>2, <1>3, <1>4, <1>5, <1>6 DEF d

(* A request for a drive adds one only where none is in the chain.         *)
LEMMA WakeKeeps ==
  ASSUME NEW r, NEW c, NEW l, Chained(c, r, l), Reminders!Wake(r, c)
  PROVE  Chained(chain', runtime', l) /\ runtime'.faulted = r.faulted
<1>1. CASE runtime' = r /\ chain' = c
  BY <1>1
<1>2. CASE runtime' = [r EXCEPT !.timer = Reminders!Off, !.requested = TRUE] /\ chain' = c
  <2>1. Runs(runtime') /\ runtime'.run = r.run /\ runtime'.faulted = r.faulted
    BY <1>2 DEF Chained, Runs
  <2> QED BY <1>2, <2>1 DEF Chained
<1>3. CASE /\ r.run = "none" /\ r.faulted = "no"
           /\ runtime' = [r EXCEPT !.timer = Reminders!Off, !.run = "active"]
           /\ chain' = Append(c, Reminders!Txn("drive"))
  <2>1. Runs(runtime') /\ runtime'.run = "active" /\ runtime'.faulted = "no"
    BY <1>3 DEF Chained, Runs
  <2> DEFINE t == Reminders!Txn("drive")
  <2>2. t \in Transactions /\ t.op = "drive" /\ t.stage = "queued"
    BY NewTxn
  <2>3. chain' = Append(c, t)
    BY <1>3
  <2> HIDE DEF t
  <2>4. c \in Seq(Transactions) /\ OneDrive(c) /\ ~Drives(c)
    BY <1>3 DEF Chained
  <2>5. /\ chain' \in Seq(Transactions) /\ OneDrive(chain')
        /\ chain'[1] = IF c = <<>> THEN t ELSE c[1]
        /\ \A i \in DOMAIN chain' : i # 1 => chain'[i].stage = "queued"
    BY <2>2, <2>3, <2>4, ChainMore DEF Chained
  <2> QED BY <1>3, <2>1, <2>2, <2>5 DEF Chained
<1> QED BY <1>1, <1>2, <1>3 DEF Reminders!Wake, Reminders!Runnable

(* A drive that ends adds at most the next one, in its own place.          *)
LEMMA EndDriveKeeps ==
  ASSUME NEW r, NEW l, NEW m, Chained(chain, runtime, m), chain # <<>>, chain[1].op = "drive",
         Runs(r), r.run = runtime.run, Reminders!EndDrive(r)
  PROVE  Chained(chain', runtime', l) /\ runtime'.faulted = r.faulted
<1>1. /\ Tail(chain) \in Seq(Transactions) /\ OneDrive(Tail(chain)) /\ Waiting(Tail(chain))
      /\ ~Drives(Tail(chain))
  BY ChainTail DEF Chained
<1>2. r.run = "active"
  <2>1. 1 \in DOMAIN chain
    BY DEF Chained
  <2> QED BY <2>1 DEF Chained, Drives
<1>3. CASE /\ r.faulted = "no" /\ runtime' = [r EXCEPT !.requested = FALSE]
           /\ chain' = Append(Tail(chain), Reminders!Txn("drive"))
  <2>1. Runs(runtime') /\ runtime'.run = "active" /\ runtime'.faulted = "no"
    BY <1>2, <1>3 DEF Runs
  <2> DEFINE t == Reminders!Txn("drive")
             c == Tail(chain)
  <2>2. t \in Transactions /\ t.op = "drive" /\ t.stage = "queued"
    BY NewTxn
  <2>3. chain' = Append(c, t)
    BY <1>3
  <2> HIDE DEF t, c
  <2>4. c \in Seq(Transactions) /\ OneDrive(c) /\ Waiting(c) /\ ~Drives(c)
    BY <1>1 DEF c
  <2>5. chain' \in Seq(Transactions) /\ OneDrive(chain') /\ Waiting(chain')
    BY <2>2, <2>3, <2>4, ChainMore
  <2>6. chain' # <<>> => 1 \in DOMAIN chain'
    BY <2>5
  <2> QED BY <1>3, <2>1, <2>5, <2>6 DEF Chained, Waiting
<1>4. CASE runtime' = [r EXCEPT !.run = "ending"] /\ chain' = Tail(chain)
  <2>1. Runs(runtime') /\ runtime'.faulted = r.faulted
    BY <1>4 DEF Runs
  <2>2. chain' # <<>> => 1 \in DOMAIN chain'
    BY <1>1, <1>4
  <2> QED BY <1>1, <1>4, <2>1, <2>2 DEF Chained, Waiting
<1> QED BY <1>3, <1>4 DEF Reminders!EndDrive, Reminders!Runnable

(* The first transaction reaches a checkpoint that covers the log.         *)
LEMMA EntersKeeps ==
  ASSUME NEW r, NEW l \in Seq(ReminderEvents), NEW m, Chained(chain, runtime, m), chain # <<>>,
         Runs(r), r.run = runtime.run, r.faulted = runtime.faulted,
         NEW s \in {"preflight", "barrier"}
  PROVE  Chained(Reminders!Enters(s, l), r, l)
<1> DEFINE c == chain
           d == Reminders!Enters(s, l)
<1>1. c \in Seq(Transactions) /\ c # <<>> /\ OneDrive(c) /\ Len(l) \in Nat
      /\ \A i \in DOMAIN c : i # 1 => c[i].stage = "queued"
  BY DEF Chained
<1>2. d = [c EXCEPT ![1] = [c[1] EXCEPT !.stage = s, !.upto = Len(l)]]
  BY DEF Reminders!Enters
<1>3. 1 \in DOMAIN c /\ c[1] \in Transactions
  BY <1>1
<1> DEFINE t == [c[1] EXCEPT !.stage = s, !.upto = Len(l)]
<1>4. t \in Transactions /\ t.op = c[1].op /\ t.upto = Len(l)
  BY <1>1, <1>3 DEF Transactions
<1>5. d = [c EXCEPT ![1] = t]
  BY <1>2
<1> HIDE DEF t, d
<1>6. d \in Seq(Transactions) /\ DOMAIN d = DOMAIN c /\ d[1] = t
      /\ \A i \in DOMAIN c : i # 1 => d[i] = c[i]
  BY <1>1, <1>3, <1>4, <1>5
<1>7. \A i \in DOMAIN c : d[i].op = c[i].op
  BY <1>4, <1>6
<1>8. OneDrive(d) /\ (Drives(d) => Drives(c))
  BY <1>1, <1>6, <1>7 DEF OneDrive, Drives
<1> QED BY <1>1, <1>4, <1>6, <1>8 DEF Chained, d

(* A tool's transaction settles.                                           *)
LEMMA SettlesKeeps ==
  ASSUME NEW l, NEW m, NEW r, Chained(chain, runtime, m), chain # <<>>, Runs(r),
         r.run = runtime.run, r.faulted = runtime.faulted
  PROVE  Chained(Tail(chain), r, l)
<1>1. /\ Tail(chain) \in Seq(Transactions) /\ OneDrive(Tail(chain)) /\ Waiting(Tail(chain))
      /\ Drives(Tail(chain)) => Drives(chain)
  BY ChainTail DEF Chained
<1>2. Tail(chain) # <<>> => 1 \in DOMAIN Tail(chain)
  BY <1>1
<1> QED BY <1>1, <1>2 DEF Chained, Waiting

-----------------------------------------------------------------------------
(* The inductive invariant of the reminders: what was told and not lost is *)
(* past in the log, unless its dispatch was refused, and then the runtime  *)
(* is faulted.                                                             *)
Messages == [rec : Nat, at : Int, lost : BOOLEAN, pos : Nat]
Accounted(y, r, l) ==
  y \in Messages /\ (y.lost \/ (y.pos = 0 /\ r.faulted = "append") \/ Past(l, y))
RemindersInv ==
  /\ now \in Nat /\ Tidy(reminders) /\ stored \in 0..Len(reminders)
  /\ Chained(chain, runtime, reminders)
  /\ \A y \in told : Accounted(y, runtime, reminders)

(* A runtime that starts asks for its first drive.                         *)
LEMMA StartedIs ==
  ASSUME NEW l
  PROVE  Chained(<<Reminders!Txn("drive")>>, Reminders!Started, l)
<1> DEFINE t == Reminders!Txn("drive")
           c == <<t>>
<1>1. t \in Transactions /\ t.op = "drive" /\ t.stage = "queued"
  BY NewTxn
<1> HIDE DEF t
<1>2. c \in Seq(Transactions) /\ DOMAIN c = {1} /\ c[1] = t
  BY <1>1
<1> HIDE DEF c
<1>3. Runs(Reminders!Started) /\ Reminders!Started.run = "active"
      /\ Reminders!Started.faulted = "no"
  BY DEF Runs, Reminders!Started
<1> QED BY <1>1, <1>2, <1>3 DEF Chained, OneDrive, Drives, c, t

(* It holds of the empty log.                                              *)
LEMMA RemindersInit == Init => RemindersInv
<1> SUFFICES ASSUME Init PROVE RemindersInv
  OBVIOUS
<1>1. /\ reminders = <<>> /\ stored = 0 /\ now = 0 /\ told = {}
      /\ runtime = Reminders!Started /\ chain = <<Reminders!Txn("drive")>>
  BY DEF Init, Reminders!Init
<1>2. Tidy(<<>>)
  <2>1. <<>> \in ReminderLogs /\ Len(<<>>) = 0 /\ SubSeq(<<>>, 1, 0) = <<>>
    BY DEF ReminderLogs
  <2>2. Reminders!Active(<<>>) = {}
    BY ActiveIs DEF NoReminders
  <2>3. Reminders!Created(<<>>) = {}
    <3>1. DOMAIN <<>> = {}
      OBVIOUS
    <3> QED BY <3>1 DEF Reminders!Created
  <2>4. IsFiniteSet({}) /\ {} = 1..0 /\ 0 \in Nat
    BY FS_EmptySet
  <2>5. TidyAt(<<>>)
    BY <2>2, <2>3, <2>4 DEF TidyAt
  <2>6. ASSUME NEW n \in 0..Len(<<>>) PROVE TidyAt(SubSeq(<<>>, 1, n))
    <3>1. n = 0
      BY <2>1
    <3> QED BY <2>1, <2>5, <3>1
  <2>7. \A i \in 1..Len(<<>>) : FALSE
    BY <2>1
  <2> QED BY <2>1, <2>6, <2>7 DEF Tidy
<1>3. Chained(<<Reminders!Txn("drive")>>, Reminders!Started, <<>>)
  BY StartedIs
<1>4. Len(<<>>) = 0 /\ 0 \in 0..0
  OBVIOUS
<1> QED BY <1>1, <1>2, <1>3, <1>4 DEF RemindersInv

(* A step of the chain and the runtime alone.                              *)
LEMMA AccountsKept ==
  ASSUME RemindersInv, runtime.faulted # "append" \/ runtime'.faulted = runtime.faulted
  PROVE  \A y \in told : Accounted(y, runtime', reminders)
  BY DEF RemindersInv, Accounted

(* With the log and the messages left alone the invariant is kept.         *)
LEMMA QuietKeeps ==
  ASSUME RemindersInv, reminders' = reminders, told' = told, now' \in Nat,
         stored' \in {stored, Len(reminders)},
         Chained(chain', runtime', reminders),
         runtime.faulted # "append" \/ runtime'.faulted = runtime.faulted
  PROVE  RemindersInv'
<1>1. stored' \in 0..Len(reminders)
  <2>1. Len(reminders) \in Nat
    BY TidyNow DEF RemindersInv
  <2> QED BY <2>1 DEF RemindersInv
<1>2. \A y \in told : Accounted(y, runtime', reminders)
  BY AccountsKept
<1> QED BY <1>1, <1>2 DEF RemindersInv

(* A checkpoint of the first transaction stores the whole log.             *)
LEMMA FlushedAll ==
  ASSUME RemindersInv, chain # <<>>, chain[1].stage # "queued", Reminders!Flushed
  PROVE  stored' = Len(reminders)
<1>1. Len(reminders) \in Nat /\ stored \in 0..Len(reminders) /\ Head(chain).upto = Len(reminders)
  <2>1. Head(chain) = chain[1]
    BY DEF RemindersInv, Chained
  <2> QED BY <2>1, TidyNow DEF RemindersInv, Chained
<1>2. stored' = Reminders!Max({stored, Len(reminders)})
  BY <1>1 DEF Reminders!Flushed
<1> DEFINE n == Len(reminders)
<1> HIDE DEF n
<1>3. stored' = CHOOSE x \in {stored, n} : \A y \in {stored, n} : x >= y
  BY <1>2 DEF Reminders!Max, n
<1>4. n \in {stored, n} /\ \A y \in {stored, n} : n >= y
  BY <1>1 DEF n
<1>5. \A x \in {stored, n} : (\A y \in {stored, n} : x >= y) => x = n
  BY <1>1 DEF n
<1>6. stored' \in {stored, n} /\ \A y \in {stored, n} : stored' >= y
  <2>1. \E x \in {stored, n} : \A y \in {stored, n} : x >= y
    BY <1>4
  <2> QED BY <1>3, <2>1, Zenon
<1> QED BY <1>5, <1>6 DEF n

-----------------------------------------------------------------------------
(* The fields of the runtime that the chain does not depend on.            *)
Keeps(s, r) == Runs(s) /\ s.run = r.run /\ s.faulted = r.faulted
(* One lemma for each update of the runtime.                               *)
LEMMA RunsNow ==
  ASSUME NEW r, Runs(r)
  PROVE  Keeps(r, r)
  BY DEF Keeps
LEMMA RunsTimed ==
  ASSUME NEW r, Runs(r), NEW v, NEW s, s = [r EXCEPT !.timer = v]
  PROVE  Keeps(s, r)
  BY DEF Runs, Keeps
LEMMA RunsDriven ==
  ASSUME NEW r, Runs(r), NEW v, NEW s, s = [r EXCEPT !.timer = v, !.failed = FALSE]
  PROVE  Keeps(s, r)
  BY DEF Runs, Keeps
LEMMA RunsFailed ==
  ASSUME NEW r, Runs(r), NEW v, NEW s, s = [r EXCEPT !.failed = v]
  PROVE  Keeps(s, r)
  BY DEF Runs, Keeps
LEMMA RunsIdle ==
  ASSUME NEW r, Runs(r), NEW v, NEW s, s = [r EXCEPT !.idleWait = v]
  PROVE  Keeps(s, r)
  BY DEF Runs, Keeps
LEMMA RunsAsked ==
  ASSUME NEW r, Runs(r), NEW v, NEW s, s = [r EXCEPT !.timer = v, !.requested = TRUE]
  PROVE  Keeps(s, r)
  BY DEF Runs, Keeps
LEMMA RunsStopping ==
  ASSUME NEW r, Runs(r), NEW v, NEW s,
         s = [r EXCEPT !.stopping = TRUE, !.requested = FALSE, !.timer = v]
  PROVE  Keeps(s, r)
  BY DEF Runs, Keeps
LEMMA RunsFaulted ==
  ASSUME NEW r, Runs(r), NEW v \in {"log", "append"}, NEW s, s = [r EXCEPT !.faulted = v]
  PROVE  Runs(s) /\ s.run = r.run /\ s.faulted = v
  BY DEF Runs
LEMMA RunsRetired ==
  ASSUME NEW r, Runs(r), NEW s, s = [r EXCEPT !.run = "none", !.requested = FALSE]
  PROVE  Runs(s) /\ s.run = "none" /\ s.faulted = r.faulted
  BY DEF Runs

(* The steps that neither append an event nor tell the agent.              *)
LEMMA HeadIs ==
  ASSUME RemindersInv, NEW op, NEW stage, Reminders!Head1(op, stage)
  PROVE  /\ chain # <<>> /\ chain[1].op = op /\ chain[1].stage = stage /\ Head(chain) = chain[1]
         /\ Chained(chain, runtime, reminders) /\ Runs(runtime)
         /\ op = "drive" => runtime.run = "active" /\ runtime.faulted = "no"
<1>1. Chained(chain, runtime, reminders)
  BY DEF RemindersInv
<1>2. chain # <<>> /\ Head(chain) = chain[1] /\ 1 \in DOMAIN chain
  BY <1>1 DEF Reminders!Head1, Chained
<1>3. op = "drive" => Drives(chain)
  BY <1>2 DEF Reminders!Head1, Drives
<1> QED BY <1>1, <1>2, <1>3 DEF Reminders!Head1, Chained

(* The clock and the log are typed.                                        *)
LEMMA TimeIs ==
  ASSUME RemindersInv
  PROVE  now \in Nat /\ reminders \in Seq(ReminderEvents)
  BY TidyNow DEF RemindersInv, ReminderLogs

(* A drive that ends and appends nothing.                                  *)
LEMMA DriveEndsKeeps ==
  ASSUME RemindersInv, NEW stage, Reminders!Head1("drive", stage), NEW r, Runs(r),
         r.run = runtime.run, Reminders!EndDrive(r), reminders' = reminders, told' = told,
         now' = now, stored' \in {stored, Len(reminders)}
  PROVE  RemindersInv'
<1>1. /\ chain # <<>> /\ chain[1].op = "drive" /\ Chained(chain, runtime, reminders)
      /\ runtime.faulted = "no" /\ now \in Nat
  BY HeadIs, TimeIs
<1>2. Chained(chain', runtime', reminders)
  BY <1>1, EndDriveKeeps
<1> QED BY <1>1, <1>2, QuietKeeps

(* A drive starts, or ends because its runtime stops.                      *)
LEMMA DriveStartsKeeps ==
  ASSUME RemindersInv, Reminders!DriveStarts
  PROVE  RemindersInv'
<1>1. /\ reminders' = reminders /\ told' = told /\ now' = now /\ now \in Nat /\ stored' = stored
      /\ reminders \in Seq(ReminderEvents) /\ Reminders!Head1("drive", "queued")
  BY TimeIs DEF Reminders!DriveStarts
<1>2. /\ chain # <<>> /\ Chained(chain, runtime, reminders) /\ Runs(runtime)
  BY <1>1, HeadIs
<1>3. ASSUME NEW r, r = [runtime EXCEPT !.timer = Reminders!Off], Reminders!EndDrive(r)
      PROVE  RemindersInv'
  <2>1. Keeps(r, runtime)
    BY <1>2, <1>3, RunsTimed
  <2> QED BY <1>1, <1>3, <2>1, DriveEndsKeeps DEF Keeps
<1>4. CASE /\ runtime' = [runtime EXCEPT !.timer = Reminders!Off, !.failed = FALSE]
           /\ chain' = Reminders!Enters("preflight", reminders)
  <2>1. Keeps(runtime', runtime)
    BY <1>2, <1>4, RunsDriven
  <2>2. Chained(chain', runtime', reminders)
    BY <1>1, <1>2, <1>4, <2>1, EntersKeeps DEF Keeps
  <2> QED BY <1>1, <2>1, <2>2, QuietKeeps DEF Keeps
<1> QED BY <1>3, <1>4 DEF Reminders!DriveStarts

(* After its preflight a drive arms the timer, waits or faults.            *)
LEMMA DriveWaitsKeeps ==
  ASSUME RemindersInv, Reminders!DriveWaits
  PROVE  RemindersInv'
<1>1. /\ reminders' = reminders /\ told' = told /\ now' = now
      /\ Reminders!Head1("drive", "preflight") /\ Reminders!Flushed
  BY DEF Reminders!DriveWaits
<1>2. chain # <<>> /\ chain[1].stage = "preflight" /\ Runs(runtime)
  BY <1>1, HeadIs
<1>3. stored' = Len(reminders)
  BY <1>1, <1>2, FlushedAll
<1> DEFINE a == Reminders!Active(reminders)
<1>4. PICK r : /\ Reminders!EndDrive(r)
               /\ \/ r = runtime
                  \/ r = [runtime EXCEPT !.faulted = "log"]
                  \/ r = Reminders!Armed(a)
                  \/ r = [runtime EXCEPT !.idleWait = TRUE]
  BY Zenon DEF Reminders!DriveWaits
<1>5. Runs(r) /\ r.run = runtime.run
  <2>1. CASE r = runtime
    BY <1>2, <2>1
  <2>2. CASE r = [runtime EXCEPT !.faulted = "log"]
    BY <1>2, <2>2, RunsFaulted
  <2>3. CASE r = Reminders!Armed(a)
    <3> PICK v : r = [runtime EXCEPT !.timer = v]
      BY <2>3 DEF Reminders!Armed
    <3> QED BY <1>2, RunsTimed DEF Keeps
  <2>4. CASE r = [runtime EXCEPT !.idleWait = TRUE]
    BY <1>2, <2>4, RunsIdle DEF Keeps
  <2> QED BY <1>4, <2>1, <2>2, <2>3, <2>4
<1> QED BY <1>1, <1>3, <1>4, <1>5, DriveEndsKeeps

(* The dispatches of a drive are stored.                                   *)
LEMMA DispatchStoredKeeps ==
  ASSUME RemindersInv, Reminders!DispatchStored
  PROVE  RemindersInv'
<1>1. /\ reminders' = reminders /\ told' = told /\ now' = now
      /\ Reminders!Head1("drive", "barrier") /\ Reminders!Flushed
  BY DEF Reminders!DispatchStored
<1>2. chain # <<>> /\ chain[1].stage = "barrier" /\ Runs(runtime)
  BY <1>1, HeadIs
<1>3. stored' = Len(reminders)
  BY <1>1, <1>2, FlushedAll
<1>4. PICK r : /\ Reminders!EndDrive(r)
               /\ \/ r = runtime
                  \/ r = [runtime EXCEPT !.timer = Reminders!Off, !.requested = TRUE]
  BY DEF Reminders!DispatchStored
<1>5. Runs(r) /\ r.run = runtime.run
  <2>1. CASE r = runtime
    BY <1>2, <2>1
  <2>2. CASE r = [runtime EXCEPT !.timer = Reminders!Off, !.requested = TRUE]
    BY <1>2, <2>2, RunsAsked DEF Keeps
  <2> QED BY <1>4, <2>1, <2>2
<1> QED BY <1>1, <1>3, <1>4, <1>5, DriveEndsKeeps

(* The followup throws, or a checkpoint of a drive is rejected.            *)
LEMMA DriveFailsKeeps ==
  ASSUME RemindersInv, Reminders!FollowupThrows \/ Reminders!DriveRejected
  PROVE  RemindersInv'
<1>1. CASE Reminders!FollowupThrows
  <2>1. /\ reminders' = reminders /\ told' = told /\ now' = now
        /\ Reminders!Head1("drive", "preflight") /\ Reminders!Flushed
    BY <1>1 DEF Reminders!FollowupThrows, Reminders!MayDispatch
  <2>2. chain # <<>> /\ chain[1].stage = "preflight" /\ Runs(runtime)
    BY <2>1, HeadIs
  <2>3. stored' = Len(reminders)
    BY <2>1, <2>2, FlushedAll
  <2>4. PICK r : Reminders!EndDrive(r) /\ r = [runtime EXCEPT !.failed = TRUE]
    BY <1>1 DEF Reminders!FollowupThrows
  <2>5. Keeps(r, runtime)
    BY <2>2, <2>4, RunsFailed
  <2> QED BY <2>1, <2>3, <2>4, <2>5, DriveEndsKeeps DEF Keeps
<1>2. CASE Reminders!DriveRejected
  <2>1. reminders' = reminders /\ told' = told /\ now' = now /\ stored' = stored
    BY <1>2 DEF Reminders!DriveRejected
  <2>2. PICK r, stage :
          /\ Reminders!Head1("drive", stage) /\ Reminders!EndDrive(r)
          /\ r = runtime \/ r = [runtime EXCEPT !.failed = TRUE]
    BY <1>2 DEF Reminders!DriveRejected
  <2>3. Runs(runtime)
    BY <2>2, HeadIs
  <2>4. Keeps(r, runtime)
    BY <2>2, <2>3, RunsFailed, RunsNow
  <2> QED BY <2>1, <2>2, <2>4, DriveEndsKeeps DEF Keeps
<1> QED BY <1>1, <1>2

(* Whatever notifies the runtime, from the chain and the runtime at hand.  *)
LEMMA NotifyKeeps ==
  ASSUME RemindersInv, NEW r, NEW c, Chained(c, r, reminders), r.faulted = runtime.faulted,
         Reminders!Wake(r, c), reminders' = reminders, told' = told, now' = now,
         stored' \in {stored, Len(reminders)}
  PROVE  RemindersInv'
<1>1. Chained(chain', runtime', reminders) /\ runtime'.faulted = r.faulted
  BY WakeKeeps
<1> QED BY <1>1, TimeIs, QuietKeeps

(* A run retires, and starts again if it was asked to.                     *)
LEMMA RetireKeeps ==
  ASSUME RemindersInv, Reminders!Retire
  PROVE  RemindersInv'
<1>1. Chained(chain, runtime, reminders) /\ Runs(runtime) /\ ~Drives(chain)
  BY DEF RemindersInv, Reminders!Retire, Chained
<1>2. reminders' = reminders /\ told' = told /\ now' = now /\ stored' = stored
  BY DEF Reminders!Retire
<1>3. PICK r : /\ r = [runtime EXCEPT !.run = "none", !.requested = FALSE]
               /\ Reminders!Wake(r, chain) \/ (runtime' = r /\ chain' = chain)
  BY DEF Reminders!Retire
<1>4. Runs(r) /\ r.faulted = runtime.faulted
  BY <1>1, <1>3, RunsRetired
<1>5. Chained(chain, r, reminders)
  BY <1>1, <1>4 DEF Chained
<1>6. CASE Reminders!Wake(r, chain)
  BY <1>2, <1>4, <1>5, <1>6, NotifyKeeps
<1>7. CASE runtime' = r /\ chain' = chain
  BY <1>2, <1>4, <1>5, <1>7, TimeIs, QuietKeeps
<1> QED BY <1>3, <1>6, <1>7

(* The tools' transactions and the agent's turns.                          *)
LEMMA ChainedIs ==
  ASSUME NEW c, NEW r, NEW l, Runs(r), c \in Seq(Transactions), OneDrive(c),
         \A i \in DOMAIN c : i # 1 => c[i].stage = "queued",
         c[1].stage # "queued" => c[1].upto = Len(l),
         Drives(c) => r.run = "active" /\ r.faulted = "no"
  PROVE  Chained(c, r, l)
  BY Zenon DEF Chained

(* A tool's call joins the chain.                                          *)
LEMMA CallIs ==
  ASSUME NEW t, Reminders!Call(t), t \in Transactions, t.stage = "queued", t.op # "drive",
         RemindersInv
  PROVE  RemindersInv'
<1>1. /\ chain' = Append(chain, t) /\ reminders' = reminders /\ told' = told /\ now' = now
      /\ stored' = stored /\ runtime' = runtime
  BY DEF Reminders!Call
<1>2. Chained(chain, runtime, reminders)
  BY DEF RemindersInv
<1>3. /\ chain' \in Seq(Transactions) /\ OneDrive(chain')
      /\ Drives(chain') => Drives(chain)
      /\ \A i \in DOMAIN chain' : i # 1 => chain'[i].stage = "queued"
      /\ chain'[1] = IF chain = <<>> THEN t ELSE chain[1]
  BY <1>1, <1>2, ChainMore DEF Chained
<1>4. chain'[1].stage # "queued" => chain # <<>> /\ chain'[1].upto = Len(reminders)
  <2>1. CASE chain = <<>>
    BY <1>3, <2>1
  <2>2. CASE chain # <<>>
    BY <1>2, <1>3, <2>2 DEF Chained
  <2> QED BY <2>1, <2>2
<1>5. Runs(runtime) /\ (Drives(chain) => runtime.run = "active" /\ runtime.faulted = "no")
  BY <1>2 DEF Chained
<1>6. Chained(chain', runtime', reminders)
  BY <1>1, <1>3, <1>4, <1>5, ChainedIs
<1> QED BY <1>1, <1>6, TimeIs, QuietKeeps

(* What the tools are called with.                                         *)
LEMMA CallsAre ==
  /\ \A d \in Nat : [Reminders!Txn("create") EXCEPT !.delay = d] \in Transactions
  /\ \A d \in Nat : [Reminders!Txn("create") EXCEPT !.delay = d, !.every = TRUE] \in Transactions
  /\ \A n \in Nat : [Reminders!Txn("delete") EXCEPT !.rec = n] \in Transactions
BY DEF Reminders!Txn, Transactions

(* So does each call of a turn.                                            *)
LEMMA CallKeeps ==
  ASSUME RemindersInv,
         \/ \E d \in Delays : Reminders!Call([Reminders!Txn("create") EXCEPT !.delay = d])
         \/ Reminders!Call([Reminders!Txn("create") EXCEPT !.delay = Period, !.every = TRUE])
         \/ \E n \in 1..MaxRecords : Reminders!Call([Reminders!Txn("delete") EXCEPT !.rec = n])
         \/ Reminders!Call(Reminders!Txn("list"))
  PROVE  RemindersInv'
<1>1. PICK t \in Transactions : /\ Reminders!Call(t) /\ t.stage = "queued" /\ t.op # "drive"
  <2>1. CASE \E d \in Delays : Reminders!Call([Reminders!Txn("create") EXCEPT !.delay = d])
    <3> PICK d \in Delays : Reminders!Call([Reminders!Txn("create") EXCEPT !.delay = d])
      BY <2>1
    <3>1. d \in Nat
      BY Periods
    <3> DEFINE t == [Reminders!Txn("create") EXCEPT !.delay = d]
    <3>2. t.stage = "queued" /\ t.op = "create"
      BY DEF Reminders!Txn
    <3>3. t \in Transactions
      BY <3>1, CallsAre
    <3> HIDE DEF t
    <3> QED BY <3>2, <3>3 DEF t
  <2>2. CASE Reminders!Call([Reminders!Txn("create") EXCEPT !.delay = Period, !.every = TRUE])
    <3> DEFINE t == [Reminders!Txn("create") EXCEPT !.delay = Period, !.every = TRUE]
    <3>2. t.stage = "queued" /\ t.op = "create"
      BY DEF Reminders!Txn
    <3>3. t \in Transactions
      BY Periods, CallsAre
    <3>4. Reminders!Call(t)
      BY <2>2
    <3> HIDE DEF t
    <3> QED BY <3>2, <3>3, <3>4
  <2>3. CASE \E n \in 1..MaxRecords : Reminders!Call([Reminders!Txn("delete") EXCEPT !.rec = n])
    <3> PICK n \in 1..MaxRecords : Reminders!Call([Reminders!Txn("delete") EXCEPT !.rec = n])
      BY <2>3
    <3>1. n \in Nat
      OBVIOUS
    <3> DEFINE t == [Reminders!Txn("delete") EXCEPT !.rec = n]
    <3>2. t.stage = "queued" /\ t.op = "delete"
      BY DEF Reminders!Txn
    <3>3. t \in Transactions
      BY <3>1, CallsAre
    <3> HIDE DEF t
    <3> QED BY <3>2, <3>3 DEF t
  <2>4. CASE Reminders!Call(Reminders!Txn("list"))
    BY <2>4, NewTxn
  <2> QED BY <2>1, <2>2, <2>3, <2>4
<1> QED BY <1>1, CallIs

(* The transaction of a tool at a stage.                                   *)
LEMMA ToolAtIs ==
  ASSUME RemindersInv, NEW stage, Reminders!ToolAt(stage)
  PROVE  /\ chain # <<>> /\ chain[1].stage = stage /\ chain[1].op \in {"create", "delete", "list"}
         /\ Head(chain) = chain[1] /\ chain[1] \in Transactions
         /\ Chained(chain, runtime, reminders) /\ Runs(runtime)
<1> PICK op \in {"create", "delete", "list"} : Reminders!Head1(op, stage)
  BY DEF Reminders!ToolAt, Reminders!Tools
<1>1. /\ chain # <<>> /\ chain[1].stage = stage /\ chain[1].op = op /\ Head(chain) = chain[1]
      /\ Chained(chain, runtime, reminders) /\ Runs(runtime)
  BY HeadIs
<1>2. chain[1] \in Transactions
  BY <1>1 DEF Chained
<1> QED BY <1>1, <1>2

(* A tool starts its preflight, or settles for an aborted caller.          *)
LEMMA ToolStartsKeeps ==
  ASSUME RemindersInv, Reminders!ToolStarts
  PROVE  RemindersInv'
<1>1. /\ reminders' = reminders /\ told' = told /\ now' = now /\ stored' = stored
      /\ Reminders!ToolAt("queued") /\ runtime' = runtime
      /\ chain' = Tail(chain) \/ chain' = Reminders!Enters("preflight", reminders)
  BY DEF Reminders!ToolStarts, Reminders!Settles
<1>2. chain # <<>> /\ Chained(chain, runtime, reminders) /\ Runs(runtime)
  BY <1>1, ToolAtIs
<1>3. Chained(Tail(chain), runtime, reminders)
      /\ Chained(Reminders!Enters("preflight", reminders), runtime, reminders)
  BY <1>2, TimeIs, SettlesKeeps, EntersKeeps
<1>4. Chained(chain', runtime', reminders)
  BY <1>1, <1>3
<1> QED BY <1>1, <1>4, TimeIs, QuietKeeps

(* A tool settles: stored, refused or rejected.                            *)
LEMMA ToolSettlesKeeps ==
  ASSUME RemindersInv,
         Reminders!ToolAppendRefused \/ Reminders!ToolStored \/ Reminders!ToolRejected
  PROVE  RemindersInv'
<1>1. PICK stage :
        /\ stage \in {"preflight", "barrier"} /\ Reminders!ToolAt(stage)
        /\ reminders' = reminders /\ told' = told /\ now' = now
        /\ stored' = stored \/ Reminders!Flushed
        /\ Reminders!Wake(runtime, Tail(chain)) \/ (runtime' = runtime /\ chain' = Tail(chain))
  BY DEF Reminders!ToolAppendRefused, Reminders!ToolStored, Reminders!ToolRejected,
         Reminders!Settles
<1>2. /\ chain # <<>> /\ chain[1].stage = stage /\ Chained(chain, runtime, reminders)
      /\ Runs(runtime)
  BY <1>1, ToolAtIs
<1>3. stored' \in {stored, Len(reminders)}
  BY <1>1, <1>2, FlushedAll
<1>4. Chained(Tail(chain), runtime, reminders)
  BY <1>2, SettlesKeeps
<1>5. CASE Reminders!Wake(runtime, Tail(chain))
  BY <1>1, <1>3, <1>4, <1>5, NotifyKeeps
<1>6. CASE runtime' = runtime /\ chain' = Tail(chain)
  BY <1>1, <1>3, <1>4, <1>6, TimeIs, QuietKeeps
<1> QED BY <1>1, <1>5, <1>6

(* Turns start and end, the timer fires, the agent is idle again.          *)
LEMMA AgentKeeps ==
  ASSUME RemindersInv,
         \/ Reminders!StartTurn \/ Reminders!AbortTurn \/ Reminders!EndTurn
         \/ Reminders!IdleResolves \/ Reminders!TimerFires
  PROVE  RemindersInv'
<1>1. reminders' = reminders /\ told' = told /\ now' = now /\ stored' = stored
  BY DEF Reminders!StartTurn, Reminders!AbortTurn, Reminders!EndTurn, Reminders!IdleResolves,
         Reminders!TimerFires
<1>2. Chained(chain, runtime, reminders) /\ Runs(runtime)
  BY DEF RemindersInv, Chained
<1>3. \/ runtime' = runtime /\ chain' = chain
      \/ \E r : /\ Reminders!Wake(r, chain)
                /\ \/ r = runtime
                   \/ r = [runtime EXCEPT !.idleWait = FALSE]
                   \/ r = [runtime EXCEPT !.timer = Reminders!Off]
  BY DEF Reminders!StartTurn, Reminders!AbortTurn, Reminders!EndTurn, Reminders!IdleResolves,
         Reminders!TimerFires
<1>4. CASE runtime' = runtime /\ chain' = chain
  BY <1>1, <1>2, <1>4, TimeIs, QuietKeeps
<1>5. ASSUME NEW r, Reminders!Wake(r, chain),
             \/ r = runtime
             \/ r = [runtime EXCEPT !.idleWait = FALSE]
             \/ r = [runtime EXCEPT !.timer = Reminders!Off]
      PROVE  RemindersInv'
  <2>1. Keeps(r, runtime)
    <3>1. CASE r = runtime
      BY <1>2, <3>1, RunsNow
    <3>2. CASE r = [runtime EXCEPT !.idleWait = FALSE]
      BY <1>2, <3>2, RunsIdle
    <3>3. CASE r = [runtime EXCEPT !.timer = Reminders!Off]
      BY <1>2, <3>3, RunsTimed
    <3> QED BY <1>5, <3>1, <3>2, <3>3
  <2>2. Chained(chain, r, reminders)
    BY <1>2, <2>1 DEF Chained, Keeps
  <2> QED BY <1>1, <1>5, <2>1, <2>2, NotifyKeeps DEF Keeps
<1> QED BY <1>3, <1>4, <1>5

(* Time passes, the clock is adjusted, the runtime is disposed.            *)
LEMMA ClockKeeps ==
  ASSUME RemindersInv, Reminders!Tick \/ Reminders!Adjust \/ Reminders!Dispose
  PROVE  RemindersInv'
<1>1. reminders' = reminders /\ told' = told /\ stored' = stored /\ chain' = chain
  BY DEF Reminders!Tick, Reminders!Adjust, Reminders!Dispose
<1>2. Chained(chain, runtime, reminders) /\ Runs(runtime) /\ now \in Nat /\ MaxTime \in Nat
  BY TimeIs, Periods DEF RemindersInv, Chained
<1>3. now' \in Nat
  <2>1. CASE Reminders!Tick
    <3> DEFINE s == {now + 1, MaxTime}
    <3>1. now' = CHOOSE x \in s : \A y \in s : x <= y
      BY <2>1 DEF Reminders!Tick, Reminders!Min
    <3>2. s \subseteq Nat
      BY <1>2
    <3>3. \E x \in s : \A y \in s : x <= y
      <4>1. CASE now + 1 <= MaxTime
        <5>1. now + 1 \in s /\ \A y \in s : now + 1 <= y
          BY <1>2, <4>1
        <5> QED BY <5>1
      <4>2. CASE MaxTime < now + 1
        <5>1. MaxTime \in s /\ \A y \in s : MaxTime <= y
          BY <1>2, <4>2
        <5> QED BY <5>1
      <4> QED BY <1>2, <4>1, <4>2
    <3> HIDE DEF s
    <3>4. now' \in s
      BY <3>1, <3>3, Zenon
    <3> QED BY <3>2, <3>4
  <2>2. CASE Reminders!Adjust
    BY <1>2, <2>2 DEF Reminders!Adjust
  <2>3. CASE Reminders!Dispose
    BY <1>2, <2>3 DEF Reminders!Dispose
  <2> QED BY <2>1, <2>2, <2>3
<1>4. Keeps(runtime', runtime)
  <2>1. CASE Reminders!Tick
    <3> PICK v : runtime' = [runtime EXCEPT !.timer = v]
      BY <2>1 DEF Reminders!Tick
    <3> QED BY <1>2, RunsTimed
  <2>2. CASE Reminders!Adjust
    BY <1>2, <2>2, RunsNow DEF Reminders!Adjust
  <2>3. CASE Reminders!Dispose
    BY <1>2, <2>3, RunsStopping DEF Reminders!Dispose
  <2> QED BY <2>1, <2>2, <2>3
<1>5. Chained(chain', runtime', reminders)
  BY <1>1, <1>2, <1>4 DEF Chained, Keeps
<1> QED BY <1>1, <1>3, <1>4, <1>5, QuietKeeps DEF Keeps

-----------------------------------------------------------------------------
(* The steps that append.  A tool's change fits the log it was made for.   *)
LEMMA ChangeIs ==
  ASSUME RemindersInv, NEW t \in Transactions
  PROVE  \/ Reminders!Change(t) = <<>>
         \/ \E e : Reminders!Change(t) = <<e>> /\ FitsIn(reminders, e) /\ e.op # "dispatch"
<1> DEFINE c == Reminders!Created(reminders)
           e == [op |-> "create", rec |-> Reminders!Cardinality(c) + 1, every |-> t.every,
                 at |-> now + t.delay]
           d == [op |-> "delete", rec |-> t.rec, at |-> now]
<1>1. now \in Nat /\ TidyAt(reminders) /\ t.rec \in Nat /\ t.delay \in Nat /\ t.every \in BOOLEAN
  BY TidyNow DEF RemindersInv, Transactions
<1>2. Reminders!Cardinality(c) = Cardinality(c) /\ Cardinality(c) \in Nat
  <2> PICK k \in Nat : c = 1..k
    BY <1>1 DEF TidyAt
  <2> HIDE DEF c
  <2>1. Cardinality(c) \in Nat
    BY FS_Interval, FS_CardinalityType
  <2> QED BY <2>1, SameSets
<1>3. FitsIn(reminders, e) /\ e.op # "dispatch"
  <2>1. e \in ReminderEvents
    BY <1>1, <1>2 DEF ReminderEvents
  <2> QED BY <1>2, <2>1 DEF FitsIn
<1>4. (\E x \in Reminders!Active(reminders) : x.rec = t.rec) =>
        FitsIn(reminders, d) /\ d.op # "dispatch"
  <2>1. d \in ReminderEvents
    BY <1>1 DEF ReminderEvents
  <2> QED BY <2>1 DEF FitsIn
<1>5. \/ Reminders!Change(t) = <<>> \/ Reminders!Change(t) = <<e>>
      \/ /\ Reminders!Change(t) = <<d>>
         /\ \E x \in Reminders!Active(reminders) : x.rec = t.rec
  BY Zenon DEF Reminders!Change
<1> HIDE DEF e, d
<1> QED BY <1>3, <1>4, <1>5

(* A tool appends its change, or has none.                                 *)
LEMMA ToolCheckedKeeps ==
  ASSUME RemindersInv, Reminders!ToolChecked
  PROVE  RemindersInv'
<1> DEFINE change == Reminders!Change(Head(chain))
<1>1. /\ Reminders!ToolAt("preflight") /\ Reminders!Flushed
      /\ told' = told /\ now' = now /\ reminders' = reminders \o change
      /\ Reminders!Wake(runtime, IF change = <<>> THEN Tail(chain)
                                 ELSE Reminders!Enters("barrier", reminders'))
  BY DEF Reminders!ToolChecked
<1>2. /\ chain # <<>> /\ chain[1].stage = "preflight" /\ Chained(chain, runtime, reminders)
      /\ Runs(runtime) /\ Head(chain) \in Transactions
  BY <1>1, ToolAtIs
<1>3. stored' = Len(reminders)
  BY <1>1, <1>2, FlushedAll
<1>4. /\ now \in Nat /\ reminders \in Seq(ReminderEvents) /\ Len(reminders) \in Nat
      /\ Tidy(reminders)
  BY TimeIs DEF RemindersInv
<1>5. \/ change = <<>>
      \/ \E e : change = <<e>> /\ FitsIn(reminders, e)
  BY <1>2, ChangeIs
<1> HIDE DEF change
<1>6. CASE change = <<>>
  <2>1. Chained(Tail(chain), runtime, reminders)
    BY <1>2, SettlesKeeps
  <2>2. reminders' = reminders /\ Reminders!Wake(runtime, Tail(chain))
    BY <1>1, <1>4, <1>6
  <2> QED BY <1>1, <1>3, <2>1, <2>2, NotifyKeeps
<1>7. ASSUME NEW e, change = <<e>>, FitsIn(reminders, e)
      PROVE  RemindersInv'
  <2> DEFINE k == Append(reminders, e)
  <2>1. e \in ReminderEvents
    BY <1>7 DEF FitsIn
  <2>2. reminders' = k /\ k \in Seq(ReminderEvents) /\ change # <<>>
    BY <1>1, <1>4, <1>7, <2>1
  <2>3. /\ Tidy(k) /\ Len(k) = Len(reminders) + 1
        /\ \A y : Past(reminders, y) /\ y.at \in Int => Past(k, y)
    BY <1>4, <1>7, TidyGrows
  <2> HIDE DEF k
  <2>4. Reminders!Wake(runtime, Reminders!Enters("barrier", k))
    BY <1>1, <2>2
  <2>5. Chained(Reminders!Enters("barrier", k), runtime, k)
    BY <1>2, <2>2, EntersKeeps
  <2>6. Chained(chain', runtime', k) /\ runtime'.faulted = runtime.faulted
    BY <2>4, <2>5, WakeKeeps
  <2>7. ASSUME NEW y \in told PROVE Accounted(y, runtime', k)
    <3>1. Accounted(y, runtime, reminders)
      BY DEF RemindersInv
    <3>2. y.at \in Int
      BY <3>1 DEF Accounted, Messages
    <3> QED BY <2>3, <2>6, <3>1, <3>2 DEF Accounted
  <2>8. stored' \in 0..Len(k)
    BY <1>3, <1>4, <2>3
  <2> QED BY <1>1, <1>4, <2>2, <2>3, <2>6, <2>7, <2>8 DEF RemindersInv
<1> QED BY <1>5, <1>6, <1>7

(* What a maintenance job tells is due, and past once it is dispatched.    *)
Fresh(y, k, full) ==
  /\ y \in Messages /\ ~y.lost /\ (y.pos = 0 \/ Past(k, y)) /\ (full => y.pos # 0)
  /\ \E x \in Reminders!Active(reminders) : x.rec = y.rec /\ x.at <= y.at /\ y.at <= now
(* How many records are due.                                               *)
DueCount == Reminders!Cardinality(Reminders!Due(Reminders!Active(reminders)))

(* What is due can be counted.                                             *)
LEMMA DueCountIs ==
  ASSUME RemindersInv
  PROVE  /\ DueCount \in Nat
         /\ DueCount = Cardinality(Reminders!Due(Reminders!Active(reminders)))
         /\ Reminders!Active(reminders) \in SUBSET Reminded
<1> DEFINE a == Reminders!Active(reminders)
           d == Reminders!Due(a)
<1>1. a \in SUBSET Reminded /\ IsFiniteSet(a)
  BY TidyNow DEF RemindersInv, TidyAt
<1>2. d \in SUBSET a
  BY <1>1, DueIs
<1> HIDE DEF a, d
<1>3. IsFiniteSet(d) /\ Cardinality(d) \in Nat
  BY <1>1, <1>2, FS_Subset, FS_CardinalityType
<1> QED BY <1>1, <1>3, SameSets DEF DueCount, a, d

(* The log after a maintenance job, and what is new in the messages.       *)
LEMMA TellsIs ==
  ASSUME RemindersInv, NEW n \in Nat, n <= DueCount, Reminders!MayDispatch, Reminders!Tells(n)
  PROVE  /\ Tidy(reminders') /\ Len(reminders') = Len(reminders) + n
         /\ now' = now /\ stored' = Len(reminders)
         /\ \A y : Past(reminders, y) /\ y.at \in Int => Past(reminders', y)
         /\ \A y \in told' : y \in told \/ Fresh(y, reminders', n = DueCount)
<1> DEFINE a == Reminders!Active(reminders)
           all == Reminders!Due(a)
           c == DueCount
<1>1. /\ now \in Nat /\ Tidy(reminders) /\ reminders \in ReminderLogs
      /\ c \in Nat /\ a \in SUBSET Reminded /\ n \in 0..c
  BY DueCountIs, TimeIs DEF RemindersInv, ReminderLogs
<1>2. now' = now /\ stored' = Len(reminders)
  <2>1. Reminders!Head1("drive", "preflight") /\ Reminders!Flushed /\ now' = now
    BY DEF Reminders!MayDispatch, Reminders!Tells
  <2>2. chain # <<>> /\ chain[1].stage = "preflight"
    BY <2>1, HeadIs
  <2> QED BY <2>1, <2>2, FlushedAll
<1>3. PICK due \in [1..c -> all] :
        /\ \A i, j \in 1..c : i < j => due[i] # due[j]
        /\ reminders' = reminders \o
             [i \in 1..n |-> [op |-> "dispatch", rec |-> due[i].rec, at |-> now]]
        /\ told' = told \cup
             {[rec |-> due[i].rec, at |-> Reminders!Occurrence(due[i], now), lost |-> FALSE,
               pos |-> IF i <= n THEN Len(reminders) + i ELSE 0] : i \in 1..c}
  BY DEF Reminders!Tells, DueCount
<1>4. ASSUME NEW i \in 1..c PROVE due[i] \in a /\ due[i].at <= now
  <2> HIDE DEF a
  <2> QED BY <1>1, <1>3, DueIs
<1> HIDE DEF a, all, c
<1>5. /\ Tidy(Batch(reminders, due, n)) /\ Len(Batch(reminders, due, n)) = Len(reminders) + n
      /\ \A y : Past(reminders, y) /\ y.at \in Int => Past(Batch(reminders, due, n), y)
      /\ \A i \in 1..n : Past(Batch(reminders, due, n), Message(reminders, due, n, i))
  BY <1>1, <1>3, <1>4, BatchIs DEF a
<1>6. reminders' = Batch(reminders, due, n)
  BY <1>3 DEF Batch, DispatchOf
<1>7. told' = told \cup {Message(reminders, due, n, i) : i \in 1..c}
  BY <1>3 DEF Message
<1>8. ASSUME NEW i \in 1..c
      PROVE  Fresh(Message(reminders, due, n, i), reminders', n = c)
  <2> DEFINE y == Message(reminders, due, n, i)
             x == due[i]
  <2>1. /\ y = [rec |-> x.rec, at |-> Reminders!Occurrence(x, now), lost |-> FALSE,
                pos |-> IF i <= n THEN Len(reminders) + i ELSE 0]
        /\ x \in a /\ x \in Reminded /\ x.at <= now /\ x.rec \in Nat
    BY <1>1, <1>4 DEF Message, Reminded
  <2>2. /\ Reminders!Occurrence(x, now) \in Int /\ x.at <= Reminders!Occurrence(x, now)
        /\ Reminders!Occurrence(x, now) <= now
    BY <1>1, <2>1, DispatchedIs
  <2>3. Len(reminders) \in Nat
    BY <1>1 DEF ReminderLogs
  <2>4. i <= n => i \in 1..n
    BY <1>1
  <2>5. y.pos = 0 \/ Past(reminders', y)
    <3>1. CASE i <= n
      BY <1>5, <1>6, <2>4, <3>1
    <3>2. CASE ~(i <= n)
      BY <2>1, <3>2
    <3> QED BY <3>1, <3>2
  <2> HIDE DEF y, x
  <2>6. y \in Messages /\ ~y.lost
    BY <1>1, <2>1, <2>2, <2>3 DEF Messages
  <2>7. n = c => y.pos # 0
    BY <1>1, <2>1, <2>3
  <2>8. \E z \in a : z.rec = y.rec /\ z.at <= y.at /\ y.at <= now
    BY <2>1, <2>2
  <2> QED BY <2>5, <2>6, <2>7, <2>8 DEF Fresh, a, y
<1> QED BY <1>2, <1>5, <1>6, <1>7, <1>8 DEF c

(* A maintenance job that told something: the log, the chain, the told.    *)
LEMMA TellsKeeps ==
  ASSUME RemindersInv, NEW n \in Nat, n <= DueCount, Reminders!MayDispatch, Reminders!Tells(n),
         Chained(chain', runtime', reminders'),
         \/ n = DueCount /\ runtime'.faulted = runtime.faulted
         \/ runtime'.faulted = "append"
  PROVE  RemindersInv'
<1>1. /\ Tidy(reminders') /\ Len(reminders') = Len(reminders) + n
      /\ now' = now /\ stored' = Len(reminders)
      /\ \A y : Past(reminders, y) /\ y.at \in Int => Past(reminders', y)
      /\ \A y \in told' : y \in told \/ Fresh(y, reminders', n = DueCount)
  BY TellsIs
<1>2. now' \in Nat /\ stored' \in 0..Len(reminders')
  <2>1. now \in Nat /\ Len(reminders) \in Nat
    BY TimeIs
  <2> QED BY <1>1, <2>1
<1>3. runtime.faulted = "no"
  BY HeadIs DEF Reminders!MayDispatch
<1>4. ASSUME NEW y \in told' PROVE Accounted(y, runtime', reminders')
  <2>1. CASE y \in told
    <3>1. Accounted(y, runtime, reminders) /\ y.at \in Int
      BY <2>1 DEF RemindersInv, Accounted, Messages
    <3> QED BY <1>1, <1>3, <3>1 DEF Accounted
  <2>2. CASE Fresh(y, reminders', n = DueCount)
    BY <1>3, <2>2 DEF Fresh, Accounted
  <2> QED BY <1>1, <2>1, <2>2
<1> QED BY <1>1, <1>2, <1>4 DEF RemindersInv

(* All that is due is dispatched.                                          *)
LEMMA DispatchKeeps ==
  ASSUME RemindersInv, Reminders!Dispatch
  PROVE  RemindersInv'
<1>1. /\ Reminders!MayDispatch /\ Reminders!Tells(DueCount)
      /\ chain' = Reminders!Enters("barrier", reminders') /\ runtime' = runtime
  BY DEF Reminders!Dispatch, DueCount
<1>2. DueCount \in Nat /\ DueCount <= DueCount
  BY DueCountIs
<1>3. chain # <<>> /\ Chained(chain, runtime, reminders) /\ Runs(runtime)
  BY <1>1, HeadIs DEF Reminders!MayDispatch
<1>4. reminders' \in Seq(ReminderEvents)
  BY <1>1, <1>2, TellsIs DEF Tidy, ReminderLogs
<1>5. Chained(chain', runtime', reminders')
  BY <1>1, <1>3, <1>4, EntersKeeps
<1> QED BY <1>1, <1>2, <1>5, TellsKeeps

(* An append is refused after n dispatches: the runtime faults.            *)
LEMMA AppendRefusedKeeps ==
  ASSUME RemindersInv, NEW n \in Nat, Reminders!AppendRefused(n)
  PROVE  RemindersInv'
<1>1. Reminders!MayDispatch /\ Reminders!Tells(n) /\ n <= DueCount
  BY DEF Reminders!AppendRefused, Reminders!Tells, DueCount
<1>2. PICK r : r = [runtime EXCEPT !.faulted = "append"] /\ Reminders!EndDrive(r)
  BY DEF Reminders!AppendRefused
<1>3. /\ chain # <<>> /\ chain[1].op = "drive" /\ Chained(chain, runtime, reminders)
      /\ Runs(runtime)
  BY <1>1, HeadIs DEF Reminders!MayDispatch
<1>4. Runs(r) /\ r.run = runtime.run /\ r.faulted = "append"
  BY <1>2, <1>3, RunsFaulted
<1>5. Chained(chain', runtime', reminders') /\ runtime'.faulted = "append"
  BY <1>2, <1>3, <1>4, EndDriveKeeps
<1> QED BY <1>1, <1>5, TellsKeeps

(* A restart keeps a prefix of the log; what it lost is marked, what it    *)
(* did not mark was told before and is past in the prefix.                 *)
LEMMA RestartIs ==
  ASSUME RemindersInv, NEW n \in 0..Len(reminders), Reminders!Restart(n), NEW y \in told'
  PROVE  /\ y \in Messages
         /\ y.lost \/ (y \in told /\ y.pos # 0 /\ y.pos <= n)
<1>1. PICK x \in told : y = [x EXCEPT !.lost = x.lost \/ x.pos = 0 \/ x.pos > n]
  BY DEF Reminders!Restart
<1>2. x \in Messages /\ n \in Nat /\ x.pos \in Nat
  <2>1. x \in Messages
    BY DEF RemindersInv, Accounted
  <2> QED BY <2>1, TimeIs DEF Messages
<1>3. CASE x.lost \/ x.pos = 0 \/ x.pos > n
  <2>1. y = [x EXCEPT !.lost = TRUE]
    BY <1>1, <1>3
  <2> QED BY <1>2, <2>1 DEF Messages
<1>4. CASE ~(x.lost \/ x.pos = 0 \/ x.pos > n)
  <2>1. y = [x EXCEPT !.lost = FALSE] /\ x.lost = FALSE
    BY <1>1, <1>2, <1>4 DEF Messages
  <2>2. y = x
    BY <1>2, <2>1 DEF Messages
  <2>3. x.pos # 0 /\ x.pos <= n
    BY <1>2, <1>4
  <2> QED BY <1>2, <2>2, <2>3
<1> QED BY <1>3, <1>4

(* A restart from any prefix that holds what was stored.                   *)
LEMMA RestartKeeps ==
  ASSUME RemindersInv, NEW n \in stored..Len(reminders), Reminders!Restart(n)
  PROVE  RemindersInv'
<1> DEFINE k == SubSeq(reminders, 1, n)
<1>1. n \in 0..Len(reminders) /\ now \in Nat /\ Tidy(reminders) /\ n \in Nat
  <2>1. stored \in 0..Len(reminders) /\ Len(reminders) \in Nat /\ now \in Nat
    BY TimeIs DEF RemindersInv
  <2> QED BY <2>1 DEF RemindersInv
<1>2. /\ reminders' = k /\ stored' = n /\ now' = now
      /\ runtime' = Reminders!Started /\ chain' = <<Reminders!Txn("drive")>>
  BY DEF Reminders!Restart
<1>3. /\ Tidy(k) /\ Len(k) = n /\ \A y : Past(reminders, y) /\ y.pos <= n => Past(k, y)
  BY <1>1, TidyPrefix
<1> HIDE DEF k
<1>4. Chained(chain', runtime', k)
  BY <1>2, StartedIs
<1>5. ASSUME NEW y \in told' PROVE Accounted(y, runtime', k)
  <2>1. y \in Messages /\ (y.lost \/ (y \in told /\ y.pos # 0 /\ y.pos <= n))
    BY <1>1, RestartIs
  <2>2. ASSUME y \in told, y.pos # 0, y.pos <= n, ~y.lost PROVE Past(k, y)
    <3>1. Accounted(y, runtime, reminders)
      BY <2>2 DEF RemindersInv
    <3> QED BY <1>3, <2>2, <3>1 DEF Accounted
  <2> QED BY <2>1, <2>2 DEF Accounted
<1>6. stored' \in 0..Len(k)
  BY <1>1, <1>2, <1>3
<1> QED BY <1>1, <1>2, <1>3, <1>4, <1>5, <1>6 DEF RemindersInv

(* Every step keeps the invariant.                                         *)
LEMMA RemindersStep == RemindersInv /\ [Next]_allVars => RemindersInv'
<1> SUFFICES ASSUME RemindersInv, [Next]_allVars PROVE RemindersInv'
  OBVIOUS
<1>1. CASE UNCHANGED scheduleVars
  BY <1>1 DEF RemindersInv, scheduleVars
<1>2. CASE Reminders!Next
  <2>1. CASE Reminders!DriveStarts
    BY <2>1, DriveStartsKeeps
  <2>2. CASE Reminders!DriveWaits
    BY <2>2, DriveWaitsKeeps
  <2>3. CASE Reminders!Dispatch
    BY <2>3, DispatchKeeps
  <2>4. CASE Reminders!DispatchStored
    BY <2>4, DispatchStoredKeeps
  <2>5. CASE Reminders!Retire
    BY <2>5, RetireKeeps
  <2>6. CASE Reminders!ToolStarts
    BY <2>6, ToolStartsKeeps
  <2>7. CASE Reminders!ToolChecked
    BY <2>7, ToolCheckedKeeps
  <2>8. CASE Reminders!ToolStored \/ Reminders!ToolAppendRefused \/ Reminders!ToolRejected
    BY <2>8, ToolSettlesKeeps
  <2>9. CASE Reminders!AppendRefused(0) \/ Reminders!AppendRefused(1)
    BY <2>9, AppendRefusedKeeps
  <2>10. CASE Reminders!FollowupThrows \/ Reminders!DriveRejected
    BY <2>10, DriveFailsKeeps
  <2>11. CASE \/ \E d \in Delays : Reminders!Call([Reminders!Txn("create") EXCEPT !.delay = d])
              \/ Reminders!Call([Reminders!Txn("create") EXCEPT !.delay = Period, !.every = TRUE])
              \/ \E n \in 1..MaxRecords : Reminders!Call([Reminders!Txn("delete") EXCEPT !.rec = n])
              \/ Reminders!Call(Reminders!Txn("list"))
    BY <2>11, CallKeeps
  <2>12. CASE \/ Reminders!StartTurn \/ Reminders!AbortTurn \/ Reminders!EndTurn
              \/ Reminders!IdleResolves \/ Reminders!TimerFires
    BY <2>12, AgentKeeps
  <2>13. CASE Reminders!Tick \/ Reminders!Adjust \/ Reminders!Dispose
    BY <2>13, ClockKeeps
  <2>14. CASE \E n \in stored..Len(reminders) : Reminders!Restart(n)
    BY <2>14, RestartKeeps
  <2> QED BY <1>2, <2>1, <2>2, <2>3, <2>4, <2>5, <2>6, <2>7, <2>8, <2>9, <2>10, <2>11, <2>12,
             <2>13, <2>14
          DEF Reminders!Next, Reminders!Works, Reminders!Drive, Reminders!Tool
<1> QED BY <1>1, <1>2 DEF Next, allVars, scheduleVars, ToolSteps, RepairSteps, PublicationSteps,
           ApprovalSteps, RetrySteps, GoalSteps, ScheduleSteps

(* So it always holds.                                                     *)
LEMMA RemindersAlways == Spec => []RemindersInv
  BY RemindersInit, RemindersStep, PTL DEF Spec

(* A message that is new and not lost, against what was told before.       *)
Told(x) ==
  /\ stored' >= Len(reminders)
  /\ \E y \in Reminders!Active(reminders) : y.rec = x.rec /\ y.at <= x.at /\ x.at <= now
  /\ \A y \in told : (y.rec = x.rec /\ y.at >= x.at) => y.lost

(* What a maintenance job tells is due and new.                            *)
LEMMA FreshTold ==
  ASSUME RemindersInv, NEW n \in Nat, n <= DueCount, Reminders!MayDispatch, Reminders!Tells(n),
         NEW x \in told', x \notin told
  PROVE  Told(x)
<1>1. stored' = Len(reminders) /\ Fresh(x, reminders', n = DueCount)
  BY TellsIs
<1>2. /\ Tidy(reminders) /\ Len(reminders) \in Nat
      /\ Reminders!Active(reminders) \in SUBSET Reminded /\ runtime.faulted = "no"
  BY TimeIs, DueCountIs, HeadIs DEF RemindersInv, Reminders!MayDispatch
<1>3. stored' >= Len(reminders)
  BY <1>1, <1>2
<1>4. PICK z \in Reminders!Active(reminders) : z.rec = x.rec /\ z.at <= x.at /\ x.at <= now
  BY <1>1 DEF Fresh
<1>5. z.at \in Nat /\ x.at \in Int
  BY <1>1, <1>2 DEF Fresh, Messages, Reminded
<1>6. ASSUME NEW y \in told, y.rec = x.rec, y.at >= x.at PROVE y.lost
  <2>1. Accounted(y, runtime, reminders) /\ y.at \in Int
    BY DEF RemindersInv, Accounted, Messages
  <2>2. ASSUME Past(reminders, y) PROVE FALSE
    <3>1. PastAt(reminders, y)
      BY <1>2, <2>2, TidyNow
    <3>2. z.at > y.at
      BY <1>4, <1>6, <3>1 DEF PastAt
    <3> QED BY <1>4, <1>5, <1>6, <2>1, <3>2
  <2> QED BY <1>2, <2>1, <2>2 DEF Accounted
<1> QED BY <1>3, <1>4, <1>6 DEF Told

(* So is whatever a step adds and no restart has lost.                     *)
LEMMA ToldStep ==
  ASSUME RemindersInv, [Next]_allVars, NEW x \in told', x \notin told, ~x.lost
  PROVE  Told(x)
<1>1. Reminders!Next
  <2>1. \/ Reminders!Next \/ told' = told
    BY DEF Next, allVars, scheduleVars, ToolSteps, RepairSteps, PublicationSteps, ApprovalSteps,
           RetrySteps, GoalSteps, ScheduleSteps
  <2> QED BY <2>1
<1>2. \/ Reminders!Dispatch \/ Reminders!AppendRefused(0) \/ Reminders!AppendRefused(1)
      \/ \E n \in stored..Len(reminders) : Reminders!Restart(n)
      \/ told' = told
  BY <1>1 DEF Reminders!Next, Reminders!Works, Reminders!Drive, Reminders!Tool,
     Reminders!DriveStarts, Reminders!DriveWaits, Reminders!DispatchStored, Reminders!Retire,
     Reminders!ToolStarts, Reminders!ToolChecked, Reminders!ToolStored, Reminders!FollowupThrows,
     Reminders!DriveRejected, Reminders!Call, Reminders!ToolAppendRefused,
     Reminders!ToolRejected, Reminders!StartTurn, Reminders!AbortTurn, Reminders!EndTurn,
     Reminders!IdleResolves, Reminders!Tick, Reminders!Adjust, Reminders!TimerFires,
     Reminders!Dispose
<1>3. CASE Reminders!Dispatch
  <2>1. /\ Reminders!MayDispatch /\ Reminders!Tells(DueCount)
        /\ DueCount \in Nat /\ DueCount <= DueCount
    BY <1>3, DueCountIs DEF Reminders!Dispatch, DueCount
  <2> QED BY <2>1, FreshTold
<1>4. ASSUME NEW n \in Nat, Reminders!AppendRefused(n)
      PROVE  Told(x)
  <2>1. Reminders!MayDispatch /\ Reminders!Tells(n) /\ n <= DueCount
    BY <1>4 DEF Reminders!AppendRefused, Reminders!Tells, DueCount
  <2> QED BY <2>1, FreshTold
<1>5. ASSUME NEW n \in stored..Len(reminders), Reminders!Restart(n)
      PROVE  FALSE
  <2>1. n \in 0..Len(reminders)
    BY <1>5, TimeIs DEF RemindersInv
  <2> QED BY <1>5, <2>1, RestartIs
<1> QED BY <1>2, <1>3, <1>4, <1>5

(* A message about an occurrence is queued only for a reminder that is     *)
(* stored, active and due, and never twice unless the dispatch of the      *)
(* earlier one was lost in a restart: for any delays and periods, any      *)
(* number of records, calls and turns, refused appends, rejected           *)
(* checkpoints, clock adjustments and restarts (driveOnce, retire,         *)
(* foldScheduleEvents).                                                    *)
THEOREM RemindedAlwaysOnce == Spec => RemindedOnce
<1>1. RemindersInv /\ [Next]_allVars =>
        [\A x \in told' \ told :
           ~x.lost =>
             /\ stored' >= Len(reminders)
             /\ \E y \in Reminders!Active(reminders) :
                  y.rec = x.rec /\ y.at <= x.at /\ x.at <= now
             /\ \A y \in told : (y.rec = x.rec /\ y.at >= x.at) => y.lost]_scheduleVars
  BY ToldStep DEF Told
<1> QED BY <1>1, RemindersAlways, PTL DEF Spec, RemindedOnce, Reminders!RemindedOnce,
           Reminders!vars, scheduleVars

(* Whatever is created, dispatched, deleted or lost in a restart, the      *)
(* strict fold that a runtime and the session companion read the log with  *)
(* accepts it: no identifier is created twice, and nothing is deleted or   *)
(* dispatched that is not active and, at a fixed rate, due.                *)
THEOREM RemindersAlwaysReadable == Spec => []Reminders!AlwaysReadable
<1>1. RemindersInv => Reminders!AlwaysReadable
  <2> SUFFICES ASSUME RemindersInv PROVE Reminders!Readable(reminders)
    BY DEF Reminders!AlwaysReadable
  <2> DEFINE b(i) == SubSeq(reminders, 1, i - 1)
  <2>1. Tidy(reminders) /\ DOMAIN reminders = 1..Len(reminders) /\ Len(reminders) \in Nat
    BY TidyNow DEF RemindersInv, ReminderLogs
  <2>2. ASSUME NEW i \in 1..Len(reminders)
        PROVE  IF reminders[i].op = "create" THEN reminders[i].rec \notin Reminders!Created(b(i))
               ELSE \E x \in Reminders!Active(b(i)) :
                      x.rec = reminders[i].rec
                      /\ ((reminders[i].op = "dispatch" /\ x.every) => reminders[i].at >= x.at)
    <3> DEFINE e == reminders[i]
    <3>1. i - 1 \in 0..Len(reminders)
      BY <2>1
    <3>2. TidyAt(b(i)) /\ FitsIn(b(i), e)
      BY <2>1, <3>1 DEF Tidy
    <3>3. e.at \in Int
      BY <3>2, ReminderTypes DEF FitsIn
    <3> HIDE DEF b, e
    <3>4. CASE e.op = "create"
      <4> PICK k \in Nat : Reminders!Created(b(i)) = 1..k
        BY <3>2 DEF TidyAt
      <4>1. e.rec = k + 1
        <5>1. Cardinality(1..k) = k
          BY FS_Interval
        <5> QED BY <3>2, <3>4, <5>1 DEF FitsIn
      <4> QED BY <3>4, <4>1 DEF e
    <3>5. CASE e.op # "create"
      <4> PICK x \in Reminders!Active(b(i)) : x.rec = e.rec /\ (e.op = "dispatch" => x.at <= e.at)
        BY <3>2, <3>5 DEF FitsIn
      <4>1. x.at \in Int
        BY <3>2 DEF TidyAt, Reminded
      <4> QED BY <3>3, <3>5, <4>1 DEF e
    <3> QED BY <3>4, <3>5
  <2> QED BY <2>1, <2>2 DEF Reminders!Readable
<1> QED BY <1>1, RemindersAlways, PTL
=============================================================================
