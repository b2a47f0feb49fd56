------------------------------ MODULE Approval ------------------------------
(***************************************************************************)
(* ApprovalService.request on one session: the audit pair of every         *)
(* question, the policy gate, the answer racing the withdrawal of the      *)
(* question, and the standing approval of dependency installs.             *)
(***************************************************************************)
EXTENDS Naturals, Sequences, FiniteSets

CONSTANTS Asks,         \* questions asked on the session, some at once
          Installs,     \* those about dependency installs
          AutoApprove,  \* config.autoApproveDependencyInstalls
          MaxSwitches   \* bound: policy switches

ApprovalAssumption ==
  Installs \subseteq Asks /\ AutoApprove \in BOOLEAN /\ MaxSwitches \in Nat

Outcomes == {"allowed-once", "rejected", "cancelled", "unavailable"}
None == "none"

VARIABLES
  log,       \* the session's audit and policy events
  policy,    \* effectivePolicy: the fold of the log
  approved,  \* approvedDependencySessions holds the session
  ask        \* each question: progress, signal, answer, chosen outcome

vars == <<log, policy, approved, ask>>

Record(kind, a, value) == [kind |-> kind, ask |-> a, value |-> value]

(* `aborted` says when the signal fired: before or after an answerer        *)
(* settled the question's waterfall.                                        *)
Init ==
  /\ log = <<>> /\ policy = "ask" /\ approved = FALSE
  /\ ask = [a \in Asks |-> [at |-> "idle", aborted |-> "no", dispatched |-> FALSE,
                            answer |-> None, outcome |-> None]]

(* request: the asked record, then the standing approval or decide().      *)
Standing(a) == AutoApprove /\ a \in Installs /\ approved

Decide(a) ==
  CASE ask[a].aborted # "no" ->
         [ask[a] EXCEPT !.at = "settled", !.outcome = "cancelled"]
    [] ask[a].aborted = "no" /\ policy = "never" ->
         [ask[a] EXCEPT !.at = "settled", !.outcome = "rejected"]
    [] OTHER -> [ask[a] EXCEPT !.at = "waiting", !.dispatched = TRUE]

Request(a) ==
  /\ ask[a].at = "idle"
  /\ IF Standing(a)
     THEN /\ log' = log \o <<Record("asked", a, policy), Record("decided", a, "allowed-once")>>
          /\ ask' = [ask EXCEPT ![a].at = "returned", ![a].outcome = "allowed-once"]
     ELSE /\ log' = Append(log, Record("asked", a, policy))
          /\ ask' = [ask EXCEPT ![a] = Decide(a)]
  /\ UNCHANGED <<policy, approved>>

(* The answerers' waterfall settles: with the fallback's `unavailable`, a   *)
(* throw, or a value outside the vocabulary it fails closed.                *)
Normalized(v) == IF v \in Outcomes THEN v ELSE "unavailable"

Answer(a, v) ==
  /\ ask[a].dispatched /\ ask[a].answer = None
  /\ ask' = [ask EXCEPT ![a].answer = Normalized(v)]
  /\ UNCHANGED <<log, policy, approved>>

(* variant: the later of answer and abort decides.                          *)
AnyRacer(a) == ask[a].at \in {"waiting", "settled"}

(* The race's promise: only the first resolve counts.                       *)
Unsettled(a) == ask[a].at = "waiting"

AnswerObserved(a) ==
  /\ ask[a].answer # None /\ Unsettled(a)
  /\ ask' = [ask EXCEPT ![a].at = "settled", ![a].outcome = ask[a].answer]
  /\ UNCHANGED <<log, policy, approved>>

Abort(a) ==
  /\ ask[a].aborted = "no" /\ ask[a].at # "returned"
  /\ ask' = [ask EXCEPT
       ![a].aborted = IF ask[a].answer = None THEN "unanswered" ELSE "answered",
       ![a].at = IF Unsettled(a) THEN "settled" ELSE @,
       ![a].outcome = IF Unsettled(a) THEN "cancelled" ELSE @]
  /\ UNCHANGED <<log, policy, approved>>

(* request resumes: the decided record, then the standing approval.         *)
Decided(a) ==
  /\ ask[a].at = "settled"
  /\ log' = Append(log, Record("decided", a, ask[a].outcome))
  /\ approved' = (approved \/ (a \in Installs /\ ask[a].outcome = "allowed-once"))
  /\ ask' = [ask EXCEPT ![a].at = "returned"]
  /\ UNCHANGED policy

SetPolicy(p) ==
  /\ policy # p
  /\ Cardinality({i \in DOMAIN log : log[i].kind = "policy"}) < MaxSwitches
  /\ policy' = p /\ log' = Append(log, Record("policy", None, p))
  /\ UNCHANGED <<approved, ask>>

Next ==
  \/ \E a \in Asks :
       \/ Request(a) \/ AnswerObserved(a) \/ Abort(a) \/ Decided(a)
       \/ \E v \in Outcomes \cup {"rogue"} : Answer(a, v)
  \/ \E p \in {"ask", "never"} : SetPolicy(p)

Spec == Init /\ [][Next]_vars

-----------------------------------------------------------------------------
DecidedAt(i) == log[i].kind = "decided"
GrantAt(i) == DecidedAt(i) /\ log[i].value = "allowed-once"

(* The question was put under policy "ask" before the decision at i.        *)
PutUnderAsk(i) ==
  \E j \in 1..(i - 1) : log[j] = Record("asked", log[i].ask, "ask")

(* An answerer granted it, and no abort had withdrawn it by then.           *)
Answered(a) == ask[a].answer = "allowed-once" /\ ask[a].aborted # "unanswered"

(* An earlier install of the same session was granted.                      *)
StandingAt(i) ==
  /\ AutoApprove /\ log[i].ask \in Installs
  /\ \E j \in 1..(i - 1) : GrantAt(j) /\ log[j].ask \in Installs

(* The audit trail tells the truth (request, decide): a decision follows    *)
(* its question and is the only one; a grant was either given by an         *)
(* answerer to a question put under policy "ask" and not withdrawn before   *)
(* it was answered, or rests on an earlier grant of an install.             *)
DecisionsHonest ==
  \A i \in DOMAIN log : DecidedAt(i) =>
    /\ \E j \in 1..(i - 1) : log[j].kind = "asked" /\ log[j].ask = log[i].ask
    /\ \A j \in DOMAIN log : DecidedAt(j) /\ log[j].ask = log[i].ask => j = i
    /\ GrantAt(i) => StandingAt(i) \/ (PutUnderAsk(i) /\ Answered(log[i].ask))

(* What ApprovalPolicy's comment says: under "never" every ask resolves     *)
(* "rejected". (The code grants a standing install before the policy.)      *)
NeverRejects ==
  \A i, j \in DOMAIN log :
    (log[i].kind = "asked" /\ log[i].value = "never" /\ DecidedAt(j)
       /\ log[j].ask = log[i].ask) => log[j].value \in {"rejected", "cancelled"}
=============================================================================
