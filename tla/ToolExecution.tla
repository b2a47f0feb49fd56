--------------------------- MODULE ToolExecution ---------------------------
(***************************************************************************)
(* ToolRuntime: the staged pipeline of one tool call.  Input is            *)
(* materialized, pre-execute policy, the approval seam and guards decide,  *)
(* `tools/execute` wrappers run around the body, and the outcome is        *)
(* finalized by post-execute policy.  The caller may cancel at any await;  *)
(* the code of the outcome must then say whether the body had been invoked.*)
(***************************************************************************)
EXTENDS Naturals

CONSTANT MaxAttempts   \* times a tools/execute wrapper may call next()

ToolExecutionAssumption == MaxAttempts \in Nat \ {0}

VARIABLES
  signal,      \* the caller's abort signal
  deadline,    \* a timeout wrapper's own signal: none | armed | expired
  at,          \* stage of the pipeline the call is suspended in
  attempts,    \* calls of next() by the wrappers
  bodyInvoked, \* ToolCancellationState.bodyInvoked
  needsPost,   \* the parked result still goes through post-execute
  result       \* outcome so far

vars == <<signal, deadline, at, attempts, bodyInvoked, needsPost, result>>

Cancelled == {"ABORTED", "ABORTED_BEFORE_DISPATCH"}
Specific  == {"denied", "unknown", "failed", "TOOL_TIMEOUT", "blocked"}
Outcomes  == {"none", "success"} \cup Cancelled \cup Specific

Init ==
  /\ signal \in BOOLEAN /\ deadline = "none"
  /\ at = "entry" /\ attempts = 0
  /\ bodyInvoked = FALSE /\ needsPost = FALSE /\ result = "none"

(* The caller aborts, or the timeout wrapper's timer fires.                *)
Cancel ==
  /\ ~signal /\ signal' = TRUE
  /\ UNCHANGED <<deadline, at, attempts, bodyInvoked, needsPost, result>>

Expire ==
  /\ deadline = "armed" /\ at \in {"wrapper", "body", "returning"}
  /\ deadline' = "expired"
  /\ UNCHANGED <<signal, at, attempts, bodyInvoked, needsPost, result>>

(* A result parked for its turn in model order.                            *)
Park(outcome, post) == at' = "parked" /\ result' = outcome /\ needsPost' = post

(* createExecution and the entry check: invalid input, a call the code mode*)
(* collapses, and a call cancelled already never reach policy.             *)
Enter ==
  /\ at = "entry"
  /\ \/ Park("failed", FALSE)
     \/ ~signal /\ Park("unknown", FALSE)
     \/ signal /\ Park("ABORTED_BEFORE_DISPATCH", FALSE)
     \/ ~signal /\ at' = "preExecute" /\ UNCHANGED <<result, needsPost>>
  /\ UNCHANGED <<signal, deadline, attempts, bodyInvoked>>

(* The decision taken: guards may still deny an allowed call, and so does  *)
(* a cancellation that arrived while policy was deciding.                  *)
Allow ==
  \/ Park("denied", TRUE)
  \/ signal /\ Park("ABORTED_BEFORE_DISPATCH", TRUE)
  \/ ~signal /\ at' = "wrapper" /\ UNCHANGED <<result, needsPost>>

PreExecute ==
  /\ at = "preExecute"
  /\ \/ Allow
     \/ Park("denied", TRUE)
     \/ Park("failed", FALSE)
     \/ at' = "asking" /\ UNCHANGED <<result, needsPost>>
  /\ UNCHANGED <<signal, deadline, attempts, bodyInvoked>>

(* serviceAsk: granted, refused or unavailable, or cancelled - which is a  *)
(* denial unless it was the caller who cancelled.                          *)
Ask ==
  /\ at = "asking"
  /\ \/ Allow
     \/ Park("denied", TRUE)
     \/ signal /\ Park("ABORTED_BEFORE_DISPATCH", TRUE)
     \/ Park("failed", FALSE)
  /\ UNCHANGED <<signal, deadline, attempts, bodyInvoked>>

-----------------------------------------------------------------------------
(* cancellationResult: selected by whether the body was invoked.           *)
CancellationSwapped ==   \* variant: the two codes exchanged
  IF bodyInvoked THEN "ABORTED_BEFORE_DISPATCH" ELSE "ABORTED"
Cancellation == IF bodyInvoked THEN "ABORTED" ELSE "ABORTED_BEFORE_DISPATCH"

(* Cancellation supersedes a success, and nothing else.                    *)
SupersedeNothing(outcome) == outcome   \* variant: the signal is not read again
Supersede(outcome) == IF signal /\ outcome = "success" THEN Cancellation ELSE outcome

(* The signal the body sees fuses the caller's with the wrapper's.         *)
Fused == signal \/ deadline = "expired"

(* The timeout policy arms its deadline once.                              *)
ArmDeadline ==
  /\ at = "wrapper" /\ deadline = "none" /\ attempts = 0
  /\ deadline' = "armed"
  /\ UNCHANGED <<signal, at, attempts, bodyInvoked, needsPost, result>>

(* dispatchToolBody: not under an aborted signal; otherwise invoke it.     *)
Invoke ==
  \/ /\ Fused
     /\ result' = "ABORTED_BEFORE_DISPATCH" /\ at' = "returning"
     /\ UNCHANGED bodyInvoked
  \/ ~Fused /\ at' = "body" /\ bodyInvoked' = TRUE /\ UNCHANGED result
  \/ ~Fused /\ at' = "returning" /\ result' = "unknown" /\ UNCHANGED bodyInvoked

CallNext ==
  /\ at = "wrapper" \/ (at = "returning" /\ result # "success")
  /\ attempts < MaxAttempts
  /\ attempts' = attempts + 1
  /\ Invoke
  /\ UNCHANGED <<signal, deadline, needsPost>>

(* The body settles; a success under an aborted signal is ABORTED.         *)
BodySettles ==
  /\ at = "body" /\ at' = "returning"
  /\ \/ result' = IF Fused THEN "ABORTED" ELSE "success"
     \/ result' = "failed"
  /\ UNCHANGED <<signal, deadline, attempts, bodyInvoked, needsPost>>

(* The outermost wrapper returns: what next() gave it, TOOL_TIMEOUT when   *)
(* its deadline expired, an outcome of its own, or it throws.  A wrapper   *)
(* that never called next() vetoes the body, as the checkpoint policy does *)
(* when the signal is aborted after its flush.                             *)
WrapperReturns ==
  /\ at \in {"wrapper", "returning"}
  /\ LET given == CASE deadline = "expired" -> {"TOOL_TIMEOUT"}
                    [] at = "returning" -> {result, "success", "failed"}
                    [] OTHER -> {"success", "failed"}
                             \cup (IF signal THEN {"ABORTED_BEFORE_DISPATCH"} ELSE {})
     IN  \E outcome \in given : Park(Supersede(outcome), TRUE)
  /\ UNCHANGED <<signal, deadline, attempts, bodyInvoked>>

WrapperThrows ==
  /\ at \in {"wrapper", "returning"}
  /\ Park("failed", FALSE)
  /\ UNCHANGED <<signal, deadline, attempts, bodyInvoked>>

-----------------------------------------------------------------------------
(* finalize: post-execute policy starts on the parked result.              *)
StartPostExecute ==
  /\ at = "parked" /\ needsPost
  /\ at' = "postExecute"
  /\ UNCHANGED <<signal, deadline, attempts, bodyInvoked, needsPost, result>>

(* finish: materialize the outcome and notify; projecting it may fail.     *)
Finish(outcome) == at' = "done" /\ result' \in {outcome, "failed"}

FinishFinal ==
  /\ at = "parked" /\ ~needsPost
  /\ Finish(result)
  /\ UNCHANGED <<signal, deadline, attempts, bodyInvoked, needsPost>>

(* Post-execute policy accepts, blocks or throws; the signal is read again.*)
PostExecute ==
  /\ at = "postExecute"
  /\ \/ Finish(Supersede(result))
     \/ Finish("blocked")
     \/ Finish("failed")
  /\ UNCHANGED <<signal, deadline, attempts, bodyInvoked, needsPost>>

Wrapper == ArmDeadline \/ CallNext \/ WrapperReturns \/ WrapperThrows
Pipeline == \/ Enter \/ PreExecute \/ Ask \/ Wrapper \/ BodySettles
            \/ StartPostExecute \/ FinishFinal \/ PostExecute
Next == Pipeline \/ Cancel \/ Expire
Spec == Init /\ [][Next]_vars

-----------------------------------------------------------------------------
TypeOK ==
  /\ signal \in BOOLEAN /\ deadline \in {"none", "armed", "expired"}
  /\ at \in {"entry", "preExecute", "asking", "wrapper", "body", "returning",
             "parked", "postExecute", "done"}
  /\ attempts \in 0..MaxAttempts
  /\ bodyInvoked \in BOOLEAN /\ needsPost \in BOOLEAN
  /\ result \in Outcomes

(* A call that was cancelled never reports success, at whichever await the *)
(* cancellation arrived (index.ts:1592, 1614).                             *)
CancelledNeverSucceeds ==
  [][at # "done" /\ at' = "done" /\ signal => result' # "success"]_vars

(* The tool body is never invoked once the caller has cancelled, nor after *)
(* a denial (index.ts:1500-1503, 1540-1548).                               *)
BodyGated == [][~bodyInvoked /\ bodyInvoked' => ~signal /\ result = "none"]_vars

(* A more specific outcome is not rewritten into a cancellation            *)
(* (core/tools/README.md: "remains more specific").                        *)
SpecificKept ==
  [][(at \in {"parked", "postExecute"} /\ result \in Specific)
       => result' \in Specific]_vars

(* "Canonical error code for cancellation before a tool body was invoked." *)
(* (index.ts:471): the code is not reported for a body that was.           *)
BeforeDispatchHonest ==
  result = "ABORTED_BEFORE_DISPATCH" /\ at = "done" => ~bodyInvoked
=============================================================================
