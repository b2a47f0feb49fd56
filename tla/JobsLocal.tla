----------------------------- MODULE JobsLocal -----------------------------
(***************************************************************************)
(* LocalJobRegistry: background jobs with their owners, the waits for      *)
(* them, their completion notices and the teardown of an owner or of the   *)
(* whole service.  A completion should be reported once: through a notice  *)
(* to the completion listeners, or to whoever killed, read or waited.      *)
(*                                                                         *)
(* settle and the teardown loop call listeners in the middle; `notice` and *)
(* `todo` say which of them is in progress.  A listener may call the       *)
(* registry back, but promise reactions, timers and disposals wait.        *)
(***************************************************************************)
EXTENDS Naturals, FiniteSets

CONSTANTS Jobs,      \* jobs, each started at most once
          Owners,    \* agents that own jobs
          Waiters,   \* calls of wait()
          Limit      \* maxConcurrentJobsPerOwner

ASSUME JobsLocalAssumption ==
  Limit \in Nat \ {0} /\ "unowned" \notin Owners /\ "none" \notin Jobs

VARIABLES
  status,     \* TrackedTask.status, or unstarted
  owner,      \* TrackedTask.owner
  store,      \* jobs the registry holds a record of
  reported,   \* TrackedTask.reported
  producer,   \* the producer behind a job: is it running, told to stop, done
  notice,     \* what the completion listeners heard of a job
  target,     \* the job a wait() is for
  at,         \* how far a wait() got
  ownerAt,    \* disposal of an owner
  serviceAt,  \* disposal of the registry
  todo,       \* jobs a running cancelForTeardown has still to visit
  claims      \* history: who took over reporting the job before it settled

task     == <<status, owner, store, reported, producer, notice, claims>>
waits    == <<target, at>>
teardown == <<ownerAt, serviceAt, todo>>
vars     == <<task, waits, teardown>>

Buckets   == Owners \cup {"unowned"}
Endings   == {"completed", "killed", "failed"}
Terminal(j) == status[j] \in Endings
Live(j)     == status[j] \in {"running", "stopping"}
Of(o)       == {j \in store : owner[j] = o}

Init ==
  /\ status = [j \in Jobs |-> "unstarted"]
  /\ owner = [j \in Jobs |-> "unowned"]
  /\ store = {}
  /\ reported = [j \in Jobs |-> FALSE]
  /\ producer = [j \in Jobs |-> "none"]
  /\ notice = [j \in Jobs |-> "none"]
  /\ target = [w \in Waiters |-> "none"] /\ at = [w \in Waiters |-> "idle"]
  /\ ownerAt = [o \in Owners |-> "live"] /\ serviceAt = "live"
  /\ todo = {}
  /\ claims = [j \in Jobs |-> {}]

(* A job whose settlement is between its record and its completion notice. *)
Announcing == {j \in Jobs : notice[j] \in {"due", "dueReported"}}
(* No synchronous segment of the registry is in progress.                  *)
Quiet == Announcing = {} /\ todo = {}

-----------------------------------------------------------------------------
(* start: admission counts the owner's active records; the first job of an *)
(* owner attaches a cleanup, which needs a registered owner whose scope is *)
(* not being disposed.                                                     *)
Active(o) == {j \in Of(o) : Live(j)}

Start(j, o) ==
  /\ status[j] = "unstarted"
  /\ serviceAt = "live"
  /\ o \in Owners => ownerAt[o] = "live"
  /\ Cardinality(Active(o)) < Limit
  /\ status' = [status EXCEPT ![j] = "running"]
  /\ owner' = [owner EXCEPT ![j] = o]
  /\ store' = store \cup {j}
  /\ producer' = [producer EXCEPT ![j] = "running"]
  /\ UNCHANGED <<reported, notice, claims, waits, teardown>>

(* read of a terminal job, or kill of one: the completion is reported.     *)
Report(j) ==
  /\ j \in store /\ Terminal(j)
  /\ reported' = [reported EXCEPT ![j] = TRUE]
  /\ UNCHANGED <<status, owner, store, producer, notice, claims, waits, teardown>>

(* kill of a live job whose cancel returns; one that throws changes nothing.*)
Kill(j) ==
  /\ j \in store /\ Live(j)
  /\ producer' = [producer EXCEPT ![j] = IF @ = "running" THEN "stopping" ELSE @]
  /\ status' = [status EXCEPT ![j] = "stopping"]
  /\ reported' = [reported EXCEPT ![j] = TRUE]
  /\ claims' = [claims EXCEPT ![j] = @ \cup {"kill"}]
  /\ UNCHANGED <<owner, store, notice, waits, teardown>>

(* wait: count the waiter and listen for settlement, timeout and abort.    *)
Wait(w, j) ==
  /\ at[w] = "idle"
  /\ j \in store /\ Live(j)
  /\ target' = [target EXCEPT ![w] = j]
  /\ at' = [at EXCEPT ![w] = "waiting"]
  /\ UNCHANGED <<task, teardown>>

(* An abort while waiting stops counting the waiter at once.               *)
AbortWait(w) ==
  /\ at[w] = "waiting"
  /\ at' = [at EXCEPT ![w] = "aborted"]
  /\ UNCHANGED <<target, task, teardown>>

(* The timeout resolves the wait, which stays counted until it resumes.    *)
TimeOut(w) ==
  /\ Quiet /\ at[w] = "waiting"
  /\ at' = [at EXCEPT ![w] = "released"]
  /\ UNCHANGED <<target, task, teardown>>

(* A released wait resumes: a terminal job is reported to its caller.      *)
ResumeWait(w) ==
  /\ Quiet /\ at[w] = "released"
  /\ IF Terminal(target[w])
     THEN /\ reported' = [reported EXCEPT ![target[w]] = TRUE]
          /\ at' = [at EXCEPT ![w] = "delivered"]
     ELSE at' = [at EXCEPT ![w] = "expired"] /\ UNCHANGED reported
  /\ UNCHANGED <<target, status, owner, store, producer, notice, claims, teardown>>

-----------------------------------------------------------------------------
(* settle: record the first terminal outcome, release the waits, and leave *)
(* the completion notice to be announced.                                  *)
CountedAborted(j) ==   \* variant: an aborted wait is still counted
  {w \in Waiters : target[w] = j /\ at[w] \in {"waiting", "released", "aborted"}}
Counted(j) == {w \in Waiters : target[w] = j /\ at[w] \in {"waiting", "released"}}

ReleaseWaits(j) ==
  at' = [w \in Waiters |-> IF target[w] = j /\ at[w] = "waiting" THEN "released" ELSE at[w]]

(* `before` is the reported flag as the caller of settle left it.          *)
Settle(j, ending, before) ==
  LET claimed == before \/ Counted(j) # {} IN
  /\ status' = [status EXCEPT ![j] = ending]
  /\ reported' = [reported EXCEPT ![j] = claimed]
  /\ notice' = [notice EXCEPT ![j] = IF claimed THEN "dueReported" ELSE "due"]
  /\ ReleaseWaits(j)

(* The producer's `done` settles; after a force-failure nobody listens.    *)
FirstOutcome(j) == ~Terminal(j)

ProducerSettles(j) ==
  /\ Quiet /\ producer[j] \in {"running", "stopping"}
  /\ producer' = [producer EXCEPT ![j] = "done"]
  /\ IF FirstOutcome(j)
     THEN \E ending \in Endings : Settle(j, ending, reported[j])
     ELSE UNCHANGED <<status, reported, notice, at>>
  /\ UNCHANGED <<target, owner, store, claims, teardown>>

(* The rest of settle, behind the change observers: announce completion.   *)
ListenersLive == serviceAt = "live"
Announce(j) ==
  /\ j \in Announcing
  /\ notice' = [notice EXCEPT ![j] = CASE ~ListenersLive -> "closed"
                                       [] @ = "due"      -> "unreported"
                                       [] OTHER          -> "reported"]
  /\ UNCHANGED <<status, owner, store, reported, producer, claims, waits, teardown>>

-----------------------------------------------------------------------------
(* Disposal of an owner, or of the service: cancel every live record, await*)
(* their settlement, drop them.                                            *)
DisposeOwner(o) ==
  /\ Quiet /\ ownerAt[o] = "live"
  /\ ownerAt' = [ownerAt EXCEPT ![o] = "draining"]
  /\ todo' = {j \in Of(o) : Live(j)}
  /\ UNCHANGED <<serviceAt, task, waits>>

DisposeService ==
  /\ Quiet /\ serviceAt = "live"
  /\ serviceAt' = "draining"
  /\ todo' = {j \in store : Live(j)}
  /\ UNCHANGED <<ownerAt, task, waits>>

(* cancelForTeardown, one record: claim its report, then cancel; a throwing*)
(* cancel forces the record to failed.                                     *)
Claim(j) == TRUE

ForceNothing(j) ==   \* variant: a throwing cancel is only logged
  /\ status' = [status EXCEPT ![j] = "stopping"]
  /\ reported' = [reported EXCEPT ![j] = Claim(j)]
  /\ UNCHANGED <<notice, at, producer>>
ForceFail(j) == Settle(j, "failed", Claim(j)) /\ UNCHANGED producer

CancelOne(j) ==
  /\ Announcing = {} /\ j \in todo
  /\ todo' = todo \ {j}
  /\ claims' = [claims EXCEPT ![j] = @ \cup {"teardown"}]
  /\ \/ /\ producer' = [producer EXCEPT ![j] = IF @ = "running" THEN "stopping" ELSE @]
        /\ status' = [status EXCEPT ![j] = "stopping"]
        /\ reported' = [reported EXCEPT ![j] = TRUE]
        /\ UNCHANGED <<notice, at>>
     \/ ForceFail(j)
  /\ UNCHANGED <<owner, store, target, ownerAt, serviceAt>>

AllSettled(S) == \A j \in S : Terminal(j)

OwnerDrained(o) ==
  /\ Quiet /\ ownerAt[o] = "draining" /\ AllSettled(Of(o))
  /\ ownerAt' = [ownerAt EXCEPT ![o] = "gone"]
  /\ store' = store \ Of(o)
  /\ UNCHANGED <<status, owner, reported, producer, notice, claims, waits, serviceAt, todo>>

ServiceDrained ==
  /\ Quiet /\ serviceAt = "draining" /\ AllSettled(store)
  /\ serviceAt' = "gone"
  /\ store' = {}
  /\ UNCHANGED <<status, owner, reported, producer, notice, claims, waits, ownerAt, todo>>

-----------------------------------------------------------------------------
Callers == \/ \E j \in Jobs : Report(j) \/ Kill(j) \/ \E o \in Buckets : Start(j, o)
           \/ \E w \in Waiters : AbortWait(w) \/ \E j \in Jobs : Wait(w, j)
Settlement == \E j \in Jobs : ProducerSettles(j)
Listeners  == \E j \in Jobs : Announce(j)
Waiting    == \E w \in Waiters : TimeOut(w) \/ ResumeWait(w)
Disposal   == \/ \E o \in Owners : DisposeOwner(o) \/ OwnerDrained(o)
              \/ DisposeService \/ ServiceDrained
              \/ \E j \in Jobs : CancelOne(j)

Next == Callers \/ Settlement \/ Listeners \/ Waiting \/ Disposal
Spec == Init /\ [][Next]_vars

(* Synchronous code ends, promise reactions run, and a producer whose      *)
(* cancel returned settles.  Other producers may run for ever.             *)
FairSpec ==
  /\ Spec
  /\ WF_vars(Listeners) /\ WF_vars(\E j \in Jobs : CancelOne(j))
  /\ \A j \in Jobs : WF_vars(producer[j] = "stopping" /\ ProducerSettles(j))
  /\ \A o \in Owners : WF_vars(OwnerDrained(o))
  /\ WF_vars(ServiceDrained)

-----------------------------------------------------------------------------
TypeOK ==
  /\ status \in [Jobs -> {"unstarted", "running", "stopping"} \cup Endings]
  /\ owner \in [Jobs -> Buckets]
  /\ store \subseteq Jobs
  /\ reported \in [Jobs -> BOOLEAN]
  /\ producer \in [Jobs -> {"none", "running", "stopping", "done"}]
  /\ notice \in [Jobs -> {"none", "due", "dueReported", "unreported", "reported", "closed"}]
  /\ target \in [Waiters -> Jobs \cup {"none"}]
  /\ at \in [Waiters -> {"idle", "waiting", "released", "delivered", "expired", "aborted"}]
  /\ ownerAt \in [Owners -> {"live", "draining", "gone"}]
  /\ serviceAt \in {"live", "draining", "gone"}
  /\ todo \subseteq Jobs
  /\ claims \in [Jobs -> SUBSET {"kill", "teardown"}]

(* A completion announced as already reported really reaches somebody: the *)
(* caller who killed it, the teardown that claimed it, or a wait that      *)
(* returns the terminal snapshot - never only a wait that was aborted      *)
(* (jobs/src/index.ts:124-125, jobs-local/src/index.ts:238-245).           *)
NoticeAccounted ==
  \A j \in Jobs : notice[j] = "reported" =>
    \/ claims[j] # {}
    \/ \E w \in Waiters : target[w] = j /\ at[w] \in {"released", "delivered"}

(* A completion announced as news is not also handed to a wait that was    *)
(* pending when the job settled, timed out in the same tick or not         *)
(* (settle, jobs-local/src/index.ts:416-440).                              *)
NoDoubleReport ==
  \A j \in Jobs, w \in Waiters :
    notice[j] = "unreported" /\ target[w] = j => at[w] \notin {"released", "delivered"}

(* Settlement leaves no wait behind: whoever still waits, waits for a live *)
(* job, so an abort never takes back a terminal snapshot ("A settled job   *)
(* cannot reach here", jobs-local/src/index.ts:259-262).                   *)
WaitsReleased == \A w \in Waiters : at[w] = "waiting" => Live(target[w])

(* A job that teardown cancels is never announced as news, also when its   *)
(* cancel throws and the record is forced (jobs-local/src/index.ts:510-517).*)
TeardownSilent ==
  \A j \in Jobs : "teardown" \in claims[j] => notice[j] \notin {"due", "unreported"}

(* A terminal outcome is final: a late producer does not overwrite a forced*)
(* failure (README, "Settlement is first-wins").                           *)
FirstWins == [][\A j \in Jobs : Terminal(j) => status'[j] = status[j]]_vars

(* Teardown ends: compliant producers settle, and a throwing cancel is     *)
(* forced, so neither an owner nor the service drains for ever.            *)
TeardownEnds ==
  /\ \A o \in Owners : ownerAt[o] = "draining" ~> ownerAt[o] = "gone"
  /\ serviceAt = "draining" ~> serviceAt = "gone"
=============================================================================
