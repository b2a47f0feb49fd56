---------------------------- MODULE WriteBehind ----------------------------
(***************************************************************************)
(* SessionWriteBehind: the bounded batching queue between one live session *)
(* and its storage backend, together with the coordinator's flush path     *)
(* that waits for the session's initialization before it drains.           *)
(*                                                                         *)
(* JavaScript runs one job at a time, so an action here is the code between*)
(* two awaits.  Events are numbered in the order they are enqueued (their  *)
(* `seq`); `accepted` counts them and `durable` is what the backend holds. *)
(***************************************************************************)
EXTENDS Naturals, Sequences

CONSTANTS MaxEvents,    \* bound on enqueued events
          MaxFlushes,   \* bound on coordinator flush calls
          MaxFailures   \* bound on refused backend writes

ASSUME WriteBehindAssumption ==
  MaxEvents \in Nat /\ MaxFlushes \in Nat /\ MaxFailures \in Nat

VARIABLES
  accepted,         \* number of events enqueued so far
  durable,          \* events the backend has stored, in storage order
  pending,          \* SessionWriteBehind.pending
  batch,            \* the prefix the active write owns
  active,           \* who started the active write, and how far it got
  timer,            \* whether the batching deadline is armed
  deadlineExpired,  \* the deadline passed while a write was active
  automaticPaused,  \* a write failed and nothing new arrived since
  barrier,          \* progress of the shared drain barrier
  continuing,       \* continueAutomatic is queued behind a background write
  init,             \* the session's initialization promise
  waiting,          \* coordinator flushes awaiting `init`
  flushes,          \* flush calls made (bounded)
  failures          \* refused writes (bounded)

control == <<active, timer, deadlineExpired, automaticPaused, barrier, continuing>>
bounds  == <<init, waiting, flushes, failures>>
vars    == <<accepted, durable, pending, batch, control, bounds>>

Inactive == [owner |-> "none", stage |-> "none"]
Writing(owner) == [owner |-> owner, stage |-> "writing"]

Init ==
  /\ accepted = 0 /\ durable = <<>> /\ pending = <<>> /\ batch = <<>>
  /\ active = Inactive
  /\ timer = FALSE /\ deadlineExpired = FALSE /\ automaticPaused = FALSE
  /\ barrier = "none" /\ continuing = FALSE
  /\ init = "pending" /\ waiting = 0 /\ flushes = 0 /\ failures = 0

(* A macrotask (the timer) runs only when no promise reaction is queued.   *)
MicrotasksDrained ==
  /\ ~continuing
  /\ active.stage \notin {"stored", "refused"}
  /\ barrier # "rejecting"
  /\ barrier # "none" => active # Inactive

-----------------------------------------------------------------------------
(* cancelAutomaticWait: nothing is due any more.                           *)
CancelWait == timer' = FALSE /\ deadlineExpired' = FALSE

(* Whether an enqueued event opens a window, or resumes a paused path.     *)
BeginsWhenIdle ==   \* variant: not behind an active write
  barrier = "none" /\ pending = <<>> /\ active = Inactive
Begins  == barrier = "none" /\ pending = <<>>
Resumes == barrier = "none" /\ automaticPaused

(* enqueue(event): retain the event; arm the deadline when the automatic   *)
(* path is idle, or resume it after a failure.                             *)
Enqueue ==
  /\ accepted < MaxEvents
  /\ accepted' = accepted + 1
  /\ pending' = Append(pending, accepted + 1)
  /\ timer' = (timer \/ Resumes \/ Begins)
  /\ automaticPaused' = (automaticPaused /\ ~Resumes)
  /\ deadlineExpired' = (deadlineExpired /\ ~Resumes)
  /\ UNCHANGED <<durable, batch, active, barrier, continuing, bounds>>

(* startWrite: the whole queue becomes one batch and the deadline is spent.*)
StartWrite(owner) ==
  /\ batch' = pending /\ pending' = <<>>
  /\ active' = Writing(owner)
  /\ CancelWait

(* onDeadline: start a background write, or remember the spent budget.     *)
OnDeadline ==
  /\ timer /\ MicrotasksDrained
  /\ \/ /\ active = Inactive
        /\ StartWrite("background")
     \/ /\ active # Inactive
        /\ timer' = FALSE /\ deadlineExpired' = TRUE
        /\ UNCHANGED <<pending, batch, active>>
  /\ UNCHANGED <<accepted, durable, automaticPaused, barrier, continuing, bounds>>

(* The backend stores the batch: options.write resolves.  The coordinator  *)
(* awaits the session's initialization inside the write first.             *)
WriteStored ==
  /\ active.stage = "writing" /\ init = "ready"
  /\ durable' = durable \o batch
  /\ batch' = <<>>
  /\ active' = [active EXCEPT !.stage = "stored"]
  /\ UNCHANGED <<accepted, pending, timer, deadlineExpired, automaticPaused,
                 barrier, continuing, bounds>>

(* The write rejects: the batch returns to the front of the queue and the  *)
(* automatic path pauses.                                                  *)
RequeueLast == pending \o batch   \* variant: the batch returns to the back
Requeue == batch \o pending

WriteRefused ==
  /\ active.stage = "writing"
  /\ \/ init = "failed" /\ UNCHANGED failures
     \/ init = "ready" /\ failures < MaxFailures /\ failures' = failures + 1
  /\ pending' = Requeue
  /\ batch' = <<>>
  /\ CancelWait /\ automaticPaused' = TRUE
  /\ active' = [active EXCEPT !.stage = "refused"]
  /\ UNCHANGED <<accepted, durable, barrier, continuing, init, waiting, flushes>>

(* The promise chain's finally: the write is over, and its waiters are     *)
(* queued - continueAutomatic behind a stored background write, the drain  *)
(* loop (or its catch) behind the barrier's own write.                     *)
WriteSettled ==
  /\ active.stage \in {"stored", "refused"}
  /\ active' = Inactive
  /\ continuing' = (continuing \/ active = [owner |-> "background", stage |-> "stored"])
  /\ barrier' = IF active = [owner |-> "drain", stage |-> "refused"]
                THEN "rejecting" ELSE barrier
  /\ UNCHANGED <<accepted, durable, pending, batch, timer, deadlineExpired,
                 automaticPaused, bounds>>

(* continueAutomatic: write again at once when the budget was exceeded.    *)
ContinueAutomatic ==
  /\ continuing
  /\ continuing' = FALSE
  /\ IF barrier = "none" /\ pending # <<>> /\ deadlineExpired
     THEN StartWrite("background")
     ELSE UNCHANGED <<pending, batch, active, timer, deadlineExpired>>
  /\ UNCHANGED <<accepted, durable, automaticPaused, barrier, bounds>>

-----------------------------------------------------------------------------
(* The coordinator's flush cancels the automatic wait and awaits init.     *)
FlushRequested ==
  /\ flushes < MaxFlushes
  /\ flushes' = flushes + 1
  /\ waiting' = waiting + 1
  /\ CancelWait
  /\ UNCHANGED <<accepted, durable, pending, batch, active, automaticPaused,
                 barrier, continuing, init, failures>>

(* init settles, once.                                                     *)
InitSettled ==
  /\ init = "pending"
  /\ init' \in {"ready", "failed"}
  /\ UNCHANGED <<accepted, durable, pending, batch, control, waiting, flushes, failures>>

(* A flush whose init failed cancels the wait again and rejects.           *)
FlushRefused ==
  /\ waiting > 0 /\ init = "failed"
  /\ waiting' = waiting - 1
  /\ CancelWait
  /\ UNCHANGED <<accepted, durable, pending, batch, active, automaticPaused,
                 barrier, continuing, init, flushes, failures>>

(* SessionWriteBehind.flush joins the open barrier.                        *)
FlushJoins ==
  /\ waiting > 0 /\ init = "ready" /\ barrier # "none"
  /\ waiting' = waiting - 1
  /\ UNCHANGED <<accepted, durable, pending, batch, control, init, flushes, failures>>

(* SessionWriteBehind.flush opens the barrier, and drainBarrier runs to its*)
(* first await: behind an overlapping write, behind its own write, or, on  *)
(* a quiescent queue, not at all.                                          *)
FlushOpens ==
  /\ waiting > 0 /\ init = "ready" /\ barrier = "none"
  /\ waiting' = waiting - 1
  /\ automaticPaused' = FALSE
  /\ \/ /\ active # Inactive
        /\ barrier' = "overlap"
        /\ CancelWait
        /\ UNCHANGED <<pending, batch, active>>
     \/ /\ active = Inactive /\ pending # <<>>
        /\ barrier' = "draining"
        /\ StartWrite("drain")
     \/ /\ active = Inactive /\ pending = <<>>
        /\ barrier' = "none"
        /\ CancelWait
        /\ UNCHANGED <<pending, batch, active>>
  /\ UNCHANGED <<accepted, durable, continuing, init, flushes, failures>>

(* The drain loop resumes after the write it awaited: write the tail that  *)
(* was admitted meanwhile, or close the barrier on the empty queue.        *)
DrainForever == TRUE                  \* variant: the loop's condition is lost
DrainOnce == pending # <<>> /\ barrier = "overlap"   \* variant: one batch only
MoreToDrain == pending # <<>>

DrainResumes ==
  /\ barrier \in {"overlap", "draining"} /\ active = Inactive
  /\ automaticPaused' = (automaticPaused /\ barrier # "overlap")
  /\ IF MoreToDrain
     THEN barrier' = "draining" /\ StartWrite("drain")
     ELSE /\ barrier' = "none"
          /\ UNCHANGED <<pending, batch, active, timer, deadlineExpired>>
  /\ UNCHANGED <<accepted, durable, continuing, bounds>>

(* The drain loop's catch: the barrier closes and its callers are rejected.*)
DrainRejects ==
  /\ barrier = "rejecting"
  /\ barrier' = "none"
  /\ UNCHANGED <<accepted, durable, pending, batch, active, timer, deadlineExpired,
                 automaticPaused, continuing, bounds>>

Write == WriteStored \/ WriteRefused \/ WriteSettled
Drain == DrainResumes \/ DrainRejects
Flush == FlushRefused \/ FlushJoins \/ FlushOpens

Next == \/ Enqueue \/ OnDeadline \/ Write \/ ContinueAutomatic
        \/ FlushRequested \/ InitSettled \/ Flush \/ Drain

Spec == Init /\ [][Next]_vars

(* A backend write settles, timers fire, and promise reactions run.        *)
FairSpec == Spec /\ WF_vars(OnDeadline) /\ WF_vars(Write) /\ WF_vars(ContinueAutomatic)
                 /\ WF_vars(InitSettled) /\ WF_vars(Flush) /\ WF_vars(Drain)

-----------------------------------------------------------------------------
Actives == {Inactive} \cup [owner : {"background", "drain"},
                            stage : {"writing", "stored", "refused"}]

TypeOK ==
  /\ accepted \in Nat
  /\ durable \in Seq(Nat) /\ pending \in Seq(Nat) /\ batch \in Seq(Nat)
  /\ active \in Actives
  /\ timer \in BOOLEAN /\ deadlineExpired \in BOOLEAN
  /\ automaticPaused \in BOOLEAN /\ continuing \in BOOLEAN
  /\ barrier \in {"none", "overlap", "draining", "rejecting"}
  /\ init \in {"pending", "ready", "failed"}
  /\ waiting \in Nat /\ flushes \in Nat /\ failures \in Nat

(* Interval(a, b) is the run of events a+1 .. b.                           *)
Interval(a, b) == [i \in 1..(b - a) |-> a + i]

(* Nothing accepted is lost, duplicated or reordered, whatever fails: the  *)
(* stored log, the batch in flight and the queue are one contiguous run    *)
(* (startWrite's splice and its catch handler, write-behind.ts:139-158).   *)
OrderPreserved == durable \o batch \o pending = Interval(0, accepted)

(* A retained event always has someone who will write it: a deadline, an   *)
(* active write with its continuation, an open barrier or a flush about to *)
(* open one - or the queue is visibly paused after a failure, or the       *)
(* session never initialized (the comment at write-behind.ts:131-133).     *)
NothingStranded ==
  pending # <<>> =>
    \/ timer \/ continuing \/ barrier # "none" \/ waiting > 0
    \/ automaticPaused \/ init = "failed"
    \/ active # Inactive /\ deadlineExpired

(* Only one party drives the backend: while a barrier is open no deadline  *)
(* is armed and the active write is the barrier's own unless the barrier   *)
(* is waiting for an overlapping one (drainBarrier, write-behind.ts:118).  *)
BarrierExclusive ==
  /\ barrier # "none" => ~timer /\ ~deadlineExpired
  /\ barrier = "draining" => active = Inactive \/ active.owner = "drain"
  /\ active.owner = "drain" => barrier = "draining"
  /\ barrier = "rejecting" => active = Inactive

(* A deadline is armed only over retained work, and never over a paused    *)
(* path: so no enqueue arms a second timer that nobody could cancel        *)
(* (armTimer overwrites its handle, write-behind.ts:45-56 and 80-83).      *)
TimerJustified == timer => pending # <<>> /\ ~automaticPaused

(* A barrier that resolves has made every event accepted so far durable,   *)
(* also those enqueued while it was draining (write-behind.ts:125-135).    *)
FlushQuiescent ==
  [][(barrier \in {"overlap", "draining"} /\ barrier' = "none")
       => (durable = Interval(0, accepted))']_vars

(* Under a backend whose writes settle every open barrier closes.          *)
BarrierCloses == barrier # "none" ~> barrier = "none"

(* An accepted event reaches the backend by itself, unless a write failed  *)
(* after it was accepted or the session never initialized.                 *)
EventuallyDurable ==
  \A e \in 1..MaxEvents :
    accepted >= e ~> (Len(durable) >= e \/ automaticPaused \/ init = "failed")
=============================================================================
