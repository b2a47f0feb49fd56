-------------------------- MODULE WriteBehindLog --------------------------
(***************************************************************************)
(* The write-behind queue implements the promise of a durable log: the     *)
(* events accepted are the log, what the backend holds is stored, and the  *)
(* shared drain barrier is the flush under way.                            *)
(***************************************************************************)
EXTENDS WriteBehind

(* What the barrier is to its callers.                                     *)
Flushing ==
  CASE barrier = "none" -> "none"
    [] barrier = "rejecting" -> "failed"
    [] OTHER -> "open"

Promise == INSTANCE DurableLog WITH
  Events <- 1..MaxEvents, log <- Interval(0, accepted), stored <- durable,
  session <- init, asked <- waiting, drain <- Flushing

(* Through deadlines, overlapping writes, refusals and shared barriers the *)
(* backend holds a growing prefix of what was accepted, a flush resolves   *)
(* only over the whole of it, and one that drains is rejected only while   *)
(* an event is not stored (write-behind.ts:93-158, coordinator.ts:1326).   *)
DurableKept == Promise!Spec
===========================================================================
