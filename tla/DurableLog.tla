---------------------------- MODULE DurableLog ----------------------------
(***************************************************************************)
(* What a live session promises about its log, without saying how events   *)
(* are batched, retried or handed to storage.  The log only grows; what is *)
(* stored is a prefix of it and only grows; a flush resolves when the whole*)
(* log is stored, and fails only while some of it is not or because the    *)
(* session never came to be.                                               *)
(***************************************************************************)
EXTENDS Naturals, Sequences

CONSTANT Events

VARIABLES
  log,      \* the events accepted so far
  stored,   \* the events storage holds
  session,  \* pending, ready or failed
  asked,    \* flush calls that wait for the session
  drain     \* the flush under way: none, open or failed

view == <<log, stored, session, asked, drain>>

Init ==
  log = <<>> /\ stored = <<>> /\ session = "pending" /\ asked = 0 /\ drain = "none"

Accept(e) ==
  /\ log' = Append(log, e)
  /\ UNCHANGED <<stored, session, asked, drain>>

Store(n) ==
  /\ session = "ready"
  /\ stored' = SubSeq(log, 1, n)
  /\ UNCHANGED <<log, session, asked, drain>>

Begin ==
  /\ session = "pending" /\ session' \in {"ready", "failed"}
  /\ UNCHANGED <<log, stored, asked, drain>>

Ask ==
  /\ asked' = asked + 1
  /\ UNCHANGED <<log, stored, session, drain>>

(* A call is refused without a session; it shares the flush under way,     *)
(* starts one, or has nothing to wait for.                                 *)
Refuse == session = "failed" /\ UNCHANGED drain
Join   == session = "ready" /\ drain # "none" /\ UNCHANGED drain
Start  == session = "ready" /\ drain = "none" /\ drain' = "open"
AtOnce == session = "ready" /\ drain = "none" /\ stored = log /\ UNCHANGED drain

Answer ==
  /\ asked > 0 /\ asked' = asked - 1
  /\ Refuse \/ Join \/ Start \/ AtOnce
  /\ UNCHANGED <<log, stored, session>>

(* The flush under way ends, for all that share it.                        *)
Resolve == drain = "open" /\ stored = log /\ drain' = "none"
Fail    == drain = "open" /\ stored # log /\ drain' = "failed"
Reject  == drain = "failed" /\ stored # log /\ drain' = "none"

End == (Resolve \/ Fail \/ Reject) /\ UNCHANGED <<log, stored, session, asked>>

Next ==
  \/ \E e \in Events : Accept(e)
  \/ \E n \in Len(stored)..Len(log) : Store(n)
  \/ Begin \/ Ask \/ Answer \/ End

Spec == Init /\ [][Next]_view
===========================================================================
