------------------------- MODULE WriteBehindProofs -------------------------
(***************************************************************************)
(* Proofs about the write-behind queue, for any bounds: it loses and       *)
(* reorders nothing, its barrier is exclusive and closes only on a durable *)
(* queue, and no retained event is stranded.                               *)
(***************************************************************************)
EXTENDS WriteBehindLog, SequenceTheorems, TLAPS

(* Only a write in progress owns a batch.                                  *)
BatchOwned == batch # <<>> => active.stage = "writing"

(* A continuation outside a barrier finds no other write active.           *)
ContinuesAlone == continuing /\ barrier = "none" => active = Inactive

(* A refused write has spent the deadline, and a refusal the barrier has to*)
(* report has paused the automatic path.                                   *)
RefusalPauses ==
  /\ active.stage = "refused" => ~deadlineExpired
  /\ active = [owner |-> "drain", stage |-> "refused"] => automaticPaused
  /\ barrier = "rejecting" => automaticPaused

(* NothingStranded, made inductive: a continuation counts as an owner of   *)
(* the queue only while the spent deadline will make it write.             *)
QueueOwned ==
  pending # <<>> =>
    \/ timer \/ barrier # "none" \/ waiting > 0
    \/ automaticPaused \/ init = "failed"
    \/ deadlineExpired /\ (active # Inactive \/ continuing)

Control == /\ BatchOwned /\ ContinuesAlone /\ RefusalPauses
           /\ BarrierExclusive /\ TimerJustified /\ QueueOwned

IInv == TypeOK /\ Control /\ OrderPreserved

-----------------------------------------------------------------------------
(* Extending an interval by its next event.                                *)
LEMMA IntervalAppend ==
  ASSUME NEW n \in Nat
  PROVE  /\ Interval(0, n) \in Seq(Nat)
         /\ Append(Interval(0, n), n + 1) = Interval(0, n + 1)
BY DEF Interval

(* Concatenation of event sequences is associative.                        *)
LEMMA Association ==
  \A s, t, u \in Seq(Nat) : (s \o t) \o u = s \o (t \o u)
BY ConcatAssociative

(* A queue with an event is not empty.                                     *)
LEMMA AppendNonEmpty == \A q \in Seq(Nat), e \in Nat : Append(q, e) # <<>>
OBVIOUS

(* An event appended to the last of three sequences is the last of all.    *)
LEMMA AppendLast ==
  \A s, t, u \in Seq(Nat), e \in Nat : s \o t \o Append(u, e) = Append(s \o t \o u, e)
<1> SUFFICES ASSUME NEW s \in Seq(Nat), NEW t \in Seq(Nat), NEW u \in Seq(Nat), NEW e \in Nat
             PROVE  s \o t \o Append(u, e) = Append(s \o t \o u, e)
  OBVIOUS
<1>1. s \o t \in Seq(Nat)
  BY ConcatProperties
<1>2. <<e>> \in Seq(Nat) /\ Append(u, e) = u \o <<e>>
  OBVIOUS
<1>3. (s \o t) \o (u \o <<e>>) = ((s \o t) \o u) \o <<e>>
  BY <1>1, <1>2, Association
<1>4. (s \o t) \o u \in Seq(Nat)
  BY <1>1, ConcatProperties
<1>5. Append((s \o t) \o u, e) = ((s \o t) \o u) \o <<e>>
  BY <1>4
<1> QED BY <1>2, <1>3, <1>5

-----------------------------------------------------------------------------
(* The stages an active write goes through.                                *)
LEMMA ActiveStages ==
  /\ Inactive \in Actives /\ Inactive.stage = "none" /\ Inactive.owner = "none"
  /\ \A o \in {"background", "drain"} :
       Writing(o) \in Actives /\ Writing(o).stage = "writing" /\ Writing(o).owner = o
  /\ \A a \in Actives, to \in {"stored", "refused"} :
       a.stage = "writing" =>
         LET b == [a EXCEPT !.stage = to]
         IN  b \in Actives /\ b.stage = to /\ b.owner = a.owner
  /\ \A a \in Actives : a.stage = "none" <=> a = Inactive
  /\ \A a \in Actives : a.owner = "none" <=> a = Inactive
  /\ \A a \in Actives, o \in {"background", "drain"}, g \in {"stored", "refused"} :
       a = [owner |-> o, stage |-> g] <=> a.owner = o /\ a.stage = g
BY DEF Actives, Inactive, Writing

(* Every variable keeps its type.                                          *)
LEMMA TypeStep == TypeOK /\ [Next]_vars => TypeOK'
<1> SUFFICES ASSUME TypeOK, [Next]_vars PROVE TypeOK'
  OBVIOUS
<1> USE DEF TypeOK, CancelWait, bounds, control
<1>a. <<>> \in Seq(Nat)
  OBVIOUS
<1>b. ASSUME NEW o \in {"background", "drain"}, StartWrite(o)
      PROVE  /\ pending' \in Seq(Nat) /\ batch' \in Seq(Nat) /\ active' \in Actives
             /\ timer' \in BOOLEAN /\ deadlineExpired' \in BOOLEAN
  BY <1>a, <1>b, ActiveStages DEF StartWrite
<1>1. CASE Enqueue
  BY <1>1 DEF Enqueue, Resumes, Begins
<1>2. CASE OnDeadline
  BY <1>2, <1>b DEF OnDeadline
<1>3. CASE Write
  <2>1. durable \o batch \in Seq(Nat) /\ batch \o pending \in Seq(Nat)
    BY ConcatProperties
  <2>2. CASE WriteStored
    <3>1. active' \in Actives
      BY <2>2, ActiveStages DEF WriteStored
    <3> QED BY <3>1, <1>a, <2>1, <2>2 DEF WriteStored
  <2>3. CASE WriteRefused
    <3>1. active' \in Actives
      BY <2>3, ActiveStages DEF WriteRefused
    <3>2. failures' \in Nat
      BY <2>3 DEF WriteRefused
    <3> QED BY <3>1, <3>2, <1>a, <2>1, <2>3 DEF WriteRefused, Requeue
  <2>4. CASE WriteSettled
    BY <2>4, ActiveStages DEF WriteSettled
  <2> QED BY <1>3, <2>2, <2>3, <2>4 DEF Write
<1>4. CASE ContinueAutomatic
  BY <1>4, <1>b DEF ContinueAutomatic
<1>5. CASE FlushRequested
  <2>1. waiting' \in Nat /\ flushes' \in Nat
    BY <1>5 DEF FlushRequested
  <2> QED BY <1>5, <2>1 DEF FlushRequested
<1>6. CASE InitSettled
  BY <1>6 DEF InitSettled
<1>7. CASE FlushRefused \/ FlushJoins
  <2>1. waiting' \in Nat
    BY <1>7 DEF FlushRefused, FlushJoins
  <2> QED BY <1>7, <2>1 DEF FlushRefused, FlushJoins
<1>8. CASE FlushOpens
  <2>1. waiting' \in Nat
    BY <1>8 DEF FlushOpens
  <2> QED BY <1>8, <1>b, <2>1 DEF FlushOpens
<1>9. CASE DrainResumes
  BY <1>9, <1>b DEF DrainResumes
<1>10. CASE DrainRejects
  BY <1>10 DEF DrainRejects
<1>11. CASE UNCHANGED vars
  BY <1>11 DEF vars
<1> QED
  BY <1>1, <1>2, <1>3, <1>4, <1>5, <1>6, <1>7, <1>8, <1>9, <1>10, <1>11
  DEF Next, Flush, Drain

-----------------------------------------------------------------------------
(* What starting a write does to the control state.                        *)
LEMMA StartWriteControl ==
  ASSUME NEW o \in {"background", "drain"}, StartWrite(o)
  PROVE  /\ pending' = <<>> /\ ~timer' /\ ~deadlineExpired'
         /\ active' # Inactive /\ active'.stage = "writing" /\ active'.owner = o
BY ActiveStages DEF StartWrite, CancelWait

(* The control part of the invariant survives every step.                  *)
LEMMA ControlStep == TypeOK /\ Control /\ [Next]_vars => Control'
<1> SUFFICES ASSUME TypeOK, Control, [Next]_vars PROVE Control'
  OBVIOUS
<1>a. Enqueue => pending' # <<>>
  <2>1. accepted + 1 \in Nat
    BY DEF TypeOK
  <2> QED BY <2>1, AppendNonEmpty DEF TypeOK, Enqueue
<1> USE ActiveStages
    DEF TypeOK, Control, BatchOwned, ContinuesAlone, RefusalPauses, BarrierExclusive,
        TimerJustified, QueueOwned, CancelWait, bounds, control
<1>1. CASE Enqueue
  BY <1>1, <1>a DEF Enqueue, Resumes, Begins
<1>2. CASE OnDeadline
  BY <1>2, StartWriteControl DEF OnDeadline, MicrotasksDrained
<1>3. CASE WriteStored
  BY <1>3 DEF WriteStored
<1>4. CASE WriteRefused
  BY <1>4 DEF WriteRefused
<1>5. CASE WriteSettled
  <2>1. active.owner \in {"background", "drain"} /\ active.stage \in {"stored", "refused"}
    BY <1>5 DEF WriteSettled, Actives, Inactive
  <2>2. CASE active = [owner |-> "drain", stage |-> "refused"]
    BY <1>5, <2>2 DEF WriteSettled
  <2>3. CASE active = [owner |-> "background", stage |-> "stored"]
    BY <1>5, <2>3 DEF WriteSettled
  <2>4. CASE active = [owner |-> "drain", stage |-> "stored"]
    BY <1>5, <2>4 DEF WriteSettled
  <2>5. CASE active = [owner |-> "background", stage |-> "refused"]
    BY <1>5, <2>5 DEF WriteSettled
  <2> QED BY <2>1, <2>2, <2>3, <2>4, <2>5
<1>6. CASE ContinueAutomatic
  BY <1>6, StartWriteControl DEF ContinueAutomatic
<1>7. CASE FlushRequested
  BY <1>7 DEF FlushRequested
<1>8. CASE InitSettled
  BY <1>8 DEF InitSettled
<1>9. CASE FlushRefused
  BY <1>9 DEF FlushRefused
<1>10. CASE FlushJoins
  BY <1>10 DEF FlushJoins
<1>11. CASE FlushOpens
  BY <1>11, StartWriteControl DEF FlushOpens
<1>12. CASE DrainResumes
  BY <1>12, StartWriteControl DEF DrainResumes, MoreToDrain
<1>13. CASE DrainRejects
  BY <1>13 DEF DrainRejects
<1>14. CASE UNCHANGED vars
  BY <1>14 DEF vars
<1> QED
  BY <1>1, <1>2, <1>3, <1>4, <1>5, <1>6, <1>7, <1>8, <1>9, <1>10, <1>11, <1>12, <1>13,
     <1>14 DEF Next, Write, Flush, Drain

(* Order survives every step: events move between the three sequences      *)
(* without changing their concatenation, and new ones arrive at its end.   *)
LEMMA OrderStep == TypeOK /\ Control /\ OrderPreserved /\ [Next]_vars => OrderPreserved'
<1> SUFFICES ASSUME TypeOK, BatchOwned, ContinuesAlone, OrderPreserved, [Next]_vars
             PROVE  OrderPreserved'
  BY DEF Control
<1> USE DEF TypeOK, OrderPreserved, CancelWait, bounds, control
<1>a. /\ <<>> \in Seq(Nat) /\ durable \o batch \in Seq(Nat)
      /\ durable \o <<>> = durable
      /\ (durable \o batch) \o <<>> = durable \o batch
      /\ <<>> \o pending = pending
  BY ConcatProperties, ConcatEmptySeq, EmptySeq
<1>b. ASSUME NEW o, StartWrite(o), active = Inactive, UNCHANGED <<durable, accepted>>
      PROVE  OrderPreserved'
  <2>1. batch = <<>>
    BY <1>b, ActiveStages DEF BatchOwned
  <2>2. batch' = pending /\ pending' = <<>>
    BY <1>b DEF StartWrite
  <2>3. (durable \o pending) \o <<>> = durable \o pending
    BY ConcatProperties, ConcatEmptySeq
  <2> QED BY <1>a, <1>b, <2>1, <2>2, <2>3
<1>1. CASE Enqueue
  <2>1. durable \o batch \o Append(pending, accepted + 1)
          = Append(durable \o batch \o pending, accepted + 1)
    <3>1. accepted + 1 \in Nat
      OBVIOUS
    <3> QED BY <3>1, AppendLast
  <2> QED BY <1>1, <2>1, IntervalAppend DEF Enqueue
<1>2. CASE OnDeadline
  BY <1>2, <1>b DEF OnDeadline
<1>3. CASE WriteStored
  BY <1>3, <1>a DEF WriteStored
<1>4. CASE WriteRefused
  <2>1. durable \o (batch \o pending) = durable \o batch \o pending
    BY Association
  <2> QED BY <1>4, <1>a, <2>1 DEF WriteRefused, Requeue
<1>5. CASE WriteSettled
  BY <1>5 DEF WriteSettled
<1>6. CASE ContinueAutomatic
  BY <1>6, <1>b DEF ContinueAutomatic, ContinuesAlone
<1>7. CASE FlushRequested \/ InitSettled \/ FlushRefused \/ FlushJoins
  BY <1>7 DEF FlushRequested, InitSettled, FlushRefused, FlushJoins
<1>8. CASE FlushOpens
  BY <1>8, <1>b DEF FlushOpens
<1>9. CASE DrainResumes
  BY <1>9, <1>b DEF DrainResumes
<1>10. CASE DrainRejects \/ UNCHANGED vars
  BY <1>10 DEF DrainRejects, vars
<1> QED
  BY <1>1, <1>2, <1>3, <1>4, <1>5, <1>6, <1>7, <1>8, <1>9, <1>10
  DEF Next, Write, Flush, Drain

-----------------------------------------------------------------------------
(* The inductive invariant holds in every reachable state.                 *)
THEOREM Invariance == Spec => []IInv
<1>1. Init => IInv
  <2> SUFFICES ASSUME Init PROVE IInv
    OBVIOUS
  <2>1. TypeOK
    BY ActiveStages, EmptySeq DEF Init, TypeOK
  <2>2. Control
    BY ActiveStages DEF Init, Control, BatchOwned, ContinuesAlone, RefusalPauses,
                        BarrierExclusive, TimerJustified, QueueOwned
  <2>3. <<>> \o <<>> \o <<>> = Interval(0, 0)
    BY DEF Interval
  <2> QED BY <2>1, <2>2, <2>3 DEF Init, IInv, OrderPreserved
<1>2. IInv /\ [Next]_vars => IInv'
  BY TypeStep, ControlStep, OrderStep DEF IInv
<1> QED BY <1>1, <1>2, PTL DEF Spec

(* Every variable has its type.                                            *)
THEOREM TypeCorrect == Spec => []TypeOK
BY Invariance, PTL DEF IInv

(* Nothing accepted is lost, duplicated or reordered between the queue, the*)
(* write in flight and the stored log, whatever fails.                     *)
THEOREM OrderAlways == Spec => []OrderPreserved
BY Invariance, PTL DEF IInv

(* An open barrier is the only driver of the backend.                      *)
THEOREM BarrierAlwaysExclusive == Spec => []BarrierExclusive
BY Invariance, PTL DEF IInv, Control

(* No enqueue ever arms a second timer over an armed one.                  *)
THEOREM TimerAlwaysJustified == Spec => []TimerJustified
BY Invariance, PTL DEF IInv, Control

(* A retained event always has an owner that will write it or a visible    *)
(* reason why none does.                                                   *)
THEOREM NeverStranded == Spec => []NothingStranded
<1>1. IInv => NothingStranded
  BY DEF IInv, Control, QueueOwned, NothingStranded
<1> QED BY <1>1, Invariance, PTL

(* A barrier that resolves left every accepted event durable.              *)
THEOREM FlushAlwaysQuiescent == Spec => FlushQuiescent
<1>1. IInv /\ [Next]_vars =>
        [(barrier \in {"overlap", "draining"} /\ barrier' = "none")
           => (durable = Interval(0, accepted))']_vars
  <2> SUFFICES ASSUME IInv, Next, barrier \in {"overlap", "draining"}, barrier' = "none"
               PROVE  durable' = Interval(0, accepted')
    OBVIOUS
  <2> USE DEF control, bounds
  <2>1. DrainResumes
    BY DEF Next, Enqueue, OnDeadline, Write, WriteStored, WriteRefused, WriteSettled,
           ContinueAutomatic, FlushRequested, InitSettled, Flush, FlushRefused,
           FlushJoins, FlushOpens, Drain, DrainRejects
  <2>2. pending = <<>> /\ active = Inactive /\ UNCHANGED <<durable, accepted>>
    BY <2>1 DEF DrainResumes, MoreToDrain
  <2>3. batch = <<>>
    BY <2>2, ActiveStages DEF IInv, Control, BatchOwned
  <2>4. durable \o <<>> \o <<>> = durable
    BY ConcatEmptySeq DEF IInv, TypeOK
  <2> QED BY <2>2, <2>3, <2>4 DEF IInv, OrderPreserved
<1> QED BY <1>1, Invariance, PTL DEF Spec, FlushQuiescent

-----------------------------------------------------------------------------
(* The durable log.  A write in progress has something to write, and after *)
(* a refusal something is left until the barrier has reported it.          *)
Unstored ==
  /\ active.stage = "writing" => batch # <<>>
  /\ active.stage = "refused" => pending # <<>>
  /\ barrier = "rejecting" => pending # <<>>

(* Every step keeps it.                                                   *)
LEMMA UnstoredStep == IInv /\ Unstored /\ [Next]_vars => Unstored'
<1> SUFFICES ASSUME IInv, Unstored, [Next]_vars PROVE Unstored'
  OBVIOUS
<1>0. /\ TypeOK /\ ContinuesAlone /\ BarrierExclusive /\ TimerJustified
  BY DEF IInv, Control
<1> USE ActiveStages
    DEF TypeOK, Unstored, ContinuesAlone, BarrierExclusive, TimerJustified, bounds, control
<1>a. ASSUME NEW o \in {"background", "drain"}, StartWrite(o), pending # <<>>,
             barrier' # "rejecting"
      PROVE  Unstored'
  BY <1>a DEF StartWrite
<1>1. CASE Enqueue
  <2>1. pending' # <<>>
    <3> HIDE DEF TypeOK
    <3>1. pending \in Seq(Nat) /\ accepted + 1 \in Nat
      BY <1>0 DEF TypeOK
    <3>2. pending' = Append(pending, accepted + 1)
      BY <1>1 DEF Enqueue
    <3> QED BY <3>1, <3>2, AppendNonEmpty
  <2> QED BY <1>1, <2>1 DEF Enqueue
<1>2. CASE OnDeadline
  <2>1. timer /\ pending # <<>> /\ barrier = "none" /\ barrier' = barrier
    BY <1>0, <1>2 DEF OnDeadline
  <2>2. CASE StartWrite("background")
    BY <1>a, <2>1, <2>2
  <2>3. CASE UNCHANGED <<pending, batch, active>>
    BY <2>1, <2>3
  <2> QED BY <1>2, <2>2, <2>3 DEF OnDeadline
<1>3. CASE WriteStored
  BY <1>0, <1>3 DEF WriteStored
<1>4. CASE WriteRefused
  <2>1. batch # <<>>
    BY <1>4 DEF WriteRefused
  <2>2. batch \o pending # <<>>
    BY <1>0, <2>1
  <2> QED BY <1>0, <1>4, <2>2 DEF WriteRefused, Requeue
<1>5. CASE WriteSettled
  BY <1>0, <1>5 DEF WriteSettled
<1>6. CASE ContinueAutomatic
  <2>1. CASE /\ barrier = "none" /\ pending # <<>> /\ barrier' = barrier
             /\ StartWrite("background")
    BY <1>a, <2>1
  <2>2. CASE UNCHANGED <<pending, batch, active, barrier>>
    BY <2>2
  <2> QED BY <1>6, <2>1, <2>2 DEF ContinueAutomatic
<1>7. CASE FlushRequested \/ InitSettled \/ FlushRefused \/ FlushJoins
  BY <1>7 DEF FlushRequested, InitSettled, FlushRefused, FlushJoins
<1>8. CASE FlushOpens
  <2>1. CASE StartWrite("drain") /\ pending # <<>> /\ barrier' = "draining"
    BY <1>a, <2>1
  <2>2. CASE UNCHANGED <<pending, batch, active>> /\ barrier' \in {"overlap", "none"}
    BY <2>2
  <2> QED BY <1>8, <2>1, <2>2 DEF FlushOpens
<1>9. CASE DrainResumes
  <2>1. CASE StartWrite("drain") /\ pending # <<>> /\ barrier' = "draining"
    BY <1>a, <2>1
  <2>2. CASE UNCHANGED <<pending, batch, active>> /\ barrier' = "none"
    BY <2>2
  <2> QED BY <1>9, <2>1, <2>2 DEF DrainResumes, MoreToDrain
<1>10. CASE DrainRejects
  BY <1>10 DEF DrainRejects
<1>11. CASE UNCHANGED vars
  BY <1>11 DEF vars
<1> QED
  BY <1>1, <1>2, <1>3, <1>4, <1>5, <1>6, <1>7, <1>8, <1>9, <1>10, <1>11
  DEF Next, Write, Flush, Drain

(* So it holds in every state.                                             *)
LEMMA UnstoredAlways == Spec => []Unstored
<1>1. Init => Unstored
  BY ActiveStages DEF Init, Unstored
<1> QED BY <1>1, UnstoredStep, Invariance, PTL DEF Spec

(* What precedes two sequences in an interval is a prefix of it, and all of*)
(* it when both are empty.                                                 *)
LEMMA IntervalPrefix ==
  ASSUME NEW n \in Nat, NEW d \in Seq(Nat), NEW b \in Seq(Nat), NEW p \in Seq(Nat),
         d \o b \o p = Interval(0, n)
  PROVE  /\ Len(Interval(0, n)) = n
         /\ Len(d) \in 0..n
         /\ d = SubSeq(Interval(0, n), 1, Len(d))
         /\ (d = Interval(0, n)) <=> (b = <<>> /\ p = <<>>)
<1> DEFINE r == b \o p
           a == Interval(0, n)
<1>1. d \o r = a /\ r \in Seq(Nat)
  <2>1. (d \o b) \o p = d \o (b \o p)
    BY Association
  <2>2. b \o p \in Seq(Nat)
    BY ConcatProperties
  <2> QED BY <2>1, <2>2
<1>2. a \in Seq(Nat) /\ Len(a) = n
  BY DEF Interval
<1>3. (r = <<>>) <=> (b = <<>> /\ p = <<>>)
  OBVIOUS
<1> HIDE DEF r, a
<1>4. Len(d) + Len(r) = Len(a) /\ Len(r) \in Nat /\ Len(d) \in Nat
  BY <1>1
<1>5. d = SubSeq(a, 1, Len(d))
  <2>1. \A i \in 1..Len(d) : a[i] = d[i]
    BY <1>1, <1>4
  <2> QED BY <1>2, <1>4, <2>1
<1>6. (d = a) <=> (r = <<>>)
  <2>1. r = <<>> => d = a
    BY <1>1
  <2>2. d = a => Len(r) = 0
    BY <1>4
  <2>3. Len(r) = 0 => r = <<>>
    BY <1>1
  <2> QED BY <2>1, <2>2, <2>3
<1> QED BY <1>2, <1>3, <1>4, <1>5, <1>6 DEF a

(* So what the backend holds is a prefix of what was accepted, before and  *)
(* after a step, and all of it when nothing is retained.                   *)
LEMMA PrefixStored ==
  /\ IInv =>
       /\ Len(Interval(0, accepted)) = accepted
       /\ (durable = Interval(0, accepted)) <=> (batch = <<>> /\ pending = <<>>)
  /\ IInv' =>
       /\ Len(durable') \in 0..accepted'
       /\ durable' = SubSeq(Interval(0, accepted'), 1, Len(durable'))
<1>1. CASE IInv
  BY <1>1, IntervalPrefix DEF IInv, TypeOK, OrderPreserved
<1>2. CASE IInv'
  BY <1>2, IntervalPrefix DEF IInv, TypeOK, OrderPreserved
<1> QED BY <1>1, <1>2

(* The barrier, as its callers see it.                                     *)
LEMMA FlushingIs ==
  /\ (Flushing = "none") <=> (barrier = "none")
  /\ barrier = "rejecting" => Flushing = "failed"
  /\ barrier \in {"overlap", "draining"} => Flushing = "open"
  /\ barrier' = "none" => Flushing' = "none"
  /\ barrier' = "rejecting" => Flushing' = "failed"
  /\ barrier' \in {"overlap", "draining"} => Flushing' = "open"
  /\ barrier' = barrier => Flushing' = Flushing
BY DEF Flushing

(* Each step of the queue is a step of the durable log or leaves its view  *)
(* unchanged.                                                              *)
LEMMA LogStep ==
  ASSUME IInv, IInv', Unstored, Unstored', Next
  PROVE  Promise!Next \/ UNCHANGED Promise!view
<1> USE DEF control, bounds
<1>1. /\ TypeOK /\ TypeOK' /\ MaxEvents \in Nat
      /\ (durable = Interval(0, accepted)) <=> (batch = <<>> /\ pending = <<>>)
  BY WriteBehindAssumption, PrefixStored DEF IInv
<1>2. ASSUME UNCHANGED <<accepted, durable, init, waiting, Flushing>>
      PROVE  UNCHANGED Promise!view
  BY <1>2 DEF Promise!view
<1>3. CASE Enqueue
  <2>1. accepted + 1 \in 1..MaxEvents /\ accepted \in Nat
    BY <1>1, <1>3 DEF Enqueue, TypeOK
  <2>2. Interval(0, accepted') = Append(Interval(0, accepted), accepted + 1)
    BY <1>3, <2>1, IntervalAppend DEF Enqueue
  <2>3. UNCHANGED <<durable, init, waiting, Flushing>>
    BY <1>3, FlushingIs DEF Enqueue
  <2>4. Promise!Accept(accepted + 1)
    BY <2>2, <2>3 DEF Promise!Accept
  <2> QED BY <2>1, <2>4 DEF Promise!Next
<1>4. CASE WriteStored
  <2>1. /\ durable' = durable \o batch /\ init = "ready"
        /\ UNCHANGED <<accepted, init, waiting, Flushing>>
    BY <1>4, FlushingIs DEF WriteStored
  <2>2. /\ Len(durable') \in 0..accepted /\ Len(Interval(0, accepted)) = accepted
        /\ durable' = SubSeq(Interval(0, accepted), 1, Len(durable'))
    <3>1. /\ Len(durable') \in 0..accepted' /\ Len(Interval(0, accepted)) = accepted
          /\ durable' = SubSeq(Interval(0, accepted'), 1, Len(durable'))
      BY PrefixStored
    <3> QED BY <2>1, <3>1
  <2>3. Len(durable') \in Len(durable)..Len(Interval(0, accepted))
    <3>1. Len(durable') = Len(durable) + Len(batch) /\ Len(batch) \in Nat /\ Len(durable) \in Nat
      BY <1>1, <2>1 DEF TypeOK
    <3> QED BY <2>2, <3>1
  <2>4. Promise!Store(Len(durable'))
    BY <2>1, <2>2 DEF Promise!Store
  <2> QED BY <2>3, <2>4 DEF Promise!Next
<1>5. CASE WriteSettled
  <2>1. CASE active = [owner |-> "drain", stage |-> "refused"]
    <3>1. barrier = "draining" /\ barrier' = "rejecting" /\ pending # <<>>
      BY <1>5, <2>1 DEF WriteSettled, IInv, Control, BarrierExclusive, Unstored
    <3>2. Promise!Fail /\ UNCHANGED <<accepted, durable, init, waiting>>
      BY <1>1, <1>5, <3>1, FlushingIs DEF WriteSettled, Promise!Fail
    <3> QED BY <3>2 DEF Promise!End, Promise!Next
  <2>2. CASE active # [owner |-> "drain", stage |-> "refused"]
    BY <1>2, <1>5, <2>2, FlushingIs DEF WriteSettled
  <2> QED BY <2>1, <2>2
<1>6. CASE OnDeadline \/ WriteRefused \/ ContinueAutomatic
  BY <1>2, <1>6, FlushingIs DEF OnDeadline, WriteRefused, ContinueAutomatic
<1>7. CASE FlushRequested
  <2>1. Promise!Ask
    BY <1>7, FlushingIs DEF FlushRequested, Promise!Ask
  <2> QED BY <2>1 DEF Promise!Next
<1>8. CASE InitSettled
  <2>1. Promise!Begin
    BY <1>8, FlushingIs DEF InitSettled, Promise!Begin
  <2> QED BY <2>1 DEF Promise!Next
<1>9. CASE FlushRefused \/ FlushJoins
  <2>1. Promise!Refuse \/ Promise!Join
    BY <1>9, FlushingIs DEF FlushRefused, FlushJoins, Promise!Refuse, Promise!Join
  <2>2. Promise!Answer
    BY <1>9, <2>1 DEF FlushRefused, FlushJoins, Promise!Answer
  <2> QED BY <2>2 DEF Promise!Next
<1>10. CASE FlushOpens
  <2>1. /\ waiting > 0 /\ waiting' = waiting - 1 /\ init = "ready" /\ barrier = "none"
        /\ UNCHANGED <<accepted, durable, init>>
    BY <1>10 DEF FlushOpens
  <2>2. CASE barrier' \in {"overlap", "draining"}
    <3>1. Promise!Start
      BY <2>1, <2>2, FlushingIs DEF Promise!Start
    <3> QED BY <2>1, <3>1 DEF Promise!Answer, Promise!Next
  <2>3. CASE active = Inactive /\ pending = <<>> /\ barrier' = "none"
    <3>1. batch = <<>>
      BY <2>3, ActiveStages DEF IInv, Control, BatchOwned
    <3>2. Promise!AtOnce
      BY <1>1, <2>1, <2>3, <3>1, FlushingIs DEF Promise!AtOnce
    <3> QED BY <2>1, <3>2 DEF Promise!Answer, Promise!Next
  <2> QED BY <1>10, <2>2, <2>3 DEF FlushOpens
<1>11. CASE DrainResumes
  <2>1. /\ barrier \in {"overlap", "draining"} /\ active = Inactive
        /\ UNCHANGED <<accepted, durable, init, waiting>>
    BY <1>11 DEF DrainResumes
  <2>2. CASE barrier' = "draining"
    BY <1>2, <2>1, <2>2, FlushingIs
  <2>3. CASE barrier' = "none" /\ pending = <<>>
    <3>1. batch = <<>>
      BY <2>1, ActiveStages DEF IInv, Control, BatchOwned
    <3>2. Promise!Resolve
      BY <1>1, <2>1, <2>3, <3>1, FlushingIs DEF Promise!Resolve
    <3> QED BY <2>1, <3>2 DEF Promise!End, Promise!Next
  <2> QED BY <1>11, <2>2, <2>3 DEF DrainResumes, MoreToDrain
<1>12. CASE DrainRejects
  <2>1. barrier = "rejecting" /\ barrier' = "none" /\ UNCHANGED <<accepted, durable, init, waiting>>
    BY <1>12 DEF DrainRejects
  <2>2. Promise!Reject
    BY <1>1, <2>1, FlushingIs DEF Promise!Reject, Unstored
  <2> QED BY <2>1, <2>2 DEF Promise!End, Promise!Next
<1> QED
  BY <1>3, <1>4, <1>5, <1>6, <1>7, <1>8, <1>9, <1>10, <1>11, <1>12
  DEF Next, Write, Flush, Drain

(* The queue implements the durable log: what is stored is a growing       *)
(* prefix of what was accepted, a flush resolves only over the whole of it *)
(* and a drain is rejected only while an event is not stored, for any      *)
(* number of events, flushes and refused writes (SessionWriteBehind).      *)
THEOREM DurableAlwaysKept == Spec => DurableKept
<1>1. Init => Promise!Init
  <2>1. Interval(0, 0) = <<>>
    BY DEF Interval
  <2> QED BY <2>1 DEF Init, Promise!Init, Flushing
<1>2. IInv /\ IInv' /\ Unstored /\ Unstored' /\ [Next]_vars => [Promise!Next]_(Promise!view)
  <2> SUFFICES ASSUME IInv, IInv', Unstored, Unstored', [Next]_vars
               PROVE  Promise!Next \/ UNCHANGED Promise!view
    OBVIOUS
  <2>1. CASE UNCHANGED vars
    BY <2>1, FlushingIs DEF vars, control, bounds, Promise!view
  <2> QED BY <2>1, LogStep
<1> QED BY <1>1, <1>2, Invariance, UnstoredAlways, PTL DEF Spec, DurableKept, Promise!Spec
=============================================================================
