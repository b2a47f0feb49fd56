-------------------------- MODULE JobsLocalProofs --------------------------
(***************************************************************************)
(* Proofs about the job registry, for any sets of jobs, owners and waits:  *)
(* a completion is announced as news or somebody has it, a wait is never   *)
(* left behind, teardown is silent and first outcomes are final.           *)
(***************************************************************************)
EXTENDS JobsLocal, TLAPS

(* A wait that has begun is for some job.                                  *)
WaitsForJob == \A w \in Waiters : at[w] # "idle" => target[w] \in Jobs

(* A record is terminal exactly when its completion has been handed to the *)
(* second half of settle.                                                  *)
SettledOnce == \A j \in Jobs : Terminal(j) <=> notice[j] # "none"

(* Teardown has only live records left to visit.                           *)
TodoLive == \A j \in todo : Live(j)

(* A producer that can still settle has a record.                          *)
Recorded == \A j \in Jobs : producer[j] \in {"running", "stopping"} => status[j] # "unstarted"

(* A live record is marked reported by whoever claimed it, nobody else.    *)
ClaimsReported ==
  \A j \in Jobs : /\ claims[j] # {} => reported[j]
                  /\ reported[j] /\ ~Terminal(j) => claims[j] # {}

(* NoticeAccounted, from the moment settle has decided it.                 *)
DueAccounted ==
  \A j \in Jobs : notice[j] \in {"dueReported", "reported"} =>
    \/ claims[j] # {}
    \/ \E w \in Waiters : target[w] = j /\ at[w] \in {"released", "delivered"}

(* NoDoubleReport, likewise.                                               *)
NewsUnheard ==
  \A j \in Jobs, w \in Waiters :
    notice[j] \in {"due", "unreported"} /\ target[w] = j => at[w] \notin {"released", "delivered"}

(* What a wait delivered was terminal.                                     *)
DeliveredTerminal == \A w \in Waiters : at[w] = "delivered" => Terminal(target[w])

(* Only the producer behind j may have moved.                              *)
ProducerAt(j) ==
  /\ producer' \in [Jobs -> {"none", "running", "stopping", "done"}]
  /\ \A i \in Jobs \ {j} : producer'[i] = producer[i]

IInv ==
  /\ TypeOK /\ WaitsForJob /\ SettledOnce /\ TodoLive /\ Recorded /\ ClaimsReported
  /\ DueAccounted /\ NewsUnheard /\ DeliveredTerminal /\ WaitsReleased /\ TeardownSilent

-----------------------------------------------------------------------------
LEMMA Initially == Init => IInv
BY DEF Init, IInv, TypeOK, Buckets, Endings, WaitsForJob, SettledOnce, TodoLive, Recorded, ClaimsReported,
   DueAccounted, NewsUnheard, DeliveredTerminal, WaitsReleased, TeardownSilent, Terminal, Live

(* settle on a live record keeps the invariant, whoever calls it: a        *)
(* producer with the flag as it stands, or teardown with the record        *)
(* claimed.                                                                *)
LEMMA SettleKeeps ==
  ASSUME IInv, NEW j \in Jobs, Live(j), NEW ending \in Endings, NEW before \in BOOLEAN,
         Settle(j, ending, before),
         UNCHANGED <<target, owner, store, ownerAt, serviceAt>>,
         ProducerAt(j),
         todo' \subseteq todo \ {j},
         \/ before = reported[j] /\ claims' = claims
         \/ before /\ claims' = [claims EXCEPT ![j] = @ \cup {"teardown"}]
  PROVE  IInv'
<1> DEFINE claimed == before \/ Counted(j) # {}
<1>1. /\ status' = [status EXCEPT ![j] = ending]
      /\ reported' = [reported EXCEPT ![j] = claimed]
      /\ notice' = [notice EXCEPT ![j] = IF claimed THEN "dueReported" ELSE "due"]
      /\ at' = [w \in Waiters |-> IF target[w] = j /\ at[w] = "waiting" THEN "released" ELSE at[w]]
  BY DEF Settle, ReleaseWaits
<1>2. claimed \in BOOLEAN
  OBVIOUS
<1>3. claimed <=> before \/ \E w \in Waiters : target[w] = j /\ at[w] \in {"waiting", "released"}
  BY DEF Counted, IInv, TypeOK
<1> HIDE DEF claimed
<1>4. TypeOK'
  BY <1>1, <1>2 DEF IInv, TypeOK, Endings, ProducerAt
<1>5. claims[j] # {} => claimed
  BY <1>3 DEF IInv, ClaimsReported
<1>6. (claims'[j] # {} => claimed) /\ \A i \in Jobs \ {j} : claims'[i] = claims[i]
  BY <1>3, <1>5 DEF IInv, TypeOK
<1>7. claimed => claims'[j] # {} \/ \E w \in Waiters : target[w] = j /\ at'[w] = "released"
  <2>1. CASE before
    <3>1. ~Terminal(j)
      BY DEF Live, Terminal, Endings
    <3>2. reported[j] => claims[j] # {}
      BY <3>1 DEF IInv, ClaimsReported
    <3>3. "teardown" \in (claims[j] \cup {"teardown"})
      OBVIOUS
    <3>4. CASE claims' = claims /\ before = reported[j]
      BY <2>1, <3>2, <3>4
    <3>5. CASE claims' = [claims EXCEPT ![j] = @ \cup {"teardown"}]
      <4>1. claims'[j] = claims[j] \cup {"teardown"}
        BY <3>5 DEF IInv, TypeOK
      <4> QED BY <4>1, <3>3
    <3> QED BY <3>4, <3>5
  <2>2. CASE \E w \in Waiters : target[w] = j /\ at[w] \in {"waiting", "released"}
    BY <1>1, <2>2
  <2> QED BY <1>3, <2>1, <2>2
<1>8. WaitsForJob' /\ SettledOnce' /\ TodoLive' /\ Recorded' /\ ClaimsReported'
  BY <1>1, <1>2, <1>6 DEF IInv, TypeOK, ProducerAt, WaitsForJob, SettledOnce, TodoLive, Recorded, ClaimsReported,
     Live, Terminal, Endings
<1>9. DueAccounted'
  BY <1>1, <1>2, <1>6, <1>7 DEF IInv, TypeOK, DueAccounted
<1>10. NewsUnheard'
  BY <1>1, <1>2, <1>3 DEF IInv, TypeOK, NewsUnheard, DeliveredTerminal, Live, Terminal, Endings
<1>11. DeliveredTerminal' /\ WaitsReleased'
  BY <1>1 DEF IInv, TypeOK, DeliveredTerminal, WaitsReleased, WaitsForJob, Live, Terminal, Endings
<1>12. TeardownSilent'
  BY <1>1, <1>2, <1>6 DEF IInv, TypeOK, TeardownSilent
<1> QED BY <1>4, <1>8, <1>9, <1>10, <1>11, <1>12 DEF IInv

(* A cancel request on a live record, of a caller or of teardown.          *)
LEMMA StoppingKeeps ==
  ASSUME IInv, NEW j \in Jobs, Live(j), NEW by \in {"kill", "teardown"},
         status' = [status EXCEPT ![j] = "stopping"],
         reported' = [reported EXCEPT ![j] = TRUE],
         claims' = [claims EXCEPT ![j] = @ \cup {by}],
         ProducerAt(j),
         todo' \subseteq todo,
         UNCHANGED <<notice, at, target, owner, store, ownerAt, serviceAt>>
  PROVE  IInv'
<1>1. TypeOK'
  BY DEF IInv, TypeOK, ProducerAt
<1>2. /\ \A i \in Jobs : (Live(i) => Live(i)') /\ (Terminal(i)' <=> Terminal(i))
      /\ \A i \in Jobs : claims[i] # {} => claims'[i] # {}
      /\ notice[j] = "none"
  BY DEF IInv, TypeOK, Live, Terminal, Endings, SettledOnce
<1>3. WaitsForJob' /\ SettledOnce' /\ TodoLive' /\ Recorded' /\ DeliveredTerminal' /\ WaitsReleased'
  BY <1>2 DEF IInv, TypeOK, ProducerAt, WaitsForJob, SettledOnce, TodoLive, Recorded,
     DeliveredTerminal, WaitsReleased
<1>4. /\ claims'[j] = claims[j] \cup {by}
      /\ \A i \in Jobs \ {j} : claims'[i] = claims[i]
      /\ reported'[j] = TRUE
      /\ \A i \in Jobs \ {j} : reported'[i] = reported[i]
  BY DEF IInv, TypeOK
<1>5. claims'[j] # {}
  BY <1>4
<1>6. ClaimsReported'
  BY <1>2, <1>4, <1>5 DEF IInv, ClaimsReported
<1>7. DueAccounted' /\ NewsUnheard'
  BY <1>2 DEF IInv, DueAccounted, NewsUnheard
<1>8. TeardownSilent'
  BY <1>2, <1>4 DEF IInv, TeardownSilent
<1> QED BY <1>1, <1>3, <1>6, <1>7, <1>8 DEF IInv

(* What a step that leaves the records and their notices alone must show.  *)
LEMMA WaitKeeps ==
  ASSUME IInv, NEW w \in Waiters, UNCHANGED <<task, teardown>>,
         TypeOK', WaitsForJob',
         \A v \in Waiters \ {w} : at'[v] = at[v] /\ target'[v] = target[v],
         at[w] # "idle" => target'[w] = target[w],
         at[w] \notin {"released", "delivered"},
         \/ at'[w] = "aborted"
         \/ at'[w] \in {"waiting", "released"} /\ Live(target'[w])
  PROVE  IInv'
<1>1. \A j \in Jobs : (Terminal(j)' <=> Terminal(j)) /\ (Live(j)' <=> Live(j))
  BY DEF task, Terminal, Live
<1>2. SettledOnce' /\ TodoLive' /\ Recorded' /\ ClaimsReported' /\ TeardownSilent'
  BY <1>1 DEF IInv, TypeOK, SettledOnce, TodoLive, Recorded, ClaimsReported, TeardownSilent, task, teardown
<1>3. DueAccounted'
  BY DEF IInv, DueAccounted, task
<1>4. NewsUnheard'
  BY DEF IInv, NewsUnheard, SettledOnce, Live, Terminal, Endings, task
<1>5. DeliveredTerminal' /\ WaitsReleased'
  BY <1>1 DEF IInv, DeliveredTerminal, WaitsReleased, Live, Terminal, task
<1> QED BY <1>2, <1>3, <1>4, <1>5 DEF IInv

LEMMA Stepwise == IInv /\ [Next]_vars => IInv'
<1> SUFFICES ASSUME IInv, [Next]_vars PROVE IInv'
  OBVIOUS
<1> USE DEF IInv
<1>1. CASE \E j \in Jobs, o \in Buckets : Start(j, o)
  <2> PICK j \in Jobs, o \in Buckets : Start(j, o)
    BY <1>1
  <2>1. TypeOK'
    BY DEF TypeOK, Start, waits, teardown
  <2>2. \A i \in Jobs : (Terminal(i)' <=> Terminal(i)) /\ (Live(i) => Live(i)')
    BY DEF TypeOK, Start, Terminal, Live, Endings
  <2>3. WaitsForJob' /\ SettledOnce' /\ TodoLive' /\ Recorded' /\ DeliveredTerminal' /\ WaitsReleased'
    BY <2>2 DEF Start, TypeOK, waits, teardown, WaitsForJob, SettledOnce, TodoLive, Recorded,
       DeliveredTerminal, WaitsReleased
  <2>4. ClaimsReported' /\ DueAccounted' /\ NewsUnheard' /\ TeardownSilent'
    BY <2>2 DEF Start, waits, teardown, ClaimsReported, DueAccounted, NewsUnheard, TeardownSilent
  <2> QED BY <2>1, <2>3, <2>4
<1>2. CASE \E j \in Jobs : Report(j)
  <2> PICK j \in Jobs : Report(j)
    BY <1>2
  <2>1. TypeOK'
    BY DEF TypeOK, Report, waits, teardown
  <2> QED BY <2>1 DEF Report, TypeOK, waits, teardown, WaitsForJob, SettledOnce, TodoLive, Recorded,
             ClaimsReported, DueAccounted, NewsUnheard, DeliveredTerminal, WaitsReleased,
             TeardownSilent, Terminal, Live
<1>3. CASE \E j \in Jobs : Kill(j)
  <2> PICK j \in Jobs : Kill(j)
    BY <1>3
  <2>1. ProducerAt(j)
    BY DEF Kill, TypeOK, ProducerAt
  <2> QED BY <2>1, StoppingKeeps DEF Kill, waits, teardown
<1>4. CASE \E w \in Waiters, j \in Jobs : Wait(w, j)
  <2> PICK w \in Waiters, j \in Jobs : Wait(w, j)
    BY <1>4
  <2>1. TypeOK' /\ WaitsForJob'
    BY DEF TypeOK, Wait, WaitsForJob, task, teardown
  <2> QED BY <2>1, WaitKeeps DEF Wait, TypeOK
<1>5. CASE \E w \in Waiters : AbortWait(w)
  <2> PICK w \in Waiters : AbortWait(w)
    BY <1>5
  <2>1. TypeOK' /\ WaitsForJob'
    BY DEF TypeOK, AbortWait, WaitsForJob, task, teardown
  <2> QED BY <2>1, WaitKeeps DEF AbortWait, TypeOK
<1>6. CASE \E w \in Waiters : TimeOut(w)
  <2> PICK w \in Waiters : TimeOut(w)
    BY <1>6
  <2>1. TypeOK' /\ WaitsForJob'
    BY DEF TypeOK, TimeOut, WaitsForJob, task, teardown
  <2> QED BY <2>1, WaitKeeps DEF TimeOut, TypeOK, WaitsReleased
<1>7. CASE \E w \in Waiters : ResumeWait(w)
  <2> PICK w \in Waiters : ResumeWait(w)
    BY <1>7
  <2>1. TypeOK'
    BY DEF TypeOK, ResumeWait, WaitsForJob, teardown
  <2>2. \A i \in Jobs : (Terminal(i)' <=> Terminal(i)) /\ (Live(i)' <=> Live(i))
    BY DEF ResumeWait, Terminal, Live
  <2>3. WaitsForJob' /\ SettledOnce' /\ TodoLive' /\ Recorded' /\ ClaimsReported' /\ TeardownSilent'
    BY <2>2 DEF ResumeWait, TypeOK, teardown, WaitsForJob, SettledOnce, TodoLive, Recorded, ClaimsReported,
       TeardownSilent
  <2>4. DueAccounted'
    BY DEF ResumeWait, TypeOK, DueAccounted, SettledOnce, WaitsForJob
  <2>5. NewsUnheard' /\ DeliveredTerminal' /\ WaitsReleased'
    BY <2>2 DEF ResumeWait, TypeOK, NewsUnheard, DeliveredTerminal, WaitsReleased, WaitsForJob,
       Terminal, Live
  <2> QED BY <2>1, <2>3, <2>4, <2>5
<1>8. CASE \E j \in Jobs : ProducerSettles(j)
  <2> PICK j \in Jobs : ProducerSettles(j)
    BY <1>8
  <2>1. ProducerAt(j) /\ todo' = {}
    BY DEF ProducerSettles, TypeOK, Quiet, teardown, ProducerAt
  <2>2. CASE ~Terminal(j) /\ status[j] # "unstarted"
    <3>1. Live(j)
      BY <2>2 DEF Live, Terminal, TypeOK
    <3>2. PICK ending \in Endings : Settle(j, ending, reported[j])
      BY <2>2 DEF ProducerSettles, FirstOutcome
    <3> QED BY <2>1, <3>1, <3>2, SettleKeeps DEF ProducerSettles, teardown, TypeOK
  <2>3. CASE Terminal(j)
    <3>1. UNCHANGED <<status, owner, store, reported, notice, claims, at, target, ownerAt, serviceAt>>
      BY <2>3 DEF ProducerSettles, FirstOutcome, teardown
    <3>2. \A i \in Jobs : producer'[i] \in {"running", "stopping"} => producer[i] = producer'[i]
      BY DEF ProducerSettles, TypeOK
    <3>3. TypeOK'
      BY <2>1, <3>1 DEF TypeOK, ProducerAt
    <3> QED BY <2>1, <3>1, <3>2, <3>3 DEF WaitsForJob, SettledOnce, TodoLive, Recorded,
       ClaimsReported, DueAccounted, NewsUnheard, DeliveredTerminal, WaitsReleased,
       TeardownSilent, Terminal, Live
  <2>4. status[j] # "unstarted"
    BY DEF ProducerSettles, Recorded
  <2> QED BY <2>2, <2>3, <2>4
<1>9. CASE \E j \in Jobs : Announce(j)
  <2> PICK j \in Jobs : Announce(j)
    BY <1>9
  <2>1. /\ notice' \in [Jobs -> {"none", "due", "dueReported", "unreported", "reported", "closed"}]
        /\ \A i \in Jobs \ {j} : notice'[i] = notice[i]
        /\ notice[j] = "due" => notice'[j] \in {"closed", "unreported"}
        /\ notice[j] = "dueReported" => notice'[j] \in {"closed", "reported"}
        /\ notice[j] \in {"due", "dueReported"}
    BY DEF Announce, Announcing, TypeOK
  <2> QED BY <2>1 DEF Announce, waits, teardown, TypeOK, WaitsForJob, SettledOnce,
       TodoLive, Recorded, ClaimsReported, DueAccounted, NewsUnheard, DeliveredTerminal, WaitsReleased,
       TeardownSilent, Terminal, Live
<1>10. CASE \E j \in Jobs : CancelOne(j)
  <2> PICK j \in Jobs : CancelOne(j)
    BY <1>10
  <2>1. Live(j) /\ todo' \subseteq todo \ {j}
    BY DEF CancelOne, TodoLive
  <2>2. CASE ForceFail(j)
    <3>1. Settle(j, "failed", TRUE) /\ ProducerAt(j)
      BY <2>2 DEF ForceFail, Claim, TypeOK, ProducerAt
    <3> QED BY <2>1, <3>1, SettleKeeps DEF CancelOne, Endings, TypeOK
  <2>3. CASE ~ForceFail(j)
    <3>1. ProducerAt(j)
      BY <2>3 DEF CancelOne, TypeOK, ProducerAt
    <3> QED BY <2>1, <2>3, <3>1, StoppingKeeps DEF CancelOne
  <2> QED BY <2>2, <2>3
<1>11. CASE \/ \E o \in Owners : DisposeOwner(o) \/ OwnerDrained(o)
            \/ DisposeService \/ ServiceDrained \/ UNCHANGED vars
  <2>1. /\ UNCHANGED <<status, owner, reported, producer, notice, claims, waits>>
        /\ store' \subseteq store
        /\ \A j \in todo' : j \in todo \/ (Live(j) /\ j \in Jobs)
    BY <1>11 DEF DisposeOwner, OwnerDrained, DisposeService, ServiceDrained, vars, task, teardown,
       waits, Of, TypeOK
  <2>2. TypeOK'
    BY <1>11, <2>1 DEF TypeOK, DisposeOwner, OwnerDrained, DisposeService, ServiceDrained, vars,
       task, teardown, waits
  <2> QED BY <2>1, <2>2 DEF waits, WaitsForJob, SettledOnce, TodoLive, Recorded, ClaimsReported,
       DueAccounted, NewsUnheard, DeliveredTerminal, WaitsReleased, TeardownSilent, Terminal, Live
<1> QED BY <1>1, <1>2, <1>3, <1>4, <1>5, <1>6, <1>7, <1>8, <1>9, <1>10, <1>11
        DEF Next, Callers, Settlement, Listeners, Waiting, Disposal

LEMMA Invariance == Spec => []IInv
BY Initially, Stepwise, PTL DEF Spec

-----------------------------------------------------------------------------
(* The registry's state has the types TypeOK gives it.                     *)
THEOREM TypeCorrect == Spec => []TypeOK
<1>1. IInv => TypeOK
  BY DEF IInv
<1> QED BY <1>1, Invariance, PTL

(* A completion announced as reported has reached somebody                 *)
(* (jobs-local/src/index.ts:416-440).                                      *)
THEOREM NoticeAlwaysAccounted == Spec => []NoticeAccounted
<1>1. IInv => NoticeAccounted
  BY DEF IInv, DueAccounted, NoticeAccounted
<1> QED BY <1>1, Invariance, PTL

(* A completion announced as news was not also given to a wait             *)
(* (jobs-local/src/index.ts:422).                                          *)
THEOREM NeverDoubleReported == Spec => []NoDoubleReport
<1>1. IInv => NoDoubleReport
  BY DEF IInv, NewsUnheard, NoDoubleReport
<1> QED BY <1>1, Invariance, PTL

(* Whoever waits, waits for a live job (jobs-local/src/index.ts:259-262).  *)
THEOREM WaitsAlwaysReleased == Spec => []WaitsReleased
<1>1. IInv => WaitsReleased
  BY DEF IInv
<1> QED BY <1>1, Invariance, PTL

(* Teardown announces no news, also for a record it forces to failed       *)
(* (jobs-local/src/index.ts:510-517).                                      *)
THEOREM TeardownAlwaysSilent == Spec => []TeardownSilent
<1>1. IInv => TeardownSilent
  BY DEF IInv
<1> QED BY <1>1, Invariance, PTL

(* The first terminal outcome of a record is final                         *)
(* (jobs-local/src/index.ts:417).                                          *)
THEOREM FirstAlwaysWins == Spec => FirstWins
<1>1. ASSUME IInv, [Next]_vars
      PROVE  [\A j \in Jobs : Terminal(j) => status'[j] = status[j]]_vars
  <2> SUFFICES ASSUME NEW j \in Jobs, Terminal(j) PROVE status'[j] = status[j]
    OBVIOUS
  <2> USE DEF IInv, TypeOK, Terminal, Live, Endings
  <2>1. CASE \E i \in Jobs : Report(i) \/ Kill(i) \/ \E o \in Buckets : Start(i, o)
    BY <1>1, <2>1 DEF Report, Kill, Start
  <2>2. CASE \E i \in Jobs : ProducerSettles(i)
    BY <1>1, <2>2 DEF ProducerSettles, FirstOutcome, Settle
  <2>3. CASE \E i \in Jobs : CancelOne(i)
    BY <1>1, <2>3 DEF CancelOne, ForceFail, Settle, TodoLive
  <2>4. CASE \/ \E w \in Waiters : AbortWait(w) \/ TimeOut(w) \/ ResumeWait(w)
                                   \/ \E i \in Jobs : Wait(w, i)
             \/ \E i \in Jobs : Announce(i)
             \/ \E o \in Owners : DisposeOwner(o) \/ OwnerDrained(o)
             \/ DisposeService \/ ServiceDrained \/ UNCHANGED vars
    BY <1>1, <2>4 DEF AbortWait, TimeOut, ResumeWait, Wait, Announce, DisposeOwner, OwnerDrained,
       DisposeService, ServiceDrained, vars, task
  <2> QED BY <1>1, <2>1, <2>2, <2>3, <2>4
          DEF Next, Callers, Settlement, Listeners, Waiting, Disposal
<1> QED BY <1>1, Invariance, PTL DEF Spec, FirstWins
=============================================================================
