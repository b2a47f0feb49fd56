------------------------------ MODULE Schedules ------------------------------
(***************************************************************************)
(* The schedule plugin of one root agent: the ScheduleRuntime that turns   *)
(* due reminders into queued messages and dispatch events, the management  *)
(* tools that share its transaction chain, the wall clock and its timer,   *)
(* failing checkpoints, and restarts from the stored prefix of the log.    *)
(* External here: the agent's turns (AgentLoop) and the flush (Coordinator)*)
(***************************************************************************)
EXTENDS Integers, Sequences, FiniteSetsExt, SequencesExt

CONSTANTS MaxRecords,   \* bound: created reminders
          Delays,       \* delays of the one-shots
          Period,       \* everySeconds of the fixed-rate ones
          MaxDelay,     \* MAX_TIMER_DELAY_MS: the longest timer segment
          MaxTime,      \* bound: the wall clock stops there
          MaxTurns,     \* bound: turns the user starts
          MaxCalls,     \* bound: calls of the tools
          MaxUpsets     \* bound: failures, clock adjustments, stops, restarts

ScheduleAssumption ==
  /\ {MaxRecords, MaxTime, MaxTurns, MaxCalls, MaxUpsets} \subseteq Nat
  /\ Delays \cup {Period, MaxDelay} \subseteq Nat \ {0}

VARIABLES
  log,     \* the session's schedule/change events
  safe,    \* how many of them are stored
  now,     \* the wall clock
  agent,   \* idle, or in a turn, perhaps an aborted one
  chain,   \* the agent's transactions, the first one under way
  rt,      \* the live ScheduleRuntime
  told,    \* history: the occurrences queued as messages
  used     \* turns, calls and upsets spent

vars == <<log, safe, now, agent, chain, rt, told, used>>

Off == -1   \* no timer
Txn(op) ==
  [op |-> op, stage |-> "queued", upto |-> 0, rec |-> 0, delay |-> 0, every |-> FALSE]
Started == [run |-> "active", requested |-> FALSE, timer |-> Off, idleWait |-> FALSE,
            stopping |-> FALSE, faulted |-> "no", failed |-> FALSE]

Init ==
  /\ log = <<>> /\ safe = 0 /\ now = 0 /\ agent = "idle"
  /\ rt = Started /\ chain = <<Txn("drive")>>   \* start()
  /\ told = {} /\ used = [turns |-> 0, calls |-> 0, upsets |-> 0]

Upset == used.upsets < MaxUpsets /\ used' = [used EXCEPT !.upsets = @ + 1]

-----------------------------------------------------------------------------
(* The fold. An every record holds its earliest occurrence not dispatched;  *)
(* a dispatch moves it past the moment it was accepted.                     *)
Occurrence(x, at) == IF x.every THEN x.at + Period * ((at - x.at) \div Period) ELSE x.at
Dispatched(x, at) == [x EXCEPT !.at = Occurrence(x, at) + Period]

Applied(active, e) ==
  CASE e.op = "create" -> active \cup {[rec |-> e.rec, every |-> e.every, at |-> e.at]}
    [] e.op = "delete" -> {x \in active : x.rec # e.rec}
    [] e.op = "dispatch" ->
         {x \in active : x.rec # e.rec}
           \cup {Dispatched(x, e.at) : x \in {y \in active : y.rec = e.rec /\ y.every}}

Active(l) == FoldLeft(Applied, {}, l)
Created(l) == {l[i].rec : i \in {j \in DOMAIN l : l[j].op = "create"}}

(* What the strict fold accepts; everything else throws ScheduleLogError.   *)
Readable(l) ==
  \A i \in DOMAIN l :
    LET before == SubSeq(l, 1, i - 1) IN
    IF l[i].op = "create" THEN l[i].rec \notin Created(before)
    ELSE \E x \in Active(before) :
           x.rec = l[i].rec /\ ((l[i].op = "dispatch" /\ x.every) => l[i].at >= x.at)

(* dueDecision: the earliest due one-shot, or every due fixed-rate record.  *)
Earlier(x, y) == x.at < y.at \/ (x.at = y.at /\ x.rec <= y.rec)
Due(active) ==
  LET due == {x \in active : x.at <= now}
      shots == {x \in due : ~x.every} IN
  IF shots # {} THEN {CHOOSE x \in shots : \A y \in shots : Earlier(x, y)} ELSE due

-----------------------------------------------------------------------------
(* The runtime. Wake is requestDrive, from the runtime r and the chain c.   *)
Runnable(r) == ~r.stopping /\ r.faulted = "no"

Wake(r, c) ==
  IF ~Runnable(r) THEN rt' = r /\ chain' = c
  ELSE IF r.run # "none"
  THEN rt' = [r EXCEPT !.timer = Off, !.requested = TRUE] /\ chain' = c
  ELSE rt' = [r EXCEPT !.timer = Off, !.run = "active"] /\ chain' = Append(c, Txn("drive"))

(* A drive's transaction ends; the run goes on if it was requested.         *)
EndDrive(r) ==
  IF r.requested /\ Runnable(r)
  THEN /\ rt' = [r EXCEPT !.requested = FALSE]
       /\ chain' = Append(Tail(chain), Txn("drive"))
  ELSE rt' = [r EXCEPT !.run = "ending"] /\ chain' = Tail(chain)

(* variant: a trigger that lands while the run retires is lost.             *)
RetireDeaf ==
  /\ rt.run = "ending"
  /\ rt' = [rt EXCEPT !.run = "none", !.requested = FALSE]
  /\ UNCHANGED <<chain, log, safe, now, agent, told, used>>
Retire ==
  /\ rt.run = "ending"
  /\ LET r == [rt EXCEPT !.run = "none", !.requested = FALSE] IN
     IF rt.requested THEN Wake(r, chain) ELSE rt' = r /\ UNCHANGED chain
  /\ UNCHANGED <<log, safe, now, agent, told, used>>

Head1(op, stage) == chain # <<>> /\ Head(chain).op = op /\ Head(chain).stage = stage
Enters(stage, l) == [chain EXCEPT ![1].stage = stage, ![1].upto = Len(l)]

DriveStarts ==
  /\ Head1("drive", "queued")
  /\ IF rt.stopping THEN EndDrive([rt EXCEPT !.timer = Off])
     ELSE /\ rt' = [rt EXCEPT !.timer = Off, !.failed = FALSE]
          /\ chain' = Enters("preflight", log)
  /\ UNCHANGED <<log, safe, now, agent, told, used>>

(* arm: the earliest target, in segments the timer can hold.                *)
Armed(active) ==
  [rt EXCEPT !.timer =
    IF active = {} THEN Off ELSE Min({x.at - now : x \in active} \cup {MaxDelay})]

(* The checkpoint of the transaction at work stores what the log held when  *)
(* it began.                                                                *)
Flushed == safe' = Max({safe, Head(chain).upto})

(* The preflight succeeded and there is nothing to dispatch yet.            *)
DriveWaits ==
  /\ Head1("drive", "preflight") /\ Flushed
  /\ LET active == Active(log) IN
     CASE rt.stopping -> EndDrive(rt)
       [] ~rt.stopping /\ ~Readable(log) -> EndDrive([rt EXCEPT !.faulted = "log"])
       [] ~rt.stopping /\ Readable(log) /\ Due(active) = {} -> EndDrive(Armed(active))
       [] ~rt.stopping /\ Readable(log) /\ Due(active) # {} /\ agent # "idle" ->
            EndDrive([rt EXCEPT !.idleWait = TRUE])   \* runMaintenance refuses
       [] OTHER -> FALSE
  /\ UNCHANGED <<log, now, agent, told, used>>

(* In one maintenance job the message is queued and its dispatches are      *)
(* appended, n of them; the turn it wakes starts as the job ends.           *)
Tells(n) ==
  LET all == Due(Active(log)) IN
  /\ n <= Cardinality(all)
  /\ \E due \in [1..Cardinality(all) -> all] :
       /\ \A i, j \in DOMAIN due : i < j => due[i] # due[j] /\ Earlier(due[i], due[j])
       /\ log' = log \o [i \in 1..n |-> [op |-> "dispatch", rec |-> due[i].rec, at |-> now]]
       /\ told' = told \cup
            {[rec |-> due[i].rec, at |-> Occurrence(due[i], now), lost |-> FALSE,
              pos |-> IF i <= n THEN Len(log) + i ELSE 0] : i \in DOMAIN due}
  /\ agent' = "turn" /\ Flushed /\ UNCHANGED now

MayDispatch ==
  /\ Head1("drive", "preflight") /\ ~rt.stopping /\ agent = "idle"
  /\ Readable(log) /\ Due(Active(log)) # {}

Dispatch ==
  /\ MayDispatch /\ Tells(Cardinality(Due(Active(log))))
  /\ chain' = Enters("barrier", log')
  /\ UNCHANGED <<rt, used>>

(* variant: the run goes on after a refused append.                         *)
AppendRefusedCarriesOn(n) ==
  /\ MayDispatch /\ Upset
  /\ n < Cardinality(Due(Active(log))) /\ Tells(n)
  /\ EndDrive([rt EXCEPT !.failed = TRUE])
AppendRefused(n) ==
  /\ MayDispatch /\ Upset
  /\ n < Cardinality(Due(Active(log))) /\ Tells(n)
  /\ EndDrive([rt EXCEPT !.faulted = "append"])

FollowupThrows ==
  /\ MayDispatch /\ Upset /\ Flushed
  /\ EndDrive([rt EXCEPT !.failed = TRUE])
  /\ UNCHANGED <<log, now, agent, told>>

DispatchStored ==
  /\ Head1("drive", "barrier") /\ Flushed
  /\ EndDrive(IF rt.stopping THEN rt ELSE [rt EXCEPT !.timer = Off, !.requested = TRUE])
  /\ UNCHANGED <<log, now, agent, told, used>>

(* A rejected checkpoint ends the drive and arms nothing.                   *)
DriveRejected ==
  /\ Upset
  /\ \/ Head1("drive", "preflight") /\ EndDrive([rt EXCEPT !.failed = TRUE])
     \/ Head1("drive", "barrier") /\ EndDrive(rt)
  /\ UNCHANGED <<log, safe, now, agent, told>>

-----------------------------------------------------------------------------
(* The tools: bodies of a turn's calls, each a transaction of its own.      *)
Tools == {"create", "delete", "list"}

Call(txn) ==
  /\ agent = "turn" /\ ~rt.stopping /\ used.calls < MaxCalls
  /\ chain' = Append(chain, txn)
  /\ used' = [used EXCEPT !.calls = @ + 1]
  /\ UNCHANGED <<log, safe, now, agent, rt, told>>

ToolAt(stage) == \E op \in Tools : Head1(op, stage)
Settles == chain' = Tail(chain) /\ UNCHANGED rt

ToolStarts ==
  /\ ToolAt("queued")
  /\ IF agent = "aborted" THEN Settles ELSE chain' = Enters("preflight", log) /\ UNCHANGED rt
  /\ UNCHANGED <<log, safe, now, agent, told, used>>

(* What a tool appends after its preflight: nothing, for a list, an         *)
(* inactive id, an unreadable log or an aborted caller.                     *)
Change(txn) ==
  CASE ~Readable(log) \/ agent = "aborted" -> <<>>
    [] Readable(log) /\ agent # "aborted" /\ txn.op = "create" ->
         IF Cardinality(Created(log)) = MaxRecords THEN <<>>
         ELSE <<[op |-> "create", rec |-> Cardinality(Created(log)) + 1,
                 every |-> txn.every, at |-> now + txn.delay]>>
    [] Readable(log) /\ agent # "aborted" /\ txn.op = "delete" ->
         IF \E x \in Active(log) : x.rec = txn.rec
         THEN <<[op |-> "delete", rec |-> txn.rec, at |-> now]>> ELSE <<>>
    [] OTHER -> <<>>

(* Every successful checkpoint of a tool notifies the runtime.              *)
ToolChecked ==
  /\ ToolAt("preflight") /\ Flushed
  /\ LET change == Change(Head(chain)) IN
     /\ log' = log \o change
     /\ Wake(rt, IF change = <<>> THEN Tail(chain) ELSE Enters("barrier", log'))
  /\ UNCHANGED <<now, agent, told, used>>

(* An unsuccessful append notified the runtime all the same.                *)
ToolAppendRefused ==
  /\ ToolAt("preflight") /\ Flushed /\ Change(Head(chain)) # <<>> /\ Upset
  /\ Wake(rt, Tail(chain))
  /\ UNCHANGED <<log, now, agent, told>>

ToolStored ==
  /\ ToolAt("barrier") /\ Flushed
  /\ Wake(rt, Tail(chain))
  /\ UNCHANGED <<log, now, agent, told, used>>

ToolRejected ==
  /\ ToolAt("preflight") \/ ToolAt("barrier")
  /\ Upset /\ Settles
  /\ UNCHANGED <<log, safe, now, agent, told>>

-----------------------------------------------------------------------------
(* The agent: a turn ends when its tools have settled; the idle status asks *)
(* a runtime whose session ever held a reminder to look again.              *)
StartTurn ==
  /\ agent = "idle" /\ used.turns < MaxTurns
  /\ agent' = "turn" /\ used' = [used EXCEPT !.turns = @ + 1]
  /\ UNCHANGED <<log, safe, now, chain, rt, told>>

AbortTurn ==
  /\ agent = "turn" /\ agent' = "aborted"
  /\ UNCHANGED <<log, safe, now, chain, rt, told, used>>

EndTurn ==
  /\ agent # "idle" /\ \A i \in DOMAIN chain : chain[i].op = "drive"
  /\ agent' = "idle"
  /\ IF log = <<>> THEN UNCHANGED <<rt, chain>> ELSE Wake(rt, chain)
  /\ UNCHANGED <<log, safe, now, told, used>>

IdleResolves ==
  /\ rt.idleWait /\ (agent = "idle" \/ rt.stopping)
  /\ Wake([rt EXCEPT !.idleWait = FALSE], chain)
  /\ UNCHANGED <<log, safe, now, agent, told, used>>

(* Time passes for the wall clock and for the timer; the clock alone may    *)
(* also be set forward or back.                                             *)
Tick ==
  /\ now < MaxTime \/ rt.timer > 0
  /\ now' = Min({now + 1, MaxTime})
  /\ rt' = [rt EXCEPT !.timer = IF @ > 0 THEN @ - 1 ELSE @]
  /\ UNCHANGED <<log, safe, agent, chain, told, used>>

Adjust ==
  /\ Upset /\ now' \in {now - 1, now + 1} \cap (0..MaxTime)
  /\ UNCHANGED <<log, safe, agent, chain, rt, told>>

TimerFires ==
  /\ rt.timer = 0
  /\ Wake([rt EXCEPT !.timer = Off], chain)
  /\ UNCHANGED <<log, safe, now, agent, told, used>>

(* dispose, and the agent's return with the first n events: an append may   *)
(* reach storage before its checkpoint confirms it.                         *)
Dispose ==
  /\ ~rt.stopping /\ Upset
  /\ rt' = [rt EXCEPT !.stopping = TRUE, !.requested = FALSE, !.timer = Off]
  /\ UNCHANGED <<log, safe, now, agent, chain, told>>

Restart(n) ==
  /\ Upset
  /\ log' = SubSeq(log, 1, n) /\ safe' = n
  /\ agent' = "idle" /\ rt' = Started /\ chain' = <<Txn("drive")>>
  /\ told' = {[x EXCEPT !.lost = @ \/ x.pos = 0 \/ x.pos > n] : x \in told}
  /\ UNCHANGED now

-----------------------------------------------------------------------------
Drive == DriveStarts \/ DriveWaits \/ Dispatch \/ DispatchStored \/ Retire
Tool == ToolStarts \/ ToolChecked \/ ToolStored
Works == Drive \/ Tool

Next ==
  \/ Works \/ AppendRefused(0) \/ AppendRefused(1) \/ FollowupThrows \/ DriveRejected
  \/ \E delay \in Delays : Call([Txn("create") EXCEPT !.delay = delay])
  \/ Call([Txn("create") EXCEPT !.delay = Period, !.every = TRUE])
  \/ \E rec \in 1..MaxRecords : Call([Txn("delete") EXCEPT !.rec = rec])
  \/ Call(Txn("list"))
  \/ ToolAppendRefused \/ ToolRejected
  \/ StartTurn \/ AbortTurn \/ EndTurn \/ IdleResolves
  \/ Tick \/ Adjust \/ TimerFires \/ Dispose
  \/ \E n \in safe..Len(log) : Restart(n)

Spec == Init /\ [][Next]_vars
(* Transactions proceed, turns end, timers fire and time passes.            *)
LiveSpec ==
  /\ Spec /\ WF_vars(Works) /\ WF_vars(EndTurn) /\ WF_vars(IdleResolves)
  /\ WF_vars(Tick) /\ WF_vars(TimerFires)

-----------------------------------------------------------------------------
(* A message about an occurrence is queued only for a reminder that is      *)
(* stored, active and due; and never twice, unless the dispatch of the      *)
(* earlier one was lost in a restart (driveOnce, foldScheduleEvents).       *)
RemindedOnce ==
  [][\A x \in told' \ told :
       ~x.lost =>
         /\ safe' >= Len(log)
         /\ \E y \in Active(log) : y.rec = x.rec /\ y.at <= x.at /\ x.at <= now
         /\ \A y \in told : (y.rec = x.rec /\ y.at >= x.at) => y.lost]_vars

(* A due reminder is dispatched or deleted unless the live runtime stops,   *)
(* faults on a refused append, or is left by a failed preflight or followup *)
(* until the agent is active again (requestDrive, retire, waitForIdle).     *)
Excused == rt.stopping \/ rt.failed \/ rt.faulted = "append"
Overdue(rec) == \E x \in Active(log) : x.rec = rec /\ x.at <= now
DueReminded == \A rec \in 1..MaxRecords : Overdue(rec) ~> (~Overdue(rec) \/ Excused)

(* Whatever is created, dispatched, deleted or lost, the strict fold can    *)
(* read the log (the companion's rule).                                     *)
AlwaysReadable == Readable(log)
=============================================================================
