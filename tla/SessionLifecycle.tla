-------------------------- MODULE SessionLifecycle --------------------------
(***************************************************************************)
(* The life of one id: SessionStore, AgentRegistry and the agent factory   *)
(* that enters an agent and its Session in both as one transaction.        *)
(*                                                                         *)
(* Publication is synchronous: listeners run on the stack of whoever       *)
(* announces or appends, and may append, unload owners or detach from      *)
(* there.  The stack is `frames`; asynchronous code continues only when it *)
(* is empty.                                                               *)
(***************************************************************************)
EXTENDS Naturals, Sequences, FiniteSets, Functions

CONSTANTS Created,    \* agents made by createAgent
          Resumed,    \* agents made by resume: they load first
          Plains,     \* Sessions made by SessionStore.create
          Listeners,  \* how many listeners observe the edges and events
          MaxLog      \* bound: events appended to all Sessions

Agents == Created \cup Resumed
Txs == Agents \cup Plains
Nobody == "nobody"

LifecycleAssumption ==
  /\ Listeners \in Nat \ {0} /\ MaxLog \in Nat
  /\ Agents \cap Plains = {} /\ Nobody \notin Txs

VARIABLES
  reg,      \* the entry of the id in the session store and the agent registry
  tx,       \* the transactions: stage, teardown, owner and caller
  frames,   \* dispatches in progress, innermost first
  log,      \* events appended to each Session while attached
  seen,     \* history: how often each listener saw what of each transaction
  factory,  \* the factory's ownership: active, closing, gone
  waiter    \* a configured start waiting for the id to drain

vars == <<reg, tx, frames, log, seen, factory, waiter>>

Edges == {"+session", "+agent", "event", "-agent", "-session"}
NoEntry == [tx |-> Nobody, announced |-> FALSE, announcing |-> FALSE,
            appending |-> FALSE, leaving |-> FALSE]

Init ==
  /\ reg = [session |-> NoEntry, agent |-> NoEntry]
  /\ tx = [t \in Txs |-> [stage |-> "new", disp |-> "none", owned |-> TRUE, cancelled |-> FALSE]]
  /\ frames = <<>>
  /\ log = [t \in Txs |-> 0]
  /\ seen = [k \in 1..Listeners |-> [t \in Txs |-> [e \in Edges |-> 0]]]
  /\ factory = "active" /\ waiter = "none"

Entered(t) == [NoEntry EXCEPT !.tx = t]
Unmarked(e) == [e EXCEPT !.announcing = TRUE]   \* variant: marked only once all have heard
Announcing(e) == [e EXCEPT !.announcing = TRUE, !.announced = TRUE]
Announced(e) == [e EXCEPT !.announcing = FALSE, !.announced = TRUE]
Free(r) == reg[r].tx = Nobody
Frame(edge, t) == [edge |-> edge, tx |-> t, to |-> 1, seq |-> 0]
Top == frames[1]
Idle == frames = <<>>

(* What the fused abort signal of a prepared agent says.                   *)
Aborted(t) == tx[t].cancelled \/ ~tx[t].owned \/ factory # "active" \/ tx[t].disp # "none"
SignalIgnored(t) == FALSE   \* variant: publish does not look at it again
AssertLiveFails(t) == Aborted(t)

(* dispose is memoized; it stops the machine before it leaves.             *)
Disposing(t) ==
  [tx[t] EXCEPT !.disp = IF @ = "none" THEN "stopping" ELSE @,
                !.owned = TRUE, !.cancelled = FALSE]   \* both unfollowed
Unwinding(t) == [Disposing(t) EXCEPT !.stage = "unwinding"]
Over(t) == [tx[t] EXCEPT !.stage = "ended", !.owned = TRUE, !.cancelled = FALSE]
TrackedUntilLive(t) ==   \* variant: a published agent is no longer tracked
  t \in Agents /\ tx[t].stage \in {"setup", "ready", "publishing", "unwinding"}
Prepared(t) == t \in Agents /\ tx[t].stage \in {"setup", "ready", "publishing", "live", "unwinding"}

-----------------------------------------------------------------------------
(* The factory's transaction, up to publication.                           *)
CreateAgent(t) ==
  /\ Idle /\ t \in Created /\ tx[t].stage = "new"
  /\ tx' = [tx EXCEPT ![t].stage =
       IF Free("session") /\ ~Aborted(t) THEN "setup" ELSE "ended"]
  /\ UNCHANGED <<reg, frames, log, seen, factory, waiter>>

Resume(t) ==
  /\ Idle /\ t \in Resumed /\ tx[t].stage = "new"
  /\ tx' = [tx EXCEPT ![t].stage =
       IF Free("session") /\ ~Aborted(t) THEN "loading" ELSE "ended"]
  /\ UNCHANGED <<reg, frames, log, seen, factory, waiter>>

Load(t) ==   \* the load settles, or its caller stops waiting for it
  /\ Idle /\ tx[t].stage = "loading"
  /\ \/ tx' = [tx EXCEPT ![t] = Over(t)]
     \/ ~Aborted(t) /\ tx' = [tx EXCEPT ![t].stage = "loaded"]
  /\ UNCHANGED <<reg, frames, log, seen, factory, waiter>>

PrepareLoaded(t) ==
  /\ Idle /\ tx[t].stage = "loaded"
  /\ tx' = [tx EXCEPT ![t] = IF Aborted(t) THEN Over(t) ELSE [@ EXCEPT !.stage = "setup"]]
  /\ UNCHANGED <<reg, frames, log, seen, factory, waiter>>

Setup(t) ==   \* setup resolves before any abort, or the transaction rolls back
  /\ Idle /\ tx[t].stage = "setup"
  /\ \/ tx' = [tx EXCEPT ![t] = Unwinding(t)]
     \/ ~Aborted(t) /\ tx' = [tx EXCEPT ![t].stage = "ready"]
  /\ UNCHANGED <<reg, frames, log, seen, factory, waiter>>

(* publish: enter both registries, then announce the Session, then the     *)
(* agent, looking at the signal before and after each.                     *)
Publish(t) ==
  /\ Idle /\ tx[t].stage = "ready"
  /\ IF AssertLiveFails(t) \/ ~Free("session")
     THEN tx' = [tx EXCEPT ![t] = Unwinding(t)] /\ UNCHANGED <<reg, frames>>
     ELSE /\ reg' = [session |-> Announcing(Entered(t)), agent |-> Entered(t)]
          /\ frames' = <<Frame("+session", t)>>
          /\ tx' = [tx EXCEPT ![t].stage = "publishing"]
  /\ UNCHANGED <<log, seen, factory, waiter>>

(* SessionStore.create, also from within a listener.                       *)
CreatePlain(t) ==
  /\ t \in Plains /\ tx[t].stage = "new"
  /\ IF Free("session")
     THEN /\ reg' = [reg EXCEPT !.session = Announcing(Entered(t))]
          /\ frames' = <<Frame("+session", t)>> \o frames
          /\ tx' = [tx EXCEPT ![t].stage = "live"]
     ELSE tx' = [tx EXCEPT ![t].stage = "ended"] /\ UNCHANGED <<reg, frames>>
  /\ UNCHANGED <<log, seen, factory, waiter>>

-----------------------------------------------------------------------------
(* Dispatch.  Each listener sees the edge or event; the one waiting for    *)
(* the id to drain looks at the registries on every disposal.              *)
Drains(edge) == edge \in {"-session", "-agent"}
Deliver ==
  /\ ~Idle /\ Top.edge # "leave" /\ Top.to <= Listeners
  /\ seen' = [seen EXCEPT ![Top.to][Top.tx][Top.edge] = @ + 1]
  /\ waiter' = IF waiter = "waiting" /\ Drains(Top.edge) /\ Free("session") /\ Free("agent")
               THEN "released" ELSE waiter
  /\ frames' = [frames EXCEPT ![1].to = @ + 1]
  /\ UNCHANGED <<reg, tx, log, factory>>

(* detachEntered: remove the entry; emit its disposal if it was announced. *)
Disposal(edge, e) == IF e.announced THEN <<Frame(edge, e.tx)>> ELSE <<>>
DetachNow(rest) ==
  /\ reg' = [reg EXCEPT !.session = NoEntry]
  /\ frames' = Disposal("-session", reg.session) \o rest

MayLeave(e) == ~e.announcing /\ ~e.appending

(* A dispatch of the Session's entry returns; a detach it deferred follows *)
(* unless the entry is still busy.                                         *)
SettleSession(e, rest) ==
  IF e.leaving /\ MayLeave(e) THEN DetachNow(rest)
  ELSE reg' = [reg EXCEPT !.session = e] /\ frames' = rest

Finished == ~Idle /\ Top.to > Listeners
Vetoes == ~Idle /\ Top.edge \in {"+session", "+agent"} /\ Top.to > 1

(* A creation listener throws.                                             *)
Veto ==
  /\ Vetoes
  /\ LET t == Top.tx IN
     IF t \in Agents
     THEN /\ tx' = [tx EXCEPT ![t] = Unwinding(t)]
          /\ reg' = [reg EXCEPT ![IF Top.edge = "+agent" THEN "agent" ELSE "session"].announcing = FALSE]
          /\ frames' = Tail(frames)
     ELSE /\ tx' = [tx EXCEPT ![t].stage = "ended"]
          /\ SettleSession([reg.session EXCEPT !.announcing = FALSE, !.leaving = TRUE], Tail(frames))
  /\ UNCHANGED <<log, seen, factory, waiter>>

AnnouncedSession ==
  /\ Finished /\ Top.edge = "+session"
  /\ LET t == Top.tx
         e == Announced(reg.session) IN
     IF t \in Plains THEN SettleSession(e, Tail(frames)) /\ UNCHANGED tx
     ELSE IF AssertLiveFails(t)
     THEN /\ tx' = [tx EXCEPT ![t] = Unwinding(t)]
          /\ reg' = [reg EXCEPT !.session = e] /\ frames' = Tail(frames)
     ELSE /\ reg' = [session |-> e, agent |-> Announcing(reg.agent)]
          /\ frames' = <<Frame("+agent", t)>> \o Tail(frames)
          /\ UNCHANGED tx
  /\ UNCHANGED <<log, seen, factory, waiter>>

AnnouncedAgent ==   \* agent/session-start is part of the same dispatch
  /\ Finished /\ Top.edge = "+agent"
  /\ LET t == Top.tx IN
     tx' = [tx EXCEPT ![t] = IF AssertLiveFails(t) THEN Unwinding(t)
                             ELSE [@ EXCEPT !.stage = "live"]]
  /\ reg' = [reg EXCEPT !.agent = Announced(@)]
  /\ frames' = Tail(frames)
  /\ UNCHANGED <<log, seen, factory, waiter>>

Appended ==
  /\ Finished /\ Top.edge = "event"
  /\ SettleSession([reg.session EXCEPT !.appending = FALSE], Tail(frames))
  /\ UNCHANGED <<tx, log, seen, factory, waiter>>

Disposed ==
  /\ Finished /\ Drains(Top.edge)
  /\ frames' = Tail(frames)
  /\ UNCHANGED <<reg, tx, log, seen, factory, waiter>>

-----------------------------------------------------------------------------
(* What a listener, the driver or a timer may do.  From within a dispatch, *)
(* an abort or unload acts at once on the transaction being published; of  *)
(* any other it is seen when dispatch has unwound.                         *)
AppendAlways(e) == TRUE   \* variant: an append may reenter
MayAppend(e) == ~e.appending

AppendEvent ==
  LET e == reg.session IN
  /\ e.tx # Nobody /\ MayAppend(e) /\ FoldFunction(+, 0, log) < MaxLog
  /\ log' = [log EXCEPT ![e.tx] = @ + 1]
  /\ reg' = [reg EXCEPT !.session.appending = TRUE]
  /\ frames' = <<[Frame("event", e.tx) EXCEPT !.seq = log[e.tx] + 1]>> \o frames
  /\ UNCHANGED <<tx, seen, factory, waiter>>

Underway(t) ==
  /\ tx[t].stage \notin {"new", "ended"} /\ tx[t].disp = "none"
  /\ Idle \/ tx[t].stage = "publishing"

CallerAborts(t) ==   \* heard until teardown, though nothing heeds it once live
  /\ t \in Agents /\ Underway(t) /\ ~tx[t].cancelled
  /\ tx' = [tx EXCEPT ![t].cancelled = TRUE]
  /\ UNCHANGED <<reg, frames, log, seen, factory, waiter>>

OwnerUnloads(t) ==
  /\ t \in Agents /\ Underway(t) /\ tx[t].owned
  /\ tx' = [tx EXCEPT ![t] = IF Prepared(t) THEN Disposing(t) ELSE [@ EXCEPT !.owned = FALSE]]
  /\ UNCHANGED <<reg, frames, log, seen, factory, waiter>>

HandleDisposes(t) ==
  /\ t \in Agents /\ Underway(t) /\ tx[t].stage = "live"
  /\ tx' = [tx EXCEPT ![t] = Disposing(t)]
  /\ UNCHANGED <<reg, frames, log, seen, factory, waiter>>

PlainUnloads(t) ==   \* the detach capability of enter, once
  /\ t \in Plains /\ tx[t].stage = "live"
  /\ tx' = [tx EXCEPT ![t].stage = "ended"]
  /\ IF MayLeave(reg.session) THEN DetachNow(frames)
     ELSE reg' = [reg EXCEPT !.session.leaving = TRUE] /\ UNCHANGED frames
  /\ UNCHANGED <<log, seen, factory, waiter>>

FactoryCloses ==
  /\ factory = "active" /\ factory' = "closing"
  /\ tx' = [t \in Txs |-> IF Prepared(t) THEN Disposing(t) ELSE tx[t]]
  /\ UNCHANGED <<reg, frames, log, seen, waiter>>

-----------------------------------------------------------------------------
(* The machine is idle: the agent leaves its registry, then the Session    *)
(* its store, in one synchronous stretch.                                  *)
LeaveAgent(t) ==
  /\ Idle /\ tx[t].disp = "stopping"
  /\ LET mine == reg.agent.tx = t IN
     /\ reg' = IF mine THEN [reg EXCEPT !.agent = NoEntry] ELSE reg
     /\ frames' = (IF mine THEN Disposal("-agent", reg.agent) ELSE <<>>)
                  \o <<Frame("leave", t)>>
  /\ UNCHANGED <<tx, log, seen, factory, waiter>>

LeaveSession ==
  /\ ~Idle /\ Top.edge = "leave"
  /\ LET t == Top.tx IN
     /\ tx' = [tx EXCEPT ![t].disp = "done"]
     /\ IF reg.session.tx = t THEN DetachNow(Tail(frames))
        ELSE frames' = Tail(frames) /\ UNCHANGED reg
  /\ UNCHANGED <<log, seen, factory, waiter>>

Unwound(t) ==   \* the create or resume promise rejects
  /\ Idle /\ tx[t].stage = "unwinding" /\ tx[t].disp = "done"
  /\ tx' = [tx EXCEPT ![t].stage = "ended"]
  /\ UNCHANGED <<reg, frames, log, seen, factory, waiter>>

(* FactoryOwnership.dispose returns: every teardown it tracks has run and  *)
(* every create and resume it handed out has settled.                      *)
Settled(t) == tx[t].stage \in {"new", "ended"} \/ (tx[t].stage = "live" /\ tx[t].disp = "done")
FactoryGone ==
  /\ Idle /\ factory = "closing" /\ \A t \in Agents : Settled(t)
  /\ factory' = "gone"
  /\ UNCHANGED <<reg, tx, frames, log, seen, waiter>>

ConfiguredStart ==   \* waitForDrainingConfiguredIdentity
  /\ Idle /\ waiter = "none" /\ factory = "active"
  /\ waiter' = IF Free("agent") /\ Free("session") THEN "released" ELSE "waiting"
  /\ UNCHANGED <<reg, tx, frames, log, seen, factory>>

Dispatch == Deliver \/ AnnouncedSession \/ AnnouncedAgent \/ Appended \/ Disposed \/ LeaveSession
Continue(t) ==
  Load(t) \/ PrepareLoaded(t) \/ Setup(t) \/ Publish(t) \/ LeaveAgent(t) \/ Unwound(t)

Next ==
  \/ Dispatch \/ Veto \/ AppendEvent \/ FactoryCloses \/ FactoryGone \/ ConfiguredStart
  \/ \E t \in Txs :
       \/ CreateAgent(t) \/ Resume(t) \/ CreatePlain(t) \/ Continue(t)
       \/ CallerAborts(t) \/ OwnerUnloads(t) \/ HandleDisposes(t) \/ PlainUnloads(t)

(* Synchronous dispatch runs to its end; settled promises continue; setups *)
(* settle and machines come to rest.                                       *)
Fairness == WF_vars(Dispatch) /\ WF_vars(FactoryGone) /\ \A t \in Txs : WF_vars(Continue(t))

Spec == Init /\ [][Next]_vars /\ Fairness

-----------------------------------------------------------------------------
Delivering(k) == ~Idle /\ Top.edge \in Edges /\ Top.to = k
Was(t, edge) == seen[1][t][edge] > 0

(* Every listener sees every event appended to an attached Session, once,  *)
(* in log order, whatever other listeners append or detach in between, and *)
(* nothing after the Session's disposal (session append, detach).          *)
EventsInOrder ==
  \A k \in 1..Listeners :
    /\ Idle => \A t \in Txs : seen[k][t]["event"] = log[t]
    /\ Delivering(k) =>
         LET s == seen[k][Top.tx] IN
         s["-session"] = 0 /\ (Top.edge = "event" => Top.seq = s["event"] + 1)

(* Each edge comes at most once; once dispatch has unwound, a Session or   *)
(* agent whose creation anyone saw and that left was disposed to everyone, *)
(* one never announced shows nobody anything, and an agent's disposal      *)
(* precedes its Session's.                                                 *)
PairedEdges ==
  \A t \in Txs, k \in 1..Listeners :
    LET s == seen[k][t]
        paired(r, up, down) ==
          /\ s[up] <= 1 /\ s[down] <= 1
          /\ Idle => (s[down] = 1) = (Was(t, up) /\ reg[r].tx # t) IN
    /\ paired("session", "+session", "-session") /\ paired("agent", "+agent", "-agent")
    /\ s["-session"] = 1 => s["-agent"] = seen[1][t]["+agent"]

(* Outside dispatch, a registered agent has its own Session in the store   *)
(* and a live handle has both; a factory that is gone left nothing behind, *)
(* not even a creation that settles later; and nobody waits for an id that *)
(* is free.                                                                *)
RegistriesSound ==
  Idle =>
    /\ ~Free("agent") => reg.agent.tx = reg.session.tx
    /\ \A t \in Agents : tx[t].stage = "live" /\ tx[t].disp # "done" =>
         reg.agent.tx = t /\ reg.session.tx = t
    /\ factory = "gone" => reg.agent.tx \notin Agents /\ reg.session.tx \notin Agents
    /\ waiter = "waiting" => ~Free("agent") \/ ~Free("session")

(* Closing the factory ends: every transaction, wherever it was, settles.  *)
CloseCompletes == factory = "closing" ~> factory = "gone"

(* What the factory's documentation says: the caller's signal is detached  *)
(* before the handle becomes visible.  The code follows it until teardown. *)
CallerUnheard == \A t \in Agents : tx[t].stage = "live" => ~tx[t].cancelled
=============================================================================
