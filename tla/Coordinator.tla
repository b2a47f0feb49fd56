----------------------------- MODULE Coordinator -----------------------------
(***************************************************************************)
(* PersistenceCoordinator and its SessionPreparations, for one session id: *)
(* who may read, repair, reserve, adopt and extend the stored log.         *)
(*                                                                         *)
(* Callers prepare (to resume), load, inspect and append; a live Session   *)
(* writes behind; it may be disposed and its successor resumed; the        *)
(* coordinator may be reloaded under a live Session; the process may       *)
(* crash.  Every storage operation of the id runs in one chain.            *)
(***************************************************************************)
EXTENDS Naturals, Sequences, FiniteSets, SequencesExt

CONSTANTS Callers,      \* callers of the persistence service
          Lives,        \* Session objects published under the id, in order
          MaxLog,       \* bound: events a live session appends up to
          MaxCalls,     \* bound: service calls
          MaxUpsets     \* bound: crashes, failed writes, reloads

ASSUME CoordinatorAssumption ==
  /\ Lives \in Nat /\ MaxLog \in Nat /\ MaxCalls \in Nat
  /\ MaxUpsets \in Nat

VARIABLES
  disk,     \* the stored log: complete records
  tear,     \* the torn record a crash left behind it, if any
  acked,    \* history: records some append or repair reported durable
  state,    \* SessionState of the id: cursor and owner
  entry,    \* the preparation of the id
  chain,    \* the id's serialized operations, the first one running
  call,     \* the callers' progress
  sess,     \* the Session objects and their write controllers
  store,    \* the live Session of the id in ctx.sessions
  used      \* bounds spent

storage == <<disk, tear, acked>>
vars == <<disk, tear, acked, state, entry, chain, call, sess, store, used>>

NoOne == 0
Clean == [torn |-> FALSE, holds |-> <<>>]
NoState == [cursor |-> 0, owner |-> NoOne, known |-> FALSE]
NoSource == [events |-> <<>>, closers |-> <<>>, rev |-> <<>>]
NoEntry == [phase |-> "none", src |-> NoSource]
Idle == [op |-> "none", at |-> "idle", src |-> NoSource, attached |-> FALSE,
         aborted |-> FALSE, life |-> NoOne, base |-> <<>>]
Unborn == [log |-> <<>>, stage |-> "unborn", init |-> "none"]

Init ==
  /\ disk = <<>> /\ tear = Clean /\ acked = <<>>
  /\ state = NoState /\ entry = NoEntry /\ chain = <<>>
  /\ call = [p \in Callers |-> Idle]
  /\ sess = [l \in 1..Lives |-> Unborn]
  /\ store = NoOne
  /\ used = [calls |-> 0, upsets |-> 0]

-----------------------------------------------------------------------------
(* Logs.  An event is its kind and its author: a Session, or the repair.   *)
Ev(kind, by) == [kind |-> kind, by |-> by]
Cut == Ev("cut", NoOne)
OpenTurn(l) ==
  \E i \in DOMAIN l : l[i].kind = "open" /\ \A j \in (i + 1)..Len(l) : l[j].kind = "note"
ClosersOf(l) == IF OpenTurn(l) THEN <<Cut>> ELSE <<>>

(* What a read yields: a compressed torn frame still gives complete        *)
(* records.  The revision is what was stored.                              *)
Stored == disk \o tear.holds
Revision == <<disk, tear>>
Exists == disk # <<>> \/ tear.torn
Prepared == [events |-> Stored \o ClosersOf(Stored), closers |-> ClosersOf(Stored),
             rev |-> Revision]
RepairSkipped(src) == FALSE   \* variant: the cursor is set without the repair
NeedsRepair(src) == src.closers # <<>> \/ src.rev[2].torn

-----------------------------------------------------------------------------
(* Preparations.  Removing or readying an entry settles its reservation,   *)
(* which wakes whoever waits for it.                                       *)
Waking(c) == [p \in Callers |-> IF c[p].attached /\ c[p].at = "asleep"
                                THEN [c[p] EXCEPT !.at = "joined"] ELSE c[p]]
Leaving(c) == [p \in Callers |-> [c[p] EXCEPT !.attached = FALSE]]
Orphaned(ch) == [i \in DOMAIN ch |-> [ch[i] EXCEPT !.current = FALSE]]

LeavingAsleep(c) == Leaving(c)   \* variant: remove does not settle the waiter
RemovedFor(c) == Leaving(Waking(c))

WritableAlways == TRUE   \* variant: a write overtakes a reservation
Writable == entry.phase \notin {"committing", "reserved"}

Op(kind, who, data) ==
  [op |-> kind, who |-> who, data |-> data, stage |-> "queued", current |-> TRUE]
Running(kind) == chain # <<>> /\ Head(chain).op = kind
Stage(kind, stage) == Running(kind) /\ Head(chain).stage = stage
(* Promise reactions start a queued operation before any caller resumes.   *)
Started == chain # <<>> => Head(chain).stage # "queued"
Spend(what) == used' = [used EXCEPT ![what] = @ + 1]

Rejected(c, p) == [c EXCEPT ![p] = Idle]
Returned(c, p) == [c EXCEPT ![p] = Idle]
Again(c, p) == [c EXCEPT ![p].at = "begin", ![p].src = NoSource, ![p].attached = FALSE]
To(c, p, at) == [c EXCEPT ![p].at = at]
Answer(c, p, events) ==
  [c EXCEPT ![p].at = "answered", ![p].src = [NoSource EXCEPT !.events = events],
            ![p].life = store]
Over(p) == call[p].at \in {"idle", "answered"}
Live == sess[store]
(* The retirement callers wait for is the latest one of the id.            *)
Retiring == \E l \in 1..Lives :
  sess[l].stage = "retiring" /\ \A k \in (l + 1)..Lives : sess[k].stage \in {"unborn", "live"}

(* A service call starts.  An append is queued with the position its       *)
(* caller knows the log to end at; its caller has the id to itself: no     *)
(* Session is published under it before the append returns.                *)
Appending == \E p \in Callers : call[p].at = "append"
Begin(p, op) ==
  /\ Over(p) /\ used.calls < MaxCalls
  /\ op = "append" => \A l \in 1..Lives : sess[l].stage \in {"unborn", "gone"}
  /\ call' = [call EXCEPT ![p] =
       [Idle EXCEPT !.op = op, !.at = IF op = "append" THEN "append" ELSE "begin",
                    !.base = IF op \in {"inspect", "load"} THEN acked ELSE <<>>]]
  /\ chain' = IF op # "append" THEN chain
              ELSE Append(chain, Op("append", p, <<Len(Prepared.events), <<Ev("note", NoOne)>>>>))
  /\ Spend("calls")
  /\ UNCHANGED <<storage, state, entry, sess, store>>

(* waitForRetirement.                                                      *)
AwaitRetirement(p) ==
  /\ call[p].at = "begin" /\ (~Retiring \/ call[p].aborted)
  /\ call' = IF call[p].aborted THEN Rejected(call, p) ELSE To(call, p, "cleared")
  /\ UNCHANGED <<storage, state, entry, chain, sess, store, used>>

(* What a live Session answers: prepare refuses, inspect borrows its log,  *)
(* load waits until the log read now is durable.                           *)
MeetLive(p) ==
  /\ call[p].at = "cleared" /\ store # NoOne
  /\ call' = CASE call[p].op = "prepare" -> Rejected(call, p)
               [] call[p].op = "inspect" -> Answer(call, p, Live.log)
               [] call[p].op = "load" ->
                    [call EXCEPT ![p].at = "flushing", ![p].life = store,
                                 ![p].src = [NoSource EXCEPT !.events = Live.log]]
  /\ UNCHANGED <<storage, state, entry, chain, sess, store, used>>

LoadLive(p) ==
  /\ call[p].at = "flushing" /\ IsPrefix(call[p].src.events, disk)
  /\ call' = IF call[p].src.events = <<>> \/ OpenTurn(call[p].src.events)
             THEN Rejected(call, p) ELSE To(call, p, "answered")
  /\ UNCHANGED <<storage, state, entry, chain, sess, store, used>>

(* Its flush rejects: initialization failed, or the last drain did.        *)
FlushRejected(p) ==
  /\ call[p].at = "flushing"
  /\ LET l == call[p].life IN sess[l].init = "failed" \/ sess[l].stage \in {"stuck", "gone"}
  /\ call' = Rejected(call, p)
  /\ UNCHANGED <<storage, state, entry, chain, sess, store, used>>

(* entryFor: share the preparation, or create one and queue its read.      *)
Join(p) ==
  /\ call[p].at = "cleared" /\ store = NoOne
  /\ entry' = IF entry.phase = "none" THEN [NoEntry EXCEPT !.phase = "loading"] ELSE entry
  /\ chain' = IF entry.phase = "none" THEN Append(chain, Op("read", NoOne, <<>>)) ELSE chain
  /\ call' = [call EXCEPT ![p].attached = TRUE, ![p].src = entry.src,
                          ![p].at = IF entry.phase \in {"none", "loading"}
                                    THEN "loading" ELSE "joined"]
  /\ UNCHANGED <<storage, state, sess, store, used>>

(* prepareCore has read: an entry still in the map becomes ready; callers  *)
(* of a removed one get the source all the same.                           *)
ReadDone ==
  /\ Running("read")
  /\ LET mine == Head(chain).current
         waits(p) == call[p].at = "loading" /\ call[p].attached = mine IN
     IF Exists
     THEN /\ entry' = IF mine THEN [phase |-> "ready", src |-> Prepared] ELSE entry
          /\ call' = [p \in Callers |->
                IF waits(p) THEN [call[p] EXCEPT !.at = "joined", !.src = Prepared]
                ELSE call[p]]
     ELSE /\ entry' = IF mine THEN NoEntry ELSE entry
          /\ call' = [p \in Callers |->
                CASE ~waits(p) -> call[p]
                  [] waits(p) /\ (call[p].op # "inspect" \/ store = NoOne) ->
                       Rejected(call, p)[p]
                  [] OTHER -> Answer(call, p, Live.log)[p]]
  /\ chain' = Tail(chain)
  /\ UNCHANGED <<storage, state, sess, store, used>>

-----------------------------------------------------------------------------
(* reserve: wait while another caller commits or holds; a removed entry    *)
(* sends the caller back; a ready one is committed under the chain.        *)
Reserve(p) ==
  /\ call[p].at = "joined" /\ call[p].op \in {"prepare", "load"} /\ Started
  /\ \/ /\ ~call[p].attached
        /\ call' = Again(call, p)
        /\ UNCHANGED <<entry, chain>>
     \/ /\ call[p].attached /\ entry.phase # "ready"
        /\ call' = To(call, p, "asleep")
        /\ UNCHANGED <<entry, chain>>
     \/ /\ call[p].attached /\ entry.phase = "ready"
        /\ entry' = [entry EXCEPT !.phase = "committing"]
        /\ call' = [call EXCEPT ![p].at = "commit", ![p].src = entry.src]
        /\ chain' = Append(chain, Op("commit", p, <<>>))
  /\ UNCHANGED <<storage, state, sess, store, used>>

(* The entry of a committing or holding caller, if it is still its own.    *)
Drop(p, c) ==
  IF call[p].attached THEN entry' = NoEntry /\ call' = RemovedFor(c)
                   ELSE UNCHANGED entry /\ call' = c

(* commitPrepared: the owner check, then the revision check behind its     *)
(* read, then the cursor state and reserve's own continuation.             *)
CommitStarts ==
  /\ Stage("commit", "queued")
  /\ IF state.owner # NoOne
     THEN /\ LET p == Head(chain).who IN Drop(p, Rejected(call, p))
          /\ chain' = Tail(chain)
     ELSE chain' = [chain EXCEPT ![1].stage = "checking"] /\ UNCHANGED <<entry, call>>
  /\ UNCHANGED <<storage, state, sess, store, used>>

CommitOutdated ==
  /\ Stage("commit", "checking")
  /\ LET p == Head(chain).who IN
     /\ call[p].src.rev # Revision
     /\ Drop(p, Again(call, p))
  /\ chain' = Tail(chain)
  /\ UNCHANGED <<storage, state, sess, store, used>>

Commits(p) == call[p].src.rev = Revision

CommitDone ==
  /\ Stage("commit", "checking")
  /\ LET p == Head(chain).who IN
     /\ Commits(p) /\ ~NeedsRepair(call[p].src)
     /\ state' = [cursor |-> Len(call[p].src.events), owner |-> NoOne, known |-> TRUE]
     /\ CASE call[p].aborted ->
               /\ entry' = IF call[p].attached THEN [entry EXCEPT !.phase = "ready"] ELSE entry
               /\ call' = Waking(Rejected(call, p))
          [] ~call[p].aborted /\ ~call[p].attached ->
               call' = Again(call, p) /\ UNCHANGED entry
          [] ~call[p].aborted /\ call[p].attached /\ call[p].op = "prepare" ->
               /\ entry' = [entry EXCEPT !.phase = "reserved"]
               /\ call' = To(call, p, "held")
          [] ~call[p].aborted /\ call[p].attached /\ call[p].op = "load" ->
               Drop(p, Answer(call, p, call[p].src.events))
  /\ chain' = Tail(chain)
  /\ UNCHANGED <<storage, sess, store, used>>

CommitStartsRepair ==
  /\ Stage("commit", "checking")
  /\ LET p == Head(chain).who IN Commits(p) /\ NeedsRepair(call[p].src)
  /\ chain' = [chain EXCEPT ![1].stage = "repairing"]
  /\ UNCHANGED <<storage, state, entry, call, sess, store, used>>

(* commitRepair: truncate the torn record, append what it held and the     *)
(* closers.  The repaired log is read again.                               *)
WriteRepair(closers) ==
  /\ disk' = Stored \o closers /\ tear' = Clean
  /\ acked' = Stored \o closers

CommitRepaired ==
  /\ Stage("commit", "repairing")
  /\ LET p == Head(chain).who IN
     /\ WriteRepair(call[p].src.closers)
     /\ Drop(p, Again(call, p))
  /\ chain' = Tail(chain)
  /\ UNCHANGED <<state, sess, store, used>>

CommitRepairFails ==   \* after the truncation, before the append
  /\ Stage("commit", "repairing") /\ used.upsets < MaxUpsets
  /\ tear' = Clean
  /\ LET p == Head(chain).who IN Drop(p, Rejected(call, p))
  /\ chain' = Tail(chain) /\ Spend("upsets")
  /\ UNCHANGED <<disk, acked, state, sess, store>>

(* inspect, once its source is read: check the revision in the chain.      *)
InspectJoined(p) ==
  /\ call[p].at = "joined" /\ call[p].op = "inspect" /\ Started
  /\ IF store # NoOne
     THEN call' = Answer(call, p, Live.log) /\ UNCHANGED chain
     ELSE /\ call' = To(call, p, "check")
          /\ chain' = Append(chain, Op("check", p, <<>>))
  /\ UNCHANGED <<storage, state, entry, sess, store, used>>

CurrentAlways(src) == TRUE   \* variant: a cached view is never checked
Current(src) == src.rev = Revision

InspectChecked ==
  /\ Running("check")
  /\ LET p == Head(chain).who
         src == call[p].src
         same == entry.phase # "none" /\ entry.src = src IN
     IF store # NoOne THEN call' = Answer(call, p, Live.log) /\ UNCHANGED entry
     ELSE IF Current(src) \/ (same /\ entry.phase # "ready")
     THEN call' = Answer(call, p, src.events) /\ UNCHANGED entry
     ELSE IF same THEN entry' = NoEntry /\ call' = RemovedFor(Again(call, p))
     ELSE call' = Again(call, p) /\ UNCHANGED entry
  /\ chain' = Tail(chain)
  /\ UNCHANGED <<storage, state, sess, store, used>>

(* A caller's signal aborts.  An operation that has started goes on; one   *)
(* still queued is withdrawn, and a withdrawn commit removes its entry.    *)
Withdrawable(p, o) == o.who = p /\ o.op \in {"commit", "check"}
Without(p) ==
  IF \E i \in DOMAIN chain : Withdrawable(p, chain[i])
  THEN RemoveAt(chain, CHOOSE i \in DOMAIN chain : Withdrawable(p, chain[i])) ELSE chain
Abort(p) ==
  /\ call[p].op \in {"prepare", "inspect"} /\ ~call[p].aborted
  /\ call[p].at \in {"begin", "cleared", "loading", "joined", "asleep", "commit", "check"}
  /\ LET begun == call[p].at = "commit" /\ Head(chain).who = p
                  /\ Head(chain).stage # "queued" IN
     IF begun THEN call' = [call EXCEPT ![p].aborted = TRUE] /\ UNCHANGED <<entry, chain>>
     ELSE /\ chain' = Without(p)
          /\ IF call[p].at = "commit" THEN Drop(p, Rejected(call, p))
             ELSE call' = Rejected(call, p) /\ UNCHANGED entry
  /\ UNCHANGED <<storage, state, sess, store, used>>

(* Other identities push a ready preparation out of the LRU; its callers   *)
(* have resumed before as many others became ready.                        *)
Evict ==
  /\ entry.phase = "ready" /\ \A p \in Callers : ~(call[p].attached /\ call[p].at = "joined")
  /\ entry' = NoEntry /\ call' = Leaving(call)
  /\ UNCHANGED <<storage, state, chain, sess, store, used>>

-----------------------------------------------------------------------------
(* Writes: the service's append, a write-behind batch and the suffix of an *)
(* initialization all run appendCore.                                      *)
IsWrite == chain # <<>> /\ Head(chain).op \in {"append", "batch", "suffix"}
Who == Head(chain).who

(* A batch is handed over from the position it was buffered at; what       *)
(* initialization has stored meanwhile is filtered out.                    *)
Stale  == IF Head(chain).op = "batch" /\ state.cursor > Head(chain).data[1]
          THEN state.cursor - Head(chain).data[1] ELSE 0
From   == Head(chain).data[1] + Stale
Events == SubSeq(Head(chain).data[2], Stale + 1, Len(Head(chain).data[2]))

(* The operation rejects: its caller, or its Session's initialization.     *)
Rejects ==
  /\ chain' = Tail(chain)
  /\ IF Head(chain).op = "append"
     THEN call' = Rejected(call, Who) /\ UNCHANGED sess
     ELSE /\ UNCHANGED call
          /\ sess' = [sess EXCEPT
               ![Who].init = IF Head(chain).op = "suffix" THEN "failed" ELSE @,
               ![Who].stage = IF Head(chain).op = "batch" /\ @ = "retiring"
                              THEN "stuck" ELSE @]

WriteStarts ==
  /\ IsWrite /\ Head(chain).stage = "queued"
  /\ IF ~Writable THEN Rejects /\ UNCHANGED entry
     ELSE IF ~state.known
     THEN /\ chain' = [chain EXCEPT ![1].stage = "adopting"]
          /\ IF entry.phase = "ready" THEN entry' = NoEntry /\ call' = RemovedFor(call)
                                      ELSE UNCHANGED <<entry, call>>
          /\ UNCHANGED sess
     ELSE IF From # state.cursor THEN Rejects /\ UNCHANGED entry
     ELSE chain' = [chain EXCEPT ![1].stage = "writing"] /\ UNCHANGED <<entry, call, sess>>
  /\ UNCHANGED <<storage, state, store, used>>

(* adopt: repair the stored log until a read finds nothing to repair.      *)
AdoptRepairs ==
  /\ IsWrite /\ Head(chain).stage = "adopting" /\ Exists /\ NeedsRepair(Prepared)
  /\ WriteRepair(Prepared.closers)
  /\ UNCHANGED <<state, entry, chain, call, sess, store, used>>

AdoptDone ==
  /\ IsWrite /\ Head(chain).stage = "adopting" /\ (Exists => ~NeedsRepair(Prepared))
  /\ IF ~Exists THEN Rejects /\ UNCHANGED state
     ELSE /\ state' = [cursor |-> Len(disk), owner |-> NoOne, known |-> TRUE]
          /\ IF From # Len(disk) THEN Rejects
             ELSE chain' = [chain EXCEPT ![1].stage = "writing"] /\ UNCHANGED <<call, sess>>
  /\ UNCHANGED <<storage, entry, store, used>>

(* The records are appended; behind a torn one they cannot be read.        *)
Buried == Ev("torn", NoOne)
WriteDone ==
  /\ IsWrite /\ Head(chain).stage = "writing"
  /\ disk' = disk \o (IF tear.torn THEN <<Buried>> ELSE <<>>) \o Events
  /\ tear' = Clean /\ acked' = disk \o Events
  /\ state' = [state EXCEPT !.cursor = @ + Len(Events)]
  /\ entry' = NoEntry
  /\ call' = RemovedFor(IF Head(chain).op = "append" THEN Returned(call, Who) ELSE call)
  /\ sess' = IF Head(chain).op = "suffix" THEN [sess EXCEPT ![Who].init = "ok"] ELSE sess
  /\ chain' = Orphaned(Tail(chain))
  /\ UNCHANGED <<store, used>>

(* A batch that overlaps the drain of its retiring Session goes back to the *)
(* queue, and the drain writes it again.                                   *)
Requeued == Head(chain).op = "batch" /\ chain' = Tail(chain) /\ UNCHANGED <<call, sess>>

WriteRefused ==
  /\ IsWrite /\ Head(chain).stage = "writing" /\ used.upsets < MaxUpsets
  /\ Rejects \/ Requeued
  /\ Spend("upsets")
  /\ UNCHANGED <<storage, state, entry, store>>

-----------------------------------------------------------------------------
(* Publication.  A held reservation is attached to its own Session, with   *)
(* whatever was appended to it before; the holder may also roll back.      *)
NextLife == CHOOSE l \in 1..Lives : sess[l].stage = "unborn"
                                    /\ \A k \in 1..(l - 1) : sess[k].stage # "unborn"
CanBeBorn == store = NoOne /\ ~Appending /\ \E l \in 1..Lives : sess[l].stage = "unborn"

AttachPrepared(p, extra) ==
  /\ call[p].at = "held" /\ call[p].attached /\ CanBeBorn
  /\ LET l == NextLife
         suffix == IF extra THEN <<Ev("note", l)>> ELSE <<>> IN
     /\ sess' = [sess EXCEPT ![l] =
          [log |-> call[p].src.events \o suffix, stage |-> "live",
           init |-> IF extra THEN "pending" ELSE "ok"]]
     /\ store' = l
     /\ state' = [state EXCEPT !.owner = l]
     /\ chain' = IF extra THEN Append(chain, Op("suffix", l, <<state.cursor, suffix>>))
                          ELSE chain
  /\ Drop(p, Returned(call, p))
  /\ UNCHANGED <<storage, used>>

ReleaseReservation(p, reusable) ==
  /\ call[p].at = "held"
  /\ IF reusable
     THEN entry' = [entry EXCEPT !.phase = "ready"] /\ call' = Waking(Returned(call, p))
     ELSE Drop(p, Returned(call, p))
  /\ UNCHANGED <<storage, state, chain, sess, store, used>>

(* A Session published without a reservation: new, or seeded with a view   *)
(* of the stored log.  A preparation of the id vetoes it.                  *)
Create(seeded) ==
  /\ CanBeBorn /\ entry.phase = "none"
  /\ LET l == NextLife
         seed == IF seeded THEN Prepared.events ELSE <<Ev("note", l)>> IN
     /\ sess' = [sess EXCEPT ![l] = [log |-> seed, stage |-> "live", init |-> "pending"]]
     /\ store' = l
     /\ chain' = Append(chain, Op("created", l, <<0, seed>>))
  /\ UNCHANGED <<storage, state, entry, call, used>>

(* onCreated, up to the append of its suffix.                              *)
Claim(l, cursor, seed) ==   \* bind the owner and persist the suffix
  /\ state' = [cursor |-> cursor, owner |-> l, known |-> TRUE]
  /\ IF Len(seed) > cursor
     THEN /\ chain' = <<Op("suffix", l, <<cursor, SubSeq(seed, cursor + 1, Len(seed))>>)>>
                      \o Tail(chain)
          /\ UNCHANGED sess
     ELSE chain' = Tail(chain) /\ sess' = [sess EXCEPT ![l].init = "ok"]

Collision(l) ==
  chain' = Tail(chain) /\ sess' = [sess EXCEPT ![l].init = "failed"]

ClaimTracked ==   \* case 1: ownerless state, or one of another Session
  /\ Running("created") /\ Head(chain).stage = "queued" /\ state.known
  /\ \/ /\ state.owner = NoOne
        /\ IF state.cursor = 0 \/ IsPrefix(SubSeq(Stored, 1, state.cursor), Events)
           THEN Claim(Who, state.cursor, Events) ELSE Collision(Who) /\ UNCHANGED state
     \/ /\ state.owner # NoOne
        /\ IF state.cursor = 0 /\ sess[state.owner].log = <<>>
           THEN state' = NoState /\ UNCHANGED <<chain, sess>>
           ELSE Collision(Who) /\ UNCHANGED state
  /\ UNCHANGED <<storage, entry, call, store, used>>

AdoptionClosers == <<>>   \* the live Session closes its own turn

AdoptLivePrefix ==   \* case 2, and 3 when the seed does not cover the log
  /\ Running("created") /\ ~state.known /\ Exists
  /\ IF IsPrefix(Stored, Events)
     THEN /\ Claim(Who, Len(Stored), Events)
          /\ IF tear.torn \/ AdoptionClosers # <<>> THEN WriteRepair(AdoptionClosers)
                                                   ELSE UNCHANGED storage
     ELSE Collision(Who) /\ UNCHANGED <<storage, state>>
  /\ UNCHANGED <<entry, call, store, used>>

CreateNew ==   \* case 4
  /\ Running("created") /\ ~state.known /\ ~Exists
  /\ IF entry.phase = "none" THEN Claim(Who, 0, Events)
                             ELSE Collision(Who) /\ UNCHANGED state
  /\ UNCHANGED <<storage, entry, call, store, used>>

-----------------------------------------------------------------------------
(* The live Session.                                                       *)
Emit ==
  /\ store # NoOne /\ Len(Live.log) < MaxLog
  /\ sess' = [sess EXCEPT ![store].log =
       Append(@, Ev(IF OpenTurn(@) THEN "close" ELSE "open", store))]
  /\ UNCHANGED <<storage, state, entry, chain, call, store, used>>

Queued(kind, l) == \E i \in DOMAIN chain : chain[i].op = kind /\ chain[i].who = l
Owns(l) == sess[l].init = "ok" /\ sess[l].stage \in {"live", "retiring"}
Unwritten(l) == SubSeq(sess[l].log, state.cursor + 1, Len(sess[l].log))

(* The write controller hands over what it buffered.                       *)
QueueBatch(l) ==
  /\ Owns(l) /\ Unwritten(l) # <<>> /\ ~Queued("batch", l)
  /\ chain' = Append(chain, Op("batch", l, <<state.cursor, Unwritten(l)>>))
  /\ UNCHANGED <<storage, state, entry, call, sess, store, used>>

Dispose ==
  /\ store # NoOne
  /\ sess' = [sess EXCEPT ![store].stage = "retiring"]
  /\ store' = NoOne
  /\ UNCHANGED <<storage, state, entry, chain, call, used>>

(* retireCore: drain, then release the state in the chain.                 *)
DrainedAlways(l) == ~Queued("batch", l)   \* variant: retirement does not drain
Drained(l) == Unwritten(l) = <<>> /\ ~Queued("batch", l)
QueueRelease(l) ==
  /\ sess[l].stage = "retiring" /\ Owns(l) /\ Drained(l) /\ ~Queued("release", l)
  /\ chain' = Append(chain, Op("release", l, <<>>))
  /\ UNCHANGED <<storage, state, entry, call, sess, store, used>>

RetireFails(l) ==
  /\ sess[l].stage = "retiring" /\ sess[l].init = "failed"
  /\ sess' = [sess EXCEPT ![l].stage = "stuck"]
  /\ UNCHANGED <<storage, state, entry, chain, call, store, used>>

Released ==
  /\ Running("release")
  /\ sess' = [sess EXCEPT ![Who].stage = "gone", ![Who].log = <<>>]
  /\ state' = IF state.owner = Who THEN NoState ELSE state
  /\ chain' = Tail(chain)
  /\ UNCHANGED <<storage, entry, call, store, used>>

-----------------------------------------------------------------------------
(* The plugin is reloaded: its last flush succeeds or not, then a new      *)
(* coordinator adopts the Session that is still live.                      *)
Reload ==
  /\ used.upsets < MaxUpsets /\ chain = <<>> /\ \A p \in Callers : Over(p)
  /\ \/ /\ state.owner # NoOne /\ sess[state.owner].init = "ok"
        /\ disk' = disk \o Unwritten(state.owner) /\ acked' = disk' /\ UNCHANGED tear
     \/ UNCHANGED storage
  /\ state' = NoState /\ entry' = NoEntry
  /\ sess' = [l \in 1..Lives |->
       IF l = store THEN [sess[l] EXCEPT !.init = "pending"]
       ELSE IF sess[l].stage = "unborn" THEN sess[l] ELSE [sess[l] EXCEPT !.stage = "gone", !.log = <<>>]]
  /\ chain' = IF store # NoOne THEN <<Op("created", store, <<0, Live.log>>)>> ELSE <<>>
  /\ Spend("upsets")
  /\ UNCHANGED <<call, store>>

(* Another process resumes the Session while this one only has views of    *)
(* it: the log is repaired and extended under a cached preparation.        *)
Foreign ==
  /\ used.upsets < MaxUpsets /\ Exists /\ store = NoOne /\ ~state.known /\ Writable
  /\ \A i \in DOMAIN chain : chain[i].op \in {"read", "check"}
  /\ disk' = Append(Prepared.events, Ev("note", NoOne)) /\ tear' = Clean /\ acked' = disk'
  /\ Spend("upsets")
  /\ UNCHANGED <<state, entry, chain, call, sess, store>>

(* A crash loses everything but the disk.  A running append leaves some of *)
(* its records, whole or in one torn frame, and perhaps a torn record; a   *)
(* repair may have truncated already.  A first batch appears atomically.   *)
Cuts(s) == {SubSeq(s, 1, k) : k \in 0..Len(s)}
Torn(holds) == [torn |-> TRUE, holds |-> holds]
Leaves(evs) ==
  IF disk = <<>> THEN {<<disk, Clean>>, <<evs, Clean>>}
  ELSE {<<disk \o w, t>> : w \in Cuts(evs), t \in {Clean, Torn(<<>>)}}
       \cup {<<disk, Torn(w)>> : w \in Cuts(evs)}

Crash ==
  /\ used.upsets < MaxUpsets
  /\ \E left \in CASE IsWrite /\ Head(chain).stage = "writing" -> Leaves(Events)
                    [] \/ Stage("commit", "repairing")
                       \/ IsWrite /\ Head(chain).stage = "adopting" ->
                         {<<disk, tear>>} \cup Leaves(tear.holds \o ClosersOf(Stored))
                    [] OTHER -> {<<disk, tear>>} :
       disk' = left[1] /\ tear' = left[2]
  /\ UNCHANGED acked
  /\ state' = NoState /\ entry' = NoEntry /\ chain' = <<>>
  /\ call' = [p \in Callers |-> Idle]
  /\ sess' = [l \in 1..Lives |->
       IF sess[l].stage = "unborn" THEN sess[l] ELSE [Unborn EXCEPT !.stage = "gone"]]
  /\ store' = NoOne
  /\ Spend("upsets")

-----------------------------------------------------------------------------
Calls == {"prepare", "load", "inspect", "append"}

CallerSteps(p) ==
  \/ AwaitRetirement(p) \/ MeetLive(p) \/ LoadLive(p) \/ FlushRejected(p)
  \/ Join(p) \/ Reserve(p) \/ InspectJoined(p)
ChainSteps ==
  \/ ReadDone
  \/ CommitStarts \/ CommitOutdated \/ CommitDone \/ CommitStartsRepair
  \/ CommitRepaired \/ InspectChecked
  \/ WriteStarts \/ AdoptRepairs \/ AdoptDone \/ WriteDone
  \/ ClaimTracked \/ AdoptLivePrefix \/ CreateNew \/ Released
LifeSteps(l) == QueueBatch(l) \/ QueueRelease(l) \/ RetireFails(l)
HolderSteps(p) ==
  \/ \E extra \in BOOLEAN : AttachPrepared(p, extra)
  \/ \E reusable \in BOOLEAN : ReleaseReservation(p, reusable)

Next ==
  \/ \E p \in Callers :
       \/ \E op \in Calls : Begin(p, op)
       \/ CallerSteps(p) \/ HolderSteps(p) \/ Abort(p)
  \/ ChainSteps \/ CommitRepairFails \/ WriteRefused
  \/ \E l \in 1..Lives : LifeSteps(l)
  \/ \E seeded \in BOOLEAN : Create(seeded)
  \/ Emit \/ Dispose \/ Evict \/ Reload \/ Foreign \/ Crash

(* Promises that are settled resume their callers, the backend answers, a  *)
(* write controller drains, and whoever holds a preparation ends its scope *)
(* by publishing or disposing it.                                          *)
Fairness ==
  /\ \A p \in Callers : WF_vars(CallerSteps(p)) /\ WF_vars(HolderSteps(p))
  /\ WF_vars(ChainSteps)
  /\ \A l \in 1..Lives : WF_vars(LifeSteps(l))

Spec == Init /\ [][Next]_vars
LiveSpec == Spec /\ Fairness

CallerSymmetry == Permutations(Callers)

-----------------------------------------------------------------------------
(* A Session whose initialization succeeded owns the id's state, unless it *)
(* was disposed with nothing to store and the id reclaimed; and that state *)
(* names exactly what is stored: its log extends the stored one, so        *)
(* nothing is missing, duplicated or closed behind its back (coordinator   *)
(* attachPrepared, onCreated, adoptLivePrefix).                            *)
OwnerExact ==
  \A l \in 1..Lives : Owns(l) /\ sess[l].log # <<>> =>
    /\ state.owner = l /\ state.cursor = Len(disk) /\ ~tear.torn
    /\ IsPrefix(disk, sess[l].log)

(* A reservation is held by one caller and stays the committed, repaired,  *)
(* ownerless view of what is stored, whatever writes, retirements and      *)
(* aborts were queued around it (preparations reserve, assertWritable).    *)
ReservationExact ==
  \A p \in Callers : call[p].at = "held" =>
    /\ call[p].attached /\ entry = [phase |-> "reserved", src |-> call[p].src]
    /\ \A q \in Callers \ {p} : call[q].at # "held"
    /\ call[p].src.events = disk /\ ~tear.torn /\ ~OpenTurn(disk)
    /\ state = [cursor |-> Len(disk), owner |-> NoOne, known |-> TRUE]
    /\ store = NoOne /\ \A l \in 1..Lives : Owns(l) => sess[l].log = <<>>

(* The stored log keeps everything reported durable and stays readable:    *)
(* no torn record is buried under later ones, and turns alternate between  *)
(* an opening and one ending, a Session's own or a repair's, across        *)
(* crashes, repairs, successors and reloads.                               *)
StoredWellFormed ==
  /\ IsPrefix(acked, disk) /\ Buried \notin Range(disk)
  /\ \A i \in DOMAIN disk : disk[i].kind # "note" =>
       (disk[i].kind = "open") = ~OpenTurn(SubSeq(disk, 1, i - 1))

(* A read that returns shows at least what was durable when it was called, *)
(* be it of the store or of a live Session that came to own the id; a load *)
(* shows no open turn.                                                     *)
AnswersCover ==
  \A p \in Callers :
    call[p].at = "answered" =>
      /\ (call[p].life # NoOne => sess[call[p].life].init = "ok")
         => IsPrefix(call[p].base, call[p].src.events)
      /\ call[p].op = "load" => ~OpenTurn(call[p].src.events)

(* Every call returns, fails or holds its reservation: no waiter sleeps on *)
(* a reservation that was removed, and no retry loop runs for ever.        *)
CallsReturn ==
  \A p \in Callers : ~Over(p) /\ call[p].at # "held" ~> Over(p) \/ call[p].at = "held"
=============================================================================
