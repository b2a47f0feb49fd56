------------------------- MODULE CoordinatorProofs -------------------------
(***************************************************************************)
(* Proofs about the persistence coordinator, for any callers and any       *)
(* number of Sessions, events, calls and upsets: a Session that owns the   *)
(* id extends exactly what is stored, and a reservation stays the repaired *)
(* view of it.                                                             *)
(***************************************************************************)
EXTENDS Coordinator, SequenceTheorems, FiniteSetTheorems, TLAPS

(* The values the variables range over.                                    *)
LogEvents == [kind : {"note", "open", "close", "cut", "torn"}, by : Nat]
Logs == Seq(LogEvents)
Tears == [torn : BOOLEAN, holds : Logs]
Sources == [events : Logs, closers : Logs, rev : {<<>>} \cup (Logs \X Tears)]
Phases == {"none", "loading", "ready", "committing", "reserved"}
States == [cursor : Nat, owner : 0..Lives, known : BOOLEAN]
Kinds == {"read", "commit", "check", "append", "batch", "suffix", "created", "release"}
Ops == [op : Kinds, who : Callers \cup 0..Lives, data : {<<>>} \cup (Nat \X Logs),
        stage : {"queued", "checking", "repairing", "adopting", "writing"}, current : BOOLEAN]
Places == {"idle", "begin", "cleared", "flushing", "loading", "joined", "asleep", "commit",
           "check", "held", "append", "answered"}
CallStates == [op : Calls \cup {"none"}, at : Places, src : Sources, attached : BOOLEAN,
               aborted : BOOLEAN, life : 0..Lives, base : Logs]
Sessions == [log : Logs, stage : {"unborn", "live", "retiring", "stuck", "gone"},
             init : {"none", "pending", "ok", "failed"}]

(* A tear that is none holds no part of a record.                          *)
TypeOK ==
  /\ disk \in Logs /\ acked \in Logs
  /\ tear \in Tears /\ (~tear.torn => tear.holds = <<>>)
  /\ state \in States
  /\ entry \in [phase : Phases, src : Sources]
  /\ chain \in Seq(Ops)
  /\ call \in [Callers -> CallStates]
  /\ sess \in [1..Lives -> Sessions]
  /\ store \in 0..Lives

(* IsPrefix, by its elements.                                              *)
Begins(s, t) == Len(s) <= Len(t) /\ \A i \in 1..Len(s) : s[i] = t[i]

(* Sessions are published in order, one at a time.                         *)
Lineage ==
  /\ store # NoOne => sess[store].stage = "live"
  /\ \A l \in 1..Lives :
       /\ sess[l].stage = "live" => l = store
       /\ sess[l].stage = "unborn" =>
            sess[l].init = "none" /\ \A k \in l..Lives : sess[k].stage = "unborn"

(* The state follows the stored log.                                       *)
Ownership ==
  /\ state.owner # NoOne => state.known /\ sess[state.owner].stage # "unborn"
  /\ state.known => ~tear.torn
  /\ state.known /\ state.owner = NoOne => state.cursor = Len(disk) /\ ~OpenTurn(disk)
  /\ \A l \in 1..Lives : Owns(l) /\ (sess[l].log # <<>> \/ l = store) =>
       /\ state.owner = l /\ state.cursor = Len(disk) /\ ~tear.torn
       /\ Begins(disk, sess[l].log)

(* A source was prepared from the revision it carries.                     *)
Faithful(src) ==
  src.rev # <<>> =>
    LET read == src.rev[1] \o src.rev[2].holds IN
    src.closers = ClosersOf(read) /\ src.events = read \o src.closers

(* What a caller knows at each place of its call.                          *)
Sound(c) ==
  /\ Faithful(c.src)
  /\ c.at \in {"joined", "asleep", "check", "commit", "held"} => c.src.rev # <<>>
  /\ c.at \notin {"idle", "append", "answered"} => c.op \in {"prepare", "load", "inspect"}
  /\ c.at \in {"asleep", "commit"} => c.op \in {"prepare", "load"}

Held(p) == call[p].at = "held"
Committing(p) == call[p].at = "commit" /\ call[p].attached

(* The preparation, its holder and its committer name one another.         *)
Preparation ==
  /\ entry.phase # "none" => store = NoOne
  /\ entry.phase \in {"none", "loading"} <=> entry.src.rev = <<>>
  /\ Faithful(entry.src)
  /\ \A p \in Callers :
       /\ Sound(call[p])
       /\ Committing(p) => entry = [phase |-> "committing", src |-> call[p].src]
       /\ Held(p) =>
            /\ call[p].attached /\ entry = [phase |-> "reserved", src |-> call[p].src]
            /\ call[p].src.rev = Revision
            /\ state.known /\ state.owner = NoOne
       /\ \A q \in Callers : (Held(p) /\ Held(q)) \/ (Committing(p) /\ Committing(q)) => p = q
       /\ call[p].at = "append" => \A l \in 1..Lives : sess[l].stage \in {"unborn", "gone"}

(* What an operation may rely on, of the state it is queued in.            *)
Now == [disk |-> disk, tear |-> tear, state |-> state, entry |-> entry, call |-> call,
        sess |-> sess, store |-> store]

(* o still means something in w: its caller waits for it, or its Session   *)
(* is where it was when it was queued.                                     *)
Fits(o, w) ==
  /\ o.op = "commit" =>
       o.who \in Callers /\ w.call[o.who].at = "commit" /\ w.entry.phase # "reserved"
  /\ o.op = "check" => o.who \in Callers /\ w.call[o.who].at = "check"
  /\ o.op = "append" =>
       /\ o.who \in Callers /\ w.call[o.who].at = "append"
       /\ o.data # <<>> /\ o.data[2] = <<Ev("note", NoOne)>>
  /\ o.op = "read" /\ o.current => w.entry.phase = "loading"
  /\ o.op = "created" =>
       /\ o.who \in 1..Lives /\ o.data # <<>> /\ o.data[1] = 0
       /\ w.sess[o.who].init = "pending" /\ w.sess[o.who].stage \in {"live", "retiring"}
       /\ Begins(o.data[2], w.sess[o.who].log)
       /\ w.state.owner < o.who /\ (w.store # NoOne => o.who <= w.store)
       /\ w.entry.phase \in {"none", "loading"}
  /\ o.op \in {"suffix", "batch"} =>
       /\ o.who \in 1..Lives /\ o.data # <<>> /\ o.data[2] # <<>>
       /\ w.sess[o.who].init = IF o.op = "suffix" THEN "pending" ELSE "ok"
       /\ w.sess[o.who].stage \in {"live", "retiring"}
       /\ w.state.owner = o.who
       /\ w.state.cursor = Len(w.disk) /\ w.state.cursor = o.data[1] /\ ~w.tear.torn
       /\ Begins(w.disk \o o.data[2], w.sess[o.who].log)
  /\ o.op = "release" =>
       /\ o.who \in 1..Lives
       /\ w.sess[o.who].init = "ok" /\ w.sess[o.who].stage = "retiring"
       /\ w.sess[o.who].log = <<>> \/ Len(w.sess[o.who].log) <= w.state.cursor

(* o is queued before u.                                                   *)
Precedes(o, u, w) ==
  /\ o.op = "commit" /\ u.op = "commit" => o.who # u.who /\ ~w.call[o.who].attached
  /\ o.op = u.op /\ o.op \in {"check", "append", "release"} => o.who # u.who
  /\ o.op = "created" /\ u.op = "created" => o.who < u.who
  /\ ~(o.op \in {"batch", "suffix"} /\ u.op \in {"batch", "suffix"})
  /\ o.op = "read" /\ o.current => u.op # "created" /\ ~(u.op = "read" /\ u.current)

(* How far the first operation has come.                                   *)
Runs(o, w) ==
  /\ o.stage \in {"checking", "repairing"} => o.op = "commit" /\ w.state.owner = NoOne
  /\ o.stage = "repairing" => ~w.state.known
  /\ o.stage = "adopting" => o.op = "append" /\ ~w.state.known /\ w.entry.phase # "reserved"
  /\ o.stage = "writing" =>
       o.op \in {"append", "batch", "suffix"} /\ w.state.known /\ w.entry.phase # "reserved"

(* The chain of the id: each operation fits, in order, and only the first  *)
(* has started.                                                            *)
Chained(ch, w) ==
  /\ \A i \in DOMAIN ch : Fits(ch[i], w) /\ (i # 1 => ch[i].stage = "queued")
  /\ \A i, j \in DOMAIN ch : i < j => Precedes(ch[i], ch[j], w)
  /\ ch # <<>> => Runs(ch[1], w)

ChainInv == Chained(chain, Now)

(* OwnerExact and ReservationExact are not inductive: they follow from     *)
(* what every queued operation may rely on while it waits.                 *)
IInv == TypeOK /\ Lineage /\ Ownership /\ Preparation /\ ChainInv
-----------------------------------------------------------------------------
(* Sequences.                                                              *)

(* Begins is IsPrefix.                                                     *)
LEMMA BeginsIsPrefix ==
  ASSUME NEW s \in Logs, NEW t \in Logs
  PROVE  IsPrefix(s, t) <=> Begins(s, t)
<1>1. Len(s) \in Nat /\ Len(t) \in Nat /\ DOMAIN s = 1..Len(s) /\ DOMAIN t = 1..Len(t)
  BY DEF Logs
<1>2. CASE Len(s) <= Len(t)
  <2>1. SubSeq(s, 1, Len(s)) = s
    BY SubSeqFull DEF Logs
  <2>2. /\ Len(SubSeq(t, 1, Len(s))) = Len(s) /\ SubSeq(t, 1, Len(s)) \in Logs
        /\ \A i \in 1..Len(s) : SubSeq(t, 1, Len(s))[i] = t[i]
    <3>1. \A i \in 1..Len(s) : t[i] \in LogEvents
      <4>1. t \in [1..Len(t) -> LogEvents]
        BY LenProperties DEF Logs
      <4> QED BY <4>1, <1>1, <1>2
    <3>2. 1 \in Int /\ Len(s) \in Int
      BY <1>1
    <3> HIDE DEF Logs
    <3>3. /\ SubSeq(t, 1, Len(s)) \in Seq(LogEvents)
          /\ Len(SubSeq(t, 1, Len(s))) = IF 1 <= Len(s) THEN Len(s) - 1 + 1 ELSE 0
          /\ \A i \in 1..(Len(s) - 1 + 1) : SubSeq(t, 1, Len(s))[i] = t[1 + i - 1]
      BY <3>1, <3>2, SubSeqProperties
    <3>4. Len(SubSeq(t, 1, Len(s))) = Len(s)
      BY <1>1, <3>3
    <3>5. \A i \in 1..Len(s) : SubSeq(t, 1, Len(s))[i] = t[i]
      BY <1>1, <3>3
    <3> QED BY <3>3, <3>4, <3>5 DEF Logs
  <2>3. s = SubSeq(t, 1, Len(s)) <=> \A i \in 1..Len(s) : s[i] = t[i]
    BY <2>2, SeqEqual DEF Logs
  <2> QED BY <1>2, <2>1, <2>3 DEF IsPrefix, Begins
<1>3. CASE ~(Len(s) <= Len(t))
  BY <1>3 DEF IsPrefix, Begins
<1> QED BY <1>2, <1>3

LEMMA BeginsJoined ==
  ASSUME NEW s \in Logs, NEW t \in Logs, NEW u \in Logs, Begins(s \o t, u)
  PROVE  /\ Begins(s, u) /\ Len(s) + Len(t) <= Len(u)
         /\ \A i \in 1..Len(t) : u[Len(s) + i] = t[i]
<1>1. /\ s \o t \in Logs /\ Len(s \o t) = Len(s) + Len(t) /\ Len(s) \in Nat /\ Len(t) \in Nat
      /\ Len(u) \in Nat
      /\ \A i \in 1..Len(s) + Len(t) :
           (s \o t)[i] = IF i <= Len(s) THEN s[i] ELSE t[i - Len(s)]
  BY ConcatProperties, LenProperties DEF Logs
<1>2. \A i \in 1..Len(s) : u[i] = s[i]
  <2> TAKE i \in 1..Len(s)
  <2>1. i \in 1..Len(s) + Len(t) /\ i <= Len(s)
    BY <1>1
  <2> QED BY <2>1, <1>1 DEF Begins
<1>3. \A i \in 1..Len(t) : u[Len(s) + i] = t[i]
  <2> TAKE i \in 1..Len(t)
  <2>1. Len(s) + i \in 1..Len(s) + Len(t) /\ ~(Len(s) + i <= Len(s)) /\ (Len(s) + i) - Len(s) = i
    BY <1>1
  <2> QED BY <2>1, <1>1 DEF Begins
<1> QED BY <1>1, <1>2, <1>3 DEF Begins

(* A log grows at its end.                                                 *)
LEMMA BeginsGrows ==
  ASSUME NEW s \in Logs, NEW t \in Logs, NEW u \in Logs, Begins(s, t)
  PROVE  Begins(s, t \o u)
<1>1. /\ Len(t \o u) = Len(t) + Len(u) /\ Len(s) \in Nat /\ Len(t) \in Nat /\ Len(u) \in Nat
      /\ \A i \in 1..Len(t) + Len(u) :
           (t \o u)[i] = IF i <= Len(t) THEN t[i] ELSE u[i - Len(t)]
  BY ConcatProperties, LenProperties DEF Logs
<1> QED BY <1>1 DEF Begins

(* A prefix and the rest are the whole log.                                *)
LEMMA BeginsRest ==
  ASSUME NEW s \in Logs, NEW t \in Logs, Begins(s, t)
  PROVE  /\ SubSeq(t, Len(s) + 1, Len(t)) \in Logs
         /\ s \o SubSeq(t, Len(s) + 1, Len(t)) = t
<1>1. Len(s) \in Nat /\ Len(t) \in Nat /\ Len(s) <= Len(t)
  BY LenProperties DEF Logs, Begins
<1>2. s = SubSeq(t, 1, Len(s))
  <2>1. IsPrefix(s, t)
    BY BeginsIsPrefix
  <2>2. SubSeq(s, 1, Len(s)) = s
    BY SubSeqFull DEF Logs
  <2> QED BY <2>1, <2>2 DEF IsPrefix
<1>3. SubSeq(t, 1, Len(s)) \o SubSeq(t, Len(s) + 1, Len(t)) = SubSeq(t, 1, Len(t))
  <2>1. 1 \in 1..(Len(t) + 1) /\ Len(s) \in (1 - 1)..Len(t) /\ Len(t) \in Len(s)..Len(t)
    BY <1>1
  <2> QED BY <2>1, ConcatAdjacentSubSeq DEF Logs
<1>4. SubSeq(t, 1, Len(t)) = t
  BY SubSeqFull DEF Logs
<1>5. SubSeq(t, Len(s) + 1, Len(t)) \in Logs
  <2>1. Len(s) + 1 \in Int /\ Len(t) \in Int
    BY <1>1
  <2>2. \A i \in (Len(s) + 1)..Len(t) : t[i] \in LogEvents
    <3>1. t \in [1..Len(t) -> LogEvents]
      BY LenProperties DEF Logs
    <3> QED BY <3>1, <1>1
  <2> QED BY <2>1, <2>2, SubSeqProperties DEF Logs
<1> QED BY <1>2, <1>3, <1>4, <1>5

(* Begins is transitive.                                                   *)
LEMMA BeginsMeets ==
  ASSUME NEW s \in Logs, NEW t \in Logs, NEW u \in Logs, Begins(s, t), Begins(t, u)
  PROVE  Begins(s, u)
  BY LenProperties DEF Begins, Logs

(* Begins is reflexive, and every log begins with the empty one.           *)
LEMMA BeginsSelf ==
  ASSUME NEW s \in Logs
  PROVE  Begins(s, s) /\ Begins(<<>>, s)
  BY LenProperties DEF Begins, Logs

(* An event outside any turn leaves no turn open.                          *)
LEMMA NoteOpensNothing ==
  ASSUME NEW s \in Logs, NEW by \in Nat, ~OpenTurn(s)
  PROVE  ~OpenTurn(s \o <<Ev("note", by)>>)
<1> DEFINE n == Ev("note", by)
           t == s \o <<n>>
<1>0. n \in LogEvents /\ n.kind = "note" /\ n.kind # "open"
  <2>1. n = [kind |-> "note", by |-> by]
    BY DEF Ev
  <2> HIDE DEF n
  <2>2. n.kind = "note" /\ "note" # "open"
    BY <2>1
  <2>3. n \in LogEvents
    BY <2>1 DEF LogEvents
  <2>4. n.kind # "open"
    BY <2>2
  <2> QED BY <2>2, <2>3, <2>4
<1> HIDE DEF n
<1>1. t = Append(s, n)
  BY <1>0, AppendIsConcat DEF Logs
<1>2. /\ t \in Logs /\ Len(t) = Len(s) + 1 /\ t[Len(s) + 1] = n
      /\ \A i \in 1..Len(s) : t[i] = s[i]
  BY <1>0, <1>1, AppendProperties DEF Logs
<1>3. Len(s) \in Nat /\ DOMAIN s = 1..Len(s) /\ DOMAIN t = 1..(Len(s) + 1)
  BY <1>2, LenProperties DEF Logs
<1> HIDE DEF t
<1> SUFFICES ASSUME OpenTurn(t) PROVE FALSE
  BY DEF t, n
<1>4. PICK i \in DOMAIN t : t[i].kind = "open" /\ \A j \in (i + 1)..Len(t) : t[j].kind = "note"
  BY DEF OpenTurn
<1>5. i \in 1..Len(s)
  BY <1>0, <1>2, <1>3, <1>4
<1>6. s[i].kind = "open"
  BY <1>2, <1>4, <1>5
<1>7. \A j \in (i + 1)..Len(s) : s[j].kind = "note"
  <2> TAKE j \in (i + 1)..Len(s)
  <2>1. j \in (i + 1)..Len(t) /\ j \in 1..Len(s)
    BY <1>2, <1>3, <1>5
  <2> QED BY <2>1, <1>2, <1>4
<1> QED BY <1>3, <1>5, <1>6, <1>7 DEF OpenTurn

-----------------------------------------------------------------------------
(* The chain: what the operations still queued keep when the rest moves    *)
(* from w to v, and when the first one ends, changes its stage, or another *)
(* one is queued or withdrawn.                                             *)

(* Nobody whose commit is queued becomes attached.                         *)
Looser(w, v) ==
  \A p \in Callers : w.call[p].at = "commit" /\ v.call[p].attached => w.call[p].attached

(* The order of two operations survives a step that attaches no committer. *)
LEMMA PrecedesKept ==
  ASSUME NEW w, NEW v, Looser(w, v), NEW o, NEW u, Fits(o, w), Precedes(o, u, w)
  PROVE  Precedes(o, u, v)
  BY DEF Looser, Fits, Precedes

(* The chain stays as it is over a step that every operation fits.         *)
LEMMA ChainKept ==
  ASSUME NEW w, NEW v, NEW ch \in Seq(Ops), Chained(ch, w), Looser(w, v),
         \A i \in DOMAIN ch : Fits(ch[i], v),
         ch # <<>> => Runs(ch[1], v)
  PROVE  Chained(ch, v)
<1>1. \A i, j \in DOMAIN ch : i < j => Precedes(ch[i], ch[j], v)
  BY PrecedesKept DEF Chained
<1> QED BY <1>1 DEF Chained

(* The first operation leaves the chain.                                   *)
LEMMA ChainPops ==
  ASSUME NEW w, NEW v, NEW ch \in Seq(Ops), Chained(ch, w), Looser(w, v), ch # <<>>,
         \A i \in DOMAIN ch : i # 1 => Fits(ch[i], v)
  PROVE  /\ Tail(ch) \in Seq(Ops) /\ Chained(Tail(ch), v)
<1>1. /\ Tail(ch) \in Seq(Ops) /\ Len(Tail(ch)) = Len(ch) - 1
      /\ \A i \in 1..Len(Tail(ch)) : Tail(ch)[i] = ch[i + 1]
      /\ Len(ch) \in Nat /\ DOMAIN ch = 1..Len(ch) /\ DOMAIN Tail(ch) = 1..Len(Tail(ch))
  BY HeadTailProperties, LenProperties
<1> DEFINE t == Tail(ch)
<1> HIDE DEF t
<1>2. /\ t \in Seq(Ops) /\ DOMAIN t = 1..(Len(ch) - 1)
      /\ \A i \in DOMAIN t : i \in Nat /\ i + 1 \in DOMAIN ch /\ i + 1 # 1 /\ t[i] = ch[i + 1]
  BY <1>1 DEF t
<1>3. \A i \in DOMAIN t : Fits(t[i], v) /\ t[i].stage = "queued"
  BY <1>2 DEF Chained
<1>4. \A i, j \in DOMAIN t : i < j => Precedes(t[i], t[j], v)
  <2> SUFFICES ASSUME NEW i \in DOMAIN t, NEW j \in DOMAIN t, i < j
               PROVE  Precedes(t[i], t[j], v)
    OBVIOUS
  <2>1. i + 1 < j + 1 /\ Fits(ch[i + 1], w) /\ Precedes(ch[i + 1], ch[j + 1], w)
    BY <1>2 DEF Chained
  <2> QED BY <2>1, <1>2, PrecedesKept
<1>5. t # <<>> => Runs(t[1], v)
  <2>1. t # <<>> => 1 \in DOMAIN t
    BY <1>2
  <2> QED BY <2>1, <1>3 DEF Runs
<1> QED BY <1>1, <1>3, <1>4, <1>5 DEF t, Chained

(* An operation is queued.                                                 *)
LEMMA ChainGrows ==
  ASSUME NEW v, NEW ch \in Seq(Ops), Chained(ch, v), NEW o \in Ops, o.stage = "queued",
         Fits(o, v), \A i \in DOMAIN ch : Precedes(ch[i], o, v)
  PROVE  /\ Append(ch, o) \in Seq(Ops) /\ Chained(Append(ch, o), v)
<1> DEFINE t == Append(ch, o)
<1>1. /\ t \in Seq(Ops) /\ Len(t) = Len(ch) + 1 /\ t[Len(ch) + 1] = o
      /\ \A i \in 1..Len(ch) : t[i] = ch[i]
  BY AppendProperties
<1>2. Len(ch) \in Nat /\ DOMAIN ch = 1..Len(ch) /\ DOMAIN t = 1..(Len(ch) + 1)
  BY <1>1, LenProperties
<1> HIDE DEF t
<1>3. \A i \in DOMAIN t : (i \in DOMAIN ch /\ t[i] = ch[i]) \/ (i = Len(ch) + 1 /\ t[i] = o)
  BY <1>1, <1>2
<1>4. \A i \in DOMAIN t : Fits(t[i], v) /\ (i # 1 => t[i].stage = "queued")
  BY <1>3 DEF Chained
<1>5. \A i, j \in DOMAIN t : i < j => Precedes(t[i], t[j], v)
  <2> SUFFICES ASSUME NEW i \in DOMAIN t, NEW j \in DOMAIN t, i < j
               PROVE  Precedes(t[i], t[j], v)
    OBVIOUS
  <2>1. i \in DOMAIN ch /\ t[i] = ch[i]
    BY <1>1, <1>2
  <2> QED BY <2>1, <1>3 DEF Chained
<1>6. Runs(t[1], v)
  <2>1. CASE ch = <<>>
    BY <2>1, <1>1 DEF Runs
  <2>2. CASE ch # <<>>
    <3>1. 1 \in 1..Len(ch)
      BY <2>2, <1>2
    <3> QED BY <2>2, <3>1, <1>1 DEF Chained
  <2> QED BY <2>1, <2>2
<1> QED BY <1>1, <1>4, <1>5, <1>6 DEF t, Chained

(* The first operation moves to its next stage.                            *)
LEMMA ChainStarts ==
  ASSUME NEW w, NEW v, NEW ch \in Seq(Ops), Chained(ch, w), Looser(w, v), ch # <<>>,
         \A i \in DOMAIN ch : Fits(ch[i], v),
         NEW stage \in {"queued", "checking", "repairing", "adopting", "writing"},
         Runs([ch[1] EXCEPT !.stage = stage], v)
  PROVE  /\ [ch EXCEPT ![1].stage = stage] \in Seq(Ops)
         /\ Chained([ch EXCEPT ![1].stage = stage], v)
<1>1. Len(ch) \in Nat /\ DOMAIN ch = 1..Len(ch) /\ 1 \in 1..Len(ch) /\ ch[1] \in Ops
  BY LenProperties, EmptySeq
<1> DEFINE o == [ch[1] EXCEPT !.stage = stage]
           t == [ch EXCEPT ![1].stage = stage]
<1>2. /\ o \in Ops /\ o.op = ch[1].op /\ o.who = ch[1].who /\ o.data = ch[1].data
      /\ o.current = ch[1].current
  BY <1>1 DEF Ops
<1>3. /\ t = [ch EXCEPT ![1] = o]
  BY <1>1
<1> HIDE DEF o, t
<1>4. /\ t \in Seq(Ops) /\ Len(t) = Len(ch)
      /\ \A i \in 1..Len(ch) : t[i] = IF i = 1 THEN o ELSE ch[i]
  BY <1>1, <1>2, <1>3, ExceptSeq
<1>5. DOMAIN t = DOMAIN ch
  BY <1>1, <1>4, LenProperties
<1>6. \A i \in DOMAIN t : Fits(t[i], v) /\ (i # 1 => t[i].stage = "queued")
  <2>1. Fits(o, v)
    BY <1>1, <1>2 DEF Fits
  <2> QED BY <2>1, <1>1, <1>4, <1>5 DEF Chained
<1>7. \A i, j \in DOMAIN t : i < j => Precedes(t[i], t[j], v)
  <2> SUFFICES ASSUME NEW i \in DOMAIN t, NEW j \in DOMAIN t, i < j
               PROVE  Precedes(t[i], t[j], v)
    OBVIOUS
  <2>1. Precedes(ch[i], ch[j], v) /\ t[j] = ch[j]
    <3>1. Fits(ch[i], w) /\ Precedes(ch[i], ch[j], w)
      BY <1>1, <1>5 DEF Chained
    <3> QED BY <3>1, <1>1, <1>4, <1>5, PrecedesKept
  <2>2. CASE i = 1
    BY <2>1, <2>2, <1>1, <1>2, <1>4, <1>5 DEF Precedes
  <2>3. CASE i # 1
    BY <2>1, <2>3, <1>1, <1>4, <1>5
  <2> QED BY <2>2, <2>3
<1>8. Runs(t[1], v)
  BY <1>1, <1>4 DEF o
<1> QED BY <1>4, <1>6, <1>7, <1>8 DEF t, Chained

(* The first operation goes on as another one.                             *)
LEMMA ChainReplaces ==
  ASSUME NEW v, NEW ch \in Seq(Ops), ch # <<>>, Chained(Tail(ch), v),
         NEW o \in Ops, o.stage = "queued", Fits(o, v),
         \A i \in DOMAIN ch : i # 1 => Precedes(o, ch[i], v) /\ ch[i].stage = "queued"
  PROVE  /\ <<o>> \o Tail(ch) \in Seq(Ops) /\ Chained(<<o>> \o Tail(ch), v)
<1> DEFINE t == <<o>> \o Tail(ch)
<1>1. /\ Tail(ch) \in Seq(Ops) /\ Len(Tail(ch)) = Len(ch) - 1
      /\ \A i \in 1..Len(Tail(ch)) : Tail(ch)[i] = ch[i + 1]
      /\ Len(ch) \in Nat /\ DOMAIN ch = 1..Len(ch) /\ DOMAIN Tail(ch) = 1..Len(Tail(ch))
  BY HeadTailProperties, LenProperties
<1>2. <<o>> \in Seq(Ops) /\ Len(<<o>>) = 1 /\ <<o>>[1] = o
  OBVIOUS
<1>3. /\ t \in Seq(Ops) /\ Len(t) = 1 + Len(Tail(ch))
      /\ \A i \in 1..(1 + Len(Tail(ch))) : t[i] = IF i <= 1 THEN <<o>>[i] ELSE Tail(ch)[i - 1]
  BY <1>1, <1>2, ConcatProperties
<1>4. /\ DOMAIN t = 1..Len(ch) /\ t[1] = o
      /\ \A i \in DOMAIN t : i # 1 => i - 1 \in DOMAIN Tail(ch) /\ t[i] = Tail(ch)[i - 1]
                                      /\ i \in DOMAIN ch /\ t[i] = ch[i] /\ i \in Nat
  <2>1. DOMAIN t = 1..Len(ch)
    BY <1>1, <1>3, LenProperties
  <2>2. 1 \in 1..(1 + Len(Tail(ch))) /\ 1 <= 1
    BY <1>1
  <2>3. t[1] = o
    BY <2>2, <1>2, <1>3
  <2>4. ASSUME NEW i \in DOMAIN t, i # 1
        PROVE  i - 1 \in DOMAIN Tail(ch) /\ t[i] = Tail(ch)[i - 1] /\ i \in DOMAIN ch /\ i \in Nat
               /\ (i - 1) + 1 = i
    BY <2>1, <2>4, <1>1, <1>3
  <2>5. ASSUME NEW i \in DOMAIN t, i # 1
        PROVE  t[i] = ch[i]
    BY <2>4, <2>5, <1>1
  <2> QED BY <2>1, <2>3, <2>4, <2>5
<1> HIDE DEF t
<1>6. \A i \in DOMAIN t : i # 1 => t[i].stage = "queued"
  BY <1>4
<1>5. \A i \in DOMAIN t : i = 1 \/ (i # 1 /\ Fits(t[i], v) /\ t[i].stage = "queued")
  <2> SUFFICES ASSUME NEW i \in DOMAIN t, i # 1 PROVE Fits(t[i], v) /\ t[i].stage = "queued"
    OBVIOUS
  <2> DEFINE r == Tail(ch)
  <2> HIDE DEF r
  <2>0. i - 1 \in DOMAIN r /\ t[i] = r[i - 1] /\ Chained(r, v)
    BY <1>4 DEF r
  <2>1. Fits(r[i - 1], v) /\ (i - 1 # 1 => r[i - 1].stage = "queued")
    BY <2>0 DEF Chained
  <2>2. t[i].stage = "queued"
    BY <1>4, <1>6
  <2> QED BY <2>0, <2>1, <2>2
<1>7. \A i, j \in DOMAIN t : i < j => Precedes(t[i], t[j], v)
  <2> SUFFICES ASSUME NEW i \in DOMAIN t, NEW j \in DOMAIN t, i < j
               PROVE  Precedes(t[i], t[j], v)
    OBVIOUS
  <2>0. i \in Nat /\ j \in Nat /\ j # 1
    BY <1>1, <1>4
  <2>1. CASE i = 1
    BY <2>0, <2>1, <1>4
  <2>2. CASE i # 1
    <3> DEFINE r == Tail(ch)
    <3> HIDE DEF r
    <3>1. /\ i - 1 \in DOMAIN r /\ j - 1 \in DOMAIN r /\ i - 1 < j - 1
          /\ t[i] = r[i - 1] /\ t[j] = r[j - 1] /\ Chained(r, v)
      BY <2>0, <2>2, <1>4 DEF r
    <3> QED BY <3>1 DEF Chained
  <2> QED BY <2>1, <2>2
<1>8. Runs(t[1], v)
  BY <1>4 DEF Runs
<1> QED BY <1>3, <1>4, <1>5, <1>7, <1>8 DEF t, Chained

(* The reads of a removed preparation are no longer current.               *)
LEMMA ChainOrphans ==
  ASSUME NEW v, NEW ch \in Seq(Ops), Chained(ch, v)
  PROVE  /\ Orphaned(ch) \in Seq(Ops) /\ Chained(Orphaned(ch), v)
<1> DEFINE t == Orphaned(ch)
<1>1. Len(ch) \in Nat /\ DOMAIN ch = 1..Len(ch) /\ ch \in [1..Len(ch) -> Ops]
  BY LenProperties
<1>2. DOMAIN t = 1..Len(ch) /\ \A i \in 1..Len(ch) : t[i] = [ch[i] EXCEPT !.current = FALSE]
  BY <1>1 DEF Orphaned
<1>3. \A i \in 1..Len(ch) :
        /\ t[i] \in Ops /\ t[i].op = ch[i].op /\ t[i].who = ch[i].who /\ t[i].data = ch[i].data
        /\ t[i].stage = ch[i].stage /\ t[i].current = FALSE
  <2> SUFFICES ASSUME NEW i \in 1..Len(ch)
               PROVE  /\ t[i] \in Ops /\ t[i].op = ch[i].op /\ t[i].who = ch[i].who
                      /\ t[i].data = ch[i].data /\ t[i].stage = ch[i].stage
                      /\ t[i].current = FALSE
    OBVIOUS
  <2>1. ch[i] \in Ops /\ t[i] = [ch[i] EXCEPT !.current = FALSE]
    BY <1>1, <1>2
  <2> HIDE DEF t
  <2> QED BY <2>1 DEF Ops
<1>4. t = [i \in 1..Len(ch) |-> t[i]]
  BY <1>1 DEF Orphaned
<1>5. t \in Seq(Ops)
  <2>1. t \in [1..Len(ch) -> Ops]
    BY <1>3, <1>4
  <2> QED BY <2>1, <1>1
<1> HIDE DEF t
<1>6. \A i \in DOMAIN t : Fits(t[i], v) /\ (i # 1 => t[i].stage = "queued")
  BY <1>1, <1>2, <1>3 DEF Chained, Fits
<1>7. \A i, j \in DOMAIN t : i < j => Precedes(t[i], t[j], v)
  BY <1>1, <1>2, <1>3 DEF Chained, Precedes
<1>8. t # <<>> => Runs(t[1], v)
  <2>1. ASSUME t # <<>> PROVE 1 \in 1..Len(ch) /\ ch # <<>>
    BY <2>1, <1>1, <1>2, <1>5, EmptySeq, LenProperties
  <2> QED BY <2>1, <1>3 DEF Chained, Runs
<1> QED BY <1>5, <1>6, <1>7, <1>8 DEF t, Chained

(* A queued operation is withdrawn.                                        *)
LEMMA ChainLoses ==
  ASSUME NEW w, NEW v, NEW ch \in Seq(Ops), Chained(ch, w), Looser(w, v), NEW k \in DOMAIN ch,
         \A i \in DOMAIN ch : i # k => Fits(ch[i], v),
         k # 1 => Runs(ch[1], v)
  PROVE  /\ RemoveAt(ch, k) \in Seq(Ops) /\ Chained(RemoveAt(ch, k), v)
<1> DEFINE t == RemoveAt(ch, k)
           a == SubSeq(ch, 1, k - 1)
           b == SubSeq(ch, k + 1, Len(ch))
           at(i) == IF i < k THEN i ELSE i + 1
<1>1. Len(ch) \in Nat /\ DOMAIN ch = 1..Len(ch) /\ ch \in [1..Len(ch) -> Ops] /\ k \in 1..Len(ch)
  BY LenProperties
<1>2. /\ a \in Seq(Ops) /\ Len(a) = k - 1 /\ \A i \in 1..(k - 1) : a[i] = ch[i]
  <2>1. 1 \in Int /\ k - 1 \in Int /\ \A i \in 1..(k - 1) : ch[i] \in Ops
    BY <1>1
  <2>2. /\ a \in Seq(Ops) /\ Len(a) = IF 1 <= k - 1 THEN (k - 1) - 1 + 1 ELSE 0
        /\ \A i \in 1..((k - 1) - 1 + 1) : a[i] = ch[1 + i - 1]
    BY <2>1, SubSeqProperties
  <2> HIDE DEF a
  <2> QED BY <2>2, <1>1
<1>3. /\ b \in Seq(Ops) /\ Len(b) = Len(ch) - k /\ \A i \in 1..(Len(ch) - k) : b[i] = ch[k + i]
  <2>1. k + 1 \in Int /\ Len(ch) \in Int /\ \A i \in (k + 1)..Len(ch) : ch[i] \in Ops
    BY <1>1
  <2>2. /\ b \in Seq(Ops) /\ Len(b) = IF k + 1 <= Len(ch) THEN Len(ch) - (k + 1) + 1 ELSE 0
        /\ \A i \in 1..(Len(ch) - (k + 1) + 1) : b[i] = ch[(k + 1) + i - 1]
    BY <2>1, SubSeqProperties
  <2> HIDE DEF b
  <2>3. Len(b) = Len(ch) - k /\ Len(ch) - (k + 1) + 1 = Len(ch) - k
    BY <2>2, <1>1
  <2>4. \A i \in 1..(Len(ch) - k) : b[i] = ch[k + i]
    <3> TAKE i \in 1..(Len(ch) - k)
    <3>1. (k + 1) + i - 1 = k + i
      BY <1>1
    <3> QED BY <3>1, <2>2, <2>3
  <2> QED BY <2>2, <2>3, <2>4
<1>4. t = a \o b
  BY DEF RemoveAt
<1> HIDE DEF a, b, t
<1>5. /\ t \in Seq(Ops) /\ Len(t) = Len(a) + Len(b)
      /\ \A i \in 1..(Len(a) + Len(b)) : t[i] = IF i <= Len(a) THEN a[i] ELSE b[i - Len(a)]
  <2>1. a \in Seq(Ops) /\ b \in Seq(Ops)
    BY <1>2, <1>3
  <2> QED BY <2>1, <1>4, ConcatProperties
<1>6. DOMAIN t = 1..(Len(ch) - 1)
  BY <1>1, <1>2, <1>3, <1>5, LenProperties
<1>7. \A i \in DOMAIN t : at(i) \in DOMAIN ch /\ at(i) # k /\ t[i] = ch[at(i)] /\ at(i) \in Nat
                          /\ (at(i) = 1 => i = 1)
  <2> SUFFICES ASSUME NEW i \in DOMAIN t
               PROVE  at(i) \in DOMAIN ch /\ at(i) # k /\ t[i] = ch[at(i)] /\ at(i) \in Nat
                      /\ (at(i) = 1 => i = 1)
    OBVIOUS
  <2>1. CASE i < k
    BY <2>1, <1>1, <1>2, <1>3, <1>5, <1>6
  <2>2. CASE ~(i < k)
    <3>1. i - (k - 1) \in 1..(Len(ch) - k) /\ k + (i - (k - 1)) = i + 1 /\ ~(i <= k - 1)
      BY <2>2, <1>1, <1>6
    <3>2. t[i] = b[i - (k - 1)]
      <4>1. Len(a) = k - 1 /\ Len(b) = Len(ch) - k
        BY <1>1, <1>2, <1>3
      <4>2. i \in 1..(Len(a) + Len(b)) /\ ~(i <= Len(a))
        BY <4>1, <3>1, <1>1, <1>6
      <4>3. t[i] = b[i - Len(a)]
        BY <4>2, <1>5
      <4> QED BY <4>1, <4>3
    <3> QED BY <2>2, <3>1, <3>2, <1>1, <1>3, <1>6
  <2> QED BY <2>1, <2>2
<1>8. \A i, j \in DOMAIN t : i < j => at(i) < at(j)
  BY <1>1, <1>6
<1> HIDE DEF at
<1>9. \A i \in DOMAIN t : Fits(t[i], v) /\ (i # 1 => t[i].stage = "queued")
  BY <1>7 DEF Chained
<1>10. \A i, j \in DOMAIN t : i < j => Precedes(t[i], t[j], v)
  <2> SUFFICES ASSUME NEW i \in DOMAIN t, NEW j \in DOMAIN t, i < j
               PROVE  Precedes(t[i], t[j], v)
    OBVIOUS
  <2>1. Fits(ch[at(i)], w) /\ Precedes(ch[at(i)], ch[at(j)], w)
    BY <1>7, <1>8 DEF Chained
  <2> QED BY <2>1, <1>7, PrecedesKept
<1>11. t # <<>> => Runs(t[1], v)
  <2> SUFFICES ASSUME t # <<>> PROVE Runs(t[1], v)
    OBVIOUS
  <2>1. 1 \in DOMAIN t /\ ch # <<>>
    BY <1>1, <1>5, <1>6, EmptySeq, LenProperties
  <2>2. CASE at(1) = 1
    BY <2>1, <2>2, <1>7
  <2>3. CASE at(1) # 1
    BY <2>1, <2>3, <1>7 DEF Chained, Runs
  <2> QED BY <2>2, <2>3
<1> QED BY <1>5, <1>9, <1>10, <1>11 DEF t, Chained

-----------------------------------------------------------------------------
(* Steps of a caller that touch nothing but its own progress.              *)

(* No operation and no reservation counts on this caller.                  *)
Bystander(c) == c.at \notin {"commit", "check", "append", "held"}

(* The fields of Now, in this state and the next.                          *)
LEMMA NowIs ==
  /\ Now.disk = disk /\ Now.tear = tear /\ Now.state = state /\ Now.entry = entry
  /\ Now.call = call /\ Now.sess = sess /\ Now.store = store
  /\ (Now').disk = disk' /\ (Now').tear = tear' /\ (Now').state = state'
  /\ (Now').entry = entry' /\ (Now').call = call' /\ (Now').sess = sess'
  /\ (Now').store = store'
  BY DEF Now

(* What an operation needs, by its kind.                                   *)
LEMMA FitsIs ==
  ASSUME NEW o, NEW w
  PROVE  /\ o.op = "commit" =>
              (Fits(o, w) <=> /\ o.who \in Callers /\ w.call[o.who].at = "commit"
                              /\ w.entry.phase # "reserved")
         /\ o.op = "check" => (Fits(o, w) <=> o.who \in Callers /\ w.call[o.who].at = "check")
         /\ o.op = "append" =>
              (Fits(o, w) <=> /\ o.who \in Callers /\ w.call[o.who].at = "append"
                              /\ o.data # <<>> /\ o.data[2] = <<Ev("note", NoOne)>>)
         /\ o.op = "created" =>
              (Fits(o, w) <=>
                 /\ o.who \in 1..Lives /\ o.data # <<>> /\ o.data[1] = 0
                 /\ w.sess[o.who].init = "pending" /\ w.sess[o.who].stage \in {"live", "retiring"}
                 /\ Begins(o.data[2], w.sess[o.who].log)
                 /\ w.state.owner < o.who /\ (w.store # NoOne => o.who <= w.store)
                 /\ w.entry.phase \in {"none", "loading"})
         /\ o.op \in {"suffix", "batch"} =>
              (Fits(o, w) <=>
                 /\ o.who \in 1..Lives /\ o.data # <<>> /\ o.data[2] # <<>>
                 /\ w.sess[o.who].init = IF o.op = "suffix" THEN "pending" ELSE "ok"
                 /\ w.sess[o.who].stage \in {"live", "retiring"}
                 /\ w.state.owner = o.who
                 /\ w.state.cursor = Len(w.disk) /\ w.state.cursor = o.data[1] /\ ~w.tear.torn
                 /\ Begins(w.disk \o o.data[2], w.sess[o.who].log))
         /\ o.op = "release" =>
              (Fits(o, w) <=>
                 /\ o.who \in 1..Lives
                 /\ w.sess[o.who].init = "ok" /\ w.sess[o.who].stage = "retiring"
                 /\ w.sess[o.who].log = <<>> \/ Len(w.sess[o.who].log) <= w.state.cursor)
  BY DEF Fits

(* A step that only moves a bystander keeps the invariant.                 *)
LEMMA CallMoves ==
  ASSUME IInv, NEW p \in Callers, NEW c \in CallStates,
         call' = [call EXCEPT ![p] = c], Bystander(call[p]), Bystander(c), Sound(c),
         UNCHANGED <<storage, state, entry, chain, sess, store>>
  PROVE  IInv'
<1>1. /\ call \in [Callers -> CallStates] /\ call'[p] = c
      /\ \A q \in Callers : q # p => call'[q] = call[q]
  BY DEF IInv, TypeOK
<1>2. TypeOK'
  BY <1>1 DEF IInv, TypeOK, storage
<1>3. Lineage' /\ Ownership'
  BY DEF IInv, Lineage, Ownership, Owns, OpenTurn, storage
<1>4. Preparation'
  BY <1>1 DEF IInv, Preparation, Held, Committing, Bystander, Revision, storage
<1>5. ChainInv'
  <2>1. \A o : Fits(o, Now) => Fits(o, Now')
    BY <1>1, NowIs DEF Fits, Bystander, storage
  <2>2. Looser(Now, Now')
    BY <1>1, NowIs DEF Looser, Bystander
  <2>3. \A o : Runs(o, Now) => Runs(o, Now')
    BY NowIs DEF Runs
  <2>4. Chained(chain, Now')
    BY <2>1, <2>2, <2>3, ChainKept DEF IInv, TypeOK, ChainInv, Chained
  <2> QED BY <2>4 DEF ChainInv
<1> QED BY <1>2, <1>3, <1>4, <1>5 DEF IInv

(* The sources that no read prepared.                                      *)
LEMMA BareSource ==
  /\ <<>> \in Logs /\ NoSource \in Sources /\ NoSource.rev = <<>> /\ Faithful(NoSource)
  /\ \A events \in Logs : /\ [NoSource EXCEPT !.events = events] \in Sources
                          /\ Faithful([NoSource EXCEPT !.events = events])
<1>1. <<>> \in Logs
  BY DEF Logs
<1>2. NoSource \in Sources /\ NoSource.rev = <<>>
  BY <1>1 DEF NoSource, Sources
<1>3. \A events \in Logs : /\ [NoSource EXCEPT !.events = events] \in Sources
                           /\ [NoSource EXCEPT !.events = events].rev = <<>>
  BY <1>2 DEF Sources
<1> QED BY <1>1, <1>2, <1>3 DEF Faithful

(* A caller between calls.                                                 *)
LEMMA IdleCaller == Idle \in CallStates /\ Bystander(Idle) /\ Sound(Idle) /\ Idle.attached = FALSE
<1>1. /\ Idle.at = "idle" /\ Idle.src = NoSource /\ Idle.attached = FALSE
      /\ Idle = [op |-> "none", at |-> "idle", src |-> NoSource, attached |-> FALSE,
                 aborted |-> FALSE, life |-> 0, base |-> <<>>]
  BY DEF Idle, NoOne
<1>2. "idle" \in Places /\ "none" \in Calls \cup {"none"} /\ 0 \in 0..Lives
  BY CoordinatorAssumption DEF Places
<1>3. Idle \in CallStates
  BY <1>1, <1>2, BareSource DEF CallStates
<1>4. Bystander(Idle) /\ Sound(Idle)
  BY <1>1, BareSource DEF Bystander, Sound
<1> QED BY <1>1, <1>3, <1>4

(* AwaitRetirement: a caller that stops waiting is a bystander still.      *)
LEMMA AwaitRetirementKeeps ==
  ASSUME IInv, NEW p \in Callers, AwaitRetirement(p)
  PROVE  IInv'
<1>1. call[p] \in CallStates /\ call[p].at = "begin" /\ Sound(call[p])
  BY DEF IInv, TypeOK, Preparation, AwaitRetirement
<1> DEFINE c == IF call[p].aborted THEN Idle ELSE [call[p] EXCEPT !.at = "cleared"]
<1>2. c \in CallStates /\ Bystander(c) /\ Sound(c)
  BY <1>1, IdleCaller DEF CallStates, Bystander, Sound, Places
<1>3. call' = [call EXCEPT ![p] = c]
  BY DEF AwaitRetirement, Rejected, To, IInv, TypeOK
<1>4. Bystander(call[p])
  BY <1>1 DEF Bystander
<1> HIDE DEF c
<1> QED BY <1>2, <1>3, <1>4, CallMoves DEF AwaitRetirement

(* What a live Session answers is no source of a reservation.              *)
LEMMA AnswerMoves ==
  ASSUME NEW c \in CallStates, NEW events \in Logs, NEW life \in 0..Lives,
         NEW at \in {"answered", "flushing"}, c.op \in {"prepare", "load", "inspect"}
  PROVE  LET d == [c EXCEPT !.at = at, !.src = [NoSource EXCEPT !.events = events],
                            !.life = life]
         IN d \in CallStates /\ Bystander(d) /\ Sound(d)
<1> DEFINE s == [NoSource EXCEPT !.events = events]
<1>1. s \in Sources /\ Faithful(s)
  BY BareSource
<1> HIDE DEF s
<1> QED BY <1>1 DEF CallStates, Bystander, Sound, Places, s

(* The log of the live Session is a log.                                   *)
LEMMA LiveLog ==
  ASSUME TypeOK, store # NoOne
  PROVE  store \in 1..Lives /\ Live.log \in Logs
  BY DEF TypeOK, Live, Sessions, NoOne, CoordinatorAssumption

(* MeetLive: the answer of a live Session reserves nothing.                *)
LEMMA MeetLiveKeeps ==
  ASSUME IInv, NEW p \in Callers, MeetLive(p)
  PROVE  IInv'
<1>1. /\ call[p] \in CallStates /\ call[p].at = "cleared" /\ Bystander(call[p])
      /\ call \in [Callers -> CallStates] /\ store \in 0..Lives
  BY DEF IInv, TypeOK, MeetLive, Bystander
<1>2. Live.log \in Logs
  BY LiveLog DEF MeetLive, IInv
<1>3. UNCHANGED <<storage, state, entry, chain, sess, store>>
  BY DEF MeetLive
<1>7. call[p].op \in {"prepare", "load", "inspect"}
  BY <1>1 DEF IInv, Preparation, Sound
<1>4. CASE call[p].op = "prepare"
  <2>1. call' = [call EXCEPT ![p] = Idle]
    BY <1>4 DEF MeetLive, Rejected
  <2> QED BY <2>1, <1>1, <1>3, IdleCaller, CallMoves
<1>5. CASE call[p].op = "inspect"
  <2> DEFINE c == [call[p] EXCEPT !.at = "answered", !.src = [NoSource EXCEPT !.events = Live.log],
                                  !.life = store]
  <2>1. call' = [call EXCEPT ![p] = c]
    BY <1>5, <1>1 DEF MeetLive, Answer
  <2>2. c \in CallStates /\ Bystander(c) /\ Sound(c)
    BY <1>1, <1>2, <1>7, AnswerMoves
  <2> HIDE DEF c
  <2> QED BY <2>1, <2>2, <1>1, <1>3, CallMoves
<1>6. CASE call[p].op = "load"
  <2> DEFINE c == [call[p] EXCEPT !.at = "flushing", !.src = [NoSource EXCEPT !.events = Live.log],
                                  !.life = store]
  <2>1. call' = [call EXCEPT ![p] = c]
    BY <1>6, <1>1 DEF MeetLive
  <2>2. c \in CallStates /\ Bystander(c) /\ Sound(c)
    BY <1>1, <1>2, <1>7, AnswerMoves
  <2> HIDE DEF c
  <2> QED BY <2>1, <2>2, <1>1, <1>3, CallMoves
<1> QED BY <1>4, <1>5, <1>6, <1>7

(* LoadLive: a load that returns reserves nothing.                         *)
LEMMA LoadLiveKeeps ==
  ASSUME IInv, NEW p \in Callers, LoadLive(p)
  PROVE  IInv'
<1>1. call[p] \in CallStates /\ call[p].at = "flushing" /\ Sound(call[p])
  BY DEF IInv, TypeOK, Preparation, LoadLive
<1> DEFINE c == IF call[p].src.events = <<>> \/ OpenTurn(call[p].src.events)
                THEN Idle ELSE [call[p] EXCEPT !.at = "answered"]
<1>2. c \in CallStates /\ Bystander(c) /\ Sound(c)
  BY <1>1, IdleCaller DEF CallStates, Bystander, Sound, Places
<1>3. call' = [call EXCEPT ![p] = c]
  BY DEF LoadLive, Rejected, To, IInv, TypeOK
<1>4. Bystander(call[p])
  BY <1>1 DEF Bystander
<1> HIDE DEF c
<1> QED BY <1>2, <1>3, <1>4, CallMoves DEF LoadLive

(* FlushRejected: a load that fails reserves nothing.                      *)
LEMMA FlushRejectedKeeps ==
  ASSUME IInv, NEW p \in Callers, FlushRejected(p)
  PROVE  IInv'
<1>1. call' = [call EXCEPT ![p] = Idle] /\ Bystander(call[p])
  BY DEF FlushRejected, Rejected, Bystander
<1> QED BY <1>1, IdleCaller, CallMoves DEF FlushRejected

(* What prepareCore returns is a faithful source of the current revision.  *)
LEMMA PreparedSource ==
  ASSUME TypeOK
  PROVE  /\ Stored \in Logs /\ ClosersOf(Stored) \in Logs
         /\ Prepared \in Sources /\ Faithful(Prepared) /\ Prepared.rev = Revision
         /\ Prepared.rev # <<>> /\ Prepared.closers = ClosersOf(Stored)
         /\ Prepared.events = Stored \o ClosersOf(Stored)
         /\ Revision = <<disk, tear>>
<1>1. disk \in Logs /\ tear \in Tears /\ tear.holds \in Logs
  BY DEF TypeOK, Tears
<1>2. Stored \in Logs
  BY <1>1, ConcatProperties DEF Stored, Logs
<1>3. Cut \in LogEvents
  BY DEF Cut, Ev, LogEvents, NoOne
<1>4. \A s : ClosersOf(s) \in Logs
  BY <1>3 DEF ClosersOf, Logs
<1>5. Stored \o ClosersOf(Stored) \in Logs
  BY <1>2, <1>4, ConcatProperties DEF Logs
<1>6. Revision \in Logs \X Tears /\ Revision = <<disk, tear>> /\ Revision # <<>>
  BY <1>1 DEF Revision
<1> DEFINE e == Stored \o ClosersOf(Stored)
           k == ClosersOf(Stored)
           r == Revision
<1>7. Prepared = [events |-> e, closers |-> k, rev |-> r]
  BY DEF Prepared
<1>8. r[1] \o r[2].holds = Stored
  BY <1>6 DEF Stored
<1>9. e = Stored \o k
  OBVIOUS
<1>10. e \in Logs /\ k \in Logs /\ r \in Logs \X Tears /\ r # <<>>
  BY <1>4, <1>5, <1>6
<1>11. k = ClosersOf(Stored)
  OBVIOUS
<1> HIDE DEF e, k, r
<1>12. Prepared \in Sources /\ Prepared.rev = r /\ Prepared.closers = k /\ Prepared.events = e
  BY <1>7, <1>10 DEF Sources
<1>13. Faithful(Prepared)
  BY <1>8, <1>9, <1>11, <1>12 DEF Faithful
<1> QED BY <1>2, <1>4, <1>6, <1>9, <1>10, <1>11, <1>12, <1>13 DEF e, k, r

(* The two parts of an operation's data.                                   *)
LEMMA DataIs ==
  ASSUME NEW n \in Nat, NEW s \in Logs
  PROVE  /\ <<n, s>> \in {<<>>} \cup (Nat \X Logs) /\ <<n, s>> # <<>>
         /\ <<n, s>>[1] = n /\ <<n, s>>[2] = s
  OBVIOUS

(* Begin: an append finds no live Session and is alone in saying so.       *)
LEMMA BeginKeeps ==
  ASSUME IInv, NEW p \in Callers, NEW op \in Calls, Begin(p, op)
  PROVE  IInv'
<1>1. /\ call \in [Callers -> CallStates] /\ Bystander(call[p]) /\ TypeOK /\ acked \in Logs
      /\ UNCHANGED <<storage, state, entry, sess, store>>
  BY DEF Begin, Over, Bystander, IInv, TypeOK
<1> DEFINE at == IF op = "append" THEN "append" ELSE "begin"
           base == IF op \in {"inspect", "load"} THEN acked ELSE <<>>
           c == [Idle EXCEPT !.op = op, !.at = at, !.base = base]
<1>2. /\ c \in CallStates /\ c.at = at /\ c.op = op /\ c.src = NoSource /\ Sound(c)
      /\ c.attached = FALSE
  <2>1. at \in Places /\ op \in Calls \cup {"none"} /\ base \in Logs
    BY <1>1, BareSource DEF Places
  <2>2. Idle \in CallStates /\ Idle.src = NoSource /\ Idle.attached = FALSE
    BY IdleCaller DEF Idle
  <2>3. op # "append" => op \in {"prepare", "load", "inspect"}
    BY DEF Calls
  <2>4. at \in {"append", "begin"} /\ (at = "begin" => op # "append")
    OBVIOUS
  <2> HIDE DEF at, base
  <2>5. c \in CallStates /\ c.at = at /\ c.op = op /\ c.src = NoSource /\ c.attached = FALSE
    BY <2>1, <2>2 DEF CallStates
  <2>6. Sound(c)
    BY <2>3, <2>4, <2>5, BareSource DEF Sound
  <2> QED BY <2>5, <2>6
<1>3. call' = [call EXCEPT ![p] = c]
  BY DEF Begin
<1>4. at = IF op = "append" THEN "append" ELSE "begin"
  OBVIOUS
<1> HIDE DEF c, at, base
<1>5. CASE op # "append"
  <2>1. Bystander(c) /\ chain' = chain
    BY <1>2, <1>4, <1>5 DEF Bystander, Begin
  <2> QED BY <2>1, <1>1, <1>2, <1>3, CallMoves
<1>6. CASE op = "append"
  <2>1. c.at = "append" /\ \A l \in 1..Lives : sess[l].stage \in {"unborn", "gone"}
    BY <1>2, <1>4, <1>6 DEF Begin
  <2>2. call'[p] = c /\ \A q \in Callers : q # p => call'[q] = call[q]
    BY <1>1, <1>3
  <2> DEFINE note == <<Ev("note", NoOne)>>
             data == <<Len(Prepared.events), note>>
             o == Op("append", p, data)
  <2>3. chain' = Append(chain, o)
    BY <1>6 DEF Begin
  <2>4. note \in Logs /\ Len(Prepared.events) \in Nat
    <3>1. Ev("note", NoOne) \in LogEvents
      BY DEF Ev, LogEvents, NoOne
    <3>2. Prepared.events \in Logs
      BY <1>1, PreparedSource DEF Sources
    <3> QED BY <3>1, <3>2, LenProperties DEF Logs
  <2> HIDE DEF note
  <2>5. data \in {<<>>} \cup (Nat \X Logs) /\ data # <<>> /\ data[2] = note
    BY <2>4, DataIs
  <2>20. o = Op("append", p, data)
    OBVIOUS
  <2> HIDE DEF o, data
  <2>6. o \in Ops /\ o.op = "append" /\ o.who = p /\ o.stage = "queued" /\ o.data = data
    <3>1. "append" \in Kinds /\ p \in Callers \cup 0..Lives
      BY DEF Kinds
    <3> QED BY <2>5, <2>20, <3>1 DEF Op, Ops
  <2>7. o.data # <<>> /\ o.data[2] = note
    BY <2>5, <2>6
  <2>8. Fits(o, Now')
    BY <2>1, <2>2, <2>6, <2>7, NowIs DEF Fits, note
  <2>9. Chained(chain, Now')
    <3>1. \A u : Fits(u, Now) => Fits(u, Now')
      BY <1>1, <2>2, NowIs DEF Fits, Bystander, storage
    <3>2. Looser(Now, Now')
      BY <1>1, <2>1, <2>2, NowIs DEF Looser, Bystander
    <3>3. \A u : Runs(u, Now) => Runs(u, Now')
      BY <1>1, NowIs DEF Runs
    <3> QED BY <3>1, <3>2, <3>3, <1>1, ChainKept DEF IInv, TypeOK, ChainInv, Chained
  <2>10. \A i \in DOMAIN chain : Precedes(chain[i], o, Now')
    <3> SUFFICES ASSUME NEW i \in DOMAIN chain PROVE Precedes(chain[i], o, Now')
      OBVIOUS
    <3>1. Fits(chain[i], Now)
      BY DEF IInv, ChainInv, Chained
    <3>2. chain[i].op = "append" => chain[i].who # p
      BY <3>1, <1>1, NowIs DEF Fits, Bystander
    <3> QED BY <3>2, <2>6 DEF Precedes
  <2>11. chain' \in Seq(Ops) /\ ChainInv'
    BY <2>3, <2>6, <2>8, <2>9, <2>10, <1>1, ChainGrows DEF TypeOK, ChainInv
  <2>12. TypeOK'
    BY <2>11, <1>1, <1>2, <1>3 DEF TypeOK, storage
  <2>13. Lineage' /\ Ownership'
    BY <1>1 DEF IInv, Lineage, Ownership, Owns, storage
  <2>14. Preparation'
    BY <1>1, <1>2, <2>1, <2>2 DEF IInv, Preparation, Held, Committing, Bystander, Revision, storage
  <2> QED BY <2>11, <2>12, <2>13, <2>14 DEF IInv
<1> QED BY <1>5, <1>6

-----------------------------------------------------------------------------
(* Steps of the callers and of the preparation, while neither what is      *)
(* stored nor any Session changes.                                         *)

(* Storage, state and Sessions stay.                                       *)
Rested == UNCHANGED <<storage, state, sess, store>>

(* No Session owns the id, and the state, if known, is that of the         *)
(* repaired log.                                                           *)
Freed ==
  /\ state.owner = NoOne /\ state'.owner = NoOne /\ UNCHANGED <<sess, store>>
  /\ state' \in States /\ disk' \in Logs /\ acked' \in Logs
  /\ tear' \in Tears /\ (~tear'.torn => tear'.holds = <<>>)
  /\ state'.known => state'.cursor = Len(disk') /\ ~tear'.torn /\ ~OpenTurn(disk')
(* A step whose effect on them is one of those two.                        *)
Steady == Rested \/ Freed

(* A steady step keeps the Sessions' order and the state's owner.          *)
LEMMA SessionsRest ==
  ASSUME IInv, Steady
  PROVE  Lineage' /\ Ownership'
<1>1. CASE Rested
  BY <1>1 DEF IInv, Rested, Lineage, Ownership, Owns, storage
<1>2. CASE Freed
  <2>1. Lineage'
    BY <1>2 DEF IInv, Freed, Lineage
  <2>2. \A l \in 1..Lives : ~(Owns(l) /\ (sess[l].log # <<>> \/ l = store))
    BY <1>2 DEF IInv, Freed, Ownership, NoOne
  <2> QED BY <1>2, <2>1, <2>2 DEF Freed, Ownership, Owns
<1> QED BY <1>1, <1>2 DEF Steady

(* A steady step keeps the types if it keeps those of the rest.            *)
LEMMA TypesRest ==
  ASSUME IInv, Steady, chain' \in Seq(Ops), call' \in [Callers -> CallStates],
         entry' \in [phase : Phases, src : Sources]
  PROVE  TypeOK'
  BY DEF IInv, TypeOK, Steady, Rested, Freed, storage

(* Over a steady step an operation fits if its caller and the entry allow. *)
LEMMA FitsRest ==
  ASSUME IInv, Steady, NEW o, Fits(o, Now),
         o.op = "commit" => call'[o.who].at = "commit" /\ entry'.phase # "reserved",
         o.op \in {"check", "append"} => call'[o.who].at = o.op,
         o.op = "read" /\ o.current => entry'.phase = "loading",
         o.op = "created" => entry'.phase \in {"none", "loading"}
  PROVE  Fits(o, Now')
<1>1. CASE Rested
  BY <1>1, NowIs DEF Rested, storage, Fits
<1>2. CASE Freed
  <2>1. \A l \in 1..Lives : ~(Owns(l) /\ sess[l].log # <<>>)
    BY <1>2 DEF IInv, Freed, Ownership, NoOne
  <2>2. o.op \notin {"suffix", "batch"}
    BY <1>2, NowIs DEF Fits, Freed, NoOne
  <2>3. o.op = "release" => sess[o.who].log = <<>>
    BY <2>1, NowIs DEF Fits, Owns
  <2> QED BY <1>2, <2>2, <2>3, NowIs DEF Freed, Fits
<1> QED BY <1>1, <1>2 DEF Steady

(* Join: a new entry has its read behind every write.                      *)
LEMMA JoinKeeps ==
  ASSUME IInv, NEW p \in Callers, Join(p)
  PROVE  IInv'
<1>1. /\ call \in [Callers -> CallStates] /\ entry \in [phase : Phases, src : Sources] /\ TypeOK
      /\ call[p].at = "cleared" /\ store = NoOne /\ Rested /\ Steady
      /\ Faithful(entry.src) /\ (entry.phase \in {"none", "loading"} <=> entry.src.rev = <<>>)
      /\ Sound(call[p])
  BY DEF IInv, TypeOK, Preparation, Join, Rested, Steady
<1> DEFINE at == IF entry.phase \in {"none", "loading"} THEN "loading" ELSE "joined"
           c == [call[p] EXCEPT !.attached = TRUE, !.src = entry.src, !.at = at]
<1>2. call' = [call EXCEPT ![p] = c]
  BY <1>1 DEF Join
<1>3. at \in {"loading", "joined"} /\ (at = "joined" => entry.src.rev # <<>>)
  BY <1>1
<1> HIDE DEF at
<1>4. c \in CallStates /\ c.at = at /\ c.op = call[p].op /\ c.src = entry.src
  BY <1>1, <1>3 DEF CallStates, Places
<1>5. Sound(c) /\ Bystander(c) /\ Bystander(call[p])
  BY <1>1, <1>3, <1>4 DEF Sound, Bystander
<1> HIDE DEF c
<1>6. CASE entry.phase # "none"
  <2>1. entry' = entry /\ chain' = chain
    BY <1>6 DEF Join
  <2> QED BY <2>1, <1>1, <1>2, <1>4, <1>5, CallMoves DEF Join
<1>7. CASE entry.phase = "none"
  <2> DEFINE o == Op("read", NoOne, <<>>)
  <2>1. chain' = Append(chain, o) /\ entry' = [NoEntry EXCEPT !.phase = "loading"]
    BY <1>7 DEF Join
  <2>2. /\ o \in Ops /\ o.op = "read" /\ o.stage = "queued"
    BY CoordinatorAssumption DEF Op, Ops, Kinds, NoOne
  <2> HIDE DEF o
  <2>3. entry' \in [phase : Phases, src : Sources] /\ entry'.phase = "loading" /\ entry'.src = NoSource
    BY <2>1, BareSource DEF NoEntry, Phases
  <2>4. call'[p] = c /\ \A q \in Callers : q # p => call'[q] = call[q]
    BY <1>1, <1>2
  <2>5. \A u : Fits(u, Now) => Fits(u, Now') /\ ~(u.op = "read" /\ u.current)
    <3> SUFFICES ASSUME NEW u, Fits(u, Now) PROVE Fits(u, Now') /\ ~(u.op = "read" /\ u.current)
      OBVIOUS
    <3>1. ~(u.op = "read" /\ u.current)
      BY <1>7, NowIs DEF Fits
    <3>2. u.op \in {"commit", "check", "append"} =>
            u.who \in Callers /\ u.who # p /\ call'[u.who].at = u.op
      BY <1>5, <2>4, NowIs DEF Fits, Bystander
    <3> QED BY <3>1, <3>2, <2>3, <1>1, FitsRest
  <2>6. Looser(Now, Now')
    BY <1>5, <2>4, NowIs DEF Looser, Bystander
  <2>7. \A u : Runs(u, Now) => Runs(u, Now')
    BY <1>1, <2>3, NowIs DEF Runs, Rested
  <2>8. chain \in Seq(Ops) /\ Chained(chain, Now')
    BY <2>5, <2>6, <2>7, <1>1, ChainKept DEF IInv, TypeOK, ChainInv, Chained
  <2>9. Fits(o, Now')
    BY <2>2, <2>3, NowIs DEF Fits
  <2>10. \A i \in DOMAIN chain : Precedes(chain[i], o, Now')
    BY <2>2, <2>5 DEF IInv, ChainInv, Chained, Precedes
  <2>11. chain' \in Seq(Ops) /\ ChainInv'
    BY <2>1, <2>2, <2>8, <2>9, <2>10, ChainGrows DEF ChainInv
  <2>12. call' \in [Callers -> CallStates]
    BY <1>1, <1>2, <1>4
  <2>13. TypeOK' /\ Lineage' /\ Ownership'
    BY <2>3, <2>11, <2>12, <1>1, SessionsRest, TypesRest
  <2>14. Preparation'
    BY <1>1, <1>5, <1>7, <2>3, <2>4, BareSource
    DEF IInv, Preparation, Held, Committing, Bystander, Revision, Rested, storage
  <2> QED BY <2>11, <2>13, <2>14 DEF IInv
<1> QED BY <1>6, <1>7

(* Reserve: of all who joined one commits, the first to find the entry     *)
(* ready.                                                                  *)
LEMMA ReserveKeeps ==
  ASSUME IInv, NEW p \in Callers, Reserve(p)
  PROVE  IInv'
<1>1. /\ call \in [Callers -> CallStates] /\ entry \in [phase : Phases, src : Sources] /\ TypeOK
      /\ call[p].at = "joined" /\ call[p].op \in {"prepare", "load"} /\ Rested /\ Steady
      /\ Faithful(entry.src) /\ (entry.phase \in {"none", "loading"} <=> entry.src.rev = <<>>)
      /\ Sound(call[p]) /\ Bystander(call[p])
      /\ UNCHANGED <<storage, state, sess, store>>
  BY DEF IInv, TypeOK, Preparation, Reserve, Rested, Steady, Bystander
<1>2. CASE call' = Again(call, p) /\ UNCHANGED <<entry, chain>>
  <2> DEFINE c == [call[p] EXCEPT !.at = "begin", !.src = NoSource, !.attached = FALSE]
  <2>1. call' = [call EXCEPT ![p] = c]
    BY <1>1, <1>2 DEF Again
  <2>2. c \in CallStates /\ c.at = "begin" /\ c.op = call[p].op /\ c.src = NoSource
    BY <1>1, BareSource DEF CallStates, Places
  <2>3. Sound(c) /\ Bystander(c)
    BY <1>1, <2>2, BareSource DEF Sound, Bystander
  <2> HIDE DEF c
  <2> QED BY <2>1, <2>2, <2>3, <1>1, <1>2, CallMoves
<1>3. CASE call' = To(call, p, "asleep") /\ UNCHANGED <<entry, chain>>
  <2> DEFINE c == [call[p] EXCEPT !.at = "asleep"]
  <2>1. call' = [call EXCEPT ![p] = c]
    BY <1>1, <1>3 DEF To
  <2>2. c \in CallStates /\ c.at = "asleep" /\ c.op = call[p].op /\ c.src = call[p].src
    BY <1>1 DEF CallStates, Places
  <2>3. Sound(c) /\ Bystander(c)
    BY <1>1, <2>2 DEF Sound, Bystander
  <2> HIDE DEF c
  <2> QED BY <2>1, <2>2, <2>3, <1>1, <1>3, CallMoves
<1>4. CASE /\ call[p].attached /\ entry.phase = "ready"
           /\ entry' = [entry EXCEPT !.phase = "committing"]
           /\ call' = [call EXCEPT ![p].at = "commit", ![p].src = entry.src]
           /\ chain' = Append(chain, Op("commit", p, <<>>))
  <2> DEFINE o == Op("commit", p, <<>>)
             c == [call[p] EXCEPT !.at = "commit", !.src = entry.src]
  <2>1. chain' = Append(chain, o) /\ call' = [call EXCEPT ![p] = c]
    BY <1>1, <1>4
  <2>2. o \in Ops /\ o.op = "commit" /\ o.who = p /\ o.stage = "queued"
    BY DEF Op, Ops, Kinds
  <2> HIDE DEF o
  <2>3. /\ entry' \in [phase : Phases, src : Sources] /\ entry'.phase = "committing"
        /\ entry'.src = entry.src /\ entry' = [phase |-> "committing", src |-> entry.src]
    BY <1>1, <1>4 DEF Phases
  <2>4. /\ c \in CallStates /\ c.at = "commit" /\ c.op = call[p].op /\ c.src = entry.src
        /\ c.attached = call[p].attached
    BY <1>1 DEF CallStates, Places
  <2>5. Sound(c)
    BY <1>1, <1>4, <2>4 DEF Sound
  <2> HIDE DEF c
  <2>6. call'[p] = c /\ \A q \in Callers : q # p => call'[q] = call[q]
    BY <1>1, <2>1
  <2>7. ASSUME NEW u, Fits(u, Now)
        PROVE  Fits(u, Now') /\ Precedes(u, o, Now')
    <3>1. ~(u.op = "read" /\ u.current) /\ u.op # "created"
      BY <1>4, <2>7, NowIs DEF Fits
    <3>2. u.op \in {"commit", "check", "append"} =>
            u.who \in Callers /\ u.who # p /\ call'[u.who].at = u.op /\ call[u.who].at = u.op
      BY <1>1, <2>6, <2>7, NowIs DEF Fits, Bystander
    <3>3. Fits(u, Now')
      BY <3>1, <3>2, <2>3, <2>7, <1>1, FitsRest
    <3>4. u.op = "commit" => ~call'[u.who].attached
      <4>1. ASSUME u.op = "commit", call[u.who].attached PROVE FALSE
        BY <4>1, <3>2, <1>4 DEF IInv, Preparation, Committing
      <4> QED BY <4>1, <3>2, <2>6
    <3> QED BY <3>1, <3>2, <3>3, <3>4, <2>2, NowIs DEF Precedes
  <2>8. Looser(Now, Now')
    BY <1>1, <2>4, <2>6, NowIs DEF Looser
  <2>9. \A u : Runs(u, Now) => Runs(u, Now')
    BY <1>1, <2>3, NowIs DEF Runs
  <2>10. chain \in Seq(Ops) /\ Chained(chain, Now')
    BY <2>7, <2>8, <2>9, <1>1, ChainKept DEF IInv, TypeOK, ChainInv, Chained
  <2>11. Fits(o, Now')
    BY <2>2, <2>3, <2>4, <2>6, NowIs DEF Fits
  <2>12. \A i \in DOMAIN chain : Precedes(chain[i], o, Now')
    BY <2>7 DEF IInv, ChainInv, Chained
  <2>13. chain' \in Seq(Ops) /\ ChainInv'
    BY <2>1, <2>2, <2>10, <2>11, <2>12, ChainGrows DEF ChainInv
  <2>14. call' \in [Callers -> CallStates]
    BY <1>1, <2>1, <2>4
  <2>15. TypeOK' /\ Lineage' /\ Ownership'
    BY <2>3, <2>13, <2>14, <1>1, SessionsRest, TypesRest
  <2>16. \A q \in Callers : ~Held(q) /\ call'[q].at # "held"
    <3>1. \A q \in Callers : ~Held(q)
      BY <1>4 DEF IInv, Preparation
    <3> QED BY <3>1, <2>4, <2>6 DEF Held
  <2>17. \A q \in Callers : call[q].at = "commit" => ~call[q].attached
    BY <1>4 DEF IInv, Preparation, Committing
  <2>18. Preparation'
    <3>1. /\ entry'.phase # "none" /\ store' = NoOne
          /\ entry'.phase \notin {"none", "loading"} /\ entry'.src.rev # <<>>
          /\ Faithful(entry'.src)
      BY <1>1, <1>4, <2>3 DEF IInv, Preparation
    <3>2. \A q \in Callers : Sound(call'[q])
      BY <2>5, <2>6 DEF IInv, Preparation
    <3>3. \A q \in Callers : call'[q].at = "commit" /\ call'[q].attached => q = p
      BY <2>6, <2>17
    <3>4. entry' = [phase |-> "committing", src |-> call'[p].src]
      BY <2>3, <2>4, <2>6
    <3>5. \A q \in Callers : call'[q].at = "append" =>
            \A l \in 1..Lives : sess'[l].stage \in {"unborn", "gone"}
      BY <1>1, <2>4, <2>6 DEF IInv, Preparation
    <3> QED BY <2>16, <3>1, <3>2, <3>3, <3>4, <3>5 DEF Preparation, Held, Committing
  <2> QED BY <2>13, <2>15, <2>18 DEF IInv
<1> QED BY <1>2, <1>3, <1>4 DEF Reserve

(* InspectJoined: a check is queued for its one caller.                    *)
LEMMA InspectJoinedKeeps ==
  ASSUME IInv, NEW p \in Callers, InspectJoined(p)
  PROVE  IInv'
<1>1. /\ call \in [Callers -> CallStates] /\ TypeOK
      /\ call[p].at = "joined" /\ call[p].op = "inspect" /\ Rested /\ Steady
      /\ Sound(call[p]) /\ Bystander(call[p]) /\ UNCHANGED <<storage, state, entry, sess, store>>
  BY DEF IInv, TypeOK, Preparation, InspectJoined, Rested, Steady, Bystander
<1>2. CASE store # NoOne
  <2> DEFINE c == [call[p] EXCEPT !.at = "answered", !.src = [NoSource EXCEPT !.events = Live.log],
                                  !.life = store]
  <2>1. call' = [call EXCEPT ![p] = c] /\ chain' = chain
    BY <1>1, <1>2 DEF InspectJoined, Answer
  <2>2. c \in CallStates /\ Bystander(c) /\ Sound(c)
    BY <1>1, <1>2, LiveLog, AnswerMoves DEF TypeOK
  <2> HIDE DEF c
  <2> QED BY <2>1, <2>2, <1>1, CallMoves
<1>3. CASE store = NoOne
  <2> DEFINE o == Op("check", p, <<>>)
             c == [call[p] EXCEPT !.at = "check"]
  <2>1. chain' = Append(chain, o) /\ call' = [call EXCEPT ![p] = c]
    BY <1>1, <1>3 DEF InspectJoined, To
  <2>2. o \in Ops /\ o.op = "check" /\ o.who = p /\ o.stage = "queued"
    BY DEF Op, Ops, Kinds
  <2> HIDE DEF o
  <2>3. /\ c \in CallStates /\ c.at = "check" /\ c.op = call[p].op /\ c.src = call[p].src
        /\ Sound(c)
    BY <1>1 DEF CallStates, Places, Sound
  <2> HIDE DEF c
  <2>4. call'[p] = c /\ \A q \in Callers : q # p => call'[q] = call[q]
    BY <1>1, <2>1
  <2>5. ASSUME NEW u, Fits(u, Now)
        PROVE  Fits(u, Now') /\ Precedes(u, o, Now')
    <3>1. u.op \in {"commit", "check", "append"} =>
            u.who \in Callers /\ u.who # p /\ call'[u.who].at = u.op
      BY <1>1, <2>4, <2>5, NowIs DEF Fits, Bystander
    <3>2. Fits(u, Now')
      BY <3>1, <2>5, <1>1, NowIs, FitsRest DEF Fits
    <3> QED BY <3>1, <3>2, <2>2, NowIs DEF Precedes
  <2>6. Looser(Now, Now')
    BY <1>1, <2>4, NowIs DEF Looser, Bystander
  <2>7. \A u : Runs(u, Now) => Runs(u, Now')
    BY <1>1, NowIs DEF Runs
  <2>8. chain \in Seq(Ops) /\ Chained(chain, Now')
    BY <2>5, <2>6, <2>7, <1>1, ChainKept DEF IInv, TypeOK, ChainInv, Chained
  <2>9. Fits(o, Now')
    BY <2>2, <2>3, <2>4, NowIs DEF Fits
  <2>10. \A i \in DOMAIN chain : Precedes(chain[i], o, Now')
    BY <2>5 DEF IInv, ChainInv, Chained
  <2>11. chain' \in Seq(Ops) /\ ChainInv'
    BY <2>1, <2>2, <2>8, <2>9, <2>10, ChainGrows DEF ChainInv
  <2>12. call' \in [Callers -> CallStates] /\ entry' \in [phase : Phases, src : Sources]
    BY <1>1, <2>1, <2>3 DEF TypeOK
  <2>13. TypeOK' /\ Lineage' /\ Ownership'
    BY <2>11, <2>12, <1>1, SessionsRest, TypesRest
  <2>14. Preparation'
    BY <1>1, <2>3, <2>4 DEF IInv, Preparation, Held, Committing, Bystander, Revision, storage
  <2> QED BY <2>11, <2>13, <2>14 DEF IInv
<1> QED BY <1>2, <1>3

(* The first operation of the chain and those behind it.                   *)
LEMMA FirstIs ==
  ASSUME IInv, chain # <<>>
  PROVE  /\ Head(chain) = chain[1] /\ Head(chain) \in Ops /\ 1 \in DOMAIN chain
         /\ Fits(Head(chain), Now) /\ Runs(Head(chain), Now)
         /\ \A i \in DOMAIN chain : i # 1 =>
              /\ chain[i].stage = "queued" /\ Fits(chain[i], Now)
              /\ Precedes(Head(chain), chain[i], Now)
<1>1. chain \in Seq(Ops) /\ Chained(chain, Now)
  BY DEF IInv, TypeOK, ChainInv
<1>2. Len(chain) \in Nat /\ DOMAIN chain = 1..Len(chain) /\ Len(chain) # 0
  BY <1>1, LenProperties, EmptySeq
<1>3. Head(chain) = chain[1] /\ 1 \in DOMAIN chain /\ \A i \in DOMAIN chain : i # 1 => 1 < i
  BY <1>1, <1>2
<1>4. Head(chain) \in Ops
  BY <1>1, HeadTailProperties
<1> QED BY <1>1, <1>3, <1>4 DEF Chained

(* Callers whose progress does not rest on the chain move; the one whose   *)
(* operation ends may.                                                     *)
LEMMA RestPops ==
  ASSUME IInv, Steady, chain # <<>>, chain' = Tail(chain), Looser(Now, Now'),
         \A q \in Callers :
            ~Bystander(call[q]) /\ ~(Head(chain).who = q /\ Head(chain).op = call[q].at)
                            => call'[q].at = call[q].at,
         \A i \in DOMAIN chain : i # 1 =>
           /\ chain[i].op = "commit" => entry'.phase # "reserved"
           /\ chain[i].op = "read" /\ chain[i].current => entry'.phase = "loading"
           /\ chain[i].op = "created" => entry'.phase \in {"none", "loading"}
  PROVE  chain' \in Seq(Ops) /\ ChainInv'
<1>1. ASSUME NEW i \in DOMAIN chain, i # 1
      PROVE  Fits(chain[i], Now')
  <2> DEFINE u == chain[i]
             h == Head(chain)
  <2>1. Fits(u, Now) /\ Precedes(h, u, Now)
    BY <1>1, FirstIs
  <2>2. /\ u.op = "commit" => entry'.phase # "reserved"
        /\ u.op = "read" /\ u.current => entry'.phase = "loading"
        /\ u.op = "created" => entry'.phase \in {"none", "loading"}
    BY <1>1
  <2> HIDE DEF u
  <2>3. u.op \in {"commit", "check", "append"} => u.who \in Callers /\ call[u.who].at = u.op
    BY <2>1, NowIs DEF Fits
  <2>4. u.op \in {"commit", "check", "append"} /\ h.op = u.op => h.who # u.who
    BY <2>1 DEF Precedes
  <2>5. u.op \in {"commit", "check", "append"} => call'[u.who].at = u.op
    BY <2>3, <2>4 DEF Bystander
  <2>6. Fits(u, Now')
    BY <2>1, <2>2, <2>5, FitsRest
  <2> QED BY <2>6 DEF u
<1>2. chain \in Seq(Ops) /\ Chained(chain, Now)
  BY DEF IInv, TypeOK, ChainInv
<1>3. Tail(chain) \in Seq(Ops) /\ Chained(Tail(chain), Now')
  BY <1>1, <1>2, ChainPops
<1> QED BY <1>3 DEF ChainInv

(* What removing the entry does to each caller.                            *)
LEMMA RemovedIs ==
  ASSUME NEW c \in [Callers -> CallStates]
  PROVE  /\ RemovedFor(c) \in [Callers -> CallStates]
         /\ \A q \in Callers : LET d == RemovedFor(c)[q] IN
              /\ d.attached = FALSE /\ d.src = c[q].src /\ d.op = c[q].op
              /\ d.at = IF c[q].attached /\ c[q].at = "asleep" THEN "joined" ELSE c[q].at
              /\ Sound(c[q]) => Sound(d)
              /\ d.base = c[q].base /\ d.life = c[q].life
<1> DEFINE w == Waking(c)
           r == RemovedFor(c)
<1>1. w = [q \in Callers |-> IF c[q].attached /\ c[q].at = "asleep"
                              THEN [c[q] EXCEPT !.at = "joined"] ELSE c[q]]
  BY DEF Waking
<1>2. r = [q \in Callers |-> [w[q] EXCEPT !.attached = FALSE]]
  BY DEF RemovedFor, Leaving
<1> HIDE DEF w, r
<1>3. ASSUME NEW q \in Callers
      PROVE  /\ w[q] \in CallStates /\ w[q].src = c[q].src /\ w[q].op = c[q].op
             /\ w[q].base = c[q].base /\ w[q].life = c[q].life
             /\ w[q].at = IF c[q].attached /\ c[q].at = "asleep" THEN "joined" ELSE c[q].at
  BY <1>1 DEF CallStates, Places
<1>4. ASSUME NEW q \in Callers
      PROVE  /\ r[q] \in CallStates /\ r[q].src = w[q].src /\ r[q].op = w[q].op
             /\ r[q].base = w[q].base /\ r[q].life = w[q].life
             /\ r[q].at = w[q].at /\ r[q].attached = FALSE
  BY <1>2, <1>3 DEF CallStates
<1>5. r \in [Callers -> CallStates]
  BY <1>2, <1>4
<1>6. ASSUME NEW q \in Callers, Sound(c[q]) PROVE Sound(r[q])
  BY <1>3, <1>4, <1>6 DEF Sound
<1> QED BY <1>3, <1>4, <1>5, <1>6 DEF r

(* What settling the reservation does to each caller.                      *)
LEMMA WakingIs ==
  ASSUME NEW c \in [Callers -> CallStates]
  PROVE  /\ Waking(c) \in [Callers -> CallStates]
         /\ \A q \in Callers : LET d == Waking(c)[q] IN
              /\ d.attached = c[q].attached /\ d.src = c[q].src /\ d.op = c[q].op
              /\ d.at = IF c[q].attached /\ c[q].at = "asleep" THEN "joined" ELSE c[q].at
              /\ Sound(c[q]) => Sound(d)
              /\ d.base = c[q].base /\ d.life = c[q].life
<1> DEFINE w == Waking(c)
<1>1. w = [q \in Callers |-> IF c[q].attached /\ c[q].at = "asleep"
                              THEN [c[q] EXCEPT !.at = "joined"] ELSE c[q]]
  BY DEF Waking
<1> HIDE DEF w
<1>3. ASSUME NEW q \in Callers
      PROVE  /\ w[q] \in CallStates /\ w[q].src = c[q].src /\ w[q].op = c[q].op
             /\ w[q].base = c[q].base /\ w[q].life = c[q].life /\ w[q].attached = c[q].attached
             /\ w[q].at = IF c[q].attached /\ c[q].at = "asleep" THEN "joined" ELSE c[q].at
  BY <1>1 DEF CallStates, Places
<1>5. w \in [Callers -> CallStates]
  BY <1>1, <1>3
<1>6. ASSUME NEW q \in Callers, Sound(c[q]) PROVE Sound(w[q])
  BY <1>3, <1>6 DEF Sound
<1> QED BY <1>3, <1>5, <1>6 DEF w

(* Callers that moved became bystanders.                                   *)
Moved(c) ==
  /\ c \in [Callers -> CallStates]
  /\ \A q \in Callers : c[q] = call[q] \/ (Bystander(c[q]) /\ Sound(c[q]))

(* One caller moves.                                                       *)
LEMMA OneMoves ==
  ASSUME IInv, NEW p \in Callers, NEW d \in CallStates, Bystander(d), Sound(d)
  PROVE  LET c == [call EXCEPT ![p] = d] IN
         Moved(c) /\ c[p] = d /\ \A q \in Callers : q # p => c[q] = call[q]
<1> DEFINE c == [call EXCEPT ![p] = d]
<1>1. c \in [Callers -> CallStates] /\ c[p] = d /\ \A q \in Callers : q # p => c[q] = call[q]
  BY DEF IInv, TypeOK
<1>2. \A q \in Callers : c[q] = call[q] \/ (Bystander(c[q]) /\ Sound(c[q]))
  BY <1>1
<1> QED BY <1>1, <1>2 DEF Moved

(* One caller is done.                                                     *)
LEMMA IdleMoves ==
  ASSUME IInv, NEW p \in Callers
  PROVE  LET c == [call EXCEPT ![p] = Idle] IN
         Moved(c) /\ c[p] = Idle /\ \A q \in Callers : q # p => c[q] = call[q]
<1> DEFINE c == [call EXCEPT ![p] = Idle]
<1>1. Idle \in CallStates /\ Bystander(Idle) /\ Sound(Idle)
  BY IdleCaller
<1>2. c \in [Callers -> CallStates] /\ c[p] = Idle /\ \A q \in Callers : q # p => c[q] = call[q]
  BY <1>1 DEF IInv, TypeOK
<1>3. \A q \in Callers : c[q] = call[q] \/ (Bystander(c[q]) /\ Sound(c[q]))
  BY <1>1, <1>2
<1> QED BY <1>2, <1>3 DEF Moved

(* Bystanders move beside an entry that stays.                             *)
LEMMA PrepMoved ==
  ASSUME IInv, Steady, Rested \/ \A p \in Callers : ~Held(p), Moved(call'), entry' = entry
  PROVE  Preparation'
<1>1. CASE Rested
  BY <1>1 DEF IInv, Preparation, Held, Committing, Moved, Bystander, Revision, Rested, storage
<1>2. CASE Freed /\ \A p \in Callers : ~Held(p)
  BY <1>2 DEF IInv, Preparation, Held, Committing, Moved, Bystander, Freed
<1> QED BY <1>1, <1>2 DEF Steady

(* The entry is removed while nobody holds it.                             *)
LEMMA PrepRemoved ==
  ASSUME IInv, NEW c, Moved(c), call' = RemovedFor(c), entry' = NoEntry,
         \A q \in Callers : c[q].at # "held",
         (\E q \in Callers : c[q].at = "append") => sess' = sess
  PROVE  Preparation'
<1>1. /\ \A q \in Callers : call'[q].attached = FALSE /\ call'[q].at # "held"
      /\ \A q \in Callers : call'[q].at = "append" => c[q].at = "append" /\ call[q].at = "append"
  <2> SUFFICES ASSUME NEW q \in Callers
               PROVE  /\ call'[q].attached = FALSE /\ call'[q].at # "held"
                      /\ call'[q].at = "append" => c[q].at = "append" /\ call[q].at = "append"
    OBVIOUS
  <2>1. /\ call'[q].attached = FALSE /\ call'[q].at # "held"
        /\ call'[q].at = "append" => c[q].at = "append"
    BY RemovedIs DEF Moved
  <2>2. c[q].at = "append" => call[q].at = "append"
    BY DEF Moved, Bystander
  <2> QED BY <2>1, <2>2
<1>2. \A q \in Callers : Sound(call'[q])
  BY RemovedIs DEF Moved, IInv, Preparation
<1>3. entry'.phase = "none" /\ entry'.src.rev = <<>> /\ Faithful(entry'.src)
  BY BareSource DEF NoEntry
<1>4. \A q \in Callers : call'[q].at = "append" =>
        \A l \in 1..Lives : sess'[l].stage \in {"unborn", "gone"}
  BY <1>1 DEF IInv, Preparation
<1> QED BY <1>1, <1>2, <1>3, <1>4 DEF Preparation, Held, Committing

(* A commit that does not end in a reservation: its caller goes elsewhere  *)
(* and the entry, if still its own, is removed.                            *)
LEMMA CommitLeaves ==
  ASSUME IInv, Steady, chain # <<>>, chain' = Tail(chain), Head(chain).op = "commit",
         NEW p \in Callers, p = Head(chain).who,
         NEW d \in CallStates, Bystander(d), Sound(d), d.attached = FALSE,
         NEW c, c = [call EXCEPT ![p] = d], Drop(p, c)
  PROVE  IInv'
<1>1. /\ call \in [Callers -> CallStates] /\ call[p].at = "commit" /\ entry.phase # "reserved"
      /\ entry \in [phase : Phases, src : Sources]
      /\ call[p].attached => entry.phase = "committing"
  BY FirstIs, NowIs DEF IInv, TypeOK, Fits, Preparation, Committing
<1>2. Moved(c) /\ c[p] = d /\ \A q \in Callers : q # p => c[q] = call[q]
  BY <1>1, OneMoves, ZenonT(30)
<1>3. c \in [Callers -> CallStates] /\ \A q \in Callers : c[q].at # "held"
  BY <1>1, <1>2 DEF Moved, IInv, Preparation, Held, Committing, Bystander
<1>4. CASE call[p].attached
  <2>1. entry' = NoEntry /\ call' = RemovedFor(c)
    BY <1>4 DEF Drop
  <2>2. Preparation'
    BY <2>1, <1>2, <1>3, PrepRemoved DEF Steady, Rested, Freed
  <2>3. /\ call' \in [Callers -> CallStates]
        /\ \A q \in Callers : ~call'[q].attached /\ (c[q].at # "asleep" => call'[q].at = c[q].at)
    BY <2>1, <1>3, RemovedIs
  <2>4. Looser(Now, Now')
    BY <2>3, NowIs DEF Looser
  <2>5. \A q \in Callers : ~Bystander(call[q]) /\ q # p => call'[q].at = call[q].at
    BY <1>2, <2>3 DEF Bystander
  <2>6. \A i \in DOMAIN chain : i # 1 =>
           ~(chain[i].op = "read" /\ chain[i].current) /\ chain[i].op # "created"
    BY <1>1, <1>4, FirstIs, NowIs DEF Fits
  <2>7. entry' \in [phase : Phases, src : Sources] /\ entry'.phase # "reserved"
    BY <2>1, BareSource DEF NoEntry, Phases
  <2>8. chain' \in Seq(Ops) /\ ChainInv'
    BY <1>1, <2>4, <2>5, <2>6, <2>7, RestPops
  <2> QED BY <2>2, <2>3, <2>7, <2>8, TypesRest, SessionsRest DEF IInv
<1>5. CASE ~call[p].attached
  <2>1. entry' = entry /\ call' = c
    BY <1>5 DEF Drop
  <2>2. Preparation'
    <3>1. \A q \in Callers : ~Held(q)
      BY <1>1 DEF IInv, Preparation
    <3> QED BY <2>1, <3>1, <1>2, PrepMoved
  <2>4. Looser(Now, Now')
    BY <1>2, <2>1, NowIs DEF Looser
  <2>5. \A q \in Callers : ~Bystander(call[q]) /\ q # p => call'[q].at = call[q].at
    BY <1>2, <2>1
  <2>6. \A i \in DOMAIN chain : i # 1 =>
          /\ chain[i].op = "read" /\ chain[i].current => entry.phase = "loading"
          /\ chain[i].op = "created" => entry.phase \in {"none", "loading"}
    BY FirstIs, NowIs DEF Fits
  <2>8. chain' \in Seq(Ops) /\ ChainInv'
    BY <1>1, <2>1, <2>4, <2>5, <2>6, RestPops
  <2> QED BY <2>1, <1>1, <1>3, <2>2, <2>8, TypesRest, SessionsRest DEF IInv
<1> QED BY <1>4, <1>5

(* A caller that is sent back to the beginning of its call.                *)
LEMMA AgainIs ==
  ASSUME NEW c \in CallStates, c.op \in {"prepare", "load", "inspect"}
  PROVE  LET d == [c EXCEPT !.at = "begin", !.src = NoSource, !.attached = FALSE] IN
         d \in CallStates /\ Bystander(d) /\ Sound(d) /\ d.attached = FALSE /\ d.op = c.op
<1> DEFINE d == [c EXCEPT !.at = "begin", !.src = NoSource, !.attached = FALSE]
<1>1. /\ d \in CallStates /\ d.at = "begin" /\ d.src = NoSource /\ d.attached = FALSE
      /\ d.op = c.op
  BY BareSource DEF CallStates, Places
<1> HIDE DEF d
<1>2. Bystander(d) /\ Sound(d)
  BY <1>1, BareSource DEF Bystander, Sound
<1> QED BY <1>1, <1>2 DEF d

(* CommitStarts: the owner check, in the chain.                            *)
LEMMA CommitStartsKeeps ==
  ASSUME IInv, CommitStarts
  PROVE  IInv'
<1>1. /\ chain # <<>> /\ Head(chain).op = "commit" /\ Rested /\ Steady
  BY DEF CommitStarts, Stage, Running, Rested, Steady
<1>2. /\ chain \in Seq(Ops) /\ Fits(Head(chain), Now) /\ Head(chain) = chain[1]
  BY <1>1, FirstIs DEF IInv, TypeOK
<1>3. Head(chain).who \in Callers
  BY <1>1, <1>2 DEF Fits
<1>4. CASE state.owner # NoOne
  <2> DEFINE p == Head(chain).who
             c == [call EXCEPT ![p] = Idle]
  <2>1. Drop(p, c) /\ chain' = Tail(chain)
    BY <1>4 DEF CommitStarts, Rejected
  <2>2. c = [call EXCEPT ![p] = Idle] /\ p \in Callers /\ p = Head(chain).who
    BY <1>3
  <2> HIDE DEF c, p
  <2> QED BY <2>1, <2>2, <1>1, IdleCaller, CommitLeaves
<1>5. CASE state.owner = NoOne
  <2>1. chain' = [chain EXCEPT ![1].stage = "checking"] /\ UNCHANGED <<entry, call>>
    BY <1>5 DEF CommitStarts
  <2>2. Now' = Now
    BY <2>1, <1>1 DEF Now, Rested, storage
  <2>3. Runs([chain[1] EXCEPT !.stage = "checking"], Now)
    <3>1. chain[1] \in Ops /\ chain[1].op = "commit"
      BY <1>1, <1>2, FirstIs
    <3> QED BY <3>1, <1>5, NowIs DEF Runs, Ops
  <2>4. chain' \in Seq(Ops) /\ ChainInv'
    <3>1. Looser(Now, Now) /\ Chained(chain, Now) /\ \A i \in DOMAIN chain : Fits(chain[i], Now)
      BY DEF Looser, IInv, ChainInv, Chained
    <3> QED BY <3>1, <2>1, <2>2, <2>3, <1>1, <1>2, ChainStarts DEF ChainInv
  <2>5. call' \in [Callers -> CallStates] /\ entry' \in [phase : Phases, src : Sources]
        /\ Moved(call')
    BY <2>1 DEF IInv, TypeOK, Moved
  <2> QED BY <2>1, <2>4, <2>5, <1>1, PrepMoved, TypesRest, SessionsRest DEF IInv
<1> QED BY <1>4, <1>5

(* CommitOutdated: the caller goes back, its entry is removed.             *)
LEMMA CommitOutdatedKeeps ==
  ASSUME IInv, CommitOutdated
  PROVE  IInv'
<1>1. /\ chain # <<>> /\ Head(chain).op = "commit" /\ Rested /\ Steady
      /\ chain' = Tail(chain)
  BY DEF CommitOutdated, Stage, Running, Rested, Steady
<1> DEFINE p == Head(chain).who
           d == [call[p] EXCEPT !.at = "begin", !.src = NoSource, !.attached = FALSE]
           c == [call EXCEPT ![p] = d]
<1>2. p \in Callers /\ call[p].at = "commit"
  BY <1>1, FirstIs, NowIs DEF Fits
<1>3. call[p] \in CallStates /\ call[p].op \in {"prepare", "load", "inspect"}
  BY <1>2 DEF IInv, TypeOK, Preparation, Sound
<1>4. d \in CallStates /\ Bystander(d) /\ Sound(d) /\ d.attached = FALSE
  BY <1>3, AgainIs
<1>5. Drop(p, Again(call, p))
  BY DEF CommitOutdated
<1>6. Again(call, p) = c
  BY <1>2 DEF Again, IInv, TypeOK
<1>7. Drop(p, c) /\ c = [call EXCEPT ![p] = d] /\ p = Head(chain).who
  BY <1>5, <1>6
<1> HIDE DEF c, d, p
<1> QED BY <1>1, <1>2, <1>4, <1>7, CommitLeaves

(* What a source read at the current revision says of the stored log.      *)
LEMMA SourceIs ==
  ASSUME TypeOK, NEW src, Faithful(src), src.rev = Revision
  PROVE  /\ src.closers = ClosersOf(Stored) /\ src.events = Stored \o src.closers
         /\ NeedsRepair(src) <=> OpenTurn(Stored) \/ tear.torn
         /\ ~tear.torn => Stored = disk
         /\ ~NeedsRepair(src) => src.events = disk /\ ~tear.torn /\ ~OpenTurn(disk)
<1>1. disk \in Logs /\ tear \in Tears /\ (~tear.torn => tear.holds = <<>>)
  BY DEF TypeOK
<1>2. src.rev # <<>> /\ src.rev[1] = disk /\ src.rev[2] = tear
  BY DEF Revision
<1>3. src.closers = ClosersOf(Stored) /\ src.events = Stored \o src.closers
  BY <1>2 DEF Faithful, Stored
<1>4. disk \o <<>> = disk
  BY <1>1, ConcatEmptySeq DEF Logs
<1>5. ~tear.torn => Stored = disk
  BY <1>1, <1>4 DEF Stored
<1>6. ClosersOf(Stored) # <<>> <=> OpenTurn(Stored)
  <2>1. <<Cut>> # <<>>
    OBVIOUS
  <2> QED BY <2>1 DEF ClosersOf
<1>7. NeedsRepair(src) <=> OpenTurn(Stored) \/ tear.torn
  BY <1>2, <1>3, <1>6 DEF NeedsRepair
<1> QED BY <1>3, <1>4, <1>5, <1>6, <1>7

(* The caller whose commit is running.                                     *)
LEMMA CommitIs ==
  ASSUME IInv, chain # <<>>, Head(chain).op = "commit", NEW p, p = Head(chain).who
  PROVE  /\ p \in Callers /\ call \in [Callers -> CallStates] /\ TypeOK
         /\ call[p].at = "commit" /\ call[p].op \in {"prepare", "load"}
         /\ Sound(call[p]) /\ Faithful(call[p].src) /\ call[p].src.rev # <<>>
         /\ entry \in [phase : Phases, src : Sources]
         /\ entry.phase # "reserved" /\ \A q \in Callers : ~Held(q)
         /\ call[p].attached => entry = [phase |-> "committing", src |-> call[p].src]
         /\ call[p].attached => \A i \in DOMAIN chain : i # 1 =>
              chain[i].op # "commit" /\ chain[i].op # "created"
              /\ ~(chain[i].op = "read" /\ chain[i].current)
<1>1. p \in Callers /\ call[p].at = "commit" /\ entry.phase # "reserved"
  BY FirstIs, NowIs DEF Fits
<1>2. call \in [Callers -> CallStates] /\ entry \in [phase : Phases, src : Sources] /\ TypeOK
  BY DEF IInv, TypeOK
<1>3. Sound(call[p])
  BY <1>1 DEF IInv, Preparation
<1>4. call[p].op \in {"prepare", "load"} /\ Faithful(call[p].src) /\ call[p].src.rev # <<>>
  BY <1>1, <1>3 DEF Sound
<1>5. \A q \in Callers : ~Held(q)
  BY <1>1 DEF IInv, Preparation
<1>6. call[p].attached => entry = [phase |-> "committing", src |-> call[p].src]
  BY <1>1 DEF IInv, Preparation, Committing
<1>7. ASSUME call[p].attached, NEW i \in DOMAIN chain, i # 1
      PROVE  chain[i].op # "commit" /\ chain[i].op # "created"
             /\ ~(chain[i].op = "read" /\ chain[i].current)
  <2>1. Fits(chain[i], Now) /\ Precedes(Head(chain), chain[i], Now)
    BY <1>7, FirstIs
  <2>2. entry.phase = "committing"
    BY <1>6, <1>7
  <2> QED BY <2>1, <2>2, <1>7, NowIs DEF Fits, Precedes
<1> QED BY <1>1, <1>2, <1>3, <1>4, <1>5, <1>6, <1>7

(* CommitStartsRepair: a repair starts only while no cursor is known.      *)
LEMMA CommitStartsRepairKeeps ==
  ASSUME IInv, CommitStartsRepair
  PROVE  IInv'
<1> DEFINE p == Head(chain).who
<1>1. /\ chain # <<>> /\ Head(chain).op = "commit" /\ Head(chain).stage = "checking" /\ Rested
      /\ Steady /\ UNCHANGED <<entry, call>> /\ chain' = [chain EXCEPT ![1].stage = "repairing"]
      /\ call[p].src.rev = Revision /\ NeedsRepair(call[p].src)
  BY DEF CommitStartsRepair, Stage, Running, Rested, Steady, Commits
<1> HIDE DEF p
<1>2. Faithful(call[p].src) /\ TypeOK
  BY <1>1, CommitIs DEF p
<1>3. state.owner = NoOne
  BY <1>1, FirstIs, NowIs DEF Runs
<1>4. ~state.known
  <2>1. OpenTurn(Stored) \/ tear.torn
    BY <1>1, <1>2, SourceIs
  <2>2. ~tear.torn => Stored = disk
    BY <1>1, <1>2, SourceIs
  <2> QED BY <2>1, <2>2, <1>3 DEF IInv, Ownership
<1>5. chain \in Seq(Ops) /\ chain[1] \in Ops /\ chain[1].op = "commit"
  BY <1>1, FirstIs DEF IInv, TypeOK
<1>6. Now' = Now
  BY <1>1 DEF Now, Rested, storage
<1>7. Runs([chain[1] EXCEPT !.stage = "repairing"], Now)
  BY <1>3, <1>4, <1>5, NowIs DEF Runs, Ops
<1>8. chain' \in Seq(Ops) /\ ChainInv'
  <2>1. Looser(Now, Now) /\ Chained(chain, Now) /\ \A i \in DOMAIN chain : Fits(chain[i], Now)
    BY DEF Looser, IInv, ChainInv, Chained
  <2> QED BY <2>1, <1>1, <1>5, <1>6, <1>7, ChainStarts DEF ChainInv
<1>9. call' \in [Callers -> CallStates] /\ entry' \in [phase : Phases, src : Sources]
      /\ Moved(call')
  BY <1>1 DEF IInv, TypeOK, Moved
<1> QED BY <1>1, <1>8, <1>9, PrepMoved, TypesRest, SessionsRest DEF IInv

(* CommitRepaired: the repaired log is read again by a caller sent back.   *)
LEMMA CommitRepairedKeeps ==
  ASSUME IInv, CommitRepaired
  PROVE  IInv'
<1> DEFINE p == Head(chain).who
           d == [call[p] EXCEPT !.at = "begin", !.src = NoSource, !.attached = FALSE]
           c == [call EXCEPT ![p] = d]
<1>1. /\ chain # <<>> /\ Head(chain).op = "commit" /\ Head(chain).stage = "repairing"
      /\ chain' = Tail(chain) /\ UNCHANGED <<state, sess, store>>
      /\ WriteRepair(call[p].src.closers) /\ Drop(p, Again(call, p))
  BY DEF CommitRepaired, Stage, Running
<1>2. /\ p \in Callers /\ call \in [Callers -> CallStates] /\ call[p].op \in {"prepare", "load"}
      /\ TypeOK
  BY <1>1, CommitIs
<1>3. d \in CallStates /\ Bystander(d) /\ Sound(d) /\ d.attached = FALSE
  BY <1>2, AgainIs
<1>4. c = [call EXCEPT ![p] = d] /\ p = Head(chain).who
  OBVIOUS
<1>5. Again(call, p) = c
  BY <1>2 DEF Again
<1>6. state.owner = NoOne /\ ~state.known /\ state \in States
  BY <1>1, <1>2, FirstIs, NowIs DEF Runs, TypeOK
<1>7. Freed
  <2>1. Stored \in Logs /\ call[p].src.closers \in Logs
    BY <1>2, PreparedSource DEF CallStates, Sources
  <2>2. Stored \o call[p].src.closers \in Logs
    BY <2>1, ConcatProperties DEF Logs
  <2>3. Clean \in Tears /\ Clean.holds = <<>>
    BY BareSource DEF Clean, Tears
  <2> QED BY <2>2, <2>3, <1>1, <1>6 DEF Freed, WriteRepair
<1>8. Steady /\ Drop(p, c)
  BY <1>1, <1>5, <1>7 DEF Steady
<1> HIDE DEF c, d, p
<1> QED BY <1>1, <1>2, <1>3, <1>4, <1>8, CommitLeaves

(* CommitRepairFails: the truncation alone is no repair.                   *)
LEMMA CommitRepairFailsKeeps ==
  ASSUME IInv, CommitRepairFails
  PROVE  IInv'
<1> DEFINE p == Head(chain).who
           c == [call EXCEPT ![p] = Idle]
<1>1. /\ chain # <<>> /\ Head(chain).op = "commit" /\ Head(chain).stage = "repairing"
      /\ chain' = Tail(chain) /\ UNCHANGED <<disk, acked, state, sess, store>> /\ tear' = Clean
      /\ Drop(p, c)
  BY DEF CommitRepairFails, Stage, Running, Rejected
<1>2. p \in Callers /\ TypeOK
  BY <1>1, CommitIs
<1>3. c = [call EXCEPT ![p] = Idle] /\ p = Head(chain).who
  OBVIOUS
<1>4. state.owner = NoOne /\ ~state.known /\ state \in States /\ disk \in Logs /\ acked \in Logs
  BY <1>1, <1>2, FirstIs, NowIs DEF Runs, TypeOK
<1>5. Steady
  <2>1. Clean \in Tears /\ Clean.holds = <<>>
    BY BareSource DEF Clean, Tears
  <2> QED BY <2>1, <1>1, <1>4 DEF Freed, Steady
<1> HIDE DEF c, p
<1> QED BY <1>1, <1>2, <1>3, <1>5, IdleCaller, CommitLeaves

(* An entry that becomes ready: whoever waits for it wakes.                *)
LEMMA PrepReadied ==
  ASSUME IInv, NEW c, Moved(c), call' = Waking(c), UNCHANGED <<sess, store>>,
         entry' = [entry EXCEPT !.phase = "ready"], entry.phase \in {"committing", "reserved"},
         \A q \in Callers : c[q].at # "held",
         \A q \in Callers : c[q].at = "commit" => ~c[q].attached
  PROVE  Preparation' /\ entry'.phase = "ready" /\ entry' \in [phase : Phases, src : Sources]
<1>1. /\ c \in [Callers -> CallStates] /\ entry \in [phase : Phases, src : Sources]
      /\ Faithful(entry.src) /\ entry.src.rev # <<>> /\ store = NoOne
  BY DEF IInv, TypeOK, Moved, Preparation
<1>2. /\ entry' \in [phase : Phases, src : Sources] /\ entry'.phase = "ready"
      /\ entry'.src = entry.src
  BY <1>1 DEF Phases
<1>3. \A q \in Callers : /\ call'[q].attached = c[q].attached /\ call'[q].at # "held"
                         /\ call'[q].at \in {"append", "commit"} => call'[q].at = c[q].at
                         /\ Sound(c[q]) => Sound(call'[q])
  BY <1>1, WakingIs
<1>4. \A q \in Callers : Sound(call'[q])
  BY <1>3 DEF Moved, IInv, Preparation
<1>5. \A q \in Callers : c[q].at = "append" =>
        \A l \in 1..Lives : sess'[l].stage \in {"unborn", "gone"}
  BY DEF Moved, IInv, Preparation, Bystander
<1>6. \A q \in Callers : ~(call'[q].at = "commit" /\ call'[q].attached)
  BY <1>3
<1>7. Preparation'
  BY <1>1, <1>2, <1>3, <1>4, <1>5, <1>6 DEF Preparation, Held, Committing
<1> QED BY <1>2, <1>7

(* The cursor state a commit sets is that of the repaired log.             *)
LEMMA CommitSettles ==
  ASSUME IInv, CommitDone
  PROVE  /\ Freed /\ state'.known /\ chain # <<>> /\ Head(chain).op = "commit"
         /\ chain' = Tail(chain) /\ UNCHANGED storage
         /\ call[Head(chain).who].src.rev = Revision
<1> DEFINE p == Head(chain).who
           src == call[p].src
<1>1. /\ chain # <<>> /\ Head(chain).op = "commit" /\ Head(chain).stage = "checking"
      /\ chain' = Tail(chain) /\ UNCHANGED <<storage, sess, store>>
      /\ src.rev = Revision /\ ~NeedsRepair(src)
      /\ state' = [cursor |-> Len(src.events), owner |-> NoOne, known |-> TRUE]
  BY DEF CommitDone, Stage, Running, Commits
<1>2. Faithful(src) /\ TypeOK
  BY <1>1, CommitIs
<1> HIDE DEF src
<1>3. src.events = disk /\ ~tear.torn /\ ~OpenTurn(disk)
  BY <1>1, <1>2, SourceIs
<1>4. state.owner = NoOne
  BY <1>1, FirstIs, NowIs DEF Runs
<1>5. Len(disk) \in Nat /\ 0 \in 0..Lives
  BY <1>2, LenProperties, CoordinatorAssumption DEF TypeOK, Logs
<1>6. state' \in States /\ state'.owner = NoOne /\ state'.cursor = Len(disk) /\ state'.known
  BY <1>1, <1>3, <1>5 DEF States, NoOne
<1>7. Freed
  BY <1>1, <1>2, <1>3, <1>4, <1>6 DEF Freed, TypeOK, storage
<1> QED BY <1>1, <1>6, <1>7 DEF src

(* CommitDone of an aborted caller: the entry is given back.               *)
LEMMA CommitAbortedKeeps ==
  ASSUME IInv, CommitDone, call[Head(chain).who].aborted
  PROVE  IInv'
<1> DEFINE p == Head(chain).who
           c == [call EXCEPT ![p] = Idle]
<1>1. /\ entry' = IF call[p].attached THEN [entry EXCEPT !.phase = "ready"] ELSE entry
      /\ call' = Waking(c)
  BY DEF CommitDone, Rejected
<1>2. /\ Freed /\ Steady /\ chain # <<>> /\ Head(chain).op = "commit" /\ chain' = Tail(chain)
      /\ p = Head(chain).who
  BY CommitSettles DEF Steady
<1>3. c = [call EXCEPT ![p] = Idle]
  OBVIOUS
<1> HIDE DEF p, c
<1>4. /\ p \in Callers /\ call[p].at = "commit" /\ entry \in [phase : Phases, src : Sources]
      /\ entry.phase # "reserved" /\ \A q \in Callers : ~Held(q)
      /\ call[p].attached => entry = [phase |-> "committing", src |-> call[p].src]
  BY <1>2, CommitIs
<1>5. Moved(c) /\ c[p] = Idle /\ \A q \in Callers : q # p => c[q] = call[q]
  <2>1. p \in Callers
    BY <1>4
  <2> QED BY <2>1, IdleMoves DEF c
<1>6. c \in [Callers -> CallStates]
  BY <1>5 DEF Moved
<1>7. /\ call' \in [Callers -> CallStates]
      /\ \A q \in Callers : /\ call'[q].attached = c[q].attached
                            /\ c[q].at # "asleep" => call'[q].at = c[q].at
  BY <1>1, <1>6, WakingIs
<1>8. Looser(Now, Now')
  BY <1>5, <1>7, IdleCaller, NowIs DEF Looser
<1>9. \A q \in Callers : ~Bystander(call[q]) /\ q # p => call'[q].at = call[q].at
  BY <1>5, <1>7 DEF Bystander
<1>10. \A q \in Callers : c[q].at # "held"
  BY <1>4, <1>5 DEF Held, Moved, Bystander
<1>11. CASE call[p].attached
  <2>1. entry.phase = "committing" /\ entry' = [entry EXCEPT !.phase = "ready"]
    BY <1>1, <1>4, <1>11
  <2>2. \A q \in Callers : c[q].at = "commit" => ~c[q].attached
    BY <1>4, <1>5, <1>11, IdleCaller DEF IInv, Preparation, Committing, Moved, Bystander
  <2>3. UNCHANGED <<sess, store>>
    BY <1>2 DEF Freed
  <2>4. Preparation' /\ entry'.phase = "ready" /\ entry' \in [phase : Phases, src : Sources]
    BY <1>1, <1>5, <1>10, <2>1, <2>2, <2>3, PrepReadied
  <2>5. \A i \in DOMAIN chain : i # 1 =>
          ~(chain[i].op = "read" /\ chain[i].current) /\ chain[i].op # "created"
    BY <1>2, <1>11, CommitIs
  <2>6. chain' \in Seq(Ops) /\ ChainInv'
    BY <1>2, <1>4, <1>8, <1>9, <2>4, <2>5, RestPops
  <2> QED BY <1>2, <1>7, <2>4, <2>6, TypesRest, SessionsRest DEF IInv
<1>12. CASE ~call[p].attached
  <2>1. entry' = entry
    BY <1>1, <1>12
  <2>2. Moved(call')
    <3>1. ASSUME NEW q \in Callers
          PROVE  call'[q] = call[q] \/ (Bystander(call'[q]) /\ Sound(call'[q]))
      <4>1. call'[q] = IF c[q].attached /\ c[q].at = "asleep"
                       THEN [c[q] EXCEPT !.at = "joined"] ELSE c[q]
        BY <1>1 DEF Waking
      <4>2. CASE c[q].attached /\ c[q].at = "asleep"
        <5>1. c[q] = call[q] /\ Sound(call[q])
          BY <1>4, <1>5, <4>2, IdleCaller DEF Idle, IInv, Preparation
        <5>2. Sound(call'[q]) /\ call'[q].at = "joined"
          BY <1>1, <1>6, <4>2, <5>1, WakingIs
        <5> QED BY <5>2 DEF Bystander
      <4>3. CASE ~(c[q].attached /\ c[q].at = "asleep")
        BY <4>1, <4>3, <1>5 DEF Moved
      <4> QED BY <4>2, <4>3
    <3> QED BY <1>7, <3>1 DEF Moved
  <2>3. Preparation'
    BY <1>2, <1>4, <2>1, <2>2, PrepMoved
  <2>4. \A i \in DOMAIN chain : i # 1 =>
          /\ chain[i].op = "read" /\ chain[i].current => entry.phase = "loading"
          /\ chain[i].op = "created" => entry.phase \in {"none", "loading"}
    BY <1>2, FirstIs, NowIs DEF Fits
  <2>5. chain' \in Seq(Ops) /\ ChainInv'
    BY <1>2, <1>4, <1>8, <1>9, <2>1, <2>4, RestPops
  <2> QED BY <1>2, <1>4, <1>7, <2>1, <2>3, <2>5, TypesRest, SessionsRest DEF IInv
<1> QED BY <1>11, <1>12

(* CommitDone of a prepare: the entry is reserved for its caller.          *)
LEMMA CommitHeldKeeps ==
  ASSUME IInv, CommitDone, NEW p, p = Head(chain).who, call[p].attached,
         entry' = [entry EXCEPT !.phase = "reserved"], call' = To(call, p, "held")
  PROVE  IInv'
<1>2. /\ Freed /\ Steady /\ chain # <<>> /\ Head(chain).op = "commit" /\ chain' = Tail(chain)
      /\ state'.known /\ UNCHANGED storage /\ call[p].src.rev = Revision
  BY CommitSettles DEF Steady
<1>4. /\ p \in Callers /\ call \in [Callers -> CallStates] /\ call[p].at = "commit"
      /\ Sound(call[p]) /\ \A q \in Callers : ~Held(q)
      /\ entry = [phase |-> "committing", src |-> call[p].src]
      /\ entry \in [phase : Phases, src : Sources]
      /\ \A i \in DOMAIN chain : i # 1 =>
           chain[i].op # "commit" /\ chain[i].op # "created"
           /\ ~(chain[i].op = "read" /\ chain[i].current)
  BY <1>2, CommitIs
<1> DEFINE d == [call[p] EXCEPT !.at = "held"]
<1>5. call' = [call EXCEPT ![p] = d]
  BY <1>4 DEF To
<1>6. /\ d \in CallStates /\ d.at = "held" /\ d.src = call[p].src /\ d.attached /\ Sound(d)
  BY <1>4 DEF CallStates, Places, Sound
<1> HIDE DEF d
<1>7. call'[p] = d /\ \A q \in Callers : q # p => call'[q] = call[q]
  BY <1>4, <1>5
<1>8. /\ entry' = [phase |-> "reserved", src |-> call[p].src] /\ entry'.src = entry.src
      /\ entry' \in [phase : Phases, src : Sources] /\ entry'.phase = "reserved"
  BY <1>4 DEF Phases
<1>9. Looser(Now, Now')
  BY <1>4, <1>6, <1>7, NowIs DEF Looser
<1>10. \A q \in Callers : ~Bystander(call[q]) /\ q # p => call'[q].at = call[q].at
  BY <1>7
<1>11. chain' \in Seq(Ops) /\ ChainInv'
  BY <1>2, <1>4, <1>9, <1>10, RestPops
<1>12. call' \in [Callers -> CallStates]
  BY <1>4, <1>5, <1>6
<1>13. \A q \in Callers : q # p => ~(call[q].at = "commit" /\ call[q].attached) /\ call'[q].at # "held"
  BY <1>4, <1>7 DEF IInv, Preparation, Committing, Held
<1>14. Revision' = Revision /\ UNCHANGED <<sess, store>> /\ state'.owner = NoOne
  BY <1>2 DEF Revision, storage, Freed
<1>15. Preparation'
  <2>1. entry'.src.rev # <<>> /\ Faithful(entry'.src) /\ store' = NoOne
    BY <1>4, <1>8, <1>14 DEF IInv, Preparation
  <2>2. \A q \in Callers : Sound(call'[q])
    BY <1>6, <1>7 DEF IInv, Preparation
  <2>3. \A q \in Callers : ~(call'[q].at = "commit" /\ call'[q].attached)
    BY <1>6, <1>7, <1>13
  <2>4. \A q \in Callers : call'[q].at = "held" => q = p
    BY <1>13
  <2>5. \A q \in Callers : call'[q].at = "append" =>
          \A l \in 1..Lives : sess'[l].stage \in {"unborn", "gone"}
    BY <1>6, <1>7, <1>14 DEF IInv, Preparation
  <2> QED BY <1>2, <1>6, <1>7, <1>8, <1>14, <2>1, <2>2, <2>3, <2>4, <2>5
      DEF Preparation, Held, Committing
<1> QED BY <1>2, <1>8, <1>11, <1>12, <1>15, TypesRest, SessionsRest DEF IInv

(* CommitDone: what it sets is the cursor of a repaired log.               *)
LEMMA CommitDoneKeeps ==
  ASSUME IInv, CommitDone
  PROVE  IInv'
<1> DEFINE p == Head(chain).who
<1>1. /\ Freed /\ Steady /\ chain # <<>> /\ Head(chain).op = "commit" /\ chain' = Tail(chain)
      /\ store' = store
  BY CommitSettles DEF Steady, Freed
<1>2. /\ p \in Callers /\ call \in [Callers -> CallStates] /\ call[p].op \in {"prepare", "load"}
      /\ store \in 0..Lives /\ call[p] \in CallStates
  BY <1>1, CommitIs DEF TypeOK
<1>3. CASE call[p].aborted
  BY <1>3, CommitAbortedKeeps
<1>4. CASE ~call[p].aborted /\ ~call[p].attached
  <2> DEFINE d == [call[p] EXCEPT !.at = "begin", !.src = NoSource, !.attached = FALSE]
             c == [call EXCEPT ![p] = d]
  <2>1. d \in CallStates /\ Bystander(d) /\ Sound(d) /\ d.attached = FALSE
    BY <1>2, AgainIs
  <2>2. c = [call EXCEPT ![p] = d]
    OBVIOUS
  <2>3. call' = c /\ UNCHANGED entry
    BY <1>2, <1>4 DEF CommitDone, Again
  <2>4. Drop(p, c)
    BY <1>4, <2>3 DEF Drop
  <2> HIDE DEF c, d
  <2> QED BY <1>1, <1>2, <2>1, <2>2, <2>4, CommitLeaves
<1>5. CASE ~call[p].aborted /\ call[p].attached /\ call[p].op = "prepare"
  <2>1. entry' = [entry EXCEPT !.phase = "reserved"] /\ call' = To(call, p, "held")
    BY <1>5 DEF CommitDone
  <2> QED BY <1>5, <2>1, CommitHeldKeeps
<1>6. CASE ~call[p].aborted /\ call[p].attached /\ call[p].op = "load"
  <2> DEFINE e == call[p].src.events
             s == [NoSource EXCEPT !.events = e]
             d == [call[p] EXCEPT !.at = "answered", !.src = s, !.life = store]
             c == Answer(call, p, e)
  <2>1. c = [call EXCEPT ![p] = d]
    BY <1>2 DEF Answer
  <2>2. e \in Logs
    BY <1>2 DEF CallStates, Sources
  <2>3. Drop(p, c)
    BY <1>6 DEF CommitDone
  <2>4. d \in CallStates /\ Bystander(d) /\ Sound(d)
    BY <1>2, <2>2, AnswerMoves
  <2>5. entry' = NoEntry /\ call' = RemovedFor(c)
    BY <1>6, <2>3 DEF Drop
  <2> DEFINE b == [d EXCEPT !.attached = FALSE]
             cc == [call EXCEPT ![p] = b]
  <2>6. b \in CallStates /\ Bystander(b) /\ Sound(b) /\ b.attached = FALSE
    BY <2>4 DEF CallStates, Bystander, Sound
  <2>7. call' = RemovedFor(cc)
    <3>1. c[p] = d /\ cc[p] = b /\ \A q \in Callers : q # p => c[q] = call[q] /\ cc[q] = call[q]
      BY <1>2, <2>1
    <3>2. d.at = "answered" /\ b.at = "answered" /\ [b EXCEPT !.attached = FALSE] = b
      BY <1>2, <2>4 DEF CallStates
    <3> HIDE DEF c, cc, b, d
    <3>3. Waking(c)[p] = d /\ Waking(cc)[p] = b
          /\ \A q \in Callers : q # p => Waking(c)[q] = Waking(cc)[q]
      BY <1>2, <3>1, <3>2 DEF Waking
    <3>4. [d EXCEPT !.attached = FALSE] = [b EXCEPT !.attached = FALSE]
      BY <3>2 DEF b
    <3>5. \A q \in Callers : [Waking(c)[q] EXCEPT !.attached = FALSE]
                             = [Waking(cc)[q] EXCEPT !.attached = FALSE]
      BY <3>3, <3>4
    <3> QED BY <2>5, <3>5 DEF RemovedFor, Leaving
  <2>8. Drop(p, cc)
    BY <1>6, <2>5, <2>7 DEF Drop
  <2>9. cc = [call EXCEPT ![p] = b]
    OBVIOUS
  <2> HIDE DEF b, cc
  <2> QED BY <1>1, <1>2, <2>6, <2>8, <2>9, CommitLeaves
<1> QED BY <1>2, <1>3, <1>4, <1>5, <1>6

(* ReadDone: the entry its read was queued for is ready.                   *)
LEMMA ReadDoneKeeps ==
  ASSUME IInv, ReadDone
  PROVE  IInv'
<1> DEFINE mine == Head(chain).current
           waits(q) == call[q].at = "loading" /\ call[q].attached = mine
<1>1. /\ chain # <<>> /\ Head(chain).op = "read" /\ chain' = Tail(chain) /\ Rested /\ Steady
      /\ TypeOK
  BY DEF ReadDone, Running, Rested, Steady, IInv
<1>2. /\ Prepared \in Sources /\ Faithful(Prepared) /\ Prepared.rev # <<>>
  BY <1>1, PreparedSource
<1>3. call \in [Callers -> CallStates] /\ entry \in [phase : Phases, src : Sources]
      /\ store \in 0..Lives
  BY <1>1 DEF TypeOK
<1>4. ASSUME NEW q \in Callers
      PROVE  call'[q] = call[q] \/ (call[q].at = "loading" /\ call'[q] \in CallStates
                                    /\ Bystander(call'[q]) /\ Sound(call'[q]))
  <2>0. waits(q) => call[q].op \in {"prepare", "load", "inspect"} /\ call[q] \in CallStates
    BY <1>3 DEF IInv, Preparation, Sound
  <2>1. CASE Exists
    <3> DEFINE d == [call[q] EXCEPT !.at = "joined", !.src = Prepared]
    <3>1. call'[q] = IF waits(q) THEN d ELSE call[q]
      BY <2>1 DEF ReadDone
    <3>2. waits(q) => /\ d \in CallStates /\ d.at = "joined" /\ d.src = Prepared
                      /\ d.op = call[q].op
      BY <1>2, <2>0 DEF CallStates, Places
    <3> HIDE DEF d
    <3>3. waits(q) => d \in CallStates /\ Bystander(d) /\ Sound(d)
      BY <1>2, <2>0, <3>2 DEF Bystander, Sound
    <3> QED BY <3>1, <3>3
  <2>2. CASE ~Exists
    <3> DEFINE s == [NoSource EXCEPT !.events = Live.log]
               d == [call[q] EXCEPT !.at = "answered", !.src = s, !.life = store]
    <3>1. call'[q] = IF ~waits(q) THEN call[q]
                     ELSE IF call[q].op # "inspect" \/ store = NoOne THEN Idle ELSE d
      <4>1. Rejected(call, q)[q] = Idle /\ Answer(call, q, Live.log)[q] = d
        BY <1>3 DEF Rejected, Answer
      <4>2. call'[q] = CASE ~waits(q) -> call[q]
                         [] waits(q) /\ (call[q].op # "inspect" \/ store = NoOne) ->
                              Rejected(call, q)[q]
                         [] OTHER -> Answer(call, q, Live.log)[q]
        BY <2>2 DEF ReadDone
      <4> HIDE DEF d, waits
      <4> QED BY <4>1, <4>2
    <3>2. waits(q) /\ store # NoOne => d \in CallStates /\ Bystander(d) /\ Sound(d)
      BY <1>1, <1>3, <2>0, LiveLog, AnswerMoves
    <3> HIDE DEF d
    <3> QED BY <3>1, <3>2, IdleCaller
  <2> QED BY <2>1, <2>2
<1>5. call' \in [Callers -> CallStates]
  <2>1. call' = [q \in Callers |-> call'[q]]
    BY DEF ReadDone
  <2> QED BY <2>1, <1>3, <1>4
<1>6. Moved(call') /\ \A q \in Callers : ~Bystander(call[q]) => call'[q] = call[q]
  BY <1>4, <1>5 DEF Moved, Bystander
<1>7. Looser(Now, Now')
  BY <1>4, NowIs DEF Looser
<1>8. \A i \in DOMAIN chain : i # 1 =>
        /\ chain[i].op = "read" /\ chain[i].current => entry.phase = "loading"
        /\ chain[i].op = "created" => entry.phase \in {"none", "loading"}
        /\ chain[i].op = "commit" => entry.phase # "reserved"
        /\ mine => ~(chain[i].op = "read" /\ chain[i].current) /\ chain[i].op # "created"
  BY <1>1, FirstIs, NowIs DEF Fits, Precedes
<1>9. CASE ~mine
  <2>1. entry' = entry
    BY <1>9 DEF ReadDone
  <2>2. chain' \in Seq(Ops) /\ ChainInv'
    BY <1>1, <1>6, <1>7, <1>8, <2>1, RestPops
  <2> QED BY <1>1, <1>3, <1>5, <1>6, <2>1, <2>2, PrepMoved, TypesRest, SessionsRest DEF IInv
<1>10. CASE mine
  <2>1. entry.phase = "loading"
    BY <1>1, <1>10, FirstIs, NowIs DEF Fits
  <2>2. entry' = IF Exists THEN [phase |-> "ready", src |-> Prepared] ELSE NoEntry
    BY <1>10 DEF ReadDone
  <2>3. /\ entry' \in [phase : Phases, src : Sources] /\ Faithful(entry'.src)
        /\ entry'.phase \in {"none", "ready"}
        /\ entry'.phase \in {"none", "loading"} <=> entry'.src.rev = <<>>
    <3>1. CASE Exists
      BY <3>1, <2>2, <1>2 DEF Phases
    <3>2. CASE ~Exists
      BY <3>2, <2>2, BareSource DEF Phases, NoEntry
    <3> QED BY <3>1, <3>2
  <2>4. chain' \in Seq(Ops) /\ ChainInv'
    BY <1>1, <1>6, <1>7, <1>8, <1>10, <2>3, RestPops
  <2>5. \A q \in Callers : /\ call'[q].at # "held" /\ ~(call'[q].at = "commit" /\ call'[q].attached)
                           /\ Sound(call'[q])
                           /\ call'[q].at = "append" => call'[q] = call[q]
    BY <1>6, <2>1 DEF IInv, Preparation, Held, Committing, Moved, Bystander
  <2>6. Preparation'
    BY <1>1, <2>1, <2>3, <2>5 DEF IInv, Preparation, Held, Committing, Rested
  <2> QED BY <1>1, <1>5, <2>3, <2>4, <2>6, TypesRest, SessionsRest DEF IInv
<1> QED BY <1>9, <1>10

(* One caller's operation leaves the chain, its preparation unchanged.     *)
LEMMA OneLeaves ==
  ASSUME IInv, Steady, Rested \/ \A q \in Callers : ~Held(q),
         chain # <<>>, chain' = Tail(chain), entry' = entry,
         NEW p \in Callers, p = Head(chain).who, Head(chain).op \in {"check", "append"},
         call[p].at = Head(chain).op,
         NEW d \in CallStates, Bystander(d), Sound(d), call' = [call EXCEPT ![p] = d]
  PROVE  IInv'
<1>1. call \in [Callers -> CallStates] /\ entry \in [phase : Phases, src : Sources]
  BY DEF IInv, TypeOK
<1>2. Moved(call') /\ call'[p] = d /\ \A q \in Callers : q # p => call'[q] = call[q]
  <2>1. /\ call' \in [Callers -> CallStates] /\ call'[p] = d
        /\ \A q \in Callers : q # p => call'[q] = call[q]
    BY <1>1
  <2>2. \A q \in Callers : call'[q] = call[q] \/ (Bystander(call'[q]) /\ Sound(call'[q]))
    BY <2>1
  <2> QED BY <2>1, <2>2 DEF Moved
<1>3. Looser(Now, Now')
  <2>1. ASSUME NEW q \in Callers, call[q].at = "commit", call'[q].attached
        PROVE  call[q].attached
    <3>1. CASE q = p
      BY <3>1, <2>1
    <3>2. CASE q # p
      BY <3>2, <2>1, <1>2
    <3> QED BY <3>1, <3>2
  <2> QED BY <2>1, NowIs DEF Looser
<1>4. \A i \in DOMAIN chain : i # 1 =>
        /\ chain[i].op = "commit" => entry.phase # "reserved"
        /\ chain[i].op = "read" /\ chain[i].current => entry.phase = "loading"
        /\ chain[i].op = "created" => entry.phase \in {"none", "loading"}
  BY FirstIs, NowIs DEF Fits
<1>5. chain' \in Seq(Ops) /\ ChainInv'
  BY <1>2, <1>3, <1>4, <1>1, RestPops
<1>6. call' \in [Callers -> CallStates] /\ Preparation'
  BY <1>1, <1>2, PrepMoved DEF Moved
<1> QED BY <1>1, <1>5, <1>6, TypesRest, SessionsRest DEF IInv

(* InspectChecked: a stale entry is removed, but no reservation is.        *)
LEMMA InspectCheckedKeeps ==
  ASSUME IInv, InspectChecked
  PROVE  IInv'
<1> DEFINE p == Head(chain).who
           src == call[p].src
           same == entry.phase # "none" /\ entry.src = src
<1>1. /\ chain # <<>> /\ Head(chain).op = "check" /\ chain' = Tail(chain) /\ Rested /\ Steady
      /\ TypeOK
  BY DEF InspectChecked, Running, Rested, Steady, IInv
<1>2. p \in Callers /\ call[p].at = "check" /\ p = Head(chain).who
  BY <1>1, FirstIs, NowIs DEF Fits
<1>3. /\ call \in [Callers -> CallStates] /\ call[p] \in CallStates /\ store \in 0..Lives
      /\ call[p].op \in {"prepare", "load", "inspect"}
  BY <1>1, <1>2 DEF TypeOK, IInv, Preparation, Sound
<1> DEFINE again == [call[p] EXCEPT !.at = "begin", !.src = NoSource, !.attached = FALSE]
           answer(s) == [call[p] EXCEPT !.at = "answered", !.src = [NoSource EXCEPT !.events = s],
                                        !.life = store]
<1>4. Again(call, p) = [call EXCEPT ![p] = again]
  BY <1>3 DEF Again
<1>5. \A s : Answer(call, p, s) = [call EXCEPT ![p] = answer(s)]
  BY <1>3 DEF Answer
<1>6. again \in CallStates /\ Bystander(again) /\ Sound(again) /\ again.attached = FALSE
  BY <1>3, AgainIs
<1>7. \A s \in Logs : answer(s) \in CallStates /\ Bystander(answer(s)) /\ Sound(answer(s))
  BY <1>3, AnswerMoves
<1>8. ASSUME NEW s \in Logs, call' = Answer(call, p, s), entry' = entry
      PROVE  IInv'
  <2> DEFINE d == answer(s)
  <2>1. d \in CallStates /\ Bystander(d) /\ Sound(d) /\ call' = [call EXCEPT ![p] = d]
    BY <1>5, <1>7, <1>8
  <2> HIDE DEF p, d, answer, again
  <2> QED BY <2>1, <1>1, <1>2, <1>8, OneLeaves
<1>9. src \in Sources /\ src.events \in Logs
  BY <1>3 DEF CallStates, Sources
<1>10. CASE store # NoOne
  <2>1. Live.log \in Logs /\ call' = Answer(call, p, Live.log) /\ entry' = entry
    BY <1>1, <1>10, LiveLog DEF InspectChecked
  <2> QED BY <2>1, <1>8
<1>11. CASE store = NoOne /\ (Current(src) \/ (same /\ entry.phase # "ready"))
  <2>1. call' = Answer(call, p, src.events) /\ entry' = entry
    BY <1>11 DEF InspectChecked
  <2> QED BY <2>1, <1>8, <1>9
<1>12. CASE store = NoOne /\ ~(Current(src) \/ (same /\ entry.phase # "ready")) /\ ~same
  <2>1. call' = [call EXCEPT ![p] = again] /\ entry' = entry
    BY <1>12, <1>4 DEF InspectChecked
  <2> HIDE DEF p, again
  <2> QED BY <2>1, <1>1, <1>2, <1>6, OneLeaves
<1>13. CASE store = NoOne /\ ~(Current(src) \/ (same /\ entry.phase # "ready")) /\ same
  <2> DEFINE c == [call EXCEPT ![p] = again]
  <2>1. entry.phase = "ready" /\ entry' = NoEntry /\ call' = RemovedFor(c)
    BY <1>13, <1>4 DEF InspectChecked
  <2> HIDE DEF again
  <2>2. Moved(c) /\ c[p] = again /\ \A q \in Callers : q # p => c[q] = call[q]
    <3>1. p \in Callers
      BY <1>2
    <3> HIDE DEF p
    <3> QED BY <3>1, <1>6, OneMoves DEF c
  <2> HIDE DEF c
  <2>3. c \in [Callers -> CallStates] /\ \A q \in Callers : c[q].at # "held"
    BY <2>1, <2>2, <1>6 DEF Moved, IInv, Preparation, Held, Bystander
  <2>4. Preparation'
    BY <2>1, <2>2, <2>3, <1>1, PrepRemoved DEF Rested
  <2>5. /\ call' \in [Callers -> CallStates]
        /\ \A q \in Callers : ~call'[q].attached /\ (c[q].at # "asleep" => call'[q].at = c[q].at)
    BY <2>1, <2>3, RemovedIs
  <2>6. Looser(Now, Now')
    BY <2>5, NowIs DEF Looser
  <2>7. \A q \in Callers : ~Bystander(call[q]) /\ q # p => call'[q].at = call[q].at
    BY <2>2, <2>5 DEF Bystander
  <2>8. entry' \in [phase : Phases, src : Sources] /\ entry'.phase = "none"
    BY <2>1, BareSource DEF NoEntry, Phases
  <2>9. \A i \in DOMAIN chain : i # 1 =>
           ~(chain[i].op = "read" /\ chain[i].current) /\ chain[i].op # "created"
    BY <2>1, <1>1, FirstIs, NowIs DEF Fits
  <2>10. chain' \in Seq(Ops) /\ ChainInv'
    BY <1>1, <1>2, <2>6, <2>7, <2>8, <2>9, RestPops
  <2> QED BY <1>1, <2>4, <2>5, <2>8, <2>10, TypesRest, SessionsRest DEF IInv
<1> QED BY <1>10, <1>11, <1>12, <1>13

(* Callers move, but for those an operation is queued for.                 *)
LEMMA RestFits ==
  ASSUME IInv, Steady,
         \A q \in Callers : call[q].at \in {"commit", "check", "append"}
                            => call'[q].at = call[q].at,
         entry.phase = "reserved" \/ entry'.phase # "reserved",
         \A i \in DOMAIN chain :
           /\ chain[i].op = "read" /\ chain[i].current => entry'.phase = "loading"
           /\ chain[i].op = "created" => entry'.phase \in {"none", "loading"}
  PROVE  /\ chain \in Seq(Ops) /\ Chained(chain, Now)
         /\ \A i \in DOMAIN chain : Fits(chain[i], Now')
<1>1. chain \in Seq(Ops) /\ Chained(chain, Now)
  BY DEF IInv, TypeOK, ChainInv
<1>2. ASSUME NEW i \in DOMAIN chain
      PROVE  Fits(chain[i], Now')
  <2> DEFINE u == chain[i]
  <2>1. Fits(u, Now)
    BY <1>1 DEF Chained
  <2>2. /\ u.op = "read" /\ u.current => entry'.phase = "loading"
        /\ u.op = "created" => entry'.phase \in {"none", "loading"}
    OBVIOUS
  <2> HIDE DEF u
  <2>3. u.op \in {"commit", "check", "append"} => u.who \in Callers /\ call'[u.who].at = u.op
    BY <2>1, NowIs DEF Fits
  <2>4. u.op = "commit" => entry'.phase # "reserved"
    BY <2>1, NowIs DEF Fits
  <2>5. Fits(u, Now')
    BY <2>1, <2>2, <2>3, <2>4, <1>1, FitsRest
  <2> QED BY <2>5 DEF u
<1> QED BY <1>1, <1>2

(* Over a steady step the chain stays.                                     *)
LEMMA RestStays ==
  ASSUME IInv, Steady, state' = state, chain' = chain, Looser(Now, Now'),
         \A q \in Callers : call[q].at \in {"commit", "check", "append"}
                            => call'[q].at = call[q].at,
         entry.phase = "reserved" \/ entry'.phase # "reserved",
         \A i \in DOMAIN chain :
           /\ chain[i].op = "read" /\ chain[i].current => entry'.phase = "loading"
           /\ chain[i].op = "created" => entry'.phase \in {"none", "loading"}
  PROVE  chain' \in Seq(Ops) /\ ChainInv'
<1>1. /\ chain \in Seq(Ops) /\ Chained(chain, Now)
      /\ \A i \in DOMAIN chain : Fits(chain[i], Now')
  BY RestFits
<1>2. ASSUME chain # <<>> PROVE Runs(chain[1], Now')
  <2>1. Runs(chain[1], Now)
    BY <1>1, <1>2 DEF Chained
  <2> QED BY <2>1, NowIs DEF Runs
<1>3. Chained(chain, Now')
  BY <1>1, <1>2, ChainKept
<1> QED BY <1>1, <1>3 DEF ChainInv

(* Evict: only a ready entry is evicted.                                   *)
LEMMA EvictKeeps ==
  ASSUME IInv, Evict
  PROVE  IInv'
<1>1. /\ Rested /\ Steady /\ chain' = chain /\ entry.phase = "ready" /\ entry' = NoEntry
      /\ call' = Leaving(call) /\ call \in [Callers -> CallStates]
  BY DEF Evict, Rested, Steady, IInv, TypeOK
<1>2. call' = [q \in Callers |-> [call[q] EXCEPT !.attached = FALSE]]
  BY <1>1 DEF Leaving
<1>3. ASSUME NEW q \in Callers
      PROVE  /\ call'[q] \in CallStates /\ call'[q].attached = FALSE /\ call'[q].at = call[q].at
             /\ call'[q].src = call[q].src /\ call'[q].op = call[q].op
  <2>1. call[q] \in CallStates /\ call'[q] = [call[q] EXCEPT !.attached = FALSE]
    BY <1>1, <1>2
  <2> QED BY <2>1 DEF CallStates
<1>4. call' \in [Callers -> CallStates]
  BY <1>2, <1>3
<1>5. entry' \in [phase : Phases, src : Sources] /\ entry'.phase = "none" /\ entry'.src = NoSource
  BY <1>1, BareSource DEF NoEntry, Phases
<1>6. Looser(Now, Now')
  BY <1>3, NowIs DEF Looser
<1>7. \A i \in DOMAIN chain :
         ~(chain[i].op = "read" /\ chain[i].current) /\ chain[i].op # "created"
  BY <1>1, NowIs DEF Fits, IInv, ChainInv, Chained
<1>8. chain' \in Seq(Ops) /\ ChainInv'
  BY <1>1, <1>3, <1>5, <1>6, <1>7, RestStays DEF Rested
<1>9. Preparation'
  <2>1. \A q \in Callers : Sound(call'[q])
    BY <1>3 DEF Sound, IInv, Preparation
  <2>2. \A q \in Callers : call'[q].at # "held"
    <3>1. \A q \in Callers : ~Held(q)
      BY <1>1 DEF IInv, Preparation
    <3> QED BY <3>1, <1>3 DEF Held
  <2>3. \A q \in Callers : call'[q].at = "append" =>
          \A l \in 1..Lives : sess'[l].stage \in {"unborn", "gone"}
    BY <1>1, <1>3 DEF IInv, Preparation, Rested
  <2> QED BY <1>3, <1>5, <2>1, <2>2, <2>3, BareSource DEF Preparation, Held, Committing
<1> QED BY <1>1, <1>4, <1>5, <1>8, <1>9, TypesRest, SessionsRest DEF IInv

(* ReleaseReservation: the holder gives the entry back or removes it.      *)
LEMMA ReleaseReservationKeeps ==
  ASSUME IInv, NEW p \in Callers, NEW reusable \in BOOLEAN, ReleaseReservation(p, reusable)
  PROVE  IInv'
<1> DEFINE c == [call EXCEPT ![p] = Idle]
<1>1. /\ Rested /\ Steady /\ chain' = chain /\ call \in [Callers -> CallStates] /\ Held(p)
  BY DEF ReleaseReservation, Rested, Steady, IInv, TypeOK, Held
<1>2. /\ call[p].attached /\ entry = [phase |-> "reserved", src |-> call[p].src]
      /\ \A q \in Callers : Held(q) => q = p
      /\ \A q \in Callers : ~Committing(q)
  BY <1>1 DEF IInv, Preparation
<1>3. Moved(c) /\ c[p] = Idle /\ \A q \in Callers : q # p => c[q] = call[q]
  BY IdleMoves DEF c
<1>4. \/ /\ entry' = [entry EXCEPT !.phase = "ready"] /\ call' = Waking(c)
      \/ /\ entry' = NoEntry /\ call' = RemovedFor(c)
  BY <1>2 DEF ReleaseReservation, Drop, Returned
<1> HIDE DEF c
<1>5. /\ c \in [Callers -> CallStates] /\ \A q \in Callers : c[q].at # "held"
      /\ \A q \in Callers : c[q].at = "commit" => ~c[q].attached
  BY <1>2, <1>3, IdleCaller DEF Moved, Held, Committing, Bystander
<1>6. /\ call' \in [Callers -> CallStates]
      /\ \A q \in Callers : /\ call'[q].attached => c[q].attached
                            /\ c[q].at # "asleep" => call'[q].at = c[q].at
  <2>1. CASE call' = Waking(c)
    BY <2>1, <1>5, WakingIs
  <2>2. CASE call' = RemovedFor(c)
    BY <2>2, <1>5, RemovedIs
  <2> QED BY <1>4, <2>1, <2>2
<1>7. /\ Preparation' /\ entry' \in [phase : Phases, src : Sources]
      /\ entry'.phase \in {"none", "ready"}
  <2>1. CASE entry' = [entry EXCEPT !.phase = "ready"] /\ call' = Waking(c)
    <3>1. UNCHANGED <<sess, store>> /\ entry.phase = "reserved"
      BY <1>1, <1>2 DEF Rested
    <3> QED BY <2>1, <3>1, <1>3, <1>5, PrepReadied
  <2>2. CASE entry' = NoEntry /\ call' = RemovedFor(c)
    <3>1. Preparation'
      BY <2>2, <1>1, <1>3, <1>5, PrepRemoved DEF Rested
    <3> QED BY <3>1, <2>2, BareSource DEF NoEntry, Phases
  <2> QED BY <1>4, <2>1, <2>2
<1>8. Looser(Now, Now')
  BY <1>3, <1>6, IdleCaller, NowIs DEF Looser
<1>9. \A q \in Callers : call[q].at \in {"commit", "check", "append"} => call'[q].at = call[q].at
  BY <1>1, <1>3, <1>6 DEF Held
<1>10. \A i \in DOMAIN chain :
         ~(chain[i].op = "read" /\ chain[i].current) /\ chain[i].op # "created"
  BY <1>2, NowIs DEF Fits, IInv, ChainInv, Chained
<1>11. chain' \in Seq(Ops) /\ ChainInv'
  BY <1>1, <1>7, <1>8, <1>9, <1>10, RestStays DEF Rested
<1> QED BY <1>1, <1>6, <1>7, <1>11, TypesRest, SessionsRest DEF IInv

(* An aborted caller's queued operation is withdrawn; it had but one.      *)
LEMMA Withdrawn ==
  ASSUME IInv, Rested, NEW p \in Callers, chain' = Without(p), call[p].at \in {"commit", "check"},
         Looser(Now, Now'),
         \A q \in Callers : call[q].at \in {"commit", "check", "append"} /\ q # p
                            => call'[q].at = call[q].at,
         entry.phase = "reserved" \/ entry'.phase # "reserved",
         \A i \in DOMAIN chain :
           /\ chain[i].op = "read" /\ chain[i].current => entry'.phase = "loading"
           /\ chain[i].op = "created" => entry'.phase \in {"none", "loading"}
  PROVE  chain' \in Seq(Ops) /\ ChainInv'
<1>1. chain \in Seq(Ops) /\ Chained(chain, Now) /\ Steady
  BY DEF IInv, TypeOK, ChainInv, Steady
<1>2. ASSUME NEW i \in DOMAIN chain, ~Withdrawable(p, chain[i])
      PROVE  Fits(chain[i], Now')
  <2> DEFINE u == chain[i]
  <2>1. Fits(u, Now) /\ ~(u.who = p /\ u.op \in {"commit", "check"})
    BY <1>1, <1>2 DEF Chained, Withdrawable
  <2>2. /\ u.op = "read" /\ u.current => entry'.phase = "loading"
        /\ u.op = "created" => entry'.phase \in {"none", "loading"}
    OBVIOUS
  <2> HIDE DEF u
  <2>3. u.op \in {"commit", "check", "append"} =>
          u.who \in Callers /\ u.who # p /\ call'[u.who].at = u.op
    BY <2>1, NowIs DEF Fits
  <2>4. u.op = "commit" => entry'.phase # "reserved"
    BY <2>1, NowIs DEF Fits
  <2>5. Fits(u, Now')
    BY <2>1, <2>2, <2>3, <2>4, <1>1, FitsRest
  <2> QED BY <2>5 DEF u
<1>3. ASSUME chain # <<>> PROVE Runs(chain[1], Now')
  <2>1. Runs(chain[1], Now)
    BY <1>1, <1>3 DEF Chained
  <2> QED BY <2>1, NowIs DEF Runs, Rested
<1>4. CASE \E i \in DOMAIN chain : Withdrawable(p, chain[i])
  <2> DEFINE k == CHOOSE i \in DOMAIN chain : Withdrawable(p, chain[i])
  <2>1. k \in DOMAIN chain /\ Withdrawable(p, chain[k])
    BY <1>4
  <2>2. chain' = RemoveAt(chain, k)
    BY <1>4 DEF Without
  <2> HIDE DEF k
  <2>3. ASSUME NEW i \in DOMAIN chain, i # k
        PROVE  ~Withdrawable(p, chain[i])
    <3> SUFFICES ASSUME Withdrawable(p, chain[i]) PROVE FALSE
      OBVIOUS
    <3>1. Fits(chain[i], Now) /\ Fits(chain[k], Now)
      BY <1>1, <2>1 DEF Chained
    <3>2. chain[i].op = call[p].at /\ chain[k].op = call[p].at
          /\ chain[i].who = p /\ chain[k].who = p
      BY <3>1, <2>1, NowIs DEF Fits, Withdrawable
    <3>3. i \in Nat /\ k \in Nat
      BY <1>1, <2>1, LenProperties
    <3>4. CASE i < k
      <4>1. Precedes(chain[i], chain[k], Now)
        BY <1>1, <2>1, <3>4 DEF Chained
      <4> QED BY <4>1, <3>2 DEF Precedes
    <3>5. CASE k < i
      <4>1. Precedes(chain[k], chain[i], Now)
        BY <1>1, <2>1, <3>5 DEF Chained
      <4> QED BY <4>1, <3>2 DEF Precedes
    <3> QED BY <2>3, <3>3, <3>4, <3>5
  <2>4. \A i \in DOMAIN chain : i # k => Fits(chain[i], Now')
    BY <1>2, <2>3
  <2>5. chain # <<>>
    BY <2>1, <1>1
  <2>6. RemoveAt(chain, k) \in Seq(Ops) /\ Chained(RemoveAt(chain, k), Now')
    BY <1>1, <1>3, <2>1, <2>4, <2>5, ChainLoses
  <2> QED BY <2>2, <2>6 DEF ChainInv
<1>5. CASE ~\E i \in DOMAIN chain : Withdrawable(p, chain[i])
  <2>1. chain' = chain /\ \A i \in DOMAIN chain : Fits(chain[i], Now')
    BY <1>2, <1>5 DEF Without
  <2>2. Chained(chain, Now')
    BY <1>1, <1>3, <2>1, ChainKept
  <2> QED BY <1>1, <2>1, <2>2 DEF ChainInv
<1> QED BY <1>4, <1>5

(* Abort: what had started goes on, what was queued is withdrawn.          *)
LEMMA AbortKeeps ==
  ASSUME IInv, NEW p \in Callers, Abort(p)
  PROVE  IInv'
<1> DEFINE begun == call[p].at = "commit" /\ Head(chain).who = p /\ Head(chain).stage # "queued"
           c == [call EXCEPT ![p] = Idle]
<1>1. /\ Rested /\ Steady /\ call \in [Callers -> CallStates] /\ call[p] \in CallStates
      /\ entry \in [phase : Phases, src : Sources]
      /\ call[p].at \in {"begin", "cleared", "loading", "joined", "asleep", "commit", "check"}
  BY DEF Abort, Rested, Steady, IInv, TypeOK
<1>2. Moved(c) /\ c[p] = Idle /\ \A q \in Callers : q # p => c[q] = call[q]
  BY IdleMoves DEF c
<1>3. \A i \in DOMAIN chain :
        /\ Fits(chain[i], Now)
        /\ chain[i].op = "read" /\ chain[i].current => entry.phase = "loading"
        /\ chain[i].op = "created" => entry.phase \in {"none", "loading"}
  BY NowIs DEF Fits, IInv, ChainInv, Chained
<1>4. CASE begun
  <2>1. call' = [call EXCEPT ![p].aborted = TRUE] /\ entry' = entry /\ chain' = chain
    BY <1>4 DEF Abort
  <2> DEFINE d == [call[p] EXCEPT !.aborted = TRUE]
  <2>2. /\ d \in CallStates /\ d.at = call[p].at /\ d.attached = call[p].attached
        /\ d.src = call[p].src /\ d.op = call[p].op
    BY <1>1 DEF CallStates
  <2>3. call' = [call EXCEPT ![p] = d]
    BY <2>1, <1>1
  <2> HIDE DEF d
  <2>4. /\ call' \in [Callers -> CallStates]
        /\ \A q \in Callers : /\ call'[q].at = call[q].at /\ call'[q].attached = call[q].attached
                              /\ call'[q].src = call[q].src /\ call'[q].op = call[q].op
    BY <2>2, <2>3, <1>1
  <2>5. Looser(Now, Now')
    BY <2>4, NowIs DEF Looser
  <2>6. chain' \in Seq(Ops) /\ ChainInv'
    BY <1>1, <1>3, <2>1, <2>4, <2>5, RestStays DEF Rested
  <2>7. Preparation'
    BY <1>1, <2>1, <2>4 DEF IInv, Preparation, Held, Committing, Sound, Revision, Rested, storage
  <2> QED BY <1>1, <2>1, <2>4, <2>6, <2>7, TypesRest, SessionsRest DEF IInv
<1>5. CASE ~begun /\ call[p].at \notin {"commit", "check"}
  <2>1. \A i \in DOMAIN chain : ~Withdrawable(p, chain[i])
    BY <1>3, <1>5, NowIs DEF Fits, Withdrawable
  <2>2. chain' = chain
    BY <1>5, <2>1 DEF Abort, Without
  <2>3. call' = [call EXCEPT ![p] = Idle] /\ entry' = entry
    BY <1>5 DEF Abort, Rejected
  <2>4. Bystander(call[p])
    BY <1>1, <1>5 DEF Bystander
  <2> QED BY <2>2, <2>3, <2>4, <1>1, IdleCaller, CallMoves DEF Rested
<1> HIDE DEF c
<1>6. CASE ~begun /\ (call[p].at = "check" \/ (call[p].at = "commit" /\ ~call[p].attached))
  <2>1. chain' = Without(p) /\ call' = c /\ entry' = entry
    BY <1>6 DEF Abort, Drop, Rejected, c
  <2>2. Looser(Now, Now')
    BY <2>1, <1>2, IdleCaller, NowIs DEF Looser
  <2>3. chain' \in Seq(Ops) /\ ChainInv'
    BY <1>1, <1>2, <1>3, <1>6, <2>1, <2>2, Withdrawn
  <2>4. Preparation' /\ call' \in [Callers -> CallStates]
    BY <1>1, <1>2, <2>1, PrepMoved DEF Moved
  <2> QED BY <1>1, <2>1, <2>3, <2>4, TypesRest, SessionsRest DEF IInv
<1>7. CASE ~begun /\ call[p].at = "commit" /\ call[p].attached
  <2>1. chain' = Without(p) /\ call' = RemovedFor(c) /\ entry' = NoEntry
    BY <1>7 DEF Abort, Drop, Rejected, c
  <2>2. entry.phase = "committing"
    BY <1>7 DEF IInv, Preparation, Committing
  <2>3. c \in [Callers -> CallStates] /\ \A q \in Callers : c[q].at # "held"
    <3>1. \A q \in Callers : ~Held(q)
      BY <2>2 DEF IInv, Preparation
    <3> QED BY <3>1, <1>2, IdleCaller DEF Moved, Held, Bystander
  <2>4. Preparation'
    BY <2>1, <2>3, <1>1, <1>2, PrepRemoved DEF Rested
  <2>5. /\ call' \in [Callers -> CallStates]
        /\ \A q \in Callers : ~call'[q].attached /\ (c[q].at # "asleep" => call'[q].at = c[q].at)
    BY <2>1, <2>3, RemovedIs
  <2>6. Looser(Now, Now')
    BY <2>5, NowIs DEF Looser
  <2>7. \A q \in Callers : call[q].at \in {"commit", "check", "append"} /\ q # p
                           => call'[q].at = call[q].at
    BY <1>2, <2>5
  <2>8. entry' \in [phase : Phases, src : Sources] /\ entry'.phase = "none"
    BY <2>1, BareSource DEF NoEntry, Phases
  <2>9. \A i \in DOMAIN chain :
           ~(chain[i].op = "read" /\ chain[i].current) /\ chain[i].op # "created"
    BY <1>3, <2>2
  <2>10. chain' \in Seq(Ops) /\ ChainInv'
    BY <1>1, <1>7, <2>1, <2>6, <2>7, <2>8, <2>9, Withdrawn
  <2> QED BY <1>1, <2>4, <2>5, <2>8, <2>10, TypesRest, SessionsRest DEF IInv
<1> QED BY <1>1, <1>4, <1>5, <1>6, <1>7

-----------------------------------------------------------------------------
(* Writes.  No batch in the chain is stale: nothing was stored since it    *)
(* was handed over.                                                        *)
LEMMA EventsIs ==
  ASSUME IInv, chain # <<>>, Head(chain).op \in {"append", "batch", "suffix", "created"}
  PROVE  /\ From = Head(chain).data[1] /\ From \in Nat
         /\ Events = Head(chain).data[2] /\ Events \in Logs /\ Head(chain).data # <<>>
<1> DEFINE o == Head(chain)
<1>1. o \in Ops /\ Fits(o, Now)
  BY FirstIs
<1>2. o.data # <<>> /\ o.data[1] \in Nat /\ o.data[2] \in Logs
  <2>1. o.data # <<>> /\ o.data \in {<<>>} \cup (Nat \X Logs)
    BY <1>1 DEF Fits, Ops
  <2> HIDE DEF o
  <2> QED BY <2>1
<1>3. state.cursor \in Nat /\ (o.op = "batch" => state.cursor = o.data[1])
  BY <1>1, NowIs DEF Fits, IInv, TypeOK, States
<1>4. Stale = 0
  BY <1>2, <1>3 DEF Stale
<1>5. SubSeq(o.data[2], 1, Len(o.data[2])) = o.data[2]
  BY <1>2, SubSeqFull DEF Logs
<1>6. From = o.data[1]
  BY <1>2, <1>4 DEF From
<1>7. Events = SubSeq(o.data[2], 1, Len(o.data[2]))
  BY <1>4 DEF Events
<1> HIDE DEF o
<1>8. From \in Nat /\ Events = o.data[2] /\ Events \in Logs
  BY <1>2, <1>5, <1>6, <1>7
<1> QED BY <1>2, <1>6, <1>8 DEF o

(* While an append is queued no Session has anything in the chain.         *)
LEMMA AppendIs ==
  ASSUME IInv, chain # <<>>, Head(chain).op = "append"
  PROVE  /\ Who \in Callers /\ call[Who].at = "append"
         /\ Head(chain).data[2] = <<Ev("note", NoOne)>>
         /\ \A l \in 1..Lives : sess[l].stage \in {"unborn", "gone"} /\ ~Owns(l)
         /\ \A i \in DOMAIN chain : chain[i].op \notin {"created", "suffix", "batch", "release"}
<1>1. Who \in Callers /\ call[Who].at = "append" /\ Head(chain).data[2] = <<Ev("note", NoOne)>>
  BY FirstIs, NowIs DEF Fits, Who
<1>2. \A l \in 1..Lives : sess[l].stage \in {"unborn", "gone"}
  BY <1>1 DEF IInv, Preparation
<1>3. \A l \in 1..Lives : ~Owns(l)
  BY <1>2 DEF Owns
<1>4. \A i \in DOMAIN chain : Fits(chain[i], Now)
  BY DEF IInv, ChainInv, Chained
<1>5. \A i \in DOMAIN chain : chain[i].op \notin {"created", "suffix", "batch", "release"}
  <2> SUFFICES ASSUME NEW i \in DOMAIN chain,
                      chain[i].op \in {"created", "suffix", "batch", "release"}
               PROVE  FALSE
    OBVIOUS
  <2>1. chain[i].who \in 1..Lives /\ sess[chain[i].who].stage \in {"live", "retiring"}
    BY <1>4, NowIs DEF Fits
  <2> QED BY <2>1, <1>2
<1> QED BY <1>1, <1>2, <1>3, <1>5

(* The owner's write: nothing else in the chain is its own.                *)
LEMMA WriterIs ==
  ASSUME IInv, chain # <<>>, Head(chain).op \in {"batch", "suffix"}
  PROVE  /\ Who \in 1..Lives /\ state.owner = Who /\ state.known /\ Who # NoOne
         /\ sess[Who].stage \in {"live", "retiring"}
         /\ sess[Who].init = IF Head(chain).op = "suffix" THEN "pending" ELSE "ok"
         /\ state.cursor = Len(disk) /\ ~tear.torn
         /\ Begins(disk \o Head(chain).data[2], sess[Who].log)
         /\ \A q \in Callers : call[q].at # "append"
         /\ \A i \in DOMAIN chain : i # 1 =>
              /\ chain[i].op \notin {"batch", "suffix", "append"}
              /\ chain[i].op \in {"created", "release"} => chain[i].who # Who
<1>1. Head(chain) \in Ops /\ Fits(Head(chain), Now)
  BY FirstIs
<1>2. /\ Who \in 1..Lives /\ state.owner = Who /\ Head(chain).data # <<>>
      /\ sess[Who].stage \in {"live", "retiring"} /\ Head(chain).data[2] # <<>>
      /\ sess[Who].init = IF Head(chain).op = "suffix" THEN "pending" ELSE "ok"
      /\ state.cursor = Len(disk) /\ ~tear.torn
      /\ Begins(disk \o Head(chain).data[2], sess[Who].log)
  BY <1>1, NowIs DEF Fits, Who
<1>3. Who # NoOne /\ state.known
  BY <1>2, CoordinatorAssumption DEF IInv, Ownership, NoOne
<1>4. \A q \in Callers : call[q].at # "append"
  BY <1>2 DEF IInv, Preparation
<1>5. sess[Who].log \in Logs /\ disk \in Logs /\ state.owner \in 0..Lives
  BY <1>2 DEF IInv, TypeOK, Sessions, States
<1>6. Head(chain).data[2] \in Logs /\ Len(Head(chain).data[2]) \in Nat \ {0}
  <2>1. Head(chain).data \in Nat \X Logs
    BY <1>1, <1>2 DEF Ops
  <2>2. Head(chain).data[2] \in Logs
    BY <2>1
  <2> DEFINE s == Head(chain).data[2]
  <2> HIDE DEF s
  <2>3. s \in Logs /\ s # <<>>
    BY <1>2, <2>2 DEF s
  <2>4. Len(s) \in Nat \ {0}
    BY <2>3, LenProperties, EmptySeq DEF Logs
  <2> QED BY <2>2, <2>4 DEF s
<1>7. Len(sess[Who].log) > Len(disk) /\ sess[Who].log # <<>>
  <2>1. Len(disk) + Len(Head(chain).data[2]) <= Len(sess[Who].log)
    BY <1>2, <1>5, <1>6, BeginsJoined
  <2>2. Len(disk) \in Nat /\ Len(sess[Who].log) \in Nat
    BY <1>5, LenProperties DEF Logs
  <2>3. Len(sess[Who].log) > Len(disk) /\ Len(sess[Who].log) # 0
    BY <2>1, <2>2, <1>6
  <2> QED BY <2>3
<1>8. ASSUME NEW i \in DOMAIN chain, i # 1
      PROVE  /\ chain[i].op \notin {"batch", "suffix", "append"}
             /\ chain[i].op \in {"created", "release"} => chain[i].who # Who
  <2>1. Fits(chain[i], Now) /\ Precedes(Head(chain), chain[i], Now)
    BY <1>8, FirstIs
  <2>2. chain[i].op \notin {"batch", "suffix"}
    BY <2>1 DEF Precedes
  <2>3. chain[i].op # "append"
    BY <2>1, <1>4, NowIs DEF Fits
  <2>4. chain[i].op = "created" => chain[i].who # Who
    BY <2>1, <1>2, <1>5, NowIs DEF Fits
  <2>5. chain[i].op = "release" => chain[i].who # Who
    <3> SUFFICES ASSUME chain[i].op = "release", chain[i].who = Who PROVE FALSE
      OBVIOUS
    <3>1. Len(sess[Who].log) <= state.cursor
      BY <2>1, <1>7, NowIs DEF Fits
    <3>2. Len(disk) \in Nat /\ Len(sess[Who].log) \in Nat
      BY <1>5, LenProperties DEF Logs
    <3> QED BY <3>1, <3>2, <1>2, <1>7
  <2> QED BY <2>2, <2>3, <2>4, <2>5
<1> QED BY <1>2, <1>3, <1>4, <1>8

(* A write that rejects, or is to be written again.                        *)
LEMMA WriterFails ==
  ASSUME IInv, chain # <<>>, Head(chain).op \in {"batch", "suffix"}, Rejects \/ Requeued,
         UNCHANGED <<storage, state, entry, store>>
  PROVE  IInv'
<1> DEFINE f == [sess[Who] EXCEPT
                   !.init = IF Head(chain).op = "suffix" THEN "failed" ELSE @,
                   !.stage = IF Head(chain).op = "batch" /\ @ = "retiring" THEN "stuck" ELSE @]
           s == IF Rejects THEN f ELSE sess[Who]
<1>0. Who \in 1..Lives /\ sess \in [1..Lives -> Sessions]
  BY WriterIs DEF IInv, TypeOK
<1>1. chain' = Tail(chain) /\ call' = call /\ sess' = [sess EXCEPT ![Who] = s]
  <2>1. CASE Rejects
    BY <1>0, <2>1 DEF Rejects, Sessions
  <2>2. CASE ~Rejects /\ Requeued
    BY <1>0, <2>2 DEF Requeued
  <2> QED BY <2>1, <2>2
<1>2. /\ Who \in 1..Lives /\ state.owner = Who /\ state.known /\ Who # NoOne
      /\ sess[Who].stage \in {"live", "retiring"}
      /\ \A i \in DOMAIN chain : i # 1 =>
           /\ chain[i].op \notin {"batch", "suffix", "append"}
           /\ chain[i].op \in {"created", "release"} => chain[i].who # Who
  BY WriterIs
<1>3. TypeOK /\ sess \in [1..Lives -> Sessions] /\ sess[Who] \in Sessions
  BY <1>2 DEF IInv, TypeOK
<1>4. /\ s \in Sessions /\ s.log = sess[Who].log
      /\ s.init \in {sess[Who].init, "failed"}
      /\ s.stage = sess[Who].stage \/ (sess[Who].stage = "retiring" /\ s.stage = "stuck")
  BY <1>3 DEF Sessions
<1> HIDE DEF s
<1>5. sess'[Who] = s /\ \A l \in 1..Lives : l # Who => sess'[l] = sess[l]
  BY <1>1, <1>2, <1>3
<1>6. sess' \in [1..Lives -> Sessions]
  BY <1>1, <1>3, <1>4
<1>7. \A q \in Callers : call[q].at # "append"
  BY WriterIs
<1>8. Preparation'
  BY <1>1, <1>7 DEF IInv, Preparation, Held, Committing, Revision, storage
<1>9. Lineage'
  <2>1. store # NoOne => store \in 1..Lives
    BY <1>3 DEF TypeOK, NoOne, CoordinatorAssumption
  <2>2. \A l \in 1..Lives : /\ sess'[l].stage = "unborn" <=> sess[l].stage = "unborn"
                            /\ sess'[l].stage = "live" <=> sess[l].stage = "live"
                            /\ sess'[l].stage = "unborn" => sess'[l] = sess[l]
    BY <1>2, <1>4, <1>5
  <2>3. store' = store
    OBVIOUS
  <2>4. \A l \in 1..Lives : l..Lives \subseteq 1..Lives
    BY CoordinatorAssumption
  <2> QED BY <2>1, <2>2, <2>3, <2>4 DEF IInv, Lineage
<1>10. Ownership'
  <2>1. sess'[Who].stage # "unborn"
    BY <1>2, <1>4, <1>5
  <2>2. \A l \in 1..Lives : Owns(l)' => Owns(l)
    BY <1>2, <1>4, <1>5 DEF Owns
  <2>3. \A l \in 1..Lives : sess'[l].log = sess[l].log
    BY <1>4, <1>5
  <2> QED BY <1>2, <2>1, <2>2, <2>3 DEF IInv, Ownership, storage
<1>11. ASSUME NEW i \in DOMAIN chain, i # 1
       PROVE  Fits(chain[i], Now')
  <2> DEFINE u == chain[i]
  <2>1. /\ Fits(u, Now) /\ u.op \notin {"batch", "suffix", "append"}
        /\ u.op \in {"created", "release"} => u.who # Who
    BY <1>2, <1>11, FirstIs
  <2> HIDE DEF u
  <2>2. u.op \in {"created", "release"} => sess'[u.who] = sess[u.who]
    BY <2>1, <1>5, NowIs DEF Fits
  <2>3. Fits(u, Now')
    BY <1>1, <2>1, <2>2, NowIs DEF Fits, storage
  <2> QED BY <2>3 DEF u
<1>12. Looser(Now, Now')
  BY <1>1, NowIs DEF Looser
<1>13. chain' \in Seq(Ops) /\ ChainInv'
  <2>1. chain \in Seq(Ops) /\ Chained(chain, Now)
    BY DEF IInv, TypeOK, ChainInv
  <2>2. Tail(chain) \in Seq(Ops) /\ Chained(Tail(chain), Now')
    BY <2>1, <1>11, <1>12, ChainPops
  <2> QED BY <2>2, <1>1 DEF ChainInv
<1>14. TypeOK'
  BY <1>1, <1>3, <1>6, <1>13 DEF TypeOK, storage
<1> QED BY <1>8, <1>9, <1>10, <1>13, <1>14 DEF IInv

(* A write that rejects keeps the invariant, also one that has adopted.    *)
LEMMA RejectsKeeps ==
  ASSUME IInv, IsWrite, Rejects, UNCHANGED <<storage, entry, store>>,
         state' = state \/ (Freed /\ Head(chain).op = "append" /\ \A q \in Callers : ~Held(q))
  PROVE  IInv'
<1>1. CASE Head(chain).op = "append"
  <2> DEFINE p == Who
  <2>1. p \in Callers /\ call[p].at = Head(chain).op
    BY <1>1, AppendIs DEF IsWrite
  <2>2. chain # <<>> /\ chain' = Tail(chain) /\ call' = [call EXCEPT ![p] = Idle] /\ sess' = sess
    BY <1>1 DEF Rejects, Rejected, IsWrite
  <2>3. Idle \in CallStates /\ Bystander(Idle) /\ Sound(Idle)
    BY IdleCaller
  <2>4. Steady /\ (Rested \/ \A q \in Callers : ~Held(q))
    BY <2>2 DEF Steady, Rested
  <2>5. p = Head(chain).who
    BY DEF Who
  <2> HIDE DEF p
  <2> QED BY <1>1, <2>1, <2>2, <2>3, <2>4, <2>5, OneLeaves
<1>2. CASE Head(chain).op # "append"
  BY <1>2, WriterFails DEF IsWrite
<1> QED BY <1>1, <1>2

(* WriteRefused: a failed write leaves the store alone.                    *)
LEMMA WriteRefusedKeeps ==
  ASSUME IInv, WriteRefused
  PROVE  IInv'
<1>1. CASE Rejects
  BY <1>1, RejectsKeeps DEF WriteRefused
<1>2. CASE Requeued
  BY <1>2, WriterFails DEF WriteRefused, Requeued, IsWrite
<1> QED BY <1>1, <1>2 DEF WriteRefused

(* The first operation changes its stage.                                  *)
LEMMA StageKeeps ==
  ASSUME IInv, chain # <<>>, NEW stage \in {"adopting", "writing"},
         chain' = [chain EXCEPT ![1].stage = stage], Looser(Now, Now'),
         \A i \in DOMAIN chain : Fits(chain[i], Now'),
         stage = "adopting" => Head(chain).op = "append" /\ ~state'.known,
         stage = "writing" => Head(chain).op \in {"append", "batch", "suffix"} /\ state'.known,
         entry'.phase # "reserved"
  PROVE  chain' \in Seq(Ops) /\ ChainInv'
<1>1. /\ chain \in Seq(Ops) /\ Chained(chain, Now) /\ chain[1] \in Ops
      /\ chain[1].op = Head(chain).op
  BY FirstIs DEF IInv, TypeOK, ChainInv
<1>2. Runs([chain[1] EXCEPT !.stage = stage], Now')
  <2> DEFINE o == [chain[1] EXCEPT !.stage = stage]
  <2>1. o.op = Head(chain).op /\ o.stage = stage
    BY <1>1 DEF Ops
  <2> HIDE DEF o
  <2>2. Runs(o, Now')
    BY <2>1, NowIs DEF Runs
  <2> QED BY <2>2 DEF o
<1>3. stage \in {"queued", "checking", "repairing", "adopting", "writing"}
  OBVIOUS
<1> DEFINE t == [chain EXCEPT ![1].stage = stage]
<1>4. t \in Seq(Ops) /\ Chained(t, Now')
  BY <1>1, <1>2, <1>3, ChainStarts
<1>5. chain' = t
  OBVIOUS
<1> HIDE DEF t
<1> QED BY <1>4, <1>5 DEF ChainInv

(* WriteStarts: it writes at the cursor, or adopts, or rejects.            *)
LEMMA WriteStartsKeeps ==
  ASSUME IInv, WriteStarts
  PROVE  IInv'
<1>1. /\ chain # <<>> /\ Head(chain).op \in {"append", "batch", "suffix"} /\ IsWrite
      /\ UNCHANGED <<storage, state, store>> /\ call \in [Callers -> CallStates]
      /\ entry \in [phase : Phases, src : Sources]
  BY DEF WriteStarts, IsWrite, IInv, TypeOK
<1>2. CASE ~Writable \/ (state.known /\ From # state.cursor)
  <2>1. Rejects /\ entry' = entry
    BY <1>2 DEF WriteStarts
  <2> QED BY <2>1, <1>1, RejectsKeeps
<1>3. CASE Writable /\ ~state.known
  <2>1. /\ chain' = [chain EXCEPT ![1].stage = "adopting"] /\ UNCHANGED sess
        /\ IF entry.phase = "ready" THEN entry' = NoEntry /\ call' = RemovedFor(call)
                                    ELSE UNCHANGED <<entry, call>>
    BY <1>3 DEF WriteStarts
  <2>2. Rested /\ Steady
    BY <1>1, <2>1 DEF Rested, Steady
  <2>3. Head(chain).op = "append"
    BY <1>1, <1>3, WriterIs
  <2>4. entry.phase \in {"none", "loading", "ready"} /\ \A q \in Callers : ~Held(q)
    BY <1>1, <1>3 DEF Writable, Phases, IInv, Preparation
  <2>5. /\ entry' \in [phase : Phases, src : Sources] /\ call' \in [Callers -> CallStates]
        /\ entry'.phase \in {"none", "loading"}
        /\ \A q \in Callers : /\ call'[q].attached => call[q].attached
                              /\ call[q].at # "asleep" => call'[q].at = call[q].at
        /\ Preparation'
    <3>1. CASE entry.phase = "ready"
      <4>1. entry' = NoEntry /\ call' = RemovedFor(call) /\ Moved(call)
        BY <2>1, <3>1, <1>1 DEF Moved
      <4>2. \A q \in Callers : call[q].at # "held"
        BY <2>4 DEF Held
      <4>3. Preparation'
        BY <4>1, <4>2, <2>1, PrepRemoved
      <4>4. entry' \in [phase : Phases, src : Sources] /\ entry'.phase = "none"
        BY <4>1, BareSource DEF NoEntry, Phases
      <4> QED BY <4>1, <4>3, <4>4, <1>1, RemovedIs
    <3>2. CASE entry.phase # "ready"
      <4>1. entry' = entry /\ call' = call
        BY <2>1, <3>2
      <4>2. Moved(call')
        BY <4>1, <1>1 DEF Moved
      <4> QED BY <4>1, <4>2, <2>2, <2>4, <3>2, <1>1, PrepMoved
    <3> QED BY <3>1, <3>2
  <2>6. Looser(Now, Now')
    BY <2>5, NowIs DEF Looser
  <2>7. \A i \in DOMAIN chain :
          /\ chain[i].op = "read" /\ chain[i].current => entry'.phase = "loading"
          /\ chain[i].op = "created" => entry'.phase \in {"none", "loading"}
    <3>1. \A i \in DOMAIN chain : chain[i].op = "read" /\ chain[i].current => entry.phase = "loading"
      BY NowIs DEF Fits, IInv, ChainInv, Chained
    <3> QED BY <3>1, <2>1, <2>5
  <2>8. \A i \in DOMAIN chain : Fits(chain[i], Now')
    BY <2>2, <2>5, <2>7, RestFits
  <2>9. chain' \in Seq(Ops) /\ ChainInv'
    BY <1>1, <1>3, <2>1, <2>3, <2>5, <2>6, <2>8, StageKeeps
  <2> QED BY <2>2, <2>5, <2>9, TypesRest, SessionsRest DEF IInv
<1>4. CASE Writable /\ state.known /\ From = state.cursor
  <2>1. chain' = [chain EXCEPT ![1].stage = "writing"] /\ UNCHANGED <<entry, call, sess>>
    BY <1>4 DEF WriteStarts
  <2>2. Rested /\ Steady /\ Moved(call') /\ entry'.phase # "reserved"
    BY <1>1, <1>4, <2>1 DEF Rested, Steady, Moved, Writable
  <2>3. Now' = Now
    BY <1>1, <2>1 DEF Now, storage
  <2>4. Looser(Now, Now') /\ \A i \in DOMAIN chain : Fits(chain[i], Now')
    BY <2>3 DEF Looser, IInv, ChainInv, Chained
  <2>5. chain' \in Seq(Ops) /\ ChainInv'
    BY <1>1, <1>4, <2>1, <2>2, <2>4, StageKeeps
  <2> QED BY <1>1, <2>1, <2>2, <2>5, PrepMoved, TypesRest, SessionsRest DEF IInv
<1> QED BY <1>2, <1>3, <1>4

(* While an append adopts, the state is unknown and nothing is held.       *)
LEMMA AdoptingIs ==
  ASSUME IInv, IsWrite, Head(chain).stage = "adopting"
  PROVE  /\ chain # <<>> /\ Head(chain).op = "append" /\ ~state.known /\ state.owner = NoOne
         /\ state \in States /\ entry.phase # "reserved" /\ \A q \in Callers : ~Held(q)
         /\ call \in [Callers -> CallStates] /\ entry \in [phase : Phases, src : Sources]
<1>1. chain # <<>>
  BY DEF IsWrite
<1>2. Head(chain).op = "append" /\ ~state.known /\ entry.phase # "reserved"
  BY <1>1, FirstIs, NowIs DEF Runs
<1>3. state.owner = NoOne /\ \A q \in Callers : ~Held(q)
  BY <1>2 DEF IInv, Ownership, Preparation
<1> QED BY <1>1, <1>2, <1>3 DEF IInv, TypeOK

(* AdoptRepairs: a repair leaves no tear and no open turn.                 *)
LEMMA AdoptRepairsKeeps ==
  ASSUME IInv, AdoptRepairs
  PROVE  IInv'
<1>1. /\ IsWrite /\ Head(chain).stage = "adopting" /\ WriteRepair(Prepared.closers)
      /\ UNCHANGED <<state, entry, chain, call, sess, store>>
  BY DEF AdoptRepairs
<1>2. Freed /\ Steady
  <2>1. Stored \o Prepared.closers \in Logs
    BY PreparedSource, ConcatProperties DEF IInv, Logs
  <2>2. Clean \in Tears /\ Clean.holds = <<>>
    BY BareSource DEF Clean, Tears
  <2>3. Freed
    BY <1>1, <2>1, <2>2, AdoptingIs DEF Freed, WriteRepair
  <2> QED BY <2>3 DEF Steady
<1>3. Moved(call') /\ Looser(Now, Now')
  BY <1>1, AdoptingIs, NowIs DEF Moved, Looser
<1>4. \A i \in DOMAIN chain :
        /\ chain[i].op = "read" /\ chain[i].current => entry'.phase = "loading"
        /\ chain[i].op = "created" => entry'.phase \in {"none", "loading"}
  BY <1>1, NowIs DEF Fits, IInv, ChainInv, Chained
<1>5. chain' \in Seq(Ops) /\ ChainInv'
  BY <1>1, <1>2, <1>3, <1>4, RestStays
<1>6. Preparation'
  BY <1>1, <1>2, <1>3, AdoptingIs, PrepMoved
<1> QED BY <1>1, <1>2, <1>5, <1>6, AdoptingIs, TypesRest, SessionsRest DEF IInv

(* AdoptDone: the cursor is set on a log with nothing to repair.           *)
LEMMA AdoptDoneKeeps ==
  ASSUME IInv, AdoptDone
  PROVE  IInv'
<1>1. /\ IsWrite /\ Head(chain).stage = "adopting" /\ (Exists => ~NeedsRepair(Prepared))
      /\ UNCHANGED <<storage, entry, store>> /\ TypeOK
  BY DEF AdoptDone, IInv
<1>2. CASE ~Exists
  <2>1. Rejects /\ state' = state
    BY <1>2 DEF AdoptDone
  <2> QED BY <1>1, <2>1, RejectsKeeps
<1>3. CASE Exists
  <2>1. state' = [cursor |-> Len(disk), owner |-> NoOne, known |-> TRUE]
    BY <1>3 DEF AdoptDone
  <2>2. ~tear.torn /\ ~OpenTurn(disk)
    BY <1>1, <1>3, PreparedSource, SourceIs
  <2>3. Len(disk) \in Nat /\ 0 \in 0..Lives
    BY <1>1, LenProperties, CoordinatorAssumption DEF TypeOK, Logs
  <2>4. state' \in States /\ state'.owner = NoOne /\ state'.cursor = Len(disk) /\ state'.known
    BY <2>1, <2>3 DEF States, NoOne
  <2>5. sess' = sess
    BY <1>1, <1>3, AdoptingIs DEF AdoptDone, Rejects
  <2>6. Freed /\ Steady
    <3>1. Freed
      BY <1>1, <2>2, <2>4, <2>5, AdoptingIs DEF Freed, TypeOK, storage
    <3> QED BY <3>1 DEF Steady
  <2>7. CASE From # Len(disk)
    <3>1. Rejects
      BY <1>3, <2>7 DEF AdoptDone
    <3> QED BY <1>1, <2>6, <3>1, AdoptingIs, RejectsKeeps
  <2>8. CASE From = Len(disk)
    <3>1. chain' = [chain EXCEPT ![1].stage = "writing"] /\ UNCHANGED <<call, sess>>
      BY <1>3, <2>8 DEF AdoptDone
    <3>2. Moved(call') /\ Looser(Now, Now')
      BY <3>1, AdoptingIs, <1>1, NowIs DEF Moved, Looser
    <3>3. \A i \in DOMAIN chain :
            /\ chain[i].op = "read" /\ chain[i].current => entry'.phase = "loading"
            /\ chain[i].op = "created" => entry'.phase \in {"none", "loading"}
      BY <1>1, NowIs DEF Fits, IInv, ChainInv, Chained
    <3>4. entry'.phase # "reserved" /\ \A i \in DOMAIN chain : Fits(chain[i], Now')
      BY <1>1, <2>6, <3>1, <3>3, AdoptingIs, RestFits
    <3>5. chain # <<>> /\ Head(chain).op = "append"
      BY <1>1, AdoptingIs
    <3>6. chain' \in Seq(Ops) /\ ChainInv'
      BY <2>4, <3>1, <3>2, <3>4, <3>5, StageKeeps
    <3>7. Preparation'
      BY <1>1, <2>6, <3>2, AdoptingIs, PrepMoved
    <3> QED BY <1>1, <2>6, <3>1, <3>6, <3>7, AdoptingIs, TypesRest, SessionsRest DEF IInv
  <2> QED BY <2>7, <2>8
<1> QED BY <1>2, <1>3

(* The first operation ends; reads still queued no longer ready the entry. *)
LEMMA OrphanPops ==
  ASSUME IInv, chain # <<>>, Looser(Now, Now'), chain' = Orphaned(Tail(chain)),
         \A i \in DOMAIN chain : i # 1 /\ chain[i].op # "read" => Fits(chain[i], Now')
  PROVE  chain' \in Seq(Ops) /\ ChainInv'
<1> DEFINE t == Orphaned(chain)
           r == Tail(chain)
<1>1. chain \in Seq(Ops) /\ Chained(chain, Now)
  BY DEF IInv, TypeOK, ChainInv
<1>2. t \in Seq(Ops) /\ Chained(t, Now)
  BY <1>1, ChainOrphans
<1>3. /\ Len(chain) \in Nat \ {0} /\ DOMAIN chain = 1..Len(chain)
      /\ \A i \in 1..Len(chain) : chain[i] \in Ops
  BY <1>1, LenProperties, EmptySeq
<1>4. DOMAIN t = 1..Len(chain) /\ \A i \in 1..Len(chain) : t[i] = [chain[i] EXCEPT !.current = FALSE]
  BY <1>3 DEF Orphaned
<1>5. /\ r \in Seq(Ops) /\ Len(r) = Len(chain) - 1 /\ DOMAIN r = 1..(Len(chain) - 1)
      /\ \A i \in 1..(Len(chain) - 1) : r[i] = chain[i + 1]
  BY <1>1, <1>3, HeadTailProperties, LenProperties
<1> HIDE DEF t, r
<1>6. Len(t) = Len(chain) /\ t # <<>>
  BY <1>2, <1>3, <1>4, LenProperties
<1>7. \A i \in DOMAIN t : i # 1 => Fits(t[i], Now')
  <2> SUFFICES ASSUME NEW i \in DOMAIN t, i # 1 PROVE Fits(t[i], Now')
    OBVIOUS
  <2> DEFINE u == chain[i]
             o == t[i]
  <2>1. /\ u \in Ops /\ o = [u EXCEPT !.current = FALSE] /\ (u.op # "read" => Fits(u, Now'))
    BY <1>3, <1>4
  <2> HIDE DEF u, o
  <2>2. o.op = u.op /\ o.who = u.who /\ o.data = u.data /\ o.current = FALSE
    BY <2>1 DEF Ops
  <2>3. Fits(o, Now')
    BY <2>1, <2>2 DEF Fits
  <2> QED BY <2>3 DEF o
<1>8. Tail(t) \in Seq(Ops) /\ Chained(Tail(t), Now')
  BY <1>2, <1>6, <1>7, ChainPops
<1>9. /\ Len(Tail(t)) = Len(chain) - 1 /\ DOMAIN Tail(t) = 1..(Len(chain) - 1)
      /\ \A i \in 1..(Len(chain) - 1) : Tail(t)[i] = t[i + 1]
  BY <1>2, <1>3, <1>6, HeadTailProperties, LenProperties
<1>10. Tail(t) = [i \in 1..(Len(chain) - 1) |-> Tail(t)[i]]
  <2>1. Tail(t) \in [1..(Len(chain) - 1) -> Ops]
    BY <1>8, <1>9, LenProperties
  <2> QED BY <2>1
<1>11. \A i \in 1..(Len(chain) - 1) : Tail(t)[i] = [r[i] EXCEPT !.current = FALSE]
  <2> TAKE i \in 1..(Len(chain) - 1)
  <2>1. i + 1 \in 1..Len(chain)
    BY <1>3
  <2> QED BY <2>1, <1>4, <1>5, <1>9
<1>12. Orphaned(r) = [i \in 1..(Len(chain) - 1) |-> [r[i] EXCEPT !.current = FALSE]]
  BY <1>5 DEF Orphaned
<1>13. Tail(t) = Orphaned(r)
  BY <1>10, <1>11, <1>12
<1>14. chain' = Tail(t)
  BY <1>13 DEF r
<1> QED BY <1>8, <1>14 DEF ChainInv

(* What was written is stored and the entry is gone, whoever wrote.        *)
LEMMA WrittenIs ==
  ASSUME IInv, WriteDone
  PROVE  /\ chain # <<>> /\ Head(chain).op \in {"append", "batch", "suffix"} /\ state.known
         /\ Head(chain).data[2] \in Logs /\ disk' = disk \o Head(chain).data[2]
         /\ disk' \in Logs /\ acked' \in Logs /\ ~tear'.torn /\ tear' \in Tears /\ tear'.holds = <<>>
         /\ Len(disk') = Len(disk) + Len(Head(chain).data[2])
         /\ state' \in States /\ state'.owner = state.owner /\ state'.known
         /\ state'.cursor = state.cursor + Len(Head(chain).data[2])
         /\ \A q \in Callers : ~Held(q)
<1> DEFINE e == Head(chain).data[2]
<1>1. /\ chain # <<>> /\ Head(chain).op \in {"append", "batch", "suffix"} /\ Events = e
      /\ Events \in Logs
  BY EventsIs DEF WriteDone, IsWrite
<1>9. state.known /\ entry.phase # "reserved"
  BY <1>1, FirstIs, NowIs DEF WriteDone, Runs
<1>2. disk \in Logs /\ disk \o <<>> = disk /\ state \in States /\ ~tear.torn
  BY <1>9, ConcatEmptySeq DEF IInv, TypeOK, Ownership, Logs
<1>3. disk' = disk \o Events /\ acked' = disk \o Events
  BY <1>2 DEF WriteDone
<1>4. disk \o Events \in Logs /\ Len(disk \o Events) = Len(disk) + Len(Events)
  BY <1>1, <1>2, ConcatProperties DEF Logs
<1>5. tear' = Clean /\ Clean \in Tears /\ Clean.holds = <<>> /\ ~Clean.torn
  BY BareSource DEF Clean, Tears, WriteDone
<1>6. Len(Events) \in Nat
  BY <1>1, LenProperties DEF Logs
<1>7. state' = [state EXCEPT !.cursor = state.cursor + Len(Events)]
  BY DEF WriteDone
<1>8. /\ state' \in States /\ state'.owner = state.owner /\ state'.known = state.known
      /\ state'.cursor = state.cursor + Len(Events)
  BY <1>2, <1>6, <1>7 DEF States
<1>10. \A q \in Callers : ~Held(q)
  BY <1>9 DEF IInv, Preparation
<1> HIDE DEF e
<1>11. /\ disk' = disk \o e /\ e \in Logs /\ Len(disk') = Len(disk) + Len(e)
       /\ state'.cursor = state.cursor + Len(e)
  BY <1>1, <1>3, <1>4, <1>8
<1> QED BY <1>1, <1>3, <1>4, <1>5, <1>8, <1>9, <1>10, <1>11 DEF e

(* The callers and the operations behind a write that is done.             *)
LEMMA WriteLeaves ==
  ASSUME IInv, WriteDone, NEW c, Moved(c), call' = RemovedFor(c),
         \A q \in Callers :
            ~Bystander(call[q]) /\ ~(Head(chain).who = q /\ Head(chain).op = "append")
                            => c[q] = call[q],
         \A i \in DOMAIN chain : i # 1 /\ chain[i].op \in {"created", "release", "suffix", "batch"}
                                 => Fits(chain[i], Now'),
         (\E q \in Callers : c[q].at = "append") => sess' = sess
  PROVE  /\ Preparation' /\ chain' \in Seq(Ops) /\ ChainInv'
         /\ call' \in [Callers -> CallStates] /\ entry' \in [phase : Phases, src : Sources]
<1>1. /\ chain # <<>> /\ Head(chain).op \in {"append", "batch", "suffix"}
      /\ entry' = NoEntry /\ chain' = Orphaned(Tail(chain))
  BY DEF WriteDone, IsWrite
<1>2. \A q \in Callers : ~Held(q)
  BY WrittenIs
<1>3. c \in [Callers -> CallStates] /\ \A q \in Callers : c[q].at # "held"
  BY <1>2 DEF Moved, Held, Bystander
<1>4. Preparation'
  BY <1>1, <1>3, PrepRemoved
<1>5. /\ call' \in [Callers -> CallStates]
      /\ \A q \in Callers : ~call'[q].attached /\ (c[q].at # "asleep" => call'[q].at = c[q].at)
  BY <1>3, RemovedIs
<1>6. Looser(Now, Now')
  BY <1>5, NowIs DEF Looser
<1>7. entry' \in [phase : Phases, src : Sources] /\ entry'.phase = "none"
  BY <1>1, BareSource DEF NoEntry, Phases
<1>8. ASSUME NEW u \in Ops, Fits(u, Now), Precedes(Head(chain), u, Now), u.op # "read",
             u.op \in {"created", "release", "suffix", "batch"} => Fits(u, Now')
      PROVE  Fits(u, Now')
  <2>1. CASE u.op \in {"commit", "check", "append"}
    <3>1. u.who \in Callers /\ call[u.who].at = u.op
      BY <1>8, <2>1, NowIs DEF Fits
    <3>2. ~(Head(chain).who = u.who /\ Head(chain).op = "append")
      <4> SUFFICES ASSUME Head(chain).who = u.who, Head(chain).op = "append" PROVE FALSE
        OBVIOUS
      <4>1. call[u.who].at = "append"
        BY <1>1, FirstIs, NowIs DEF Fits
      <4> QED BY <4>1, <3>1, <1>8 DEF Precedes
    <3>3. c[u.who] = call[u.who]
      BY <2>1, <3>1, <3>2 DEF Bystander
    <3>4. call'[u.who].at = u.op
      BY <2>1, <3>1, <3>3, <1>5
    <3>5. (Now').call[u.who].at = u.op /\ (Now').entry.phase # "reserved"
      BY <3>4, <1>7, NowIs
    <3>6. CASE u.op = "commit"
      BY <3>1, <3>5, <3>6, FitsIs
    <3>7. CASE u.op = "check"
      BY <3>1, <3>5, <3>7, FitsIs
    <3>8. CASE u.op = "append"
      <4>1. u.data # <<>> /\ u.data[2] = <<Ev("note", NoOne)>>
        BY <1>8, <3>8, FitsIs
      <4> QED BY <4>1, <3>1, <3>5, <3>8, FitsIs
    <3> QED BY <2>1, <3>6, <3>7, <3>8
  <2>2. u.op \in Kinds
    BY DEF Ops
  <2> QED BY <1>8, <2>1, <2>2 DEF Kinds
<1>10. ASSUME NEW i \in DOMAIN chain, i # 1, chain[i].op # "read"
       PROVE  Fits(chain[i], Now')
  <2>1. chain[i] \in Ops /\ Fits(chain[i], Now) /\ Precedes(Head(chain), chain[i], Now)
    BY <1>1, <1>10, FirstIs, LenProperties DEF IInv, TypeOK
  <2> QED BY <2>1, <1>8, <1>10
<1>9. chain' \in Seq(Ops) /\ ChainInv'
  BY <1>1, <1>6, <1>10, OrphanPops
<1> QED BY <1>4, <1>5, <1>7, <1>9

(* WriteDone of a service append: no Session owns the id.                  *)
LEMMA AppendDoneKeeps ==
  ASSUME IInv, WriteDone, Head(chain).op = "append"
  PROVE  IInv'
<1> DEFINE c == [call EXCEPT ![Who] = Idle]
           note == <<Ev("note", NoOne)>>
<1>1. /\ chain # <<>> /\ Head(chain).op = "append" /\ call' = RemovedFor(c)
      /\ UNCHANGED <<sess, store>> /\ chain' = Orphaned(Tail(chain))
  BY DEF WriteDone, IsWrite, Returned
<1>2. /\ Who \in Callers /\ call[Who].at = "append" /\ Head(chain).data[2] = note
      /\ \A l \in 1..Lives : sess[l].stage \in {"unborn", "gone"} /\ ~Owns(l)
      /\ \A i \in DOMAIN chain : chain[i].op \notin {"created", "suffix", "batch", "release"}
  BY <1>1, AppendIs
<1>3. Moved(c) /\ \A q \in Callers : q # Who => c[q] = call[q]
  BY <1>2, IdleMoves DEF c
<1>4. Who = Head(chain).who
  BY DEF Who
<1> HIDE DEF c
<1>5. /\ Preparation' /\ chain' \in Seq(Ops) /\ ChainInv'
      /\ call' \in [Callers -> CallStates] /\ entry' \in [phase : Phases, src : Sources]
  BY <1>1, <1>2, <1>3, <1>4, WriteLeaves
<1>6. /\ disk' = disk \o note /\ Len(disk') = Len(disk) + Len(note) /\ disk \in Logs
      /\ ~tear'.torn /\ state.known /\ state'.known
      /\ state'.owner = state.owner /\ state'.cursor = state.cursor + Len(note)
      /\ disk' \in Logs /\ acked' \in Logs /\ tear' \in Tears /\ tear'.holds = <<>>
      /\ state' \in States /\ acked' \in Logs
  BY <1>2, WrittenIs DEF IInv, TypeOK
<1>7. TypeOK'
  BY <1>1, <1>5, <1>6 DEF IInv, TypeOK
<1>8. Lineage'
  BY <1>1 DEF IInv, Lineage
<1>9. state.owner = NoOne => state'.cursor = Len(disk') /\ ~OpenTurn(disk')
  <2> HAVE state.owner = NoOne
  <2>1. state.cursor = Len(disk) /\ ~OpenTurn(disk)
    BY <1>6 DEF IInv, Ownership
  <2>2. NoOne \in Nat
    BY DEF NoOne
  <2>3. ~OpenTurn(disk \o <<Ev("note", NoOne)>>)
    BY <1>6, <2>1, <2>2, NoteOpensNothing
  <2> QED BY <1>6, <2>1, <2>3
<1>10. Ownership'
  <2>1. \A l \in 1..Lives : ~Owns(l)'
    BY <1>1, <1>2 DEF Owns
  <2>2. state.owner # NoOne => sess'[state.owner].stage # "unborn"
    BY <1>1 DEF IInv, Ownership
  <2> QED BY <1>6, <1>9, <2>1, <2>2 DEF Ownership
<1> QED BY <1>5, <1>7, <1>8, <1>10 DEF IInv

(* WriteDone of a Session's batch or suffix: its log grows into the store. *)
LEMMA OwnerWriteDoneKeeps ==
  ASSUME IInv, WriteDone, Head(chain).op \in {"batch", "suffix"}
  PROVE  IInv'
<1> DEFINE e == Head(chain).data[2]
<1>1. /\ chain # <<>> /\ call' = RemovedFor(call) /\ store' = store
      /\ sess' = IF Head(chain).op = "suffix" THEN [sess EXCEPT ![Who].init = "ok"] ELSE sess
      /\ entry' = NoEntry
  BY DEF WriteDone, IsWrite
<1>2. /\ Who \in 1..Lives /\ state.owner = Who /\ state.known /\ Who # NoOne
      /\ sess[Who].stage \in {"live", "retiring"}
      /\ sess[Who].init = IF Head(chain).op = "suffix" THEN "pending" ELSE "ok"
      /\ state.cursor = Len(disk) /\ Begins(disk \o e, sess[Who].log)
      /\ \A q \in Callers : call[q].at # "append"
      /\ \A i \in DOMAIN chain : i # 1 =>
           /\ chain[i].op \notin {"batch", "suffix", "append"}
           /\ chain[i].op \in {"created", "release"} => chain[i].who # Who
  BY <1>1, WriterIs
<1>3. /\ e \in Logs /\ disk' = disk \o e /\ disk' \in Logs /\ acked' \in Logs
      /\ ~tear'.torn /\ tear' \in Tears /\ tear'.holds = <<>>
      /\ Len(disk') = Len(disk) + Len(e) /\ state' \in States
      /\ state'.owner = state.owner /\ state'.known /\ state'.cursor = state.cursor + Len(e)
  BY WrittenIs
<1> HIDE DEF e
<1>4. Len(e) \in Nat /\ Len(disk) \in Nat /\ sess \in [1..Lives -> Sessions]
  BY <1>3, LenProperties DEF IInv, TypeOK, Logs
<1>5. /\ sess' \in [1..Lives -> Sessions] /\ \A l \in 1..Lives : l # Who => sess'[l] = sess[l]
      /\ sess'[Who].init = "ok" /\ sess'[Who].stage = sess[Who].stage
      /\ sess'[Who].log = sess[Who].log
  BY <1>1, <1>2, <1>4 DEF Sessions
<1>6. ASSUME NEW i \in DOMAIN chain, i # 1,
             chain[i].op \in {"created", "release", "suffix", "batch"}
      PROVE  Fits(chain[i], Now')
  <2>1. /\ Fits(chain[i], Now) /\ chain[i].op \in {"created", "release"}
        /\ chain[i].who # Who
    BY <1>1, <1>2, <1>6, FirstIs
  <2>2. ASSUME NEW u, Fits(u, Now), u.op \in {"created", "release"}, u.who # Who
        PROVE  Fits(u, Now')
    <3>1. u.who \in 1..Lives /\ sess'[u.who] = sess[u.who]
      BY <2>2, <1>5, NowIs DEF Fits
    <3>2. entry'.phase = "none"
      BY <1>1 DEF NoEntry
    <3>3. /\ (Now').sess[u.who] = Now.sess[u.who] /\ (Now').entry.phase = "none"
          /\ (Now').store = Now.store /\ (Now').state.owner = Now.state.owner
      BY <3>1, <3>2, <1>1, <1>3, NowIs
    <3>4. CASE u.op = "created"
      BY <2>2, <3>3, <3>4, FitsIs
    <3>5. CASE u.op = "release"
      <4>1. /\ sess[u.who].init = "ok" /\ sess[u.who].stage = "retiring"
            /\ sess[u.who].log = <<>> \/ Len(sess[u.who].log) <= state.cursor
        BY <2>2, <3>5, NowIs DEF Fits
      <4>2. Len(sess[u.who].log) \in Nat
        BY <3>1, <1>4, LenProperties DEF Sessions, Logs
      <4>3. sess[u.who].log = <<>> \/ Len(sess[u.who].log) <= state'.cursor
        BY <4>1, <4>2, <1>2, <1>3, <1>4
      <4>4. /\ (Now').sess[u.who].init = "ok" /\ (Now').sess[u.who].stage = "retiring"
            /\ (Now').sess[u.who].log = <<>> \/ Len((Now').sess[u.who].log) <= (Now').state.cursor
        BY <4>1, <4>3, <3>1, NowIs
      <4> QED BY <3>1, <3>5, <4>4, FitsIs
    <3> QED BY <2>2, <3>4, <3>5
  <2> QED BY <2>1, <2>2
<1>7. Moved(call)
  BY DEF IInv, TypeOK, Moved
<1>8. /\ Preparation' /\ chain' \in Seq(Ops) /\ ChainInv'
      /\ call' \in [Callers -> CallStates] /\ entry' \in [phase : Phases, src : Sources]
  BY <1>1, <1>2, <1>6, <1>7, WriteLeaves
<1>9. TypeOK'
  BY <1>1, <1>3, <1>5, <1>8 DEF IInv, TypeOK
<1>10. Lineage'
  <2>1. store # NoOne => store \in 1..Lives
    BY DEF IInv, TypeOK, NoOne, CoordinatorAssumption
  <2>2. \A l \in 1..Lives : /\ sess'[l].stage = sess[l].stage
                            /\ sess'[l].stage = "unborn" => sess'[l] = sess[l]
    BY <1>2, <1>5
  <2>3. \A l \in 1..Lives : l..Lives \subseteq 1..Lives
    BY CoordinatorAssumption
  <2>4. store' # NoOne => sess'[store'].stage = "live"
    BY <1>1, <2>1, <2>2 DEF IInv, Lineage
  <2>5. \A l \in 1..Lives : sess'[l].stage = "live" => l = store'
    BY <1>1, <2>2 DEF IInv, Lineage
  <2>6. ASSUME NEW l \in 1..Lives, sess'[l].stage = "unborn"
        PROVE  sess'[l].init = "none" /\ \A k \in l..Lives : sess'[k].stage = "unborn"
    BY <2>2, <2>3, <2>6 DEF IInv, Lineage
  <2> QED BY <2>4, <2>5, <2>6 DEF Lineage
<1>11. Ownership'
  <2>1. state'.owner = Who /\ sess'[Who].stage # "unborn"
    BY <1>2, <1>3, <1>5
  <2>2. state'.cursor = Len(disk') /\ Begins(disk', sess'[Who].log)
    BY <1>2, <1>3, <1>5
  <2>3. \A l \in 1..Lives : l # Who /\ Owns(l)' => sess'[l].log = <<>> /\ l # store'
    BY <1>1, <1>2, <1>5 DEF IInv, Ownership, Owns
  <2> QED BY <1>2, <1>3, <2>1, <2>2, <2>3 DEF Ownership
<1> QED BY <1>8, <1>9, <1>10, <1>11 DEF IInv

(* WriteDone: cursor and store grow together.                              *)
LEMMA WriteDoneKeeps ==
  ASSUME IInv, WriteDone
  PROVE  IInv'
<1>1. Head(chain).op \in {"append", "batch", "suffix"}
  BY DEF WriteDone, IsWrite
<1> QED BY <1>1, AppendDoneKeeps, OwnerWriteDoneKeeps

-----------------------------------------------------------------------------
(* The live Session's log grows, or it is disposed.                        *)
LEMMA LiveMoves ==
  ASSUME IInv, store # NoOne, UNCHANGED <<storage, state, entry, chain, call>>,
         store' = store \/ store' = NoOne,
         sess' \in [1..Lives -> Sessions],
         \A l \in 1..Lives : l # store => sess'[l] = sess[l],
         sess'[store].init = sess[store].init,
         sess'[store].stage = IF store' = NoOne THEN "retiring" ELSE "live",
         Begins(sess[store].log, sess'[store].log)
  PROVE  IInv'
<1>1. /\ store \in 1..Lives /\ sess[store].stage = "live" /\ TypeOK
      /\ sess[store].log \in Logs /\ sess'[store].log \in Logs /\ disk \in Logs
      /\ \A l \in 1..Lives : l..Lives \subseteq 1..Lives
  BY DEF IInv, TypeOK, Lineage, NoOne, CoordinatorAssumption, Sessions
<1>2. TypeOK'
  <2>1. store' \in 0..Lives
    BY <1>1, CoordinatorAssumption DEF NoOne
  <2> QED BY <1>1, <2>1 DEF TypeOK, storage
<1>3. Lineage'
  <2>1. store' # NoOne => sess'[store'].stage = "live"
    OBVIOUS
  <2>2. \A l \in 1..Lives : sess'[l].stage = "live" => l = store'
    BY <1>1 DEF IInv, Lineage
  <2>3. \A l \in 1..Lives : sess'[l].stage = "unborn" => l # store /\ sess'[l] = sess[l]
    BY <1>1
  <2>4. \A l \in 1..Lives : sess[l].stage = "unborn" => l # store /\ sess'[l] = sess[l]
    BY <1>1
  <2> QED BY <1>1, <2>1, <2>2, <2>3, <2>4 DEF IInv, Lineage
<1>4. Ownership'
  <2>1. state.owner # NoOne => sess'[state.owner].stage # "unborn"
    BY <1>1 DEF IInv, TypeOK, Ownership, States, NoOne
  <2>2. ASSUME NEW l \in 1..Lives, Owns(l)', sess'[l].log # <<>> \/ l = store'
        PROVE  /\ state.owner = l /\ state.cursor = Len(disk) /\ ~tear.torn
               /\ Begins(disk, sess'[l].log)
    <3>1. CASE l = store
      <4>1. Owns(store)
        BY <1>1, <2>2, <3>1 DEF Owns
      <4>2. state.owner = l /\ state.cursor = Len(disk) /\ ~tear.torn /\ Begins(disk, sess[store].log)
        BY <1>1, <3>1, <4>1 DEF IInv, Ownership
      <4> QED BY <1>1, <3>1, <4>2, BeginsMeets
    <3>2. CASE l # store
      <4>1. Owns(l) /\ sess'[l] = sess[l] /\ sess[l].log # <<>>
        BY <1>1, <2>2, <3>2 DEF Owns, NoOne
      <4> QED BY <4>1 DEF IInv, Ownership
    <3> QED BY <3>1, <3>2
  <2> QED BY <2>1, <2>2 DEF IInv, Ownership, storage
<1>5. Preparation'
  <2>1. entry.phase = "none" /\ \A q \in Callers : call[q].at # "append"
    BY <1>1 DEF IInv, Preparation
  <2> QED BY <2>1 DEF IInv, Preparation, Held, Committing, Revision, storage
<1>6. ASSUME NEW o \in Ops, Fits(o, Now)
      PROVE  Fits(o, Now')
  <2>1. CASE o.op \in {"created", "suffix", "batch", "release"}
    <3>1. o.who \in 1..Lives
      BY <1>6, <2>1 DEF Fits
    <3>2. CASE o.who # store
      <4>1. sess'[o.who] = sess[o.who] /\ (store' # NoOne => store' = store)
        BY <3>1, <3>2
      <4> QED BY <1>6, <2>1, <4>1, NowIs DEF Fits, storage
    <3>3. CASE o.who = store
      <4>1. o.op # "release" /\ o.data # <<>> /\ o.data[2] \in Logs
        <5>1. o.op # "release"
          BY <1>1, <1>6, <3>3, NowIs DEF Fits
        <5>2. o.data # <<>> /\ o.data \in {<<>>} \cup (Nat \X Logs)
          BY <1>6, <2>1, <5>1 DEF Fits, Ops
        <5> QED BY <5>1, <5>2
      <4>2. CASE o.op = "created"
        <5>1. Begins(o.data[2], sess[store].log)
          BY <1>6, <3>3, <4>2, NowIs DEF Fits
        <5>2. Begins(o.data[2], sess'[store].log)
          BY <1>1, <4>1, <5>1, BeginsMeets
        <5>3. /\ Now.sess[o.who].init = "pending" /\ o.data[1] = 0
              /\ Now.state.owner < o.who /\ Now.entry.phase \in {"none", "loading"}
          BY <1>6, <4>2, FitsIs
        <5>4. /\ (Now').sess[o.who].init = "pending"
              /\ (Now').sess[o.who].stage \in {"live", "retiring"}
              /\ Begins(o.data[2], (Now').sess[o.who].log)
              /\ (Now').state.owner < o.who /\ ((Now').store # NoOne => o.who <= (Now').store)
              /\ (Now').entry.phase \in {"none", "loading"}
          BY <1>1, <3>3, <5>2, <5>3, NowIs
        <5> QED BY <3>1, <4>1, <4>2, <5>3, <5>4, FitsIs
      <4>3. CASE o.op \in {"suffix", "batch"}
        <5>1. Begins(disk \o o.data[2], sess[store].log)
          BY <1>6, <3>3, <4>3, NowIs DEF Fits
        <5>2. disk \o o.data[2] \in Logs
          BY <1>1, <4>1, ConcatProperties DEF Logs
        <5>3. Begins(disk \o o.data[2], sess'[store].log)
          BY <1>1, <5>1, <5>2, BeginsMeets
        <5>4. /\ o.data[2] # <<>> /\ Now.state.owner = o.who
              /\ Now.sess[o.who].init = IF o.op = "suffix" THEN "pending" ELSE "ok"
              /\ Now.state.cursor = Len(Now.disk) /\ Now.state.cursor = o.data[1]
              /\ ~Now.tear.torn
          BY <1>6, <4>3, FitsIs
        <5>5. /\ (Now').state = Now.state /\ (Now').disk = Now.disk /\ (Now').tear = Now.tear
              /\ (Now').sess[o.who].init = Now.sess[o.who].init
              /\ (Now').sess[o.who].stage \in {"live", "retiring"}
              /\ Begins((Now').disk \o o.data[2], (Now').sess[o.who].log)
          BY <3>3, <5>3, NowIs DEF storage
        <5> QED BY <3>1, <4>1, <4>3, <5>4, <5>5, FitsIs
      <4> QED BY <2>1, <4>1, <4>2, <4>3
    <3> QED BY <3>2, <3>3
  <2>2. CASE o.op \notin {"created", "suffix", "batch", "release"}
    BY <1>6, <2>2, NowIs DEF Fits
  <2> QED BY <2>1, <2>2
<1>7. ChainInv'
  <2>1. \A o : Runs(o, Now) => Runs(o, Now')
    BY NowIs DEF Runs
  <2>2. Looser(Now, Now')
    BY NowIs DEF Looser
  <2>3. chain \in Seq(Ops) /\ Chained(chain, Now) /\ \A i \in DOMAIN chain : chain[i] \in Ops
    BY LenProperties DEF IInv, TypeOK, ChainInv
  <2>4. Chained(chain, Now')
    BY <1>6, <2>1, <2>2, <2>3, ChainKept DEF Chained
  <2> QED BY <2>4 DEF ChainInv
<1> QED BY <1>2, <1>3, <1>4, <1>5, <1>7 DEF IInv

(* Emit: a live log grows at its end.                                      *)
LEMMA EmitKeeps ==
  ASSUME IInv, Emit
  PROVE  IInv'
<1> DEFINE e == Ev(IF OpenTurn(sess[store].log) THEN "close" ELSE "open", store)
           t == Append(sess[store].log, e)
<1>1. /\ store \in 1..Lives /\ sess[store].stage = "live" /\ sess[store].log \in Logs
      /\ sess \in [1..Lives -> Sessions] /\ store # NoOne
  BY LiveLog DEF Emit, IInv, TypeOK, Lineage, Live
<1>2. e \in LogEvents
  BY <1>1 DEF Ev, LogEvents
<1>3. sess' = [sess EXCEPT ![store].log = t]
  BY DEF Emit
<1> HIDE DEF e
<1>4. t \in Logs /\ Begins(sess[store].log, t)
  BY <1>1, <1>2, AppendProperties, LenProperties DEF Logs, Begins
<1> HIDE DEF t
<1>5. /\ sess' \in [1..Lives -> Sessions] /\ sess'[store].log = t
      /\ sess'[store].init = sess[store].init /\ sess'[store].stage = "live"
      /\ \A l \in 1..Lives : l # store => sess'[l] = sess[l]
  BY <1>1, <1>3, <1>4 DEF Sessions
<1>6. store' = store /\ UNCHANGED <<storage, state, entry, chain, call>>
  BY DEF Emit
<1> QED BY <1>1, <1>4, <1>5, <1>6, LiveMoves

(* Dispose: a retiring Session still owns what it owned.                   *)
LEMMA DisposeKeeps ==
  ASSUME IInv, Dispose
  PROVE  IInv'
<1>1. /\ store \in 1..Lives /\ sess[store].stage = "live" /\ sess[store].log \in Logs
      /\ sess \in [1..Lives -> Sessions] /\ store # NoOne
  BY LiveLog DEF Dispose, IInv, TypeOK, Lineage, Live
<1>2. sess' = [sess EXCEPT ![store].stage = "retiring"] /\ store' = NoOne
      /\ UNCHANGED <<storage, state, entry, chain, call>>
  BY DEF Dispose
<1>3. /\ sess' \in [1..Lives -> Sessions] /\ sess'[store].log = sess[store].log
      /\ sess'[store].init = sess[store].init /\ sess'[store].stage = "retiring"
      /\ \A l \in 1..Lives : l # store => sess'[l] = sess[l]
  BY <1>1, <1>2 DEF Sessions
<1>4. Begins(sess[store].log, sess'[store].log)
  BY <1>1, <1>3, BeginsSelf
<1> QED BY <1>1, <1>2, <1>3, <1>4, LiveMoves

-----------------------------------------------------------------------------
(* The owner's operations are queued, and its state is released.           *)
LEMMA QueueKeeps ==
  ASSUME IInv, NEW o \in Ops, o.stage = "queued", Fits(o, Now),
         \A i \in DOMAIN chain : Precedes(chain[i], o, Now), chain' = Append(chain, o),
         UNCHANGED <<storage, state, entry, call, sess, store>>
  PROVE  IInv'
<1>1. chain' \in Seq(Ops) /\ Chained(chain', Now)
  BY ChainGrows DEF IInv, TypeOK, ChainInv
<1>2. Now' = Now
  BY DEF Now, storage
<1>3. ChainInv'
  BY <1>1, <1>2 DEF ChainInv
<1>4. TypeOK'
  BY <1>1 DEF IInv, TypeOK, storage
<1>5. Lineage' /\ Ownership'
  BY DEF IInv, Lineage, Ownership, Owns, storage
<1>6. Preparation'
  BY DEF IInv, Preparation, Held, Committing, Revision, storage
<1> QED BY <1>3, <1>4, <1>5, <1>6 DEF IInv

(* What the owner has not stored yet.                                      *)
LEMMA UnwrittenIs ==
  ASSUME IInv, NEW l \in 1..Lives, Owns(l)
  PROVE  /\ Unwritten(l) \in Logs /\ state.cursor \in Nat
         /\ Unwritten(l) = <<>> <=> sess[l].log = <<>> \/ Len(sess[l].log) <= state.cursor
         /\ sess[l].log # <<>> =>
              /\ state.owner = l /\ state.cursor = Len(disk) /\ ~tear.torn
              /\ disk \o Unwritten(l) = sess[l].log
<1> DEFINE g == sess[l].log
<1>1. g \in Logs /\ state.cursor \in Nat /\ disk \in Logs
  BY DEF IInv, TypeOK, Sessions, States
<1>2. g # <<>> =>
        /\ state.owner = l /\ state.cursor = Len(disk) /\ ~tear.torn /\ Begins(disk, g)
  BY DEF IInv, Ownership
<1>3. Unwritten(l) = SubSeq(g, state.cursor + 1, Len(g))
  BY DEF Unwritten
<1> HIDE DEF g
<1>4. Len(g) \in Nat /\ (g = <<>> <=> Len(g) = 0)
  BY <1>1, LenProperties, EmptySeq DEF Logs
<1>5. /\ Unwritten(l) \in Logs
      /\ Len(Unwritten(l)) = IF state.cursor + 1 <= Len(g) THEN Len(g) - (state.cursor + 1) + 1 ELSE 0
  <2>1. state.cursor + 1 \in Int /\ Len(g) \in Int
    BY <1>1, <1>4
  <2>2. \A i \in (state.cursor + 1)..Len(g) : g[i] \in LogEvents
    <3>1. g \in [1..Len(g) -> LogEvents]
      BY <1>1, LenProperties DEF Logs
    <3> QED BY <3>1, <1>1, <1>4
  <2> QED BY <2>1, <2>2, <1>3, SubSeqProperties DEF Logs
<1>6. Unwritten(l) = <<>> <=> Len(Unwritten(l)) = 0
  BY <1>5, EmptySeq DEF Logs
<1>7. Unwritten(l) = <<>> <=> g = <<>> \/ Len(g) <= state.cursor
  BY <1>1, <1>4, <1>5, <1>6
<1>8. g # <<>> => disk \o Unwritten(l) = g
  BY <1>1, <1>2, <1>3, BeginsRest
<1> QED BY <1>1, <1>2, <1>5, <1>7, <1>8 DEF g

(* QueueBatch: a batch holds what is unwritten, at the cursor.             *)
LEMMA QueueBatchKeeps ==
  ASSUME IInv, NEW l \in 1..Lives, QueueBatch(l)
  PROVE  IInv'
<1> DEFINE data == <<state.cursor, Unwritten(l)>>
           o == Op("batch", l, data)
<1>1. /\ Owns(l) /\ Unwritten(l) # <<>> /\ ~Queued("batch", l) /\ chain' = Append(chain, o)
      /\ UNCHANGED <<storage, state, entry, call, sess, store>>
  BY DEF QueueBatch
<1>2. /\ Unwritten(l) \in Logs /\ state.cursor \in Nat /\ sess[l].log # <<>>
      /\ state.owner = l /\ state.cursor = Len(disk) /\ ~tear.torn
      /\ disk \o Unwritten(l) = sess[l].log
  BY <1>1, UnwrittenIs
<1>3. /\ data \in {<<>>} \cup (Nat \X Logs) /\ data # <<>> /\ data[1] = state.cursor
      /\ data[2] = Unwritten(l)
  BY <1>2, DataIs
<1>4. o = Op("batch", l, data)
  OBVIOUS
<1> HIDE DEF o, data
<1>5. o \in Ops /\ o.op = "batch" /\ o.who = l /\ o.stage = "queued" /\ o.data = data
  <2>1. "batch" \in Kinds /\ l \in Callers \cup 0..Lives
    BY CoordinatorAssumption DEF Kinds
  <2> QED BY <1>3, <1>4, <2>1 DEF Op, Ops
<1>6. sess[l].log \in Logs /\ Begins(sess[l].log, sess[l].log)
  BY BeginsSelf DEF IInv, TypeOK, Sessions
<1>7. Fits(o, Now)
  <2>1. /\ Now.sess[l].init = "ok" /\ Now.sess[l].stage \in {"live", "retiring"}
        /\ Now.state.owner = l /\ Now.state.cursor = Len(Now.disk)
        /\ Now.state.cursor = data[1] /\ ~Now.tear.torn
        /\ Begins(Now.disk \o data[2], Now.sess[l].log)
    BY <1>1, <1>2, <1>3, <1>6, NowIs DEF Owns
  <2> QED BY <1>1, <1>3, <1>5, <2>1, FitsIs
<1>8. ASSUME NEW i \in DOMAIN chain
      PROVE  Precedes(chain[i], o, Now)
  <2>1. Fits(chain[i], Now)
    BY DEF IInv, ChainInv, Chained
  <2>2. chain[i].op # "batch"
    BY <1>1, <1>2, <2>1, NowIs DEF Fits, Queued
  <2>3. chain[i].op # "suffix"
    BY <1>1, <1>2, <2>1, NowIs DEF Fits, Owns
  <2> QED BY <2>2, <2>3, <1>5 DEF Precedes
<1> QED BY <1>1, <1>5, <1>7, <1>8, QueueKeeps

(* QueueRelease: a release is queued behind the last batch.                *)
LEMMA QueueReleaseKeeps ==
  ASSUME IInv, NEW l \in 1..Lives, QueueRelease(l)
  PROVE  IInv'
<1> DEFINE o == Op("release", l, <<>>)
<1>1. /\ sess[l].stage = "retiring" /\ Owns(l) /\ Unwritten(l) = <<>> /\ ~Queued("release", l)
      /\ chain' = Append(chain, o) /\ UNCHANGED <<storage, state, entry, call, sess, store>>
  BY DEF QueueRelease, Drained
<1>2. o \in Ops /\ o.op = "release" /\ o.who = l /\ o.stage = "queued"
  <2>1. "release" \in Kinds /\ l \in Callers \cup 0..Lives
    BY CoordinatorAssumption DEF Kinds
  <2> QED BY <2>1 DEF Op, Ops
<1> HIDE DEF o
<1>3. sess[l].log = <<>> \/ Len(sess[l].log) <= state.cursor
  BY <1>1, UnwrittenIs
<1>4. Fits(o, Now)
  <2>1. /\ Now.sess[l].init = "ok" /\ Now.sess[l].stage = "retiring"
        /\ Now.sess[l].log = <<>> \/ Len(Now.sess[l].log) <= Now.state.cursor
    BY <1>1, <1>3, NowIs DEF Owns
  <2> QED BY <1>2, <2>1, FitsIs
<1>5. \A i \in DOMAIN chain : Precedes(chain[i], o, Now)
  BY <1>1, <1>2 DEF Precedes, Queued
<1> QED BY <1>1, <1>2, <1>4, <1>5, QueueKeeps

(* RetireFails: a Session that never owned the id gets stuck.              *)
LEMMA RetireFailsKeeps ==
  ASSUME IInv, NEW l \in 1..Lives, RetireFails(l)
  PROVE  IInv'
<1>1. /\ sess[l].stage = "retiring" /\ sess[l].init = "failed"
      /\ sess' = [sess EXCEPT ![l].stage = "stuck"] /\ sess \in [1..Lives -> Sessions]
      /\ UNCHANGED <<storage, state, entry, chain, call, store>>
  BY DEF RetireFails, IInv, TypeOK
<1>2. /\ sess' \in [1..Lives -> Sessions] /\ \A k \in 1..Lives : k # l => sess'[k] = sess[k]
      /\ sess'[l].stage = "stuck" /\ sess'[l].init = "failed" /\ sess'[l].log = sess[l].log
  BY <1>1 DEF Sessions
<1>3. TypeOK'
  BY <1>1, <1>2 DEF IInv, TypeOK, storage
<1>4. Lineage'
  <2>1. store # NoOne => store \in 1..Lives /\ store # l
    BY <1>1 DEF IInv, TypeOK, Lineage, NoOne, CoordinatorAssumption
  <2>2. \A k \in 1..Lives : /\ sess'[k].stage = "unborn" <=> sess[k].stage = "unborn"
                            /\ sess'[k].stage = "live" <=> sess[k].stage = "live"
                            /\ sess'[k].stage = "unborn" => sess'[k] = sess[k]
    BY <1>1, <1>2
  <2>3. \A k \in 1..Lives : k..Lives \subseteq 1..Lives
    BY CoordinatorAssumption
  <2> QED BY <1>1, <2>1, <2>2, <2>3, <1>2 DEF IInv, Lineage
<1>5. Ownership'
  <2>1. \A k \in 1..Lives : Owns(k)' => Owns(k) /\ sess'[k] = sess[k]
    BY <1>2 DEF Owns
  <2>2. state.owner # NoOne => sess'[state.owner].stage # "unborn"
    BY <1>1, <1>2 DEF IInv, TypeOK, Ownership, States, NoOne
  <2> QED BY <1>1, <2>1, <2>2 DEF IInv, Ownership, storage
<1>6. Preparation'
  <2>1. \A q \in Callers : call[q].at # "append"
    BY <1>1 DEF IInv, Preparation
  <2> QED BY <1>1, <2>1 DEF IInv, Preparation, Held, Committing, Revision, storage
<1>7. ASSUME NEW o, Fits(o, Now)
      PROVE  Fits(o, Now')
  <2>1. o.op \in {"created", "suffix", "batch", "release"} => sess'[o.who] = sess[o.who]
    BY <1>1, <1>2, <1>7, NowIs DEF Fits
  <2> QED BY <1>1, <1>7, <2>1, NowIs DEF Fits, storage
<1>8. ChainInv'
  <2>1. Looser(Now, Now') /\ \A o : Runs(o, Now) => Runs(o, Now')
    BY <1>1, NowIs DEF Looser, Runs
  <2>2. Chained(chain, Now')
    BY <1>7, <2>1, ChainKept DEF IInv, TypeOK, ChainInv, Chained
  <2> QED BY <1>1, <2>2 DEF ChainInv
<1> QED BY <1>3, <1>4, <1>5, <1>6, <1>8 DEF IInv

(* Released: whoever drained gives the id back.                            *)
LEMMA ReleasedKeeps ==
  ASSUME IInv, Released
  PROVE  IInv'
<1> DEFINE r == Who
<1>1. /\ chain # <<>> /\ Head(chain).op = "release" /\ Fits(Head(chain), Now)
      /\ Head(chain).who = r
  BY FirstIs DEF Released, Running, Who
<1>2. /\ r \in 1..Lives /\ sess[r].init = "ok" /\ sess[r].stage = "retiring"
      /\ sess[r].log = <<>> \/ Len(sess[r].log) <= state.cursor
  BY <1>1, NowIs DEF Fits
<1>3. /\ sess' = [sess EXCEPT ![r].stage = "gone", ![r].log = <<>>]
      /\ state' = IF state.owner = r THEN NoState ELSE state
      /\ chain' = Tail(chain) /\ UNCHANGED <<storage, entry, call, store>>
  BY DEF Released
<1> HIDE DEF r
<1>4. /\ sess \in [1..Lives -> Sessions] /\ sess' \in [1..Lives -> Sessions]
      /\ \A k \in 1..Lives : k # r => sess'[k] = sess[k]
      /\ sess'[r].stage = "gone" /\ sess'[r].log = <<>>
  BY <1>2, <1>3, BareSource DEF IInv, TypeOK, Sessions
<1>5. /\ state \in States /\ state' \in States
      /\ NoState.owner = NoOne /\ ~NoState.known /\ NoState.cursor = 0
  BY <1>3, CoordinatorAssumption DEF IInv, TypeOK, NoState, States, NoOne
<1>6. Preparation'
  <2>1. \A q \in Callers : Held(q) => state' = state
    BY <1>2, <1>3, CoordinatorAssumption DEF IInv, Preparation, NoOne
  <2>2. \A q \in Callers : call[q].at # "append"
    BY <1>2 DEF IInv, Preparation
  <2> QED BY <1>3, <2>1, <2>2 DEF IInv, Preparation, Held, Committing, Revision, storage
<1>7. Lineage'
  <2>1. store # NoOne => store \in 1..Lives /\ store # r
    BY <1>2 DEF IInv, TypeOK, Lineage, NoOne, CoordinatorAssumption
  <2>2. \A k \in 1..Lives : /\ sess'[k].stage = "unborn" <=> sess[k].stage = "unborn"
                            /\ sess'[k].stage = "live" <=> sess[k].stage = "live"
                            /\ sess'[k].stage = "unborn" => sess'[k] = sess[k]
    BY <1>2, <1>4
  <2>3. \A k \in 1..Lives : k..Lives \subseteq 1..Lives
    BY CoordinatorAssumption
  <2> QED BY <1>3, <2>1, <2>2, <2>3, <1>4 DEF IInv, Lineage
<1>8. Ownership'
  <2>1. \A k \in 1..Lives : Owns(k)' => Owns(k) /\ sess'[k] = sess[k] /\ k # r
    BY <1>4 DEF Owns
  <2>2. CASE state.owner = r
    <3>1. \A k \in 1..Lives : ~(Owns(k)' /\ (sess'[k].log # <<>> \/ k = store))
      BY <2>1, <2>2 DEF IInv, Ownership
    <3> QED BY <1>3, <1>5, <2>2, <3>1 DEF Ownership
  <2>3. CASE state.owner # r
    <3>1. state.owner # NoOne => sess'[state.owner].stage # "unborn"
      BY <1>4, <1>5, <2>3 DEF IInv, Ownership, States, NoOne
    <3> QED BY <1>3, <2>1, <2>3, <3>1 DEF IInv, Ownership, storage
  <2> QED BY <2>2, <2>3
<1>9. ASSUME NEW u \in Ops, Fits(u, Now), Precedes(Head(chain), u, Now)
      PROVE  Fits(u, Now')
  <2>1. u.op \in {"created", "suffix", "batch", "release"} => u.who \in 1..Lives
    BY <1>9 DEF Fits
  <2>2. CASE u.op = "created"
    <3>1. u.who # r
      BY <1>2, <1>9, <2>2, NowIs DEF Fits
    <3>2. (Now').sess[u.who] = Now.sess[u.who]
      BY <1>4, <2>1, <2>2, <3>1, NowIs
    <3>3. Now.state.owner < u.who /\ u.who \in 1..Lives
      BY <1>9, <2>2, FitsIs
    <3>4. (Now').state.owner < u.who
      BY <1>3, <1>5, <3>3, NowIs DEF NoOne
    <3>5. (Now').store = Now.store /\ (Now').entry = Now.entry
      BY <1>3, NowIs
    <3> QED BY <1>9, <2>2, <3>2, <3>4, <3>5, FitsIs
  <2>3. CASE u.op \in {"suffix", "batch"}
    <3>1. state.owner = u.who /\ state.cursor = Len(disk)
      BY <1>9, <2>3, NowIs DEF Fits
    <3>2. u.who # r
      <4> SUFFICES ASSUME u.who = r PROVE FALSE
        OBVIOUS
      <4>1. /\ u.data # <<>> /\ u.data[2] # <<>> /\ u.data \in {<<>>} \cup (Nat \X Logs)
            /\ Begins(disk \o u.data[2], sess[r].log)
        BY <1>9, <2>3, NowIs DEF Fits, Ops
      <4> DEFINE s == u.data[2]
      <4>2. s \in Logs /\ s # <<>> /\ Begins(disk \o s, sess[r].log)
        BY <4>1
      <4> HIDE DEF s
      <4>3. disk \in Logs /\ sess[r].log \in Logs /\ Len(disk) \in Nat /\ Len(sess[r].log) \in Nat
        BY <1>2, LenProperties DEF IInv, TypeOK, Sessions, Logs
      <4>4. Len(s) \in Nat /\ Len(s) # 0
        BY <4>2, LenProperties, EmptySeq DEF Logs
      <4>5. Len(disk) + Len(s) <= Len(sess[r].log)
        BY <4>2, <4>3, BeginsJoined
      <4>6. sess[r].log = <<>> => Len(sess[r].log) = 0
        OBVIOUS
      <4> QED BY <1>2, <3>1, <4>3, <4>4, <4>5, <4>6
    <3>3. /\ (Now').sess[u.who] = Now.sess[u.who] /\ (Now').state = Now.state
          /\ (Now').disk = Now.disk /\ (Now').tear = Now.tear
      BY <1>3, <1>4, <2>1, <2>3, <3>1, <3>2, NowIs DEF storage
    <3> QED BY <1>9, <2>3, <3>3, FitsIs
  <2>4. CASE u.op = "release"
    <3>1. u.who # r
      BY <1>1, <1>9, <2>4 DEF Precedes
    <3>2. (Now').sess[u.who] = Now.sess[u.who] /\ u.who \in 1..Lives
      BY <1>4, <2>1, <2>4, <3>1, NowIs
    <3>3. sess[u.who].init = "ok" /\ sess[u.who].stage = "retiring"
      BY <1>9, <2>4, NowIs DEF Fits
    <3>4. CASE state.owner = r
      <4>1. sess[u.who].log = <<>>
        BY <3>1, <3>2, <3>3, <3>4 DEF IInv, Ownership, Owns
      <4>2. Now.sess[u.who].log = <<>> /\ Now.sess[u.who].init = "ok"
            /\ Now.sess[u.who].stage = "retiring"
        BY <3>3, <4>1, NowIs
      <4> QED BY <2>4, <3>2, <4>2, FitsIs
    <3>5. CASE state.owner # r
      <4>1. (Now').state = Now.state
        BY <1>3, <3>5, NowIs
      <4> QED BY <1>9, <2>4, <3>2, <4>1, FitsIs
    <3> QED BY <3>4, <3>5
  <2>5. CASE u.op \notin {"created", "suffix", "batch", "release"}
    BY <1>3, <1>9, <2>5, NowIs DEF Fits
  <2> QED BY <2>2, <2>3, <2>4, <2>5
<1>10. chain' \in Seq(Ops) /\ ChainInv'
  <2>1. chain \in Seq(Ops) /\ Chained(chain, Now)
    BY DEF IInv, TypeOK, ChainInv
  <2>2. Looser(Now, Now')
    BY <1>3, NowIs DEF Looser
  <2>3. \A i \in DOMAIN chain : i # 1 => Fits(chain[i], Now')
    BY <1>1, <1>9, <2>1, FirstIs, LenProperties
  <2>4. Tail(chain) \in Seq(Ops) /\ Chained(Tail(chain), Now')
    BY <1>1, <2>1, <2>2, <2>3, ChainPops
  <2> QED BY <1>3, <2>4 DEF ChainInv
<1>11. TypeOK'
  BY <1>3, <1>4, <1>5, <1>10 DEF IInv, TypeOK, storage
<1> QED BY <1>6, <1>7, <1>8, <1>10, <1>11 DEF IInv

-----------------------------------------------------------------------------
(* Upsets: another process, a reload, a crash.                             *)
LEMMA ForeignKeeps ==
  ASSUME IInv, Foreign
  PROVE  IInv'
<1> DEFINE n == Ev("note", NoOne)
<1>1. /\ ~state.known /\ TypeOK /\ UNCHANGED <<state, entry, chain, call, sess, store>>
      /\ disk' = Append(Prepared.events, n) /\ tear' = Clean /\ acked' = disk'
      /\ \A i \in DOMAIN chain : chain[i].op \in {"read", "check"}
  BY DEF Foreign, IInv
<1>2. state.owner = NoOne /\ \A q \in Callers : ~Held(q)
  BY <1>1 DEF IInv, Ownership, Preparation
<1>3. n \in LogEvents
  BY DEF Ev, LogEvents, NoOne
<1> HIDE DEF n
<1>4. disk' \in Logs /\ acked' \in Logs
  <2>1. Prepared.events \in Logs
    BY <1>1, PreparedSource DEF Sources
  <2> QED BY <1>1, <1>3, <2>1, AppendProperties DEF Logs
<1>5. tear' \in Tears /\ tear'.holds = <<>>
  BY <1>1, BareSource DEF Clean, Tears
<1>6. Freed /\ Steady
  BY <1>1, <1>2, <1>4, <1>5 DEF Freed, Steady, TypeOK
<1>7. Moved(call') /\ Looser(Now, Now')
  BY <1>1, NowIs DEF Moved, Looser, TypeOK
<1>8. Preparation'
  BY <1>1, <1>2, <1>6, <1>7, PrepMoved
<1>9. \A i \in DOMAIN chain :
        /\ chain[i].op = "read" /\ chain[i].current => entry'.phase = "loading"
        /\ chain[i].op = "created" => entry'.phase \in {"none", "loading"}
  BY <1>1, NowIs DEF Fits, IInv, ChainInv, Chained
<1>10. chain' \in Seq(Ops) /\ ChainInv'
  BY <1>1, <1>6, <1>7, <1>9, RestStays
<1> QED BY <1>1, <1>6, <1>8, <1>10, TypesRest, SessionsRest DEF IInv, TypeOK

(* The state of an id nobody tracks.                                       *)
LEMMA NoStateIs ==
  /\ NoState \in States /\ NoState.owner = NoOne /\ ~NoState.known /\ NoState.owner = 0
  BY CoordinatorAssumption DEF NoState, States, NoOne

(* The entry of an id nobody prepares.                                     *)
LEMMA NoEntryIs ==
  /\ NoEntry \in [phase : Phases, src : Sources] /\ NoEntry.phase = "none"
  /\ NoEntry.src.rev = <<>> /\ Faithful(NoEntry.src)
  BY BareSource DEF NoEntry, Phases

(* Reload: the new coordinator starts with the live Session's creation.    *)
LEMMA ReloadKeeps ==
  ASSUME IInv, Reload
  PROVE  IInv'
<1>1. /\ chain = <<>> /\ \A p \in Callers : Over(p)
      /\ state' = NoState /\ entry' = NoEntry /\ call' = call /\ store' = store
      /\ chain' = IF store # NoOne THEN <<Op("created", store, <<0, Live.log>>)>> ELSE <<>>
      /\ TypeOK
  BY DEF Reload, IInv
<1>2. sess' = [l \in 1..Lives |->
         IF l = store THEN [sess[l] EXCEPT !.init = "pending"]
         ELSE IF sess[l].stage = "unborn" THEN sess[l]
         ELSE [sess[l] EXCEPT !.stage = "gone", !.log = <<>>]]
  BY DEF Reload
<1>3. ASSUME NEW l \in 1..Lives
      PROVE  /\ sess[l] \in Sessions /\ sess'[l] \in Sessions
             /\ l = store => /\ sess'[l].init = "pending" /\ sess'[l].stage = sess[l].stage
                             /\ sess'[l].log = sess[l].log
             /\ l # store /\ sess[l].stage = "unborn" => sess'[l] = sess[l]
             /\ l # store /\ sess[l].stage # "unborn" => sess'[l].stage = "gone"
  <2>1. sess[l] \in Sessions
    BY <1>1 DEF TypeOK
  <2> QED BY <2>1, <1>2, BareSource DEF Sessions
<1>4. sess' \in [1..Lives -> Sessions]
  BY <1>2, <1>3
<1>5. disk' \in Logs /\ acked' \in Logs /\ tear' = tear
  <2>1. CASE UNCHANGED storage
    BY <1>1, <2>1 DEF storage, TypeOK
  <2>2. CASE /\ state.owner # NoOne /\ sess[state.owner].init = "ok"
             /\ disk' = disk \o Unwritten(state.owner) /\ acked' = disk' /\ UNCHANGED tear
    <3>1. state.owner \in 1..Lives /\ state.cursor \in Nat
      BY <1>1, <2>2 DEF TypeOK, States, NoOne, CoordinatorAssumption
    <3> DEFINE g == sess[state.owner].log
    <3>2. g \in Logs
      BY <3>1, <1>3 DEF Sessions
    <3>3. Unwritten(state.owner) = SubSeq(g, state.cursor + 1, Len(g))
      BY DEF Unwritten
    <3> HIDE DEF g
    <3>4. Unwritten(state.owner) \in Logs
      <4>1. state.cursor + 1 \in Int /\ Len(g) \in Int
        BY <3>1, <3>2, LenProperties DEF Logs
      <4>2. \A i \in (state.cursor + 1)..Len(g) : g[i] \in LogEvents
        <5>1. g \in [1..Len(g) -> LogEvents]
          BY <3>2, LenProperties DEF Logs
        <5> QED BY <5>1, <3>1, <3>2
      <4> QED BY <4>1, <4>2, <3>3, SubSeqProperties DEF Logs
    <3> QED BY <2>2, <3>4, <1>1, ConcatProperties DEF TypeOK, Logs
  <2> QED BY <2>1, <2>2 DEF Reload
<1>6. store # NoOne => store \in 1..Lives /\ sess[store].stage = "live"
  BY <1>1 DEF TypeOK, IInv, Lineage, NoOne, CoordinatorAssumption
<1>7. Lineage'
  <2>1. store # NoOne => sess'[store].stage = "live"
    BY <1>3, <1>6
  <2>2. \A l \in 1..Lives : sess'[l].stage = "live" => l = store
    BY <1>3, <1>6 DEF IInv, Lineage
  <2>3. \A l \in 1..Lives : /\ sess'[l].stage = "unborn" => sess[l].stage = "unborn" /\ l # store
                            /\ sess[l].stage = "unborn" => sess'[l] = sess[l]
    <3> TAKE l \in 1..Lives
    <3>1. CASE l = store
      <4>1. l # NoOne
        BY CoordinatorAssumption DEF NoOne
      <4> QED BY <3>1, <4>1, <1>3, <1>6
    <3>2. CASE l # store
      BY <3>2, <1>3
    <3> QED BY <3>1, <3>2
  <2>4. \A l \in 1..Lives : l..Lives \subseteq 1..Lives
    BY CoordinatorAssumption
  <2> QED BY <1>1, <2>1, <2>2, <2>3, <2>4 DEF IInv, Lineage
<1>8. Ownership'
  <2>1. \A l \in 1..Lives : ~Owns(l)'
    <3> SUFFICES ASSUME NEW l \in 1..Lives, Owns(l)' PROVE FALSE
      OBVIOUS
    <3>1. sess'[l].init = "ok" /\ sess'[l].stage \in {"live", "retiring"}
      BY DEF Owns
    <3>2. l # store /\ sess[l].stage = "unborn" /\ sess'[l] = sess[l]
      BY <3>1, <1>3
    <3> QED BY <3>1, <3>2
  <2> QED BY <1>1, <2>1, NoStateIs DEF Ownership
<1>9. Preparation'
  BY <1>1, NoEntryIs DEF IInv, Preparation, Held, Committing, Over
<1>10. chain' \in Seq(Ops) /\ ChainInv'
  <2>1. CASE store = NoOne
    <3>1. chain' = <<>>
      BY <1>1, <2>1
    <3> QED BY <3>1 DEF ChainInv, Chained
  <2>2. CASE store # NoOne
    <3> DEFINE data == <<0, Live.log>>
               o == Op("created", store, data)
    <3>1. chain' = <<o>> /\ Live.log \in Logs
      BY <1>1, <2>2, LiveLog
    <3>2. data \in {<<>>} \cup (Nat \X Logs) /\ data # <<>> /\ data[1] = 0 /\ data[2] = Live.log
      BY <3>1, DataIs
    <3>3. o = Op("created", store, data)
      OBVIOUS
    <3> HIDE DEF data, o
    <3>4. o \in Ops /\ o.op = "created" /\ o.who = store /\ o.stage = "queued" /\ o.data = data
      <4>1. "created" \in Kinds /\ store \in Callers \cup 0..Lives
        BY <1>1 DEF Kinds, TypeOK
      <4> QED BY <3>2, <3>3, <4>1 DEF Op, Ops
    <3>5. Fits(o, Now')
      <4>1. /\ (Now').sess[store].init = "pending" /\ (Now').sess[store].stage = "live"
            /\ Begins(data[2], (Now').sess[store].log)
        BY <2>2, <3>1, <3>2, <1>3, <1>6, BeginsSelf, NowIs DEF Live
      <4>2. /\ (Now').state.owner < store /\ (Now').store = store
            /\ (Now').entry.phase = "none"
        <5>1. 0 < store
          BY <2>2, <1>6, CoordinatorAssumption
        <5> QED BY <5>1, <1>1, NoStateIs, NoEntryIs, NowIs
      <4>3. store <= store
        BY <2>2, <1>6, CoordinatorAssumption
      <4> QED BY <2>2, <1>6, <3>2, <3>4, <4>1, <4>2, <4>3, FitsIs
    <3>6. <<>> \in Seq(Ops) /\ Chained(<<>>, Now') /\ Append(<<>>, o) = <<o>>
      BY DEF Chained
    <3>7. \A i \in DOMAIN <<>> : Precedes(<<>>[i], o, Now')
      OBVIOUS
    <3>8. Append(<<>>, o) \in Seq(Ops) /\ Chained(Append(<<>>, o), Now')
      BY <3>4, <3>5, <3>6, <3>7, ChainGrows
    <3> QED BY <3>1, <3>6, <3>8 DEF ChainInv
  <2> QED BY <2>1, <2>2
<1>11. TypeOK'
  BY <1>1, <1>4, <1>5, <1>10, NoStateIs, NoEntryIs DEF TypeOK
<1> QED BY <1>7, <1>8, <1>9, <1>10, <1>11 DEF IInv

(* What an append or a repair may leave behind when the process dies.      *)
LEMMA CutsAre ==
  ASSUME NEW s \in Logs, NEW w \in Cuts(s)
  PROVE  w \in Logs
<1>1. PICK k \in 0..Len(s) : w = SubSeq(s, 1, k)
  BY DEF Cuts
<1>2. Len(s) \in Nat /\ s \in [1..Len(s) -> LogEvents]
  BY LenProperties DEF Logs
<1>3. 1 \in Int /\ k \in Int /\ \A i \in 1..k : s[i] \in LogEvents
  BY <1>1, <1>2
<1> QED BY <1>1, <1>3, SubSeqProperties DEF Logs

(* What a crash leaves of a write is a log and perhaps a tear.             *)
LEMMA LeavesAre ==
  ASSUME TypeOK, NEW evs \in Logs, NEW left \in Leaves(evs)
  PROVE  left[1] \in Logs /\ left[2] \in Tears /\ (~left[2].torn => left[2].holds = <<>>)
<1>1. disk \in Logs /\ Clean \in Tears /\ Clean.holds = <<>>
  BY BareSource DEF TypeOK, Clean, Tears
<1>2. \A w \in Logs : Torn(w) \in Tears /\ Torn(w).torn
  BY DEF Torn, Tears
<1>3. <<>> \in Logs
  BY BareSource
<1>4. \/ left = <<disk, Clean>> \/ left = <<evs, Clean>>
      \/ \E w \in Cuts(evs), t \in {Clean, Torn(<<>>)} : left = <<disk \o w, t>>
      \/ \E w \in Cuts(evs) : left = <<disk, Torn(w)>>
  BY DEF Leaves
<1>5. CASE left = <<disk, Clean>> \/ left = <<evs, Clean>>
  BY <1>1, <1>5
<1>6. CASE \E w \in Cuts(evs), t \in {Clean, Torn(<<>>)} : left = <<disk \o w, t>>
  <2>1. PICK w \in Cuts(evs), t \in {Clean, Torn(<<>>)} : left = <<disk \o w, t>>
    BY <1>6
  <2>2. disk \o w \in Logs
    BY <1>1, CutsAre, ConcatProperties DEF Logs
  <2> QED BY <1>1, <1>2, <1>3, <2>1, <2>2
<1>7. CASE \E w \in Cuts(evs) : left = <<disk, Torn(w)>>
  <2>1. PICK w \in Cuts(evs) : left = <<disk, Torn(w)>>
    BY <1>7
  <2> QED BY <1>1, <1>2, <2>1, CutsAre
<1> QED BY <1>4, <1>5, <1>6, <1>7

(* Crash: only the disk is left.                                           *)
LEMMA CrashKeeps ==
  ASSUME IInv, Crash
  PROVE  IInv'
<1>1. /\ TypeOK /\ acked' = acked /\ state' = NoState /\ entry' = NoEntry /\ chain' = <<>>
      /\ call' = [p \in Callers |-> Idle] /\ store' = NoOne
      /\ sess' = [l \in 1..Lives |->
           IF sess[l].stage = "unborn" THEN sess[l] ELSE [Unborn EXCEPT !.stage = "gone"]]
  BY DEF Crash, IInv
<1>2. disk' \in Logs /\ tear' \in Tears /\ (~tear'.torn => tear'.holds = <<>>)
  <2>1. disk \in Logs /\ tear \in Tears /\ (~tear.torn => tear.holds = <<>>) /\ tear.holds \in Logs
    BY <1>1 DEF TypeOK, Tears
  <2>2. CASE disk' = disk /\ tear' = tear
    BY <2>1, <2>2
  <2>3. ASSUME NEW evs \in Logs, NEW left \in Leaves(evs), disk' = left[1], tear' = left[2]
        PROVE  disk' \in Logs /\ tear' \in Tears /\ (~tear'.torn => tear'.holds = <<>>)
    BY <1>1, <2>3, LeavesAre
  <2>4. IsWrite /\ Head(chain).stage = "writing" => Events \in Logs
    BY EventsIs DEF IsWrite
  <2>5. tear.holds \o ClosersOf(Stored) \in Logs
    <3>1. ClosersOf(Stored) \in Logs
      BY <1>1, PreparedSource
    <3> QED BY <2>1, <3>1, ConcatProperties DEF Logs
  <2> DEFINE choices ==
        CASE IsWrite /\ Head(chain).stage = "writing" -> Leaves(Events)
          [] \/ Stage("commit", "repairing")
             \/ IsWrite /\ Head(chain).stage = "adopting" ->
               {<<disk, tear>>} \cup Leaves(tear.holds \o ClosersOf(Stored))
          [] OTHER -> {<<disk, tear>>}
  <2>6. PICK left \in choices : disk' = left[1] /\ tear' = left[2]
    BY DEF Crash
  <2>7. \/ left = <<disk, tear>>
        \/ left \in Leaves(tear.holds \o ClosersOf(Stored))
        \/ IsWrite /\ Head(chain).stage = "writing" /\ left \in Leaves(Events)
    BY <2>6
  <2>8. CASE left = <<disk, tear>>
    BY <2>1, <2>6, <2>8
  <2>9. CASE left \in Leaves(tear.holds \o ClosersOf(Stored))
    BY <2>3, <2>5, <2>6, <2>9
  <2>10. CASE IsWrite /\ Head(chain).stage = "writing" /\ left \in Leaves(Events)
    BY <2>3, <2>4, <2>6, <2>10
  <2> QED BY <2>7, <2>8, <2>9, <2>10
<1>3. ASSUME NEW l \in 1..Lives
      PROVE  /\ sess'[l] \in Sessions /\ sess'[l].stage \in {"unborn", "gone"}
             /\ sess'[l].stage = "unborn" => sess'[l] = sess[l]
             /\ sess[l].stage = "unborn" => sess'[l] = sess[l]
  <2>1. [Unborn EXCEPT !.stage = "gone"] = [log |-> <<>>, stage |-> "gone", init |-> "none"]
    BY DEF Unborn
  <2> QED BY <2>1, <1>1, BareSource DEF TypeOK, Sessions
<1>4. TypeOK'
  <2>1. sess' \in [1..Lives -> Sessions]
    BY <1>1, <1>3
  <2>2. NoOne \in 0..Lives /\ call' \in [Callers -> CallStates]
    BY <1>1, IdleCaller, CoordinatorAssumption DEF NoOne
  <2>3. <<>> \in Seq(Ops)
    OBVIOUS
  <2> QED BY <1>1, <1>2, <2>1, <2>2, <2>3, NoStateIs, NoEntryIs DEF TypeOK
<1>5. Lineage'
  <2>1. \A l \in 1..Lives : l..Lives \subseteq 1..Lives
    BY CoordinatorAssumption
  <2> QED BY <1>1, <1>3, <2>1 DEF IInv, Lineage
<1>6. Ownership'
  <2>1. \A l \in 1..Lives : ~Owns(l)'
    BY <1>3 DEF Owns
  <2> QED BY <1>1, <2>1, NoStateIs DEF Ownership
<1>7. Preparation'
  <2>1. \A p \in Callers : Sound(call'[p]) /\ call'[p].at = "idle"
    BY <1>1, IdleCaller DEF Idle
  <2> QED BY <1>1, <2>1, NoEntryIs DEF Preparation, Held, Committing
<1>8. ChainInv'
  BY <1>1 DEF ChainInv, Chained
<1> QED BY <1>4, <1>5, <1>6, <1>7, <1>8 DEF IInv

-----------------------------------------------------------------------------
(* A published Session asks for the id: it is bound as its owner, refused, *)
(* or an owner that stored nothing makes way first.                        *)
LEMMA CreatedIs ==
  ASSUME IInv, Running("created")
  PROVE  /\ chain # <<>> /\ Head(chain).op = "created" /\ Head(chain).who = Who
         /\ Who \in 1..Lives /\ Events = Head(chain).data[2] /\ Events \in Logs
         /\ sess[Who] \in Sessions
         /\ sess[Who].init = "pending" /\ sess[Who].stage \in {"live", "retiring"}
         /\ Begins(Events, sess[Who].log)
         /\ state.owner < Who /\ (store # NoOne => Who <= store)
         /\ entry.phase \in {"none", "loading"}
         /\ \A q \in Callers : ~Held(q) /\ ~Committing(q) /\ call[q].at # "append"
         /\ \A i \in DOMAIN chain : i # 1 =>
              /\ chain[i] \in Ops /\ Fits(chain[i], Now)
              /\ chain[i].op \in {"created", "suffix", "batch", "release"} =>
                   chain[i].who \in 1..Lives /\ chain[i].who # Who
              /\ chain[i].op = "created" => Who < chain[i].who
              /\ chain[i].op # "append"
<1>1. /\ chain # <<>> /\ Head(chain).op = "created" /\ Head(chain).who = Who
      /\ Fits(Head(chain), Now) /\ chain \in Seq(Ops)
  BY FirstIs DEF Running, Who, IInv, TypeOK
<1>2. Events = Head(chain).data[2] /\ Events \in Logs
  BY <1>1, EventsIs
<1>3. /\ Who \in 1..Lives /\ sess[Who].init = "pending" /\ sess[Who].stage \in {"live", "retiring"}
      /\ Begins(Events, sess[Who].log)
      /\ state.owner < Who /\ (store # NoOne => Who <= store)
      /\ entry.phase \in {"none", "loading"}
  BY <1>1, <1>2, NowIs DEF Fits
<1>4. sess[Who] \in Sessions /\ state.owner \in 0..Lives
  BY <1>3 DEF IInv, TypeOK, States
<1>5. \A q \in Callers : ~Held(q) /\ ~Committing(q) /\ call[q].at # "append"
  BY <1>3 DEF IInv, Preparation
<1>6. ASSUME NEW i \in DOMAIN chain, i # 1
      PROVE  /\ chain[i] \in Ops /\ Fits(chain[i], Now)
             /\ chain[i].op \in {"created", "suffix", "batch", "release"} =>
                  chain[i].who \in 1..Lives /\ chain[i].who # Who
             /\ chain[i].op = "created" => Who < chain[i].who
             /\ chain[i].op # "append"
  <2>1. chain[i] \in Ops /\ Fits(chain[i], Now) /\ Precedes(Head(chain), chain[i], Now)
    BY <1>1, <1>6, FirstIs, LenProperties
  <2>2. chain[i].op = "created" => Who < chain[i].who
    BY <1>1, <2>1 DEF Precedes
  <2>3. chain[i].op \in {"created", "suffix", "batch", "release"} => chain[i].who \in 1..Lives
    BY <2>1 DEF Fits
  <2>4. chain[i].op = "created" => chain[i].who # Who
    BY <1>3, <2>2, <2>3
  <2>5. chain[i].op \in {"suffix", "batch"} => chain[i].who # Who
    BY <1>3, <1>4, <2>1, NowIs DEF Fits
  <2>6. chain[i].op = "release" => chain[i].who # Who
    BY <1>3, <2>1, NowIs DEF Fits
  <2>7. chain[i].op # "append"
    BY <1>5, <2>1, NowIs DEF Fits
  <2> QED BY <2>1, <2>2, <2>3, <2>4, <2>5, <2>6, <2>7
<1> QED BY <1>1, <1>2, <1>3, <1>4, <1>5, <1>6

(* Its initialization is settled, one way or the other.                    *)
LEMMA SettledLineage ==
  ASSUME IInv, NEW l \in 1..Lives, NEW init \in {"ok", "failed"},
         sess[l].stage \in {"live", "retiring"},
         sess' = [sess EXCEPT ![l].init = init], store' = store
  PROVE  /\ sess' \in [1..Lives -> Sessions] /\ Lineage'
         /\ sess'[l].init = init /\ sess'[l].stage = sess[l].stage /\ sess'[l].log = sess[l].log
         /\ \A k \in 1..Lives : k # l => sess'[k] = sess[k]
<1>1. /\ sess' \in [1..Lives -> Sessions] /\ sess'[l].init = init
      /\ sess'[l].stage = sess[l].stage /\ sess'[l].log = sess[l].log
      /\ \A k \in 1..Lives : k # l => sess'[k] = sess[k]
  BY DEF IInv, TypeOK, Sessions
<1>2. Lineage'
  <2>1. store # NoOne => store \in 1..Lives
    BY DEF IInv, TypeOK, NoOne, CoordinatorAssumption
  <2>2. \A k \in 1..Lives : /\ sess'[k].stage = sess[k].stage
                            /\ sess'[k].stage = "unborn" => sess'[k] = sess[k]
    BY <1>1
  <2>3. \A k \in 1..Lives : k..Lives \subseteq 1..Lives
    BY CoordinatorAssumption
  <2> QED BY <2>1, <2>2, <2>3 DEF IInv, Lineage
<1> QED BY <1>1, <1>2

(* An initialization that fails owns nothing.                              *)
LEMMA CollisionKeeps ==
  ASSUME IInv, Running("created"), Collision(Who),
         UNCHANGED <<storage, state, entry, call, store>>
  PROVE  IInv'
<1> DEFINE l == Who
<1>1. /\ chain # <<>> /\ l \in 1..Lives /\ sess[l].stage \in {"live", "retiring"}
      /\ \A q \in Callers : ~Held(q) /\ ~Committing(q) /\ call[q].at # "append"
      /\ \A i \in DOMAIN chain : i # 1 =>
           /\ chain[i] \in Ops /\ Fits(chain[i], Now)
           /\ chain[i].op \in {"created", "suffix", "batch", "release"} =>
                chain[i].who \in 1..Lives /\ chain[i].who # l
  BY CreatedIs
<1>2. chain' = Tail(chain) /\ sess' = [sess EXCEPT ![l].init = "failed"]
  BY DEF Collision
<1> HIDE DEF l
<1>3. /\ sess' \in [1..Lives -> Sessions] /\ Lineage'
      /\ sess'[l].init = "failed" /\ sess'[l].stage = sess[l].stage
      /\ \A k \in 1..Lives : k # l => sess'[k] = sess[k]
  BY <1>1, <1>2, SettledLineage
<1>4. Ownership'
  <2>1. \A k \in 1..Lives : Owns(k)' => Owns(k) /\ sess'[k] = sess[k]
    BY <1>3 DEF Owns
  <2>2. state.owner # NoOne => sess'[state.owner].stage # "unborn"
    BY <1>1, <1>3 DEF IInv, TypeOK, Ownership, States, NoOne
  <2> QED BY <2>1, <2>2 DEF IInv, Ownership, storage
<1>5. Preparation'
  BY <1>1 DEF IInv, Preparation, Held, Committing, Revision, storage
<1>6. ASSUME NEW u, Fits(u, Now),
             u.op \in {"created", "suffix", "batch", "release"} => u.who \in 1..Lives /\ u.who # l
      PROVE  Fits(u, Now')
  <2>1. u.op \in {"created", "suffix", "batch", "release"} => sess'[u.who] = sess[u.who]
    BY <1>3, <1>6
  <2> QED BY <1>6, <2>1, NowIs DEF Fits, storage
<1>7. chain' \in Seq(Ops) /\ ChainInv'
  <2>1. chain \in Seq(Ops) /\ Chained(chain, Now) /\ Looser(Now, Now')
    BY NowIs DEF IInv, TypeOK, ChainInv, Looser
  <2>2. \A i \in DOMAIN chain : i # 1 => Fits(chain[i], Now')
    BY <1>1, <1>6
  <2>3. Tail(chain) \in Seq(Ops) /\ Chained(Tail(chain), Now')
    BY <1>1, <2>1, <2>2, ChainPops
  <2> QED BY <1>2, <2>3 DEF ChainInv
<1>8. TypeOK'
  BY <1>3, <1>7 DEF IInv, TypeOK, storage
<1> QED BY <1>3, <1>4, <1>5, <1>7, <1>8 DEF IInv

(* An initialization that claims what is stored owns it.                   *)
LEMMA ClaimKeeps ==
  ASSUME IInv, Running("created"), state.owner = NoOne, Claim(Who, Len(disk'), Events),
         disk' \in Logs, acked' \in Logs, tear' \in Tears, ~tear'.torn, tear'.holds = <<>>,
         Begins(disk', Events), UNCHANGED <<entry, call, store>>
  PROVE  IInv'
<1> DEFINE l == Who
           e == Events
           c == Len(disk')
<1>1. /\ chain # <<>> /\ l \in 1..Lives /\ sess[l].stage \in {"live", "retiring"}
      /\ sess[l].init = "pending" /\ e \in Logs /\ sess[l].log \in Logs
      /\ Begins(e, sess[l].log) /\ entry.phase \in {"none", "loading"}
      /\ \A q \in Callers : ~Held(q) /\ ~Committing(q) /\ call[q].at # "append"
      /\ \A i \in DOMAIN chain : i # 1 =>
           /\ chain[i] \in Ops /\ Fits(chain[i], Now)
           /\ chain[i].op \in {"created", "suffix", "batch", "release"} =>
                chain[i].who \in 1..Lives /\ chain[i].who # l
           /\ chain[i].op = "created" => l < chain[i].who
           /\ chain[i].op # "append"
  BY CreatedIs DEF Sessions
<1>2. /\ state' = [cursor |-> c, owner |-> l, known |-> TRUE]
      /\ \/ /\ Len(e) > c
            /\ chain' = <<Op("suffix", l, <<c, SubSeq(e, c + 1, Len(e))>>)>> \o Tail(chain)
            /\ sess' = sess
         \/ /\ ~(Len(e) > c)
            /\ chain' = Tail(chain) /\ sess' = [sess EXCEPT ![l].init = "ok"]
  BY DEF Claim
<1>3. Begins(disk', e)
  OBVIOUS
<1> HIDE DEF l, e
<1>4. c \in Nat
  BY LenProperties DEF Logs
<1>5. /\ state' \in States /\ state'.owner = l /\ state'.known /\ state'.cursor = c
  BY <1>1, <1>2, <1>4 DEF States
<1>6. l # NoOne
  BY <1>1 DEF NoOne
<1>7. \A k \in 1..Lives : ~(Owns(k) /\ (sess[k].log # <<>> \/ k = store))
  BY DEF IInv, Ownership, NoOne
<1>8. /\ sess' \in [1..Lives -> Sessions] /\ Lineage'
      /\ sess'[l].stage = sess[l].stage /\ sess'[l].log = sess[l].log
      /\ sess'[l].init = IF Len(e) > c THEN "pending" ELSE "ok"
      /\ \A k \in 1..Lives : k # l => sess'[k] = sess[k]
  <2>1. CASE Len(e) > c
    <3>1. sess' = sess
      BY <1>2, <2>1
    <3>2. Lineage'
      BY <3>1 DEF IInv, Lineage
    <3>3. sess' \in [1..Lives -> Sessions] /\ sess'[l].init = "pending"
      BY <1>1, <3>1 DEF IInv, TypeOK
    <3> QED BY <2>1, <3>1, <3>2, <3>3
  <2>2. CASE ~(Len(e) > c)
    <3>1. sess' = [sess EXCEPT ![l].init = "ok"]
      BY <1>2, <2>2
    <3> QED BY <1>1, <2>2, <3>1, SettledLineage
  <2> QED BY <2>1, <2>2
<1>9. Ownership'
  <2>1. Begins(disk', sess'[l].log)
    BY <1>1, <1>3, <1>8, BeginsMeets
  <2>2. \A k \in 1..Lives : k # l => ~(Owns(k)' /\ (sess'[k].log # <<>> \/ k = store))
    BY <1>7, <1>8 DEF Owns
  <2> QED BY <1>1, <1>5, <1>6, <1>8, <2>1, <2>2 DEF Ownership
<1>10. Preparation'
  BY <1>1 DEF IInv, Preparation, Held, Committing
<1>11. ASSUME NEW u \in Ops, Fits(u, Now), u.op # "append",
              u.op \in {"created", "suffix", "batch", "release"} => u.who \in 1..Lives /\ u.who # l,
              u.op = "created" => l < u.who
       PROVE  Fits(u, Now') /\ u.op \notin {"suffix", "batch"}
  <2>1. u.op \notin {"suffix", "batch"}
    BY <1>11, NowIs DEF Fits, NoOne
  <2>2. u.op \in {"created", "release"} =>
          (Now').sess[u.who] = Now.sess[u.who] /\ u.who \in 1..Lives
    BY <1>8, <1>11, NowIs
  <2>3. (Now').state.owner = l /\ (Now').store = Now.store /\ (Now').entry = Now.entry
        /\ (Now').call = Now.call
    BY <1>5, NowIs
  <2>4. CASE u.op = "created"
    BY <1>11, <2>2, <2>3, <2>4, FitsIs
  <2>5. CASE u.op = "release"
    <3>1. sess[u.who].init = "ok" /\ sess[u.who].stage = "retiring"
      BY <1>11, <2>5, NowIs DEF Fits
    <3>2. sess[u.who].log = <<>>
      BY <1>7, <2>2, <2>5, <3>1 DEF Owns
    <3>3. /\ (Now').sess[u.who].log = <<>> /\ (Now').sess[u.who].init = "ok"
          /\ (Now').sess[u.who].stage = "retiring"
      BY <2>2, <2>5, <3>1, <3>2, NowIs
    <3> QED BY <2>1, <2>2, <2>5, <3>3, FitsIs
  <2>6. CASE u.op \notin {"created", "release"}
    BY <1>11, <2>1, <2>3, <2>6 DEF Fits
  <2> QED BY <2>1, <2>4, <2>5, <2>6
<1>12. /\ chain \in Seq(Ops) /\ Chained(chain, Now) /\ Looser(Now, Now')
       /\ \A i \in DOMAIN chain : i # 1 => chain[i].stage = "queued"
  BY NowIs DEF IInv, TypeOK, ChainInv, Looser, Chained
<1>13. \A i \in DOMAIN chain : i # 1 => Fits(chain[i], Now') /\ chain[i].op \notin {"suffix", "batch"}
  BY <1>1, <1>11
<1>14. Tail(chain) \in Seq(Ops) /\ Chained(Tail(chain), Now')
  BY <1>1, <1>12, <1>13, ChainPops
<1>15. chain' \in Seq(Ops) /\ ChainInv'
  <2>1. CASE ~(Len(e) > c)
    <3>1. chain' = Tail(chain)
      BY <1>2, <2>1
    <3> QED BY <3>1, <1>14 DEF ChainInv
  <2>2. CASE Len(e) > c
    <3> DEFINE rest == SubSeq(e, c + 1, Len(e))
               data == <<c, rest>>
               o == Op("suffix", l, data)
    <3>1. rest \in Logs /\ disk' \o rest = e
      BY <1>1, <1>3, BeginsRest
    <3>2. rest # <<>>
      <4> HIDE DEF rest
      <4>1. Len(e) = c + Len(rest) /\ Len(rest) \in Nat
        <5>1. Len(disk' \o rest) = Len(disk') + Len(rest)
          BY <3>1, ConcatProperties DEF Logs
        <5> QED BY <3>1, <5>1, LenProperties DEF Logs
      <4>2. Len(rest) # 0
        BY <4>1, <2>2, <1>4
      <4> QED BY <4>2
    <3>3. chain' = <<o>> \o Tail(chain) /\ sess' = sess
      BY <1>2, <2>2
    <3> HIDE DEF rest
    <3>4. data \in {<<>>} \cup (Nat \X Logs) /\ data # <<>> /\ data[1] = c /\ data[2] = rest
      BY <1>4, <3>1, DataIs
    <3>5. o = Op("suffix", l, data)
      OBVIOUS
    <3> HIDE DEF data, o
    <3>6. o \in Ops /\ o.op = "suffix" /\ o.who = l /\ o.stage = "queued" /\ o.data = data
      <4>1. "suffix" \in Kinds /\ l \in Callers \cup 0..Lives
        BY <1>1, CoordinatorAssumption DEF Kinds
      <4> QED BY <3>4, <3>5, <4>1 DEF Op, Ops
    <3>7. Fits(o, Now')
      <4>1. /\ (Now').sess[l].init = "pending" /\ (Now').sess[l].stage \in {"live", "retiring"}
            /\ (Now').state.owner = l /\ (Now').state.cursor = Len((Now').disk)
            /\ (Now').state.cursor = data[1] /\ ~(Now').tear.torn
            /\ Begins((Now').disk \o data[2], (Now').sess[l].log)
        BY <1>1, <1>5, <3>1, <3>3, <3>4, NowIs
      <4> QED BY <1>1, <3>2, <3>4, <3>6, <4>1, FitsIs
    <3>8. \A i \in DOMAIN chain : i # 1 => Precedes(o, chain[i], Now') /\ chain[i].stage = "queued"
      BY <1>12, <1>13, <3>6 DEF Precedes
    <3>9. <<o>> \o Tail(chain) \in Seq(Ops) /\ Chained(<<o>> \o Tail(chain), Now')
      BY <1>1, <1>12, <1>14, <3>6, <3>7, <3>8, ChainReplaces
    <3> QED BY <3>3, <3>9 DEF ChainInv
  <2> QED BY <2>1, <2>2
<1>16. TypeOK'
  BY <1>5, <1>8, <1>15 DEF IInv, TypeOK
<1> QED BY <1>8, <1>9, <1>10, <1>15, <1>16 DEF IInv

(* A disposed Session with nothing stored makes way.                       *)
LEMMA MakesWayKeeps ==
  ASSUME IInv, Running("created"), state.owner # NoOne,
         state.cursor = 0, sess[state.owner].log = <<>>, state' = NoState,
         UNCHANGED <<storage, entry, chain, call, sess, store>>
  PROVE  IInv'
<1>1. /\ chain # <<>> /\ Head(chain).op = "created" /\ Who \in 1..Lives
      /\ state.owner < Who /\ (store # NoOne => Who <= store)
      /\ \A q \in Callers : ~Held(q)
  BY CreatedIs
<1>2. state.owner \in 1..Lives /\ store \in 0..Lives /\ state.owner # store
  <2>1. state.owner \in 1..Lives /\ store \in 0..Lives
    BY CoordinatorAssumption DEF IInv, TypeOK, States, NoOne
  <2> QED BY <2>1, <1>1, CoordinatorAssumption DEF NoOne
<1>3. \A k \in 1..Lives : ~(Owns(k) /\ (sess[k].log # <<>> \/ k = store))
  BY <1>2 DEF IInv, Ownership
<1>4. Ownership'
  BY <1>3, NoStateIs DEF Ownership, Owns
<1>5. Lineage'
  BY DEF IInv, Lineage
<1>6. Preparation'
  BY <1>1 DEF IInv, Preparation, Held, Committing
<1>7. ASSUME NEW u \in Ops, Fits(u, Now)
      PROVE  Fits(u, Now')
  <2>1. u.op \notin {"suffix", "batch"}
    <3> SUFFICES ASSUME u.op \in {"suffix", "batch"} PROVE FALSE
      OBVIOUS
    <3>1. /\ u.data # <<>> /\ u.data[2] # <<>> /\ u.data \in {<<>>} \cup (Nat \X Logs)
          /\ Begins(disk \o u.data[2], sess[state.owner].log)
      BY <1>7, NowIs DEF Fits, Ops
    <3> DEFINE s == u.data[2]
    <3>2. s \in Logs /\ s # <<>> /\ Begins(disk \o s, <<>>)
      BY <3>1
    <3> HIDE DEF s
    <3>3. disk \in Logs /\ <<>> \in Logs /\ Len(disk) \in Nat /\ Len(<<>>) = 0
      BY BareSource, LenProperties DEF IInv, TypeOK, Logs
    <3>4. Len(s) \in Nat /\ Len(s) # 0
      BY <3>2, LenProperties, EmptySeq DEF Logs
    <3>5. Len(disk) + Len(s) <= Len(<<>>)
      BY <3>2, <3>3, BeginsJoined
    <3> QED BY <3>3, <3>4, <3>5
  <2>2. /\ (Now').state.owner = 0 /\ (Now').state.cursor = Now.state.cursor
        /\ (Now').sess = Now.sess /\ (Now').store = Now.store /\ (Now').entry = Now.entry
        /\ (Now').call = Now.call
    BY NoStateIs, NowIs DEF NoState
  <2>3. CASE u.op = "created"
    <3>1. u.who \in 1..Lives
      BY <1>7, <2>3 DEF Fits
    <3>2. 0 < u.who
      BY <3>1
    <3> QED BY <1>7, <2>2, <2>3, <3>2, FitsIs
  <2>4. CASE u.op = "release"
    BY <1>7, <2>2, <2>4, FitsIs
  <2>5. CASE u.op \notin {"created", "release"}
    BY <1>7, <2>1, <2>2, <2>5 DEF Fits
  <2> QED BY <2>3, <2>4, <2>5
<1>8. ChainInv'
  <2>1. Looser(Now, Now')
    BY NowIs DEF Looser
  <2>2. chain \in Seq(Ops) /\ Chained(chain, Now) /\ \A i \in DOMAIN chain : chain[i] \in Ops
    BY LenProperties DEF IInv, TypeOK, ChainInv
  <2>3. Runs(chain[1], Now')
    <3>1. chain[1].op = "created" /\ Runs(chain[1], Now)
      BY <1>1, FirstIs
    <3> QED BY <3>1 DEF Runs
  <2>4. \A i \in DOMAIN chain : Fits(chain[i], Now')
    BY <1>7, <2>2 DEF Chained
  <2>5. Chained(chain, Now')
    BY <2>1, <2>2, <2>3, <2>4, ChainKept
  <2> QED BY <2>5 DEF ChainInv
<1>9. TypeOK'
  BY NoStateIs DEF IInv, TypeOK, storage
<1> QED BY <1>4, <1>5, <1>6, <1>8, <1>9 DEF IInv

(* ClaimTracked: case 1 of onCreated.                                      *)
LEMMA ClaimTrackedKeeps ==
  ASSUME IInv, ClaimTracked
  PROVE  IInv'
<1>1. /\ Running("created") /\ state.known /\ UNCHANGED <<storage, entry, call, store>> /\ TypeOK
  BY DEF ClaimTracked, IInv
<1>2. CASE state.owner # NoOne
  <2>1. CASE state.cursor = 0 /\ sess[state.owner].log = <<>>
    <3>1. state' = NoState /\ UNCHANGED <<chain, sess>>
      BY <1>2, <2>1 DEF ClaimTracked
    <3> QED BY <1>1, <1>2, <2>1, <3>1, MakesWayKeeps
  <2>2. CASE ~(state.cursor = 0 /\ sess[state.owner].log = <<>>)
    <3>1. Collision(Who) /\ UNCHANGED state
      BY <1>2, <2>2 DEF ClaimTracked
    <3> QED BY <1>1, <3>1, CollisionKeeps
  <2> QED BY <2>1, <2>2
<1>3. CASE state.owner = NoOne
  <2>1. CASE ~(state.cursor = 0 \/ IsPrefix(SubSeq(Stored, 1, state.cursor), Events))
    <3>1. Collision(Who) /\ UNCHANGED state
      BY <1>3, <2>1 DEF ClaimTracked
    <3> QED BY <1>1, <3>1, CollisionKeeps
  <2>2. CASE state.cursor = 0 \/ IsPrefix(SubSeq(Stored, 1, state.cursor), Events)
    <3>1. Claim(Who, state.cursor, Events)
      BY <1>3, <2>2 DEF ClaimTracked
    <3>2. /\ disk \in Logs /\ acked \in Logs /\ tear \in Tears /\ ~tear.torn /\ tear.holds = <<>>
          /\ state.cursor = Len(disk) /\ Events \in Logs
      BY <1>1, <1>3, CreatedIs DEF IInv, TypeOK, Ownership
    <3>3. Stored = disk
      BY <3>2, ConcatEmptySeq DEF Stored, Logs
    <3>4. SubSeq(Stored, 1, state.cursor) = disk
      BY <3>2, <3>3, SubSeqFull DEF Logs
    <3>5. Begins(disk, Events)
      <4>1. CASE state.cursor = 0
        <5>1. disk = <<>>
          BY <4>1, <3>2, EmptySeq DEF Logs
        <5> QED BY <5>1, <3>2, BeginsSelf
      <4>2. CASE state.cursor # 0
        BY <4>2, <2>2, <3>2, <3>4, BeginsIsPrefix
      <4> QED BY <4>1, <4>2
    <3>6. Claim(Who, Len(disk'), Events) /\ Begins(disk', Events)
      BY <1>1, <3>1, <3>2, <3>5 DEF storage
    <3> QED BY <1>1, <1>3, <3>2, <3>6, ClaimKeeps DEF storage
  <2> QED BY <2>1, <2>2
<1> QED BY <1>2, <1>3

(* AdoptLivePrefix: cases 2 and 3 of onCreated.                            *)
LEMMA AdoptLivePrefixKeeps ==
  ASSUME IInv, AdoptLivePrefix
  PROVE  IInv'
<1>1. /\ Running("created") /\ UNCHANGED <<entry, call, store>> /\ TypeOK
      /\ state.owner = NoOne
  BY DEF AdoptLivePrefix, IInv, Ownership
<1>2. CASE ~IsPrefix(Stored, Events)
  <2>1. Collision(Who) /\ UNCHANGED <<storage, state>>
    BY <1>2 DEF AdoptLivePrefix
  <2> QED BY <1>1, <2>1, CollisionKeeps
<1>3. CASE IsPrefix(Stored, Events)
  <2>1. /\ Claim(Who, Len(Stored), Events)
        /\ IF tear.torn \/ AdoptionClosers # <<>> THEN WriteRepair(AdoptionClosers)
                                                  ELSE UNCHANGED storage
    BY <1>3 DEF AdoptLivePrefix
  <2>2. Stored \in Logs /\ Events \in Logs
    BY <1>1, PreparedSource, CreatedIs
  <2>3. Stored \o <<>> = Stored
    BY <2>2, ConcatEmptySeq DEF Logs
  <2>4. /\ disk' = Stored /\ acked' \in Logs /\ tear' \in Tears /\ ~tear'.torn /\ tear'.holds = <<>>
    <3>1. CASE tear.torn
      <4>1. WriteRepair(<<>>)
        BY <2>1, <3>1 DEF AdoptionClosers
      <4>2. Clean \in Tears /\ ~Clean.torn /\ Clean.holds = <<>>
        BY BareSource DEF Clean, Tears
      <4> QED BY <4>1, <4>2, <2>2, <2>3 DEF WriteRepair
    <3>2. CASE ~tear.torn
      <4>1. UNCHANGED storage
        BY <2>1, <3>2 DEF AdoptionClosers
      <4>2. disk \in Logs /\ tear \in Tears /\ tear.holds = <<>> /\ acked \in Logs
        BY <1>1, <3>2 DEF TypeOK
      <4>3. Stored = disk
        BY <4>2, ConcatEmptySeq DEF Stored, Logs
      <4> QED BY <3>2, <4>1, <4>2, <4>3 DEF storage
    <3> QED BY <3>1, <3>2
  <2>5. Begins(Stored, Events)
    BY <1>3, <2>2, BeginsIsPrefix
  <2>6. Claim(Who, Len(disk'), Events) /\ Begins(disk', Events)
    BY <2>1, <2>4, <2>5
  <2> QED BY <1>1, <2>2, <2>4, <2>6, ClaimKeeps
<1> QED BY <1>2, <1>3

(* CreateNew: case 4 of onCreated.                                         *)
LEMMA CreateNewKeeps ==
  ASSUME IInv, CreateNew
  PROVE  IInv'
<1>1. /\ Running("created") /\ UNCHANGED <<storage, entry, call, store>> /\ TypeOK
      /\ state.owner = NoOne /\ disk = <<>> /\ ~tear.torn
  BY DEF CreateNew, IInv, Ownership, Exists
<1>2. CASE entry.phase # "none"
  <2>1. Collision(Who) /\ UNCHANGED state
    BY <1>2 DEF CreateNew
  <2> QED BY <1>1, <2>1, CollisionKeeps
<1>3. CASE entry.phase = "none"
  <2>1. Claim(Who, 0, Events) /\ Events \in Logs
    BY <1>1, <1>3, CreatedIs DEF CreateNew
  <2>2. /\ disk' = <<>> /\ Len(disk') = 0 /\ disk' \in Logs /\ acked' \in Logs
        /\ tear' \in Tears /\ ~tear'.torn /\ tear'.holds = <<>>
    BY <1>1 DEF storage, TypeOK
  <2>3. Begins(disk', Events)
    BY <2>1, <2>2, BeginsSelf
  <2>4. Claim(Who, Len(disk'), Events)
    BY <2>1, <2>2
  <2> QED BY <1>1, <2>2, <2>3, <2>4, ClaimKeeps
<1> QED BY <1>2, <1>3

-----------------------------------------------------------------------------
(* Publication.                                                            *)
LEMMA NextLifeIs ==
  ASSUME IInv, CanBeBorn
  PROVE  /\ NextLife \in 1..Lives /\ sess[NextLife].stage = "unborn"
         /\ \A k \in 1..Lives : sess[k].stage = "unborn" <=> NextLife <= k
         /\ \A k \in 1..Lives : sess[k].stage # "live"
<1> DEFINE U == {l \in 1..Lives : sess[l].stage = "unborn"}
           n == Cardinality(U)
           m == Lives - n + 1
<1>1. /\ \E l \in 1..Lives : sess[l].stage = "unborn"
      /\ \A l \in 1..Lives : /\ sess[l].stage = "live" => l = store
                             /\ sess[l].stage = "unborn" => \A k \in l..Lives : sess[k].stage = "unborn"
      /\ store = NoOne /\ Lives \in Nat
  BY CoordinatorAssumption DEF CanBeBorn, IInv, Lineage
<1>2. IsFiniteSet(1..Lives) /\ U \in SUBSET (1..Lives) /\ U # {}
  BY <1>1, FS_Interval
<1>3. IsFiniteSet(U) /\ n \in Nat /\ n # 0
  BY <1>2, FS_Subset, FS_CardinalityType, FS_EmptySet
<1>4. n <= Lives
  <2>1. Cardinality(1..Lives) = Lives
    <3>1. 1 \in Int /\ Lives \in Int /\ (IF 1 > Lives THEN 0 ELSE Lives - 1 + 1) = Lives
      BY <1>1
    <3> QED BY <3>1, FS_Interval
  <2> QED BY <1>2, <2>1, FS_Subset
<1> HIDE DEF n
<1>5. m \in 1..Lives /\ Lives - m = n - 1
  BY <1>1, <1>3, <1>4
<1>6. m \in U
  <2> SUFFICES ASSUME m \notin U PROVE FALSE
    OBVIOUS
  <2> HIDE DEF m
  <2>1. U \subseteq (m + 1)..Lives
    <3> SUFFICES ASSUME NEW l \in U, ~(m + 1 <= l) PROVE FALSE
      BY <1>1, <1>5
    <3>1. m \in l..Lives
      BY <1>5
    <3> QED BY <3>1, <1>1, <1>5
  <2>2. IsFiniteSet((m + 1)..Lives) /\ Cardinality((m + 1)..Lives) = Lives - m
    <3>1. m + 1 \in Int /\ Lives \in Int
          /\ (IF m + 1 > Lives THEN 0 ELSE Lives - (m + 1) + 1) = Lives - m
      BY <1>1, <1>5
    <3> QED BY <3>1, FS_Interval
  <2>3. n <= Lives - m
    BY <2>1, <2>2, FS_Subset DEF n
  <2> QED BY <2>3, <1>3, <1>5
<1>7. \A k \in 1..(m - 1) : k \notin U
  <2> SUFFICES ASSUME NEW k \in 1..(m - 1), k \in U PROVE FALSE
    OBVIOUS
  <2> HIDE DEF m
  <2>1. (m - 1)..Lives \subseteq U
    <3>1. k..Lives \subseteq U
      BY <1>1, <1>5
    <3> QED BY <3>1, <1>5
  <2>2. Cardinality((m - 1)..Lives) = Lives - m + 2
    <3>1. /\ m - 1 \in Int /\ Lives \in Int
          /\ (IF m - 1 > Lives THEN 0 ELSE Lives - (m - 1) + 1) = Lives - m + 2
      BY <1>1, <1>5
    <3> QED BY <3>1, FS_Interval
  <2>3. Lives - m + 2 <= n
    BY <1>3, <2>1, <2>2, FS_Subset DEF n
  <2> QED BY <2>3, <1>3, <1>5
<1> HIDE DEF m
<1>8. \E l \in 1..Lives : sess[l].stage = "unborn" /\ \A k \in 1..(l - 1) : sess[k].stage # "unborn"
  <2>1. \A k \in 1..(m - 1) : k \in 1..Lives
    BY <1>1, <1>5
  <2> QED BY <1>5, <1>6, <1>7, <2>1
<1>9. /\ NextLife \in 1..Lives /\ sess[NextLife].stage = "unborn"
      /\ \A k \in 1..(NextLife - 1) : sess[k].stage # "unborn"
  BY <1>8 DEF NextLife
<1> HIDE DEF U
<1>10. \A k \in 1..Lives : sess[k].stage = "unborn" <=> NextLife <= k
  <2> TAKE k \in 1..Lives
  <2>1. CASE NextLife <= k
    <3>1. k \in NextLife..Lives
      BY <2>1, <1>9
    <3> QED BY <3>1, <2>1, <1>1, <1>9
  <2>2. CASE ~(NextLife <= k)
    <3>1. k \in 1..(NextLife - 1)
      BY <2>2, <1>9
    <3> QED BY <3>1, <2>2, <1>9
  <2> QED BY <2>1, <2>2
<1>11. \A k \in 1..Lives : sess[k].stage # "live"
  BY <1>1, CoordinatorAssumption DEF NoOne
<1> QED BY <1>9, <1>10, <1>11

(* The next Session is published; no other changes.                        *)
LEMMA BornIs ==
  ASSUME IInv, CanBeBorn, NEW s \in Sessions, s.stage = "live",
         sess' = [sess EXCEPT ![NextLife] = s], store' = NextLife
  PROVE  /\ sess' \in [1..Lives -> Sessions] /\ sess'[NextLife] = s
         /\ \A k \in 1..Lives : k # NextLife => sess'[k] = sess[k]
         /\ Lineage' /\ store' \in 0..Lives
         /\ \A k \in 1..Lives : sess[k].stage # "unborn" =>
              k # NextLife /\ k < NextLife /\ sess'[k] = sess[k]
<1> DEFINE l == NextLife
<1>1. /\ l \in 1..Lives /\ sess[l].stage = "unborn"
      /\ \A k \in 1..Lives : sess[k].stage = "unborn" <=> l <= k
      /\ \A k \in 1..Lives : sess[k].stage # "live"
  BY NextLifeIs
<1> HIDE DEF l
<1>2. /\ sess' \in [1..Lives -> Sessions] /\ sess'[l] = s
      /\ \A k \in 1..Lives : k # l => sess'[k] = sess[k]
  <2>1. sess' = [sess EXCEPT ![l] = s] /\ sess \in [1..Lives -> Sessions]
    BY DEF l, IInv, TypeOK
  <2> QED BY <1>1, <2>1
<1>3. \A k \in 1..Lives : sess[k].stage # "unborn" => k # l /\ k < l /\ sess'[k] = sess[k]
  BY <1>1, <1>2
<1>4. ASSUME NEW k \in 1..Lives, sess'[k].stage = "unborn"
      PROVE  sess'[k].init = "none" /\ \A j \in k..Lives : sess'[j].stage = "unborn"
  <2>1. k # l /\ sess'[k] = sess[k] /\ l <= k
    BY <1>1, <1>2, <1>4
  <2>2. sess[k].init = "none"
    BY <1>4, <2>1 DEF IInv, Lineage
  <2>3. ASSUME NEW j \in k..Lives PROVE sess'[j].stage = "unborn"
    <3>1. j \in 1..Lives /\ j # l /\ l <= j
      BY <1>1, <2>1
    <3> QED BY <3>1, <1>1, <1>2
  <2> QED BY <2>1, <2>2, <2>3
<1>5. \A k \in 1..Lives : sess'[k].stage = "live" => k = l
  BY <1>1, <1>2
<1>6. store' = l /\ store' \in 0..Lives
  BY <1>1 DEF l
<1>7. Lineage'
  BY <1>1, <1>2, <1>4, <1>5, <1>6 DEF Lineage
<1> QED BY <1>2, <1>3, <1>6, <1>7 DEF l

(* Create: a Session without a reservation meets no entry.                 *)
LEMMA CreateKeeps ==
  ASSUME IInv, NEW seeded \in BOOLEAN, Create(seeded)
  PROVE  IInv'
<1> DEFINE l == NextLife
           seed == IF seeded THEN Prepared.events ELSE <<Ev("note", NextLife)>>
           s == [log |-> seed, stage |-> "live", init |-> "pending"]
           data == <<0, seed>>
           o == Op("created", l, data)
<1>1. /\ CanBeBorn /\ entry.phase = "none" /\ TypeOK /\ store = NoOne
      /\ \A q \in Callers : call[q].at # "append"
      /\ sess' = [sess EXCEPT ![NextLife] = s] /\ store' = NextLife
      /\ chain' = Append(chain, o) /\ UNCHANGED <<storage, state, entry, call>>
  BY DEF Create, IInv, CanBeBorn, Appending
<1>2. l \in 1..Lives /\ sess[l].stage = "unborn" /\ \A k \in 1..Lives : sess[k].stage # "live"
  BY <1>1, NextLifeIs
<1>3. seed \in Logs
  <2>1. <<Ev("note", NextLife)>> \in Logs
    <3>1. Ev("note", NextLife) \in LogEvents
      BY <1>2 DEF Ev, LogEvents
    <3> QED BY <3>1 DEF Logs
  <2>2. Prepared.events \in Logs
    BY <1>1, PreparedSource DEF Sources
  <2> QED BY <2>1, <2>2
<1>4. data \in {<<>>} \cup (Nat \X Logs) /\ data # <<>> /\ data[1] = 0 /\ data[2] = seed
  BY <1>3, DataIs
<1>5. o = Op("created", l, data) /\ s = [log |-> seed, stage |-> "live", init |-> "pending"]
  OBVIOUS
<1> HIDE DEF o, data, seed, s
<1>6. s \in Sessions /\ s.stage = "live" /\ s.init = "pending" /\ s.log = seed
  BY <1>3, <1>5 DEF Sessions
<1>7. /\ sess' \in [1..Lives -> Sessions] /\ sess'[l] = s
      /\ \A k \in 1..Lives : k # l => sess'[k] = sess[k]
      /\ Lineage' /\ store' \in 0..Lives
      /\ \A k \in 1..Lives : sess[k].stage # "unborn" => k # l /\ k < l /\ sess'[k] = sess[k]
  BY <1>1, <1>6, BornIs
<1>8. o \in Ops /\ o.op = "created" /\ o.who = l /\ o.stage = "queued" /\ o.data = data
  <2>1. "created" \in Kinds /\ l \in Callers \cup 0..Lives
    BY <1>2 DEF Kinds
  <2> QED BY <1>4, <1>5, <2>1 DEF Op, Ops
<1>20. store' = l
  BY <1>1
<1> HIDE DEF l
<1>9. state.owner < l /\ (state.owner # NoOne => sess'[state.owner].stage # "unborn")
  <2>1. CASE state.owner = NoOne
    BY <1>2, <2>1 DEF NoOne
  <2>2. CASE state.owner # NoOne
    <3>1. state.owner \in 1..Lives /\ sess[state.owner].stage # "unborn"
      BY <1>1, <2>2 DEF IInv, TypeOK, Ownership, States, NoOne, CoordinatorAssumption
    <3> QED BY <3>1, <1>7
  <2> QED BY <2>1, <2>2
<1>10. Ownership'
  <2>1. ASSUME NEW k \in 1..Lives, Owns(k)', sess'[k].log # <<>> \/ k = store'
        PROVE  Owns(k) /\ sess'[k] = sess[k] /\ sess[k].log # <<>>
    <3>1. k # l /\ k # store'
      BY <1>6, <1>7, <1>20, <2>1 DEF Owns
    <3> QED BY <2>1, <3>1, <1>7 DEF Owns
  <2> QED BY <1>1, <1>9, <2>1 DEF IInv, Ownership, storage
<1>11. Preparation'
  BY <1>1 DEF IInv, Preparation, Held, Committing, Revision, storage
<1>12. ASSUME NEW u \in Ops, Fits(u, Now)
       PROVE  Fits(u, Now') /\ Precedes(u, o, Now')
  <2>1. u.op \in {"created", "suffix", "batch", "release"} =>
          /\ u.who \in 1..Lives /\ sess[u.who].stage # "unborn"
    BY <1>12, NowIs DEF Fits
  <2>2. u.op \in {"created", "suffix", "batch", "release"} =>
          /\ u.who < l /\ u.who <= l /\ (Now').sess[u.who] = Now.sess[u.who]
    <3>1. u.op \in {"created", "suffix", "batch", "release"} => u.who < l /\ sess'[u.who] = sess[u.who]
      BY <2>1, <1>7
    <3> QED BY <3>1, <2>1, <1>2, NowIs
  <2>3. /\ (Now').state = Now.state /\ (Now').disk = Now.disk /\ (Now').tear = Now.tear
        /\ (Now').entry = Now.entry /\ (Now').call = Now.call /\ (Now').store = l
    BY <1>1, <1>20, NowIs DEF storage
  <2>4. Fits(u, Now')
    <3>1. CASE u.op = "created"
      BY <1>12, <2>2, <2>3, <3>1, FitsIs
    <3>2. CASE u.op \in {"suffix", "batch"}
      BY <1>12, <2>2, <2>3, <3>2, FitsIs
    <3>3. CASE u.op = "release"
      BY <1>12, <2>2, <2>3, <3>3, FitsIs
    <3>4. CASE u.op \notin {"created", "suffix", "batch", "release"}
      BY <1>12, <2>3, <3>4 DEF Fits
    <3> QED BY <3>1, <3>2, <3>3, <3>4
  <2>5. ~(u.op = "read" /\ u.current)
    BY <1>1, <1>12, NowIs DEF Fits
  <2>6. Precedes(u, o, Now')
    BY <2>2, <2>5, <1>8 DEF Precedes
  <2> QED BY <2>4, <2>6
<1>13. Fits(o, Now')
  <2>1. /\ (Now').sess[l].init = "pending" /\ (Now').sess[l].stage = "live"
        /\ Begins(data[2], (Now').sess[l].log)
    BY <1>3, <1>4, <1>6, <1>7, BeginsSelf, NowIs
  <2>2. /\ (Now').state.owner < l /\ l <= (Now').store /\ (Now').entry.phase = "none"
    <3>1. l <= l
      BY <1>2
    <3> QED BY <3>1, <1>1, <1>9, <1>20, NowIs
  <2> QED BY <1>2, <1>4, <1>8, <2>1, <2>2, FitsIs
<1>14. chain' \in Seq(Ops) /\ ChainInv'
  <2>1. /\ chain \in Seq(Ops) /\ Chained(chain, Now) /\ Looser(Now, Now')
        /\ \A i \in DOMAIN chain : chain[i] \in Ops
    BY <1>1, NowIs, LenProperties DEF IInv, TypeOK, ChainInv, Looser
  <2>2. \A i \in DOMAIN chain : Fits(chain[i], Now') /\ Precedes(chain[i], o, Now')
    BY <1>12, <2>1 DEF Chained
  <2>3. chain # <<>> => Runs(chain[1], Now')
    BY <1>1, <2>1, NowIs DEF Chained, Runs
  <2>4. Chained(chain, Now')
    BY <2>1, <2>2, <2>3, ChainKept
  <2>5. Append(chain, o) \in Seq(Ops) /\ Chained(Append(chain, o), Now')
    BY <1>8, <1>13, <2>1, <2>2, <2>4, ChainGrows
  <2> QED BY <1>1, <2>5 DEF ChainInv
<1>15. TypeOK'
  BY <1>1, <1>7, <1>14 DEF TypeOK, storage
<1> QED BY <1>7, <1>10, <1>11, <1>14, <1>15 DEF IInv

(* AttachPrepared: the holder's Session takes over the cursor of its       *)
(* reservation.                                                            *)
LEMMA AttachPreparedKeeps ==
  ASSUME IInv, NEW p \in Callers, NEW extra \in BOOLEAN, AttachPrepared(p, extra)
  PROVE  IInv'
<1> DEFINE l == NextLife
           suffix == IF extra THEN <<Ev("note", NextLife)>> ELSE <<>>
           log == call[p].src.events \o suffix
           s == [log |-> log, stage |-> "live", init |-> IF extra THEN "pending" ELSE "ok"]
           c == [call EXCEPT ![p] = Idle]
           data == <<state.cursor, suffix>>
           o == Op("suffix", l, data)
<1>1. /\ CanBeBorn /\ TypeOK /\ store = NoOne /\ Held(p) /\ call[p].attached
      /\ \A q \in Callers : call[q].at # "append"
      /\ sess' = [sess EXCEPT ![NextLife] = s] /\ store' = NextLife
      /\ state' = [state EXCEPT !.owner = NextLife]
      /\ chain' = IF extra THEN Append(chain, o) ELSE chain
      /\ entry' = NoEntry /\ call' = RemovedFor(c) /\ UNCHANGED storage
  BY DEF AttachPrepared, IInv, CanBeBorn, Appending, Held, Drop, Returned
<1>2. /\ l \in 1..Lives /\ sess[l].stage = "unborn"
  BY <1>1, NextLifeIs
<1>3. /\ entry = [phase |-> "reserved", src |-> call[p].src] /\ Faithful(call[p].src)
      /\ call[p].src.rev = Revision /\ state.known /\ state.owner = NoOne
      /\ \A q \in Callers : Held(q) => q = p
      /\ \A q \in Callers : ~Committing(q)
  BY <1>1 DEF IInv, Preparation, Sound
<1>4. /\ state.cursor = Len(disk) /\ ~tear.torn /\ ~OpenTurn(disk) /\ state \in States
      /\ disk \in Logs
  BY <1>1, <1>3 DEF IInv, Ownership, TypeOK
<1>5. call[p].src.events = disk
  <2>1. Stored = disk
    BY <1>1, <1>3, <1>4, SourceIs
  <2>2. ~NeedsRepair(call[p].src)
    BY <1>1, <1>3, <1>4, <2>1, SourceIs
  <2> QED BY <1>1, <1>3, <2>2, SourceIs
<1>6. suffix \in Logs /\ (extra => suffix # <<>>)
  <2>1. Ev("note", NextLife) \in LogEvents
    BY <1>2 DEF Ev, LogEvents
  <2>2. <<Ev("note", NextLife)>> \in Logs /\ <<Ev("note", NextLife)>> # <<>>
    BY <2>1 DEF Logs
  <2> QED BY <2>2, BareSource
<1> HIDE DEF suffix
<1>7. log = disk \o suffix /\ log \in Logs /\ Begins(disk, log)
  <2>1. log = disk \o suffix /\ log \in Logs
    BY <1>4, <1>5, <1>6, ConcatProperties DEF Logs
  <2> QED BY <2>1, <1>4, <1>6, BeginsSelf, BeginsGrows
<1>8. data \in {<<>>} \cup (Nat \X Logs) /\ data # <<>> /\ data[1] = state.cursor /\ data[2] = suffix
  <2>1. state.cursor \in Nat
    BY <1>4 DEF States
  <2> QED BY <1>6, <2>1, DataIs
<1>9. /\ o = Op("suffix", l, data)
      /\ s = [log |-> log, stage |-> "live", init |-> IF extra THEN "pending" ELSE "ok"]
      /\ Moved(c) /\ c[p] = Idle /\ \A q \in Callers : q # p => c[q] = call[q]
  BY IdleMoves
<1> HIDE DEF o, data, log, s, c
<1>10. s \in Sessions /\ s.stage = "live" /\ s.log = log /\ s.init = IF extra THEN "pending" ELSE "ok"
  BY <1>7, <1>9 DEF Sessions
<1>11. /\ sess' \in [1..Lives -> Sessions] /\ sess'[l] = s
       /\ \A k \in 1..Lives : k # l => sess'[k] = sess[k]
       /\ Lineage' /\ store' \in 0..Lives
       /\ \A k \in 1..Lives : sess[k].stage # "unborn" => k # l /\ k < l /\ sess'[k] = sess[k]
  BY <1>1, <1>10, BornIs
<1>12. store' = l /\ state' = [state EXCEPT !.owner = l]
  BY <1>1
<1> HIDE DEF l
<1>13. /\ state' \in States /\ state'.owner = l /\ state'.known /\ state'.cursor = Len(disk)
  BY <1>2, <1>3, <1>4, <1>12 DEF States
<1>14. \A k \in 1..Lives : ~(Owns(k) /\ sess[k].log # <<>>)
  BY <1>3 DEF IInv, Ownership, NoOne
<1>15. Ownership'
  <2>1. \A k \in 1..Lives : k # l => ~(Owns(k)' /\ (sess'[k].log # <<>> \/ k = store'))
    BY <1>11, <1>12, <1>14 DEF Owns
  <2>2. disk' = disk /\ tear' = tear /\ sess'[l].log = log /\ sess'[l].stage = "live" /\ l # NoOne
    BY <1>1, <1>2, <1>10, <1>11 DEF storage, NoOne
  <2> QED BY <2>1, <2>2, <1>4, <1>7, <1>13 DEF Ownership
<1>16. /\ c \in [Callers -> CallStates] /\ \A q \in Callers : c[q].at # "held" /\ c[q].at # "append"
  <2>1. Idle.at \notin {"held", "append"}
    BY IdleCaller DEF Bystander
  <2>2. \A q \in Callers : q # p => call[q].at # "held" /\ call[q].at # "append"
    BY <1>1, <1>3 DEF Held
  <2> QED BY <1>9, <2>1, <2>2 DEF Moved
<1>17. Preparation'
  BY <1>1, <1>9, <1>16, PrepRemoved
<1>18. /\ call' \in [Callers -> CallStates]
       /\ \A q \in Callers : ~call'[q].attached /\ (c[q].at # "asleep" => call'[q].at = c[q].at)
  BY <1>1, <1>16, RemovedIs
<1>19. Looser(Now, Now')
  BY <1>18, NowIs DEF Looser
<1>20. ASSUME NEW u \in Ops, Fits(u, Now)
       PROVE  /\ Fits(u, Now') /\ u.op \notin {"suffix", "batch", "created", "commit"}
              /\ ~(u.op = "read" /\ u.current)
  <2>1. /\ u.op \notin {"suffix", "batch", "created", "commit", "append"}
        /\ ~(u.op = "read" /\ u.current)
    <3>1. entry.phase = "reserved"
      BY <1>3
    <3>2. u.op \notin {"suffix", "batch"}
      BY <1>3, <1>20, NowIs DEF Fits, NoOne
    <3>3. u.op # "append"
      BY <1>1, <1>20, NowIs DEF Fits
    <3> QED BY <1>20, <3>1, <3>2, <3>3, NowIs DEF Fits
  <2>2. CASE u.op = "check"
    <3>1. u.who \in Callers /\ call[u.who].at = "check"
      BY <1>20, <2>2, NowIs DEF Fits
    <3>2. u.who # p
      BY <1>1, <3>1 DEF Held
    <3>3. (Now').call[u.who].at = "check"
      BY <3>1, <3>2, <1>9, <1>18, NowIs
    <3> QED BY <2>1, <2>2, <3>1, <3>3, FitsIs
  <2>3. CASE u.op = "release"
    <3>1. u.who \in 1..Lives /\ sess[u.who].init = "ok" /\ sess[u.who].stage = "retiring"
      BY <1>20, <2>3, NowIs DEF Fits
    <3>2. sess'[u.who] = sess[u.who] /\ sess[u.who].log = <<>>
      BY <3>1, <1>11, <1>14 DEF Owns
    <3>3. /\ (Now').sess[u.who].init = "ok" /\ (Now').sess[u.who].stage = "retiring"
          /\ (Now').sess[u.who].log = <<>>
      BY <3>1, <3>2, NowIs
    <3> QED BY <2>1, <2>3, <3>1, <3>3, FitsIs
  <2>4. CASE u.op \notin {"check", "release"}
    BY <2>1, <2>4 DEF Fits
  <2> QED BY <2>1, <2>2, <2>3, <2>4
<1>21. /\ chain \in Seq(Ops) /\ Chained(chain, Now) /\ \A i \in DOMAIN chain : chain[i] \in Ops
  BY LenProperties DEF IInv, TypeOK, ChainInv
<1>22. Chained(chain, Now')
  <2>1. chain # <<>> => Runs(chain[1], Now')
    <3> SUFFICES ASSUME chain # <<>> PROVE Runs(chain[1], Now')
      OBVIOUS
    <3>1. /\ chain[1].op \notin {"suffix", "batch", "created", "commit"}
          /\ Runs(chain[1], Now) /\ entry.phase = "reserved"
      BY <1>3, <1>20, FirstIs
    <3> QED BY <3>1, NowIs DEF Runs
  <2>2. \A i \in DOMAIN chain : Fits(chain[i], Now')
    BY <1>20, <1>21 DEF Chained
  <2> QED BY <2>1, <2>2, <1>19, <1>21, ChainKept
<1>23. chain' \in Seq(Ops) /\ ChainInv'
  <2>1. CASE ~extra
    BY <2>1, <1>1, <1>21, <1>22 DEF ChainInv
  <2>2. CASE extra
    <3>1. o \in Ops /\ o.op = "suffix" /\ o.who = l /\ o.stage = "queued" /\ o.data = data
      <4>1. "suffix" \in Kinds /\ l \in Callers \cup 0..Lives
        BY <1>2 DEF Kinds
      <4> QED BY <1>8, <1>9, <4>1 DEF Op, Ops
    <3>2. Fits(o, Now')
      <4>1. /\ (Now').sess[l].init = "pending" /\ (Now').sess[l].stage = "live"
            /\ (Now').sess[l].log = log /\ (Now').disk = disk
            /\ (Now').state.owner = l /\ (Now').state.cursor = Len(disk)
            /\ (Now').state.cursor = data[1] /\ ~(Now').tear.torn
        BY <2>2, <1>1, <1>4, <1>8, <1>10, <1>11, <1>13, NowIs DEF storage
      <4>2. Begins(disk \o data[2], log)
        BY <1>7, <1>8, BeginsSelf
      <4> QED BY <2>2, <1>2, <1>6, <1>8, <3>1, <4>1, <4>2, FitsIs
    <3>3. \A i \in DOMAIN chain : Precedes(chain[i], o, Now')
      <4> SUFFICES ASSUME NEW i \in DOMAIN chain PROVE Precedes(chain[i], o, Now')
        OBVIOUS
      <4>1. /\ chain[i].op \notin {"suffix", "batch", "created", "commit"}
            /\ ~(chain[i].op = "read" /\ chain[i].current)
        BY <1>20, <1>21 DEF Chained
      <4> QED BY <4>1, <3>1 DEF Precedes
    <3>4. Append(chain, o) \in Seq(Ops) /\ Chained(Append(chain, o), Now')
      BY <1>21, <1>22, <3>1, <3>2, <3>3, ChainGrows
    <3> QED BY <2>2, <1>1, <3>4 DEF ChainInv
  <2> QED BY <2>1, <2>2
<1>24. TypeOK'
  BY <1>1, <1>11, <1>13, <1>18, <1>23, NoEntryIs DEF TypeOK, storage
<1> QED BY <1>11, <1>15, <1>17, <1>23, <1>24 DEF IInv

-----------------------------------------------------------------------------
(* The invariant holds at first, and every step keeps it.                  *)
LEMMA InitEstablishes == Init => IInv
<1> SUFFICES ASSUME Init PROVE IInv
  OBVIOUS
<1>1. /\ disk = <<>> /\ tear = Clean /\ acked = <<>> /\ state = NoState /\ entry = NoEntry
      /\ chain = <<>> /\ call = [p \in Callers |-> Idle] /\ sess = [l \in 1..Lives |-> Unborn]
      /\ store = NoOne
  BY DEF Init
<1>2. /\ Unborn \in Sessions /\ Unborn.stage = "unborn" /\ Unborn.init = "none"
      /\ Clean \in Tears /\ Clean.holds = <<>> /\ <<>> \in Seq(Ops) /\ NoOne \in 0..Lives
      /\ Idle \in CallStates /\ Idle.at = "idle" /\ Sound(Idle)
  BY BareSource, IdleCaller, CoordinatorAssumption
     DEF Unborn, Sessions, Clean, Tears, NoOne, Idle
<1>3. TypeOK
  BY <1>1, <1>2, BareSource, NoStateIs, NoEntryIs DEF TypeOK
<1>4. Lineage
  <2>1. \A l \in 1..Lives : l..Lives \subseteq 1..Lives
    BY CoordinatorAssumption
  <2>2. \A l \in 1..Lives : sess[l] = Unborn
    BY <1>1
  <2> QED BY <1>1, <1>2, <2>1, <2>2 DEF Lineage
<1>5. Ownership
  <2>1. \A l \in 1..Lives : ~Owns(l)
    BY <1>1, <1>2 DEF Owns
  <2> QED BY <1>1, <2>1, NoStateIs DEF Ownership
<1>6. Preparation
  <2>1. \A p \in Callers : call[p] = Idle
    BY <1>1
  <2> QED BY <1>1, <1>2, <2>1, NoEntryIs DEF Preparation, Held, Committing
<1>7. ChainInv
  BY <1>1 DEF ChainInv, Chained
<1> QED BY <1>3, <1>4, <1>5, <1>6, <1>7 DEF IInv

(* A stutter keeps it.                                                     *)
LEMMA StutterKeeps ==
  ASSUME IInv, UNCHANGED vars
  PROVE  IInv'
<1>1. Now' = Now /\ chain' = chain
  BY DEF Now, vars, storage
<1>2. ChainInv'
  BY <1>1 DEF IInv, ChainInv
<1> QED BY <1>2 DEF IInv, TypeOK, Lineage, Ownership, Owns, Preparation, Held, Committing,
                    Revision, vars, storage

(* Every step keeps it.                                                    *)
LEMMA StepKeeps == IInv /\ [Next]_vars => IInv'
<1> SUFFICES ASSUME IInv, [Next]_vars PROVE IInv'
  OBVIOUS
<1>1. ASSUME NEW p \in Callers, \E op \in Calls : Begin(p, op) PROVE IInv'
  BY <1>1, BeginKeeps
<1>2. ASSUME NEW p \in Callers, CallerSteps(p) PROVE IInv'
  BY <1>2, AwaitRetirementKeeps, MeetLiveKeeps, LoadLiveKeeps, FlushRejectedKeeps, JoinKeeps,
     ReserveKeeps, InspectJoinedKeeps DEF CallerSteps
<1>3. ASSUME NEW p \in Callers, HolderSteps(p) PROVE IInv'
  BY <1>3, AttachPreparedKeeps, ReleaseReservationKeeps DEF HolderSteps
<1>4. ASSUME NEW p \in Callers, Abort(p) PROVE IInv'
  BY <1>4, AbortKeeps
<1>5. CASE ChainSteps
  BY <1>5, ReadDoneKeeps, CommitStartsKeeps, CommitOutdatedKeeps, CommitDoneKeeps,
     CommitStartsRepairKeeps, CommitRepairedKeeps, InspectCheckedKeeps, WriteStartsKeeps,
     AdoptRepairsKeeps, AdoptDoneKeeps, WriteDoneKeeps, ClaimTrackedKeeps,
     AdoptLivePrefixKeeps, CreateNewKeeps, ReleasedKeeps DEF ChainSteps
<1>6. CASE CommitRepairFails \/ WriteRefused
  BY <1>6, CommitRepairFailsKeeps, WriteRefusedKeeps
<1>7. ASSUME NEW l \in 1..Lives, LifeSteps(l) PROVE IInv'
  BY <1>7, QueueBatchKeeps, QueueReleaseKeeps, RetireFailsKeeps DEF LifeSteps
<1>8. CASE \E seeded \in BOOLEAN : Create(seeded)
  BY <1>8, CreateKeeps
<1>9. CASE Emit \/ Dispose \/ Evict
  BY <1>9, EmitKeeps, DisposeKeeps, EvictKeeps
<1>10. CASE Reload \/ Foreign \/ Crash
  BY <1>10, ReloadKeeps, ForeignKeeps, CrashKeeps
<1>11. CASE UNCHANGED vars
  BY <1>11, StutterKeeps
<1> QED BY <1>1, <1>2, <1>3, <1>4, <1>5, <1>6, <1>7, <1>8, <1>9, <1>10, <1>11 DEF Next

(* So it always holds.                                                     *)
LEMMA InvariantHolds == Spec => []IInv
<1>1. Init => IInv
  BY InitEstablishes
<1>2. IInv /\ [Next]_vars => IInv'
  BY StepKeeps
<1> QED BY <1>1, <1>2, PTL DEF Spec

(* Every log, source, operation and Session of the model has its type:     *)
(* the cursor and the owner are numbers the code can compare, and a state  *)
(* with no torn record holds none of its parts.                            *)
THEOREM TypesAreCorrect == Spec => []TypeOK
<1>1. IInv => TypeOK
  BY DEF IInv
<1> QED BY <1>1, InvariantHolds, PTL

(* Of all the Sessions published under an id, by however many resumes,     *)
(* creations, reloads and upsets, one that is initialized and stores       *)
(* anything owns the id, and its log extends what is stored, which ends    *)
(* where the cursor says (coordinator attachPrepared, onCreated).          *)
THEOREM OwnersAlwaysExact == Spec => []OwnerExact
<1>1. IInv => OwnerExact
  <2> SUFFICES ASSUME IInv, NEW l \in 1..Lives, Owns(l), sess[l].log # <<>>
               PROVE  /\ state.owner = l /\ state.cursor = Len(disk) /\ ~tear.torn
                      /\ IsPrefix(disk, sess[l].log)
    BY DEF OwnerExact
  <2>1. /\ state.owner = l /\ state.cursor = Len(disk) /\ ~tear.torn
        /\ Begins(disk, sess[l].log)
    BY DEF IInv, Ownership
  <2>2. disk \in Logs /\ sess[l].log \in Logs
    BY DEF IInv, TypeOK, Sessions
  <2> QED BY <2>1, <2>2, BeginsIsPrefix
<1> QED BY <1>1, InvariantHolds, PTL

(* However many callers prepare, load, inspect and append at once, and     *)
(* whatever is aborted, retired or upset meanwhile, at most one of them    *)
(* holds a reservation, and what it holds is the stored log as it is now:  *)
(* repaired, ownerless, with no live Session (preparations reserve).       *)
THEOREM ReservationsAlwaysExact == Spec => []ReservationExact
<1>1. IInv => ReservationExact
  <2> SUFFICES ASSUME IInv, NEW p \in Callers, Held(p)
               PROVE  /\ call[p].attached /\ entry = [phase |-> "reserved", src |-> call[p].src]
                      /\ \A q \in Callers \ {p} : call[q].at # "held"
                      /\ call[p].src.events = disk /\ ~tear.torn /\ ~OpenTurn(disk)
                      /\ state = [cursor |-> Len(disk), owner |-> NoOne, known |-> TRUE]
                      /\ store = NoOne /\ \A l \in 1..Lives : Owns(l) => sess[l].log = <<>>
    BY DEF ReservationExact, Held
  <2>1. /\ call[p].attached /\ entry = [phase |-> "reserved", src |-> call[p].src]
        /\ call[p].src.rev = Revision /\ Faithful(call[p].src)
        /\ state.known /\ state.owner = NoOne
        /\ \A q \in Callers \ {p} : call[q].at # "held"
    BY DEF IInv, Preparation, Sound, Held
  <2>2. /\ TypeOK /\ state.cursor = Len(disk) /\ ~tear.torn /\ ~OpenTurn(disk)
        /\ state \in States
    BY <2>1 DEF IInv, Ownership, TypeOK
  <2>3. Stored = disk
    BY <2>1, <2>2, SourceIs
  <2>4. ~NeedsRepair(call[p].src)
    BY <2>1, <2>2, <2>3, SourceIs
  <2>5. call[p].src.events = disk
    BY <2>1, <2>2, <2>4, SourceIs
  <2>6. state = [cursor |-> Len(disk), owner |-> NoOne, known |-> TRUE]
    BY <2>1, <2>2 DEF States
  <2>7. store = NoOne
    BY <2>1 DEF IInv, Preparation
  <2>8. \A l \in 1..Lives : Owns(l) => sess[l].log = <<>>
    BY <2>1 DEF IInv, Ownership, NoOne
  <2> QED BY <2>1, <2>2, <2>5, <2>6, <2>7, <2>8
<1> QED BY <1>1, InvariantHolds, PTL

=============================================================================
